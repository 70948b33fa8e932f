\* An IF rule names a directory an E rule excludes.
SPECIFICATION FairSpec
CONSTANTS
  None = None
  BadRegex <- Unaccepted
  Name <- Names
  Depth <- Levels
  Dir <- DirKeys
  File <- FileKeys
  Tree <- Trees
  Line <- Lines
  RuleOf <- RuleFor
  PolicyFile <- Policies
  InodeMapMax = 4
  MaxChanges = 0
CHECK_DEADLOCK FALSE
INVARIANTS ForcedIsMonitored
