\* Policies of two lines on two small trees; two directories are made or removed during the start.
SPECIFICATION FairSpec
CONSTANTS
  None = None
  BadRegex <- Unaccepted
  Name <- Names
  Depth <- Levels
  Dir <- DirKeys
  File <- FileKeys
  Tree <- Trees
  Line <- Lines
  RuleOf <- RuleFor
  PolicyFile <- Policies
  InodeMapMax = 4
  MaxChanges = 2
CHECK_DEADLOCK FALSE
INVARIANTS TypeOK CoveredIsMonitored PolicyIsUnderstood
PROPERTIES OnlyReachedIsTaken SetupEnds
