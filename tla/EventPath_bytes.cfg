\* One thread writes a file with writev.
SPECIFICATION Spec
CONSTANTS
  t1 = t1  t2 = t2  c1 = c1  c2 = c2  long = long  deep = deep  fit = fit
  None = None
  BadRegex = {}
  Thread = {t1}
  CPU = {c1}
  File = {long, deep, fit}
  PathOf <- Paths
  PER_LEVEL = 6
  MAX_DEPTH = 2
  Preemptible = FALSE
  RingMax = 2
  Junk <- LeftOver
  TokenLists <- Policies
  MaxSize = 1
  MaxCalls = 2
CHECK_DEADLOCK FALSE
INVARIANT BytesAreTrue
