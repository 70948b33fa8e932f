\* Two threads on two CPUs of a preemptible kernel, two calls on three files.
SPECIFICATION Spec
CONSTANTS
  t1 = t1  t2 = t2  c1 = c1  c2 = c2  long = long  deep = deep  fit = fit
  None = None
  BadRegex = {}
  Thread = {t1, t2}
  CPU = {c1, c2}
  File = {long, deep, fit}
  PathOf <- Paths
  PER_LEVEL = 6
  MAX_DEPTH = 2
  Preemptible = TRUE
  RingMax = 2
  Junk <- LeftOver
  TokenLists <- Policies
  MaxSize = 2
  MaxCalls = 2
CHECK_DEADLOCK FALSE
SYMMETRY Symmetry
INVARIANTS TypeOK CtxIsOwn PayloadIsTrue
PROPERTIES FilterFollowsRules
