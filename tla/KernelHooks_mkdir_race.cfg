\* A directory is made in a new directory before the return hook of the first mkdir.
SPECIFICATION Spec
CONSTANTS
  mon = mon  out = out  a = a  b = b  f = f  g = g  t1 = t1  t2 = t2
  None = None
  Thread = {t1, t2}
  Dir = {mon, out, a, b}
  File = {f}
  Root = {mon, out}
  Include = {mon}
  Feature = {"CREATE", "DELETE"}
  Syscall = {"mkdir"}
  InodeMapMax = 4
  LruMax = 2
  RingMax = 2
  CounterMod = 2
CHECK_DEADLOCK FALSE
SYMMETRY Symmetry
INVARIANTS IncludeIsRecursive
