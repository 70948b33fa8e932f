\* A build with CONFIG_DELETE, CONFIG_MODIFY and CONFIG_RENAME; files are written, renamed and unlinked.
SPECIFICATION Spec
CONSTANTS
  mon = mon  out = out  a = a  b = b  f = f  g = g  t1 = t1  t2 = t2
  None = None
  Thread = {t1, t2}
  Dir = {mon, out}
  File = {f, g}
  Root = {mon, out}
  Include = {mon}
  Feature = {"DELETE", "MODIFY", "RENAME"}
  Syscall = {"unlink", "rename", "write", "writev"}
  InodeMapMax = 4
  LruMax = 2
  RingMax = 2
  CounterMod = 2
CHECK_DEADLOCK FALSE
SYMMETRY Symmetry
INVARIANTS CtxOwned
PROPERTIES EventsTruthful WatchedIsReported
