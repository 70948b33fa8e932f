\* A build with CONFIG_CREATE and CONFIG_DELETE; two threads create and delete files and directories.
SPECIFICATION Spec
CONSTANTS
  mon = mon  out = out  a = a  b = b  f = f  g = g  t1 = t1  t2 = t2
  None = None
  Thread = {t1, t2}
  Dir = {mon, out, a, b}
  File = {f}
  Root = {mon, out}
  Include = {mon}
  Feature = {"CREATE", "DELETE"}
  Syscall = {"create", "mkdir", "unlink", "rmdir"}
  InodeMapMax = 4
  LruMax = 2
  RingMax = 1
  CounterMod = 2
SYMMETRY Symmetry
INVARIANTS TypeOK CtxOwned LiveKeys MonitoredUnderInclude CounterCountsCalls
PROPERTIES EventsTruthful WatchedIsReported
