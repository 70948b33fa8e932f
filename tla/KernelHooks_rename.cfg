\* A build with CONFIG_DELETE and CONFIG_RENAME; directories are renamed and removed, with room for one context in LruMap.
SPECIFICATION Spec
CONSTANTS
  mon = mon  out = out  a = a  b = b  f = f  g = g  t1 = t1  t2 = t2
  None = None
  Thread = {t1, t2}
  Dir = {mon, out, a, b}
  File = {}
  Root = {mon, out}
  Include = {mon}
  Feature = {"DELETE", "RENAME"}
  Syscall = {"rmdir", "rename"}
  InodeMapMax = 4
  LruMax = 1
  RingMax = 2
  CounterMod = 2
CHECK_DEADLOCK FALSE
SYMMETRY Symmetry
INVARIANTS CtxOwned
PROPERTIES EventsTruthful RenameTracksMonitoring RenameChangesAreReported
