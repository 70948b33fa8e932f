\* A directory moves into the monitored area over an empty directory.
SPECIFICATION Spec
CONSTANTS
  mon = mon  out = out  a = a  b = b  f = f  g = g  t1 = t1  t2 = t2
  None = None
  Thread = {t1}
  Dir = {mon, out, a, b}
  File = {f}
  Root = {mon, out}
  Include = {mon}
  Feature = {"DELETE", "RENAME"}
  Syscall = {"rename"}
  InodeMapMax = 4
  LruMax = 2
  RingMax = 2
  CounterMod = 2
CHECK_DEADLOCK FALSE
PROPERTIES EnteringIsAdded
