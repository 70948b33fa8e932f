\* A write path without a return hook leaves its context to the next unlink.
SPECIFICATION Spec
CONSTANTS
  mon = mon  out = out  a = a  b = b  f = f  g = g  t1 = t1  t2 = t2
  None = None
  Thread = {t1}
  Dir = {mon, out}
  File = {f, g}
  Root = {mon, out}
  Include = {mon}
  Feature = {"DELETE", "MODIFY"}
  Syscall = {"splice", "unlink"}
  InodeMapMax = 4
  LruMax = 2
  RingMax = 2
  CounterMod = 2
CHECK_DEADLOCK FALSE
INVARIANTS SavedAtEntry
