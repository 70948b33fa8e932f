\* Two kinds of event, three events in all, a ring buffer of two records.
SPECIFICATION FairSpec
CONSTANTS
  e1 = e1  e2 = e2  None = None
  Event = {e1, e2}
  RingMax = 2
  MaxEvents = 3
CHECK_DEADLOCK FALSE
INVARIANTS TypeOK NeverPopsEmpty NoLostEventWakeup NoUseAfterFree InOrder
PROPERTIES ChannelSpec EventuallyHandled SignalStopsProducer
