\* The main thread stops the daemon between the consumer's test and its wait.
SPECIFICATION FairSpec
CONSTANTS
  e1 = e1  e2 = e2  None = None
  Event = {e1}
  RingMax = 1
  MaxEvents = 1
CHECK_DEADLOCK FALSE
PROPERTIES StopWakesConsumer
