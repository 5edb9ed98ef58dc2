CONSTANTS
  t1 = t1  t2 = t2  t3 = t3
  Threads = {t1, t2, t3}
  Ops = {"Push", "PushFor", "Pop", "PushBatch", "Close"}
  Capacity0 = 1
  Capacities = {}
  BatchSizes = {2}
  PopCounts = {}
  MaxPushCalls = 1
SPECIFICATION FairSpec
INVARIANTS NoLostConsumerWakeup NoLostProducerWakeup
PROPERTIES SleepersAreServed CloseReleasesEveryone
