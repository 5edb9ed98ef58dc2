CONSTANTS
  t1 = t1  t2 = t2  t3 = t3
  Threads = {t1, t2, t3}
  Ops = {"Push", "Pop", "Peek"}
  Capacity0 = 1
  Capacities = {}
  BatchSizes = {}
  PopCounts = {}
  MaxPushCalls = 1
SPECIFICATION FairSpec
PROPERTIES SleepingConsumerIsServed
