CONSTANTS
  NoTask = NoTask
  c1 = c1  c2 = c2  w1 = w1  w2 = w2  k1 = k1  k2 = k2  k3 = k3
  Clients = {c1, c2}
  ThreadCount = 0
  WorkerIds = {w1, w2}
  Tasks = {k1, k2, k3}
SPECIFICATION FairSpec
CHECK_DEADLOCK FALSE
INVARIANTS CountersAreExact NoLostWakeup RunExactlyOnce
PROPERTIES WaitAllWaits PoolFinishes
