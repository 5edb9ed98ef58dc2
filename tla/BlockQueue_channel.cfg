CONSTANTS
  t1 = t1  t2 = t2
  Threads = {t1, t2}
  Ops = {"Push", "PushFor", "Pop", "PopFor", "Peek", "PopBatch", "TryPush", "TryPop", "PushBatch", "Clear", "Close", "SetCapacity", "Flush", "NotifyAll"}
  Capacity0 = 2
  Capacities = {1, 2}
  BatchSizes = {0, 2}
  PopCounts = {0, 2}
  MaxPushCalls = 2
SPECIFICATION Spec
SYMMETRY ThreadSymmetry
INVARIANTS ClosedWakesSleepers
PROPERTIES BatchIsPrefix ImplementsChannel
