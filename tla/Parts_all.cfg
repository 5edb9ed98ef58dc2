CONSTANTS
  b1 = b1  b2 = b2
  CR = CR  LF = LF  Zero = Zero
  Buffers = {b1, b2}
  Bytes = {CR, LF}
  kPrependSize = 2
  InitialSize = 1
  Word = 64
  MaxLen = 1
  MaxReadable = 2
  MaxCancels = 2
  MaxWaits = 1
  Tasks = {"k1", "k2", "k3"}
  Runners = {"r1", "r2"}
  Delays = {0, 2}
  MaxTime = 3
SPECIFICATION PartsSpec
CHECK_DEADLOCK FALSE
INVARIANTS StorageIsSound EncodersRoundTrip JsonRoundTrip StringsAgree AtMostOneLateCall EarliestIsWatched
PROPERTIES ImplementsByteQueue TimerKeepsTime TasksRunInTime
