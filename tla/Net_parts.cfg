CONSTANTS
  Sizes = {0, 1, 2}
  Callers = {"c1", "c2"}
  MaxHandlers = 3
  Datagrams <- ThreeDatagrams
  Hosts <- MatchOrNot
  MaxStarts = 2
  MaxCallbacks = 1
  MaxSends = 2
  Attempts = {"a1", "a2"}
  Messages = {"m1", "m2"}
  NoMessage = "none"
  MaxFrames = 2
SPECIFICATION Spec
CHECK_DEADLOCK FALSE
INVARIANTS QuietPositionIsInside ServerReceives
PROPERTIES GivenIsRun AttemptIsAnswered PostedIsWritten
