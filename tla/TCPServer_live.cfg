CONSTANTS
  Sessions = {1}
  Timeouts = TRUE
  MaxSends = 1
SPECIFICATION FairSpec
CHECK_DEADLOCK FALSE
PROPERTIES PendingOperationsEnd ClosedIsReleased
