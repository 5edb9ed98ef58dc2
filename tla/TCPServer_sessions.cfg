CONSTANTS
  Sessions = {1}
  Timeouts = TRUE
  MaxSends = 3
SPECIFICATION Spec
CHECK_DEADLOCK FALSE
INVARIANTS SentIsKept TableIsNotLastOwner
