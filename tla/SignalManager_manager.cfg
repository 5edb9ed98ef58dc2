CONSTANTS
  c1 = c1  c2 = c2  INT = INT  TERM = TERM
  WakeupSig = WakeupSig
  Nobody = Nobody
  Clients = {c1, c2}
  Sigs = {INT, TERM}
  SigLists = {{INT}, {INT, TERM}}
  MaxId = 2
  MaxRaise = 1
SPECIFICATION FairSpec
CHECK_DEADLOCK FALSE
INVARIANTS RegistrationsHold HandledSignalDoesNotKill
PROPERTIES PendingIsTaken QuietCallsReturn
