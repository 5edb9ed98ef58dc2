CONSTANTS
  c1 = c1  c2 = c2  INT = INT  TERM = TERM
  WakeupSig = WakeupSig
  Nobody = Nobody
  Clients = {c1}
  Sigs = {INT}
  SigLists = {{INT}}
  MaxId = 2
  MaxRaise = 2
SPECIFICATION Spec
CHECK_DEADLOCK FALSE
INVARIANTS WaitTakesOneSignal
