\* More requests than ids: the ids wrap around.  Liveness, so without symmetry.
SPECIFICATION FairSpec
CONSTANTS
  r1 = r1
  r2 = r2
  e1 = e1
  NoReq = NoReq
  Req = {r1, r2, e1}
  EventReq = {e1}
  IdCount = 2
  MaxTracked = 3
  MaxBatch = 2
  MaxConn = 2
  Results = {"ok", "error"}
  Params = {"valid"}
  OwnKeys <- MCOwnKeys
  Styles <- MCStyles
INVARIANTS
  IInv
  LinesAreUnderstood
PROPERTIES
  ImplementsSession
  EventuallyResolved
CHECK_DEADLOCK FALSE
