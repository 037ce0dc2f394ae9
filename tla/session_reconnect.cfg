SPECIFICATION Spec
CONSTANTS
  r1 = r1
  r2 = r2
  e1 = e1
  NoReq = NoReq
  Req = {r1, r2, e1}
  EventReq = {e1}
  IdCount = 3
  MaxTracked = 3
  MaxBatch = 2
  MaxConn = 2
  Results = {"ok", "malformed"}
  Params = {"valid"}
  AllowClear = TRUE
SYMMETRY Symmetry
INVARIANTS
  Correlated
  AnswersFindTheirRequest
  NoOrphan
  PendingIsAsked
  IInv
PROPERTY ResolvedOnce
