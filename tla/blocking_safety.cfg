SPECIFICATION Spec
CONSTANTS
  c1 = c1
  a1 = a1
  e1 = e1
  NoReq = NoReq
  Req = {c1, a1, e1}
  EventReq = {e1}
  CallReq = {c1}
  CallbackReq = {}
  IdCount = 3
  MaxBatch = 2
  MaxNotes = 1
  WireCap = 1
  WriterCap = 1
  ServerCap = 3
  Results = {"ok", "malformed"}
  Faults = {"write", "garbage", "close"}
INVARIANTS
  TypeOK
  Correlated
  HandlerHeldOnce
  NoWaiterWithoutThreads
  AnswersFindTheirRequest
  IInv
PROPERTY ImplementsContract
CHECK_DEADLOCK FALSE
