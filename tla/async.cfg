SPECIFICATION FairSpec
CONSTANTS
  k1 = k1
  a1 = a1
  e1 = e1
  NoReq = NoReq
  Req = {k1, a1, e1}
  EventReq = {e1}
  CallReq = {}
  CallbackReq = {k1}
  IdCount = 3
  MaxBatch = 2
  MaxNotes = 1
  WireCap = 1
  WriterCap = 1
  ServerCap = 1
  Results = {"ok", "malformed"}
  Faults = {"write", "garbage", "close", "panic"}
INVARIANTS
  TypeOK
  Correlated
  HandlerHeldOnce
  AnswersFindTheirRequest
  IInv
PROPERTIES
  ImplementsContract
  EventuallySettled
  CloseEndsWorker
CHECK_DEADLOCK FALSE
