SPECIFICATION FairSpec
CONSTANTS
  c1 = c1
  NoReq = NoReq
  Req = {c1}
  EventReq = {}
  CallReq = {c1}
  CallbackReq = {}
  IdCount = 2
  MaxBatch = 1
  MaxNotes = 0
  WireCap = 1
  WriterCap = 0
  ServerCap = 3
  Results = {"ok"}
  Faults = {"close"}
PROPERTY CallsReturnAfterShutdown
CHECK_DEADLOCK FALSE
