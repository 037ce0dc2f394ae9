SPECIFICATION FairSpec
CONSTANTS
  c1 = c1
  NoReq = NoReq
  Req = {c1}
  EventReq = {}
  CallReq = {c1}
  CallbackReq = {}
  IdCount = 2
  MaxBatch = 1
  MaxNotes = 0
  WireCap = 1
  WriterCap = 1
  ServerCap = 3
  Results = {"ok"}
  Faults = {}
PROPERTY SentIsTransmitted
CHECK_DEADLOCK FALSE
