SPECIFICATION FairSpec
CONSTANTS
  k1 = k1
  c1 = c1
  a1 = a1
  NoReq = NoReq
  Req = {k1, c1, a1}
  EventReq = {}
  CallReq = {c1}
  CallbackReq = {k1}
  IdCount = 3
  MaxBatch = 1
  MaxNotes = 2
  WireCap = 1
  WriterCap = 0
  ServerCap = 1
  Results = {"ok"}
  Faults = {"close", "panic"}
INVARIANT NestedCallIsNeverAnswered
PROPERTIES
  PoisonCancelsOnNextRequest
  EventuallySettled
CHECK_DEADLOCK FALSE
