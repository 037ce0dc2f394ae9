------------------------ MODULE BlockingClientProofs ------------------------
(***************************************************************************)
(* Theorems about BlockingClient, for any requests and any bounds.         *)
(***************************************************************************)
EXTENDS BlockingClient, ConnectionProofs

-----------------------------------------------------------------------------
(***************************************************************************)
(* Type correctness.                                                       *)
(***************************************************************************)

\* What the type invariant says of the batch or line of the write thread.
LEMMA WorkType ==
  ASSUME TypeOK
  PROVE  /\ Untracked \in Seq(Req) /\ Unwritten \in Seq(RawRequest)
         /\ writer \in {"recv", "done"} => work = <<>>
<1>1. <<>> \in Seq(Req) /\ <<>> \in Seq(RawRequest)
  OBVIOUS
<1>2. QED
  BY <1>1 DEF TypeOK, Untracked, Unwritten

\* The read thread keeps every variable within its type.
LEMMA ReadType == ASSUME TypeOK, Read PROVE TypeOK'
<1> USE DEF TypeOK, ConnectionTypeOK
<1>1. CASE ReadNext
  <2>1. CASE ReadMessage /\ hand' = Head(s2c) /\ reader' = "lock"
    <3>1. /\ hand' \in Message /\ s2c' \in Seq(Message) /\ Len(s2c') = Len(s2c) - 1
          /\ Len(s2c) \in Nat
      BY <2>1, RangeTaken DEF ReadMessage, WireTypeOK
    <3>2. WireTypeOK'
      BY <1>1, <3>1, ConnectionAssumption DEF ReadNext, WireTypeOK, serverVars
    <3>3. QED
      BY <1>1, <2>1, <3>1, <3>2
         DEF ReadNext, trackerVars, TrackerTypeOK, ChannelsTypeOK, callerVars, eventVars
  <2>2. CASE EndOfStream /\ reader' = "exit" /\ UNCHANGED <<s2c, hand>>
    BY <1>1, <2>2 DEF ReadNext, trackerVars, TrackerTypeOK, ChannelsTypeOK, WireTypeOK,
                      callerVars, eventVars, serverVars
  <2>3. QED
    BY <1>1, <2>1, <2>2 DEF ReadNext
<1>2. CASE ReadHandle
  <2>1. hand \in Message
    BY <1>2 DEF ReadHandle
  <2>2. TrackerTypeOK'
    BY <1>2, <2>1, HandleIncomingType DEF ReadHandle, Message, trackerVars, TrackerTypeOK
  <2>3. reader' \in {"exit", "callback", "emit", "read"} /\ (reader' = "emit" => hand \in RawIncoming)
    BY <1>2, <2>1 DEF ReadHandle, Message
  <2>4. hand' \in CASE reader' = "lock" -> Message
                    [] reader' = "emit" -> RawIncoming
                    [] OTHER -> {NoMessage}
    BY <1>2, <2>3 DEF ReadHandle
  <2>5. QED
    BY <1>2, <2>2, <2>3, <2>4
       DEF ReadHandle, ChannelsTypeOK, WireTypeOK, callerVars, eventVars, wireVars, serverVars
<1>3. CASE CallbackReturns
  BY <1>3 DEF CallbackReturns, connVars, trackerVars, TrackerTypeOK, ChannelsTypeOK,
              WireTypeOK, callerVars, eventVars, wireVars, serverVars
<1>4. CASE ReadEmit
  <2>1. hand \in RawIncoming /\ hand' = NoMessage
    BY <1>4 DEF ReadEmit
  <2>2. events' \in Seq(RawIncoming) /\ listening' = listening
    <3>1. CASE EmitEvent(hand)
      BY <2>1, <3>1, RangeAppended DEF EmitEvent, ChannelsTypeOK
    <3>2. CASE UNCHANGED eventVars
      BY <3>2 DEF eventVars, ChannelsTypeOK
    <3>3. QED
      BY <1>4, <3>1, <3>2 DEF ReadEmit
  <2>3. QED
    BY <1>4, <2>1, <2>2 DEF ReadEmit, trackerVars, TrackerTypeOK, ChannelsTypeOK, WireTypeOK,
                            callerVars, wireVars, serverVars
<1>5. CASE ReadExit
  <2>1. TrackerTypeOK'
    BY <1>5, DropHandlersType DEF ReadExit, Released
  <2>2. QED
    BY <1>5, <2>1 DEF ReadExit, ChannelsTypeOK, WireTypeOK, callerVars, eventVars, wireVars,
                      serverVars
<1>6. QED
  BY <1>1, <1>2, <1>3, <1>4, <1>5 DEF Read

\* So does the write thread.
LEMMA WriteType == ASSUME TypeOK, Write PROVE TypeOK'
<1> USE DEF TypeOK, ConnectionTypeOK
<1>1. CASE WriteRecv
  <2>1. CASE /\ chan # <<>>
             /\ work' = Head(chan) /\ chan' = Tail(chan)
             /\ writer' = "lock"
    <3>1. work' \in Seq(Req) /\ chan' \in Seq(Seq(Req))
      BY <2>1, RequestsTaken DEF ChannelsTypeOK
    <3>2. QED
      BY <1>1, <2>1, <3>1 DEF WriteRecv, trackerVars, TrackerTypeOK, ChannelsTypeOK, WireTypeOK,
                              eventVars, wireVars, serverVars
  <2>2. CASE writer' = "exit" /\ UNCHANGED <<work, chan>>
    <3>1. work' = <<>>
      BY <1>1, <2>2, WorkType DEF WriteRecv
    <3>2. QED
      BY <1>1, <2>2, <3>1 DEF WriteRecv, trackerVars, TrackerTypeOK, ChannelsTypeOK, WireTypeOK,
                              eventVars, wireVars, serverVars
  <2>3. QED
    BY <1>1, <2>1, <2>2 DEF WriteRecv
<1>2. CASE WriteTrack
  <2>1. work \in Seq(Req)
    BY <1>2 DEF WriteTrack
  <2>2. CASE TrackRequest(work) /\ work' = RawRequests(work) /\ writer' = "write"
    <3>1. TrackerTypeOK' /\ work' \in Seq(RawRequest)
      BY <2>1, <2>2, TrackRequestType, RawRequestsType
    <3>2. QED
      BY <1>2, <2>2, <3>1 DEF WriteTrack, ChannelsTypeOK, WireTypeOK, callerVars, eventVars,
                              wireVars, serverVars
  <2>3. CASE writer' = "exit" /\ UNCHANGED <<trackerVars, work>>
    BY <1>2, <2>1, <2>3 DEF WriteTrack, trackerVars, TrackerTypeOK, ChannelsTypeOK, WireTypeOK,
                            callerVars, eventVars, wireVars, serverVars
  <2>4. QED
    BY <1>2, <2>2, <2>3 DEF WriteTrack
<1>3. CASE WriteSend
  <2>1. work \in Seq(RawRequest) /\ work' = <<>>
    BY <1>3 DEF WriteSend
  <2>2. WireTypeOK'
    BY <1>3, <2>1, WriteLineType DEF WriteSend, WriteFails, WireTypeOK, serverVars
  <2>3. QED
    BY <1>3, <2>1, <2>2 DEF WriteSend, trackerVars, TrackerTypeOK, ChannelsTypeOK,
                            callerVars, eventVars
<1>4. CASE WriteExit
  <2>1. TrackerTypeOK'
    BY <1>4, DropHandlersType DEF WriteExit, Released
  <2>2. QED
    BY <1>4, <2>1 DEF WriteExit, ChannelsTypeOK, WireTypeOK, eventVars, wireVars, serverVars
<1>5. CASE WriterDrops
  <2>1. WireTypeOK'
    BY <1>5, DropHeldType DEF WriterDrops
  <2>2. QED
    BY <1>5, <2>1 DEF WriterDrops, trackerVars, TrackerTypeOK, ChannelsTypeOK,
                      callerVars, eventVars, threadVars
<1>6. QED
  BY <1>1, <1>2, <1>3, <1>4, <1>5 DEF Write

\* Every step does.
LEMMA TypeStep == TypeOK /\ [Next]_vars => TypeOK'
<1> SUFFICES ASSUME TypeOK, [Next]_vars PROVE TypeOK'
  OBVIOUS
<1> USE DEF TypeOK, ConnectionTypeOK
<1>1. ASSUME NEW batch \in Submissions, CallerSends(batch) PROVE TypeOK'
  BY <1>1, SubmissionIsBatch, SendBatchType
     DEF CallerSends, WireTypeOK, wireVars, serverVars, threadVars
<1>2. ASSUME NEW r \in Req, CallerAbandons(r) PROVE TypeOK'
  BY <1>2, AbandonReplyType
     DEF CallerAbandons, ChannelsTypeOK, WireTypeOK, callerVars, eventVars, wireVars,
         serverVars, threadVars
<1>3. CASE DropClient
  BY <1>3 DEF DropClient, CloseChannel, trackerVars, TrackerTypeOK, ChannelsTypeOK, WireTypeOK,
              eventVars, wireVars, serverVars, threadVars
<1>4. CASE DropEvents
  BY <1>4 DEF DropEvents, DropEventReceiver, trackerVars, TrackerTypeOK, ChannelsTypeOK,
              WireTypeOK, callerVars, wireVars, serverVars, threadVars
<1>5. CASE CallbackPanics
  BY <1>5 DEF CallbackPanics, connVars, trackerVars, TrackerTypeOK, ChannelsTypeOK,
              WireTypeOK, callerVars, eventVars, wireVars, serverVars
<1>6. ASSUME NEW r \in CallReq, CallbackCalls(r) PROVE TypeOK'
  <2>1. r \in Req /\ <<r>> \in Seq(Req)
    BY ConnectionAssumption
  <2>2. TrackerTypeOK' /\ ChannelsTypeOK'
    BY <1>6, <2>1, SendBatchType DEF CallbackCalls
  <2>3. QED
    BY <1>6, <2>1, <2>2 DEF CallbackCalls, WireTypeOK, wireVars, serverVars
<1>7. CASE Server
  BY <1>7, ServerType DEF Server, trackerVars, TrackerTypeOK, ChannelsTypeOK,
                          callerVars, eventVars, threadVars
<1>8. CASE UNCHANGED vars
  BY <1>8 DEF vars, connVars, trackerVars, TrackerTypeOK, ChannelsTypeOK, WireTypeOK,
              callerVars, eventVars, wireVars, serverVars, threadVars
<1>9. QED
  BY <1>1, <1>2, <1>3, <1>4, <1>5, <1>6, <1>7, <1>8, ReadType, WriteType DEF Next

\* The two threads, their connection and their tracker are well typed in
\* every reachable state, also when ids wrap around: in particular each thread
\* has in its hand what its place in its loop says.
THEOREM TypeCorrect == Spec => []TypeOK
<1>1. Init => TypeOK
  BY ConnectionInitType DEF Init, TypeOK
<1>2. QED
  BY <1>1, TypeStep, PTL DEF Spec

-----------------------------------------------------------------------------
(***************************************************************************)
(* Where the handlers are, also when ids wrap around.                      *)
(***************************************************************************)

\* Every step moves the handlers of requests from one place to the next.
LEMMA HandlersStep ==
  ASSUME OwnershipInv, TypeOK', [Next]_vars
  PROVE  WaitsOnce' /\ HandlersOwned(Waiting)'
<1> DEFINE C == Requests(chan)
           U == Untracked
           W == Waiting
<1>1. TypeOK /\ ConnectionTypeOK /\ U \in Seq(Req) /\ ChannelHoldsOnce
      /\ IsInjective(U) /\ Range(U) \cap C = {} /\ HandlersOwned(W)
      /\ W = C \cup Range(U)
  BY WorkType DEF OwnershipInv, WaitsOnce, TypeOK, Waiting
<1>2. ASSUME UNCHANGED <<pending, reply, sent, chan>>, Untracked' = Untracked
      PROVE  WaitsOnce' /\ HandlersOwned(Waiting)'
  <2>1. W' = W
    BY <1>2 DEF Waiting
  <2>2. WaitsOnce'
    BY <1>1, <1>2 DEF WaitsOnce, ChannelHoldsOnce
  <2>3. QED
    BY <1>1, <1>2, <2>1, <2>2, OwnedStays
<1>3. ASSUME NEW b \in Seq(Req), IsInjective(b), Range(b) \subseteq Req \ Sent, SendBatch(b),
             UNCHANGED <<writer, work>>
      PROVE  WaitsOnce' /\ HandlersOwned(Waiting)'
  <2>1. Range(b) \cap W = {} /\ Range(b) \cap Sent = {}
    BY <1>1, <1>3 DEF HandlersOwned
  <2>2. ChannelHoldsOnce' /\ C' = (IF chanState = "open" THEN C \cup Range(b) ELSE C)
        /\ U' = U
    BY <1>1, <1>3, <2>1, ChannelSent DEF Untracked
  <2>3. WaitsOnce'
    BY <1>1, <2>1, <2>2 DEF WaitsOnce
  <2>4. W' = IF chanState = "open" THEN W \cup Range(b) ELSE W
    BY <1>1, <2>2 DEF Waiting
  <2>5. HandlersOwned(W)'
    BY <1>1, <1>3, <2>1, <2>4, OwnedSend
  <2>6. QED
    BY <2>3, <2>5
<1>4. ASSUME NEW b \in Submissions, CallerSends(b) PROVE WaitsOnce' /\ HandlersOwned(Waiting)'
  BY <1>3, <1>4, SubmissionIsBatch DEF CallerSends, threadVars
<1>5. ASSUME NEW r \in CallReq, CallbackCalls(r) PROVE WaitsOnce' /\ HandlersOwned(Waiting)'
  <2>1. r \in Req \ Sent
    BY <1>5, ConnectionAssumption DEF CallbackCalls
  <2>2. QED
    BY <1>3, <1>5, <2>1, CallIsBatch DEF CallbackCalls
<1>6. ASSUME NEW r \in Req, CallerAbandons(r) PROVE WaitsOnce' /\ HandlersOwned(Waiting)'
  <2>1. AbandonReply(r) /\ UNCHANGED <<sent, chan, writer, work>>
    BY <1>6 DEF CallerAbandons, callerVars, threadVars
  <2>2. U' = U /\ W' = W
    BY <2>1 DEF Untracked, Waiting
  <2>3. HandlersOwned(W)'
    BY <1>1, <2>1, <2>2, OwnedAbandon
  <2>4. QED
    BY <1>1, <2>1, <2>2, <2>3 DEF WaitsOnce, ChannelHoldsOnce
<1>7. CASE ReadHandle
  <2>1. hand \in Message /\ UNCHANGED <<sent, chan>> /\ U' = U
    BY <1>1, <1>7 DEF ReadHandle, TypeOK, callerVars, Untracked
  <2>2. CASE UNCHANGED trackerVars
    BY <1>2, <2>1, <2>2 DEF trackerVars
  <2>3. CASE hand \in RawIncoming /\ HandleIncoming(hand)
    <3>1. W' = W
      BY <2>1 DEF Waiting
    <3>2. PICK msg : msg = hand
      OBVIOUS
    <3>3. HandleIncoming(msg) /\ msg \in RawIncoming
      BY <2>3, <3>2
    <3>4. HandlersOwned(W)'
      BY <1>1, <2>1, <3>1, <3>3, OwnedHandle
    <3>5. QED
      BY <1>1, <2>1, <3>4 DEF WaitsOnce, ChannelHoldsOnce
  <2>4. QED
    BY <1>7, <2>1, <2>2, <2>3 DEF ReadHandle, Message
<1>8. CASE ReadExit
  <2>1. /\ \/ reply' = Dropped({}) /\ UNCHANGED pending
           \/ reply' = Dropped(Held \cup {}) /\ pending' = [i \in Ids |-> NoReq]
        /\ UNCHANGED <<sent, chan, writer, work>>
    BY <1>8 DEF ReadExit, Released, callerVars
  <2>2. U' = U /\ W' = W \ {}
    BY <2>1 DEF Untracked, Waiting
  <2>3. HandlersOwned(W)'
    BY <1>1, <2>1, <2>2, OwnedDrop
  <2>4. QED
    BY <1>1, <2>1, <2>2, <2>3 DEF WaitsOnce, ChannelHoldsOnce
<1>9. CASE WriteRecv
  <2>1. CASE chan # <<>> /\ work' = Head(chan) /\ chan' = Tail(chan) /\ writer' = "lock"
    <3>1. U = <<>> /\ Range(U) = {}
      BY <1>1, <1>9, WorkType DEF WriteRecv, Untracked, Range
    <3>2. U' = Head(chan)
      BY <2>1 DEF Untracked
    <3>3. WaitsOnce'
      BY <1>1, <2>1, <3>2, ChannelTaken DEF WaitsOnce
    <3>4. W' = W
      BY <1>1, <2>1, <3>1, <3>2, ChannelTaken DEF Waiting
    <3>5. HandlersOwned(W)'
      BY <1>1, <1>9, <3>4, OwnedStays DEF WriteRecv, trackerVars
    <3>6. QED
      BY <3>3, <3>5
  <2>2. CASE writer' = "exit" /\ UNCHANGED <<work, chan>>
    <3>1. U' = U
      BY <1>9, <2>2 DEF WriteRecv, Untracked
    <3>2. QED
      BY <1>2, <1>9, <2>2, <3>1 DEF WriteRecv, trackerVars
  <2>3. QED
    BY <1>9, <2>1, <2>2 DEF WriteRecv
<1>10. CASE WriteTrack
  <2>1. U = work /\ UNCHANGED <<sent, chan>>
    BY <1>10 DEF WriteTrack, Untracked, callerVars
  <2>2. CASE TrackRequest(work) /\ writer' = "write"
    <3>1. PICK b : b = work
      OBVIOUS
    <3>2. TrackRequest(b) /\ b \in Seq(Req) /\ IsInjective(b) /\ Range(b) \subseteq W
      BY <1>1, <2>1, <2>2, <3>1
    <3>3. U' = <<>> /\ Range(U') = {} /\ IsInjective(U')
      BY <2>2 DEF Untracked, Range, IsInjective
    <3>4. W' = W \ Range(b)
      BY <1>1, <2>1, <3>1, <3>3 DEF Waiting
    <3>5. HandlersOwned(W)'
      BY <1>1, <2>1, <3>2, <3>4, OwnedTrack
    <3>6. QED
      BY <1>1, <2>1, <3>3, <3>5 DEF WaitsOnce, ChannelHoldsOnce
  <2>3. CASE writer' = "exit" /\ UNCHANGED <<trackerVars, work>>
    <3>1. U' = U
      BY <2>1, <2>3 DEF Untracked
    <3>2. QED
      BY <1>2, <2>1, <2>3, <3>1 DEF trackerVars
  <2>4. QED
    BY <1>10, <2>2, <2>3 DEF WriteTrack
<1>11. CASE WriteSend
  <2>1. U' = U
    BY <1>11 DEF WriteSend, Untracked
  <2>2. QED
    BY <1>2, <1>11, <2>1 DEF WriteSend, trackerVars, callerVars
<1>12. CASE WriteExit
  <2>1. C \cup Range(work) = W /\ W \ W = {}
    BY <1>1, <1>12 DEF WriteExit, Untracked
  <2>2. \/ reply' = Dropped(W) /\ UNCHANGED pending
        \/ reply' = Dropped(Held \cup W) /\ pending' = [i \in Ids |-> NoReq]
    BY <1>12, <2>1 DEF WriteExit, Released
  <2>3. U' = <<>> /\ Range(U') = {} /\ IsInjective(U') /\ chan' = <<>> /\ C' = {} /\ sent' = sent
    BY <1>12, RequestsOfNone DEF WriteExit, Untracked, Range, IsInjective
  <2>4. W' = W \ W
    BY <2>1, <2>3 DEF Waiting
  <2>5. HandlersOwned(W)'
    BY <1>1, <2>2, <2>3, <2>4, OwnedDrop
  <2>6. QED
    BY <2>3, <2>5 DEF WaitsOnce, ChannelHoldsOnce
<1>13. CASE \/ DropClient \/ DropEvents \/ ReadNext \/ CallbackReturns \/ CallbackPanics
            \/ ReadEmit \/ WriterDrops \/ Server \/ UNCHANGED vars
  <2>1. UNCHANGED <<pending, reply, sent, chan, writer, work>>
    BY <1>13 DEF DropClient, CloseChannel, DropEvents, ReadNext, CallbackReturns, CallbackPanics,
                 ReadEmit, WriterDrops, Server, vars, connVars, trackerVars, callerVars, threadVars
  <2>2. QED
    BY <1>2, <2>1 DEF Untracked
<1>14. QED
  BY <1>4, <1>5, <1>6, <1>7, <1>8, <1>9, <1>10, <1>11, <1>12, <1>13 DEF Next, Read, Write

\* Unless the write thread tracks a batch, a step gives the tracker no handler.
LEMMA OnlyTrackingHolds ==
  ASSUME OwnershipInv, [Next]_vars, ~WriteTrack
  PROVE  Held' \subseteq Held
<1>1. TrackerTypeOK /\ OneIdEach
  BY DEF OwnershipInv, TypeOK, ConnectionTypeOK, HandlersOwned
<1>2. CASE ReadHandle
  <2>1. PICK msg : msg = hand
    OBVIOUS
  <2>2. msg \in Message
    BY <1>2, <2>1 DEF ReadHandle, OwnershipInv, TypeOK
  <2>3. CASE UNCHANGED trackerVars
    BY <2>3 DEF trackerVars, Held
  <2>4. CASE msg \in RawIncoming /\ HandleIncoming(msg)
    <3>1. UNCHANGED trackerVars \/ \E r \in Held : Held' = Held \ {r}
      BY <1>1, <2>4, HandleIncomingOwnership
    <3>2. QED
      BY <2>3, <3>1
  <2>5. QED
    BY <1>2, <2>1, <2>2, <2>3, <2>4 DEF ReadHandle, Message
<1>3. CASE ReadExit \/ WriteExit
  <2>1. UNCHANGED pending \/ pending' = [i \in Ids |-> NoReq]
    BY <1>3 DEF ReadExit, WriteExit, Released
  <2>2. QED
    BY <2>1 DEF Held, Range
<1>4. ASSUME UNCHANGED pending PROVE Held' \subseteq Held
  BY <1>4 DEF Held
<1>5. CASE \/ \E b \in Submissions : CallerSends(b)
           \/ \E r \in Req : CallerAbandons(r)
           \/ \E r \in CallReq : CallbackCalls(r)
  BY <1>4, <1>5 DEF CallerSends, CallerAbandons, CallbackCalls, SendBatch, AbandonReply
<1>6. CASE \/ DropClient \/ DropEvents \/ ReadNext \/ CallbackReturns \/ CallbackPanics
           \/ ReadEmit \/ WriteRecv \/ WriteSend \/ WriterDrops \/ Server \/ UNCHANGED vars
  BY <1>4, <1>6 DEF DropClient, DropEvents, ReadNext, CallbackReturns, CallbackPanics,
                    ReadEmit, WriteRecv, WriteSend, WriterDrops, Server, vars, connVars, trackerVars
<1>7. QED
  BY <1>2, <1>3, <1>5, <1>6 DEF Next, Read, Write

\* Every step leaves a stopped thread with nothing.
LEMMA StoppedStep ==
  ASSUME OwnershipInv, TypeOK', [Next]_vars
  PROVE  StoppedThreadsHoldNothing'
<1>1. /\ writer = "done" => chan = <<>> /\ chanState # "open"
      /\ writer = "done" /\ reader = "done" => Held = {}
  BY DEF OwnershipInv, StoppedThreadsHoldNothing
<1>2. CASE writer' = "done" /\ writer # "done"
  <2>1. WriteExit
    BY <1>2 DEF Next, Read, Write, CallerSends, CallerAbandons, DropClient, DropEvents, ReadNext,
                ReadHandle, CallbackReturns, ReadEmit, ReadExit, CallbackPanics, CallbackCalls,
                WriteRecv, WriteTrack, WriteSend, WriterDrops, Server, vars, threadVars
  <2>2. chan' = <<>> /\ chanState' # "open"
    BY <2>1 DEF WriteExit
  <2>3. reader' = "done" => Held' = {}
    BY <2>1 DEF WriteExit, Released, Held, Range
  <2>4. QED
    BY <2>2, <2>3 DEF StoppedThreadsHoldNothing
<1>3. CASE writer' = "done" /\ writer = "done"
  <2>1. chan' = <<>> /\ chanState' # "open"
    BY <1>1, <1>3
       DEF Next, Read, Write, CallerSends, CallerAbandons, DropClient, CloseChannel, DropEvents,
           ReadNext, ReadHandle, CallbackReturns, ReadEmit, ReadExit, CallbackPanics,
           CallbackCalls, SendBatch, WriteRecv, WriteTrack, WriteSend, WriteExit, WriterDrops,
           Server, vars, connVars, callerVars
  <2>2. CASE reader = "done"
    <3>1. ~WriteTrack
      BY <1>3 DEF WriteTrack
    <3>2. Held' = {}
      BY <1>1, <1>3, <2>2, <3>1, OnlyTrackingHolds
    <3>3. QED
      BY <2>1, <3>2 DEF StoppedThreadsHoldNothing
  <2>3. CASE reader # "done" /\ reader' = "done"
    <3>1. ReadExit
      BY <2>3 DEF Next, Read, Write, CallerSends, CallerAbandons, DropClient, DropEvents, ReadNext,
                  ReadHandle, CallbackReturns, ReadEmit, CallbackPanics, CallbackCalls,
                  WriteRecv, WriteTrack, WriteSend, WriteExit, WriterDrops, Server, vars, threadVars
    <3>2. Held' = {}
      BY <1>3, <3>1 DEF ReadExit, Released, Held, Range
    <3>3. QED
      BY <2>1, <3>2 DEF StoppedThreadsHoldNothing
  <2>4. QED
    BY <2>1, <2>2, <2>3 DEF StoppedThreadsHoldNothing
<1>4. QED
  BY <1>2, <1>3 DEF StoppedThreadsHoldNothing

\* Every step leaves a callback that waits for a call of its own with the
\* mutex, so that the call is not even tracked.
LEMMA NestedCallStep ==
  ASSUME OwnershipInv, TypeOK', [Next]_vars
  PROVE  /\ (calling # NoReq => reader = "callback" /\ calling \in CallReq)'
         /\ NestedCallIsNeverAnswered'
<1>1. /\ calling # NoReq => reader = "callback" /\ calling \in CallReq
      /\ calling # NoReq => reply[calling] \in {"open", "canceled"} /\ calling \notin Held
      /\ Held \subseteq Sent
      /\ \A r \in Req \ Sent : reply[r] = "open"
      /\ CallReq \subseteq Req /\ TrackerTypeOK
  BY ConnectionAssumption
     DEF OwnershipInv, NestedCallIsNeverAnswered, HandlersOwned, TypeOK, ConnectionTypeOK
<1>2. CASE calling' = NoReq
  BY <1>2 DEF NestedCallIsNeverAnswered
<1>3. ASSUME NEW r \in CallReq, CallbackCalls(r)
      PROVE  /\ (calling # NoReq => reader = "callback" /\ calling \in CallReq)'
             /\ NestedCallIsNeverAnswered'
  <2>1. r \in Req \ Sent /\ reply[r] = "open" /\ calling' = r /\ reader' = "callback"
    BY <1>1, <1>3 DEF CallbackCalls
  <2>2. Held' = Held
    BY <1>3 DEF CallbackCalls, SendBatch, Held
  <2>3. reply'[r] \in {"open", "canceled"}
    <3>1. CASE UNCHANGED reply
      BY <2>1, <3>1
    <3>2. CASE reply' = Dropped(Range(<<r>>))
      BY <2>1, <3>2 DEF Dropped
    <3>3. QED
      BY <1>3, <3>1, <3>2 DEF CallbackCalls, SendBatch
  <2>4. QED
    BY <1>1, <2>1, <2>2, <2>3 DEF NestedCallIsNeverAnswered
<1>4. CASE calling' # NoReq /\ calling' = calling
  <2>1. /\ calling \in CallReq /\ calling \in Req /\ reader = "callback"
        /\ reply[calling] \in {"open", "canceled"} /\ calling \notin Held
    BY <1>1, <1>4
  <2>2. ~WriteTrack /\ ~ReadHandle /\ ~CallbackReturns /\ ~CallbackPanics
    BY <1>4, <2>1 DEF WriteTrack, Locked, ReadHandle, CallbackReturns, CallbackPanics
  <2>3. reader' = "callback"
    BY <2>1, <2>2 DEF Next, Read, Write, CallerSends, CallerAbandons, DropClient, DropEvents,
                      ReadNext, ReadEmit, ReadExit, CallbackCalls, WriteRecv, WriteSend,
                      WriteExit, WriterDrops, Server, vars, threadVars
  <2>4. calling \notin Held'
    BY <2>1, <2>2, OnlyTrackingHolds
  <2>5. reply'[calling] \in {"open", "canceled"}
    <3>1. ASSUME NEW R, reply' = Dropped(R) PROVE reply'[calling] \in {"open", "canceled"}
      BY <2>1, <3>1 DEF Dropped
    <3>2. ASSUME NEW b, SendBatch(b) PROVE reply'[calling] \in {"open", "canceled"}
      BY <2>1, <3>1, <3>2 DEF SendBatch
    <3>3. ASSUME NEW r \in Req, CallerAbandons(r)
          PROVE  reply'[calling] \in {"open", "canceled"}
      BY <1>1, <2>1, <3>3 DEF CallerAbandons, AbandonReply, TrackerTypeOK
    <3>4. CASE WriteExit
      BY <3>1, <3>4 DEF WriteExit, Released
    <3>5. CASE \/ DropClient \/ DropEvents \/ ReadNext \/ ReadEmit \/ WriteRecv \/ WriteSend
               \/ WriterDrops \/ Server \/ UNCHANGED vars
      BY <2>1, <3>5 DEF DropClient, DropEvents, ReadNext, ReadEmit, WriteRecv, WriteSend,
                        WriterDrops, Server, vars, connVars, trackerVars
    <3>6. ~ReadExit
      BY <2>1 DEF ReadExit
    <3>7. QED
      BY <2>2, <3>2, <3>3, <3>4, <3>5, <3>6 DEF Next, Read, Write, CallerSends, CallbackCalls
  <2>6. QED
    BY <1>4, <2>1, <2>3, <2>4, <2>5 DEF NestedCallIsNeverAnswered
<1>5. calling' \in {calling, NoReq} \/ \E r \in CallReq : CallbackCalls(r)
  BY DEF Next, Read, Write, CallerSends, CallerAbandons, DropClient, DropEvents, ReadNext,
         ReadHandle, CallbackReturns, ReadEmit, ReadExit, CallbackPanics, WriteRecv, WriteTrack,
         WriteSend, WriteExit, WriterDrops, Server, vars, threadVars
<1>6. QED
  BY <1>2, <1>3, <1>4, <1>5

\* The invariant of ownership holds at the start ...
LEMMA OwnershipInit == Init => OwnershipInv
<1> SUFFICES ASSUME Init PROVE OwnershipInv
  OBVIOUS
<1>1. TypeOK
  BY ConnectionInitType DEF Init, TypeOK
<1>2. Requests(chan) = {} /\ Untracked = <<>> /\ Range(Untracked) = {}
  BY RequestsOfNone DEF Init, ConnectionInit, Untracked, Range
<1>3. ChannelHoldsOnce /\ HandlersOwned({})
  BY OwnedInit DEF Init
<1>4. WaitsOnce /\ HandlersOwned(Waiting)
  <2>1. Waiting = {} /\ IsInjective(<<>>)
    BY <1>2 DEF Waiting, IsInjective
  <2>2. QED
    BY <1>2, <1>3, <2>1 DEF WaitsOnce
<1>5. QED
  BY <1>1, <1>4 DEF Init, OwnershipInv, StoppedThreadsHoldNothing, NestedCallIsNeverAnswered

\* ... and every step preserves it.
LEMMA OwnershipStep == OwnershipInv /\ [Next]_vars => OwnershipInv'
<1> SUFFICES ASSUME OwnershipInv, [Next]_vars PROVE OwnershipInv'
  OBVIOUS
<1>1. TypeOK'
  BY TypeStep DEF OwnershipInv
<1>2. WaitsOnce' /\ HandlersOwned(Waiting)'
  BY <1>1, HandlersStep
<1>3. StoppedThreadsHoldNothing'
  BY <1>1, StoppedStep
<1>4. /\ (calling # NoReq => reader = "callback" /\ calling \in CallReq)'
      /\ NestedCallIsNeverAnswered'
  BY <1>1, NestedCallStep
<1>5. QED
  BY <1>1, <1>2, <1>3, <1>4 DEF OwnershipInv

\* Whatever the two threads, the callers and the server interleave, and
\* wherever a thread panics, the handler of a request is in one place until it
\* is resolved.
THEOREM HandlersAreOwned == Spec => []OwnershipInv
BY OwnershipInit, OwnershipStep, PTL DEF Spec

\* No request is orphaned between the threads or resolved twice, whether or
\* not ids wrap around.
THEOREM HandlersAreHeldOnce == Spec => []HandlerHeldOnce
<1>1. ASSUME OwnershipInv PROVE HandlerHeldOnce
  <2>1. /\ TrackerTypeOK /\ OneIdEach /\ HandlersOwned(Waiting) /\ WaitsOnce /\ TypeOK
        /\ Sent \subseteq Req
    BY <1>1 DEF OwnershipInv, TypeOK, ConnectionTypeOK, ChannelsTypeOK, HandlersOwned, Sent, Range
  <2>2. SUFFICES ASSUME NEW r \in Req
                 PROVE  LET InHand == writer # "write" /\ r \in Range(work)
                            Places == Cardinality({i \in Ids : pending[i] = r})
                                        + (IF r \in Requests(chan) THEN 1 ELSE 0)
                                        + (IF InHand THEN 1 ELSE 0)
                        IN CASE reply[r] = "open" -> Places = (IF r \in Sent THEN 1 ELSE 0)
                             [] reply[r] = "abandoned" -> Places <= 1
                             [] OTHER -> Places = 0
    BY DEF HandlerHeldOnce
  <2>3. Cardinality({i \in Ids : pending[i] = r}) = IF r \in Held THEN 1 ELSE 0
    BY <2>1, UnderOneId
  <2>4. writer # "write" /\ r \in Range(work) <=> r \in Range(Untracked)
    BY DEF Untracked, Range
  <2>5. /\ ~(r \in Requests(chan) /\ r \in Range(Untracked))
        /\ r \in Waiting <=> r \in Requests(chan) \/ r \in Range(Untracked)
    BY <2>1 DEF WaitsOnce, Waiting
  <2>6. QED
    BY <2>1, <2>3, <2>4, <2>5 DEF HandlersOwned
<1>2. QED
  BY <1>1, HandlersAreOwned, PTL

\* Once both threads have stopped, in whatever order and for whatever reason,
\* nobody waits for a reply.
THEOREM NobodyWaitsInVain == Spec => []NoWaiterWithoutThreads
<1>1. ASSUME OwnershipInv PROVE NoWaiterWithoutThreads
  <2>1. SUFFICES ASSUME reader = "done", writer = "done" PROVE \A r \in Sent : reply[r] # "open"
    BY DEF NoWaiterWithoutThreads
  <2>2. Held = {} /\ chan = <<>> /\ work = <<>>
    BY <1>1, <2>1, WorkType DEF OwnershipInv, StoppedThreadsHoldNothing
  <2>3. Waiting = {}
    BY <2>1, <2>2, RequestsOfNone DEF Waiting, Untracked, Range
  <2>4. QED
    BY <1>1, <2>2, <2>3 DEF OwnershipInv, HandlersOwned
<1>2. QED
  BY <1>1, HandlersAreOwned, PTL

\* No schedule answers a call that a callback makes and waits for.
THEOREM NestedCallsAreNeverAnswered == Spec => []NestedCallIsNeverAnswered
<1>1. OwnershipInv => NestedCallIsNeverAnswered
  BY DEF OwnershipInv
<1>2. QED
  BY <1>1, HandlersAreOwned, PTL

-----------------------------------------------------------------------------
(***************************************************************************)
(* Whose answer is whose, as long as there is an id for each request.      *)
(***************************************************************************)

\* Every step preserves the inductive invariant.
LEMMA InvariantStep == ASSUME EnoughIds PROVE NumberingInv /\ [Next]_vars => NumberingInv'
<1> SUFFICES ASSUME NumberingInv, [Next]_vars PROVE NumberingInv'
  OBVIOUS
<1> DEFINE W == Waiting
           Raws == RawsInTransit \cup Range(Unwritten)
           Msgs == Unhandled
<1>1. /\ OwnershipInv' /\ OwnershipInv /\ ConnectionTypeOK /\ TypeOK
      /\ Untracked \in Seq(Req) /\ Unwritten \in Seq(RawRequest)
  BY OwnershipStep, WorkType DEF NumberingInv, OwnershipInv, TypeOK
<1>2. PICK log \in Logs : Numbered(log, W, Raws, Msgs)
  BY DEF NumberingInv, IdsInOrder
<1>3. /\ Correlated /\ HandlersOwned(W) /\ OneIdEach /\ W \subseteq Sent
      /\ W = Requests(chan) \cup Range(Untracked)
  BY <1>1 DEF NumberingInv, OwnershipInv, HandlersOwned, Waiting
<1>4. ASSUME NEW l, Numbered(l, W, Raws, Msgs)', l \in Logs, Correlated' PROVE NumberingInv'
  BY <1>1, <1>4 DEF NumberingInv, IdsInOrder
<1>5. ASSUME UNCHANGED <<next_id, answer>>, Sent \subseteq Sent',
             \A i \in Ids : pending'[i] \in {pending[i], NoReq},
             W' \subseteq W \cup (Req \ Sent), Raws' \subseteq Raws,
             \A msg \in Msgs' : msg \in Msgs \/ IsAnswerTo(msg, Raws)
      PROVE  NumberingInv'
  <2>1. Numbered(log, W, Raws, Msgs)'
    BY <1>2, <1>5, NumberedStays
  <2>2. Correlated'
    BY <1>3, <1>5 DEF Correlated
  <2>3. QED
    BY <1>2, <1>4, <2>1, <2>2
<1>6. ASSUME NEW b \in Seq(Req), IsInjective(b), Range(b) \subseteq Req \ Sent, SendBatch(b),
             UNCHANGED <<wireVars, serverVars, writer, work, reader, hand>>
      PROVE  NumberingInv'
  <2>1. Range(b) \cap Requests(chan) = {} /\ ChannelHoldsOnce
    BY <1>1, <1>3, <1>6 DEF OwnershipInv, WaitsOnce
  <2>2. Requests(chan') \subseteq Requests(chan) \cup Range(b)
    BY <1>1, <1>6, <2>1, ChannelSent
  <2>3. W' \subseteq W \cup (Req \ Sent)
    BY <1>6, <2>2 DEF Waiting, Untracked
  <2>4. Sent \subseteq Sent'
    BY <1>1, <1>6, SentGrows DEF SendBatch
  <2>5. UNCHANGED <<next_id, answer, pending, Raws, Msgs>>
    BY <1>6 DEF SendBatch, wireVars, serverVars, RawsInTransit, Unwritten, Unhandled
  <2>6. QED
    BY <1>5, <2>3, <2>4, <2>5
<1>7. ASSUME NEW b \in Submissions, CallerSends(b) PROVE NumberingInv'
  BY <1>6, <1>7, SubmissionIsBatch DEF CallerSends, threadVars
<1>8. ASSUME NEW r \in CallReq, CallbackCalls(r) PROVE NumberingInv'
  <2>1. r \in Req \ Sent
    BY <1>8, ConnectionAssumption DEF CallbackCalls
  <2>2. QED
    BY <1>6, <1>8, <2>1, CallIsBatch DEF CallbackCalls
<1>9. CASE ReadNext
  <2>1. Msgs' \subseteq Msgs
    <3>1. CASE ReadMessage /\ hand' = Head(s2c) /\ reader' = "lock"
      <4>1. hand' \in Range(s2c) /\ Range(s2c') \subseteq Range(s2c)
        BY <1>1, <3>1, RangeTaken DEF ReadMessage, ConnectionTypeOK, WireTypeOK
      <4>2. QED
        BY <1>9, <3>1, <4>1 DEF ReadNext, Unhandled
    <3>2. CASE reader' = "exit" /\ UNCHANGED <<s2c, hand>>
      BY <1>9, <3>2 DEF ReadNext, Unhandled
    <3>3. QED
      BY <1>9, <3>1, <3>2 DEF ReadNext
  <2>2. UNCHANGED <<next_id, answer, pending, sent, chan, writer, work, held, c2s, owed>>
    BY <1>9 DEF ReadNext, trackerVars, callerVars, serverVars
  <2>3. UNCHANGED <<W, Raws, Sent>>
    BY <2>2 DEF Waiting, Untracked, Unwritten, RawsInTransit, Sent
  <2>4. QED
    BY <1>5, <2>1, <2>2, <2>3
<1>10. CASE ReadHandle
  <2>1. hand \in Message /\ hand \in Msgs /\ Msgs' \subseteq Msgs
    <3>1. hand \in Message /\ reader = "lock" /\ reader' # "lock" /\ s2c' = s2c
      BY <1>1, <1>10 DEF ReadHandle, TypeOK, wireVars
    <3>2. QED
      BY <3>1 DEF Unhandled
  <2>2. UNCHANGED <<sent, chan, writer, work, held, c2s, owed>>
    BY <1>10 DEF ReadHandle, callerVars, wireVars, serverVars
  <2>3. W' = W /\ Raws' = Raws /\ Sent' = Sent
    BY <2>2 DEF Waiting, Untracked, Unwritten, RawsInTransit, Sent
  <2>4. CASE UNCHANGED trackerVars
    BY <1>5, <2>1, <2>3, <2>4 DEF trackerVars
  <2>5. CASE hand \in RawIncoming /\ HandleIncoming(hand)
    <3>1. PICK msg : msg = hand
      OBVIOUS
    <3>2. HandleIncoming(msg) /\ msg \in RawIncoming /\ msg \in Msgs
      BY <2>1, <2>5, <3>1
    <3>3. /\ next_id' = next_id /\ \A i \in Ids : pending'[i] \in {pending[i], NoReq}
          /\ Correlated'
      BY <1>1, <1>2, <1>3, <3>2, NumberedHandle
    <3>4. Numbered(log, W, Raws, Msgs)'
      BY <1>2, <2>1, <2>3, <3>3, NumberedStays
    <3>5. QED
      BY <1>2, <1>4, <3>3, <3>4
  <2>6. QED
    BY <1>10, <2>1, <2>4, <2>5 DEF ReadHandle, Message
<1>11. CASE ReadExit \/ WriteExit
  <2>1. /\ UNCHANGED <<next_id, answer, sent, wireVars, serverVars>>
        /\ \A i \in Ids : pending'[i] \in {pending[i], NoReq}
    BY <1>11 DEF ReadExit, WriteExit, Released, callerVars
  <2>2. CASE ReadExit
    <3>1. UNCHANGED <<chan, writer, work>> /\ reader # "lock" /\ reader' # "lock"
      BY <2>2 DEF ReadExit, callerVars
    <3>2. UNCHANGED <<W, Raws, Msgs, Sent>>
      BY <2>1, <3>1 DEF Waiting, Untracked, Unwritten, Unhandled, RawsInTransit, Sent, wireVars,
                        serverVars
    <3>3. QED
      BY <1>5, <2>1, <3>2
  <2>3. CASE WriteExit
    <3>1. chan' = <<>> /\ work' = <<>> /\ UNCHANGED <<reader, hand>>
          /\ writer # "write" /\ writer' # "write"
      BY <2>3 DEF WriteExit
    <3>2. W' = {} /\ Unwritten' = Unwritten
      BY <3>1, RequestsOfNone DEF Waiting, Untracked, Unwritten, Range
    <3>3. UNCHANGED <<Raws, Msgs, Sent>>
      BY <2>1, <3>1, <3>2 DEF Unhandled, RawsInTransit, Sent, wireVars, serverVars
    <3>4. QED
      BY <1>5, <2>1, <3>2, <3>3
  <2>4. QED
    BY <1>11, <2>2, <2>3
<1>12. CASE WriteRecv
  <2>1. W' \subseteq W
    <3>1. CASE chan # <<>> /\ work' = Head(chan) /\ chan' = Tail(chan) /\ writer' = "lock"
      <4>1. Requests(chan) = Range(Head(chan)) \cup Requests(chan')
        BY <1>1, <3>1, ChannelTaken DEF OwnershipInv, WaitsOnce
      <4>2. QED
        BY <3>1, <4>1 DEF Waiting, Untracked
    <3>2. CASE writer' = "exit" /\ UNCHANGED <<work, chan>>
      BY <1>12, <3>2 DEF WriteRecv, Waiting, Untracked
    <3>3. QED
      BY <1>12, <3>1, <3>2 DEF WriteRecv
  <2>2. UNCHANGED <<next_id, answer, pending, sent, wireVars, serverVars, reader, hand>>
        /\ writer # "write" /\ writer' # "write"
    BY <1>12 DEF WriteRecv, trackerVars
  <2>3. UNCHANGED <<Raws, Msgs, Sent>>
    BY <2>2 DEF Unwritten, Unhandled, RawsInTransit, Sent, wireVars, serverVars
  <2>4. QED
    BY <1>5, <2>1, <2>2, <2>3
<1>13. CASE WriteTrack
  <2>1. /\ UNCHANGED <<sent, chan, wireVars, serverVars, reader, hand>>
        /\ writer = "lock" /\ Untracked = work
    BY <1>13 DEF WriteTrack, callerVars, Untracked
  <2>2. CASE TrackRequest(work) /\ work' = RawRequests(work) /\ writer' = "write"
    <3>1. PICK b : b = work
      OBVIOUS
    <3>2. b \in Seq(Req) /\ IsInjective(b) /\ Range(b) \subseteq W
      BY <1>1, <1>3, <2>1, <3>1 DEF OwnershipInv, WaitsOnce
    <3>3. Untracked' = <<>> /\ Unwritten' = RawRequests(b)
      BY <2>2, <3>1 DEF Untracked, Unwritten
    <3>4. W' \subseteq W \ Range(b)
      <4>1. Range(b) \cap Requests(chan) = {}
        BY <1>1, <2>1, <3>1 DEF OwnershipInv, WaitsOnce
      <4>2. W' = Requests(chan)
        BY <2>1, <3>3 DEF Waiting, Range
      <4>3. QED
        BY <1>3, <4>1, <4>2
    <3>5. Raws' \subseteq Raws \cup Range(RawRequests(b)) /\ Msgs' \subseteq Msgs
      BY <2>1, <3>3 DEF RawsInTransit, Unhandled, wireVars, serverVars
    <3>6. Raws \subseteq RawRequest /\ Msgs \subseteq Message
      <4>1. Raws \subseteq RawRequest
        BY <1>1 DEF ConnectionTypeOK, WireTypeOK, RawsInTransit, Requests, Range
      <4>2. Msgs \subseteq Message
        BY <1>1 DEF TypeOK, ConnectionTypeOK, WireTypeOK, Range, Unhandled
      <4>3. QED
        BY <4>1, <4>2
    <3>7. log \o b \in Logs /\ Numbered(log \o b, W, Raws, Msgs)'
      <4>1. TrackRequest(b)
        BY <2>2, <3>1
      <4>2. QED
        BY <1>1, <1>2, <1>3, <2>1, <3>2, <3>4, <3>5, <3>6, <4>1, NumberedTrack
    <3>8. Correlated'
      BY <1>3, <2>2 DEF TrackRequest, Correlated
    <3>9. QED
      BY <1>4, <3>7, <3>8
  <2>3. CASE writer' = "exit" /\ UNCHANGED <<trackerVars, work>>
    <3>1. UNCHANGED <<W, Raws, Msgs, Sent>>
      BY <2>1, <2>3 DEF Waiting, Untracked, Unwritten, RawsInTransit, Unhandled, Sent, wireVars,
                        serverVars
    <3>2. QED
      BY <1>5, <2>3, <3>1 DEF trackerVars
  <2>4. QED
    BY <1>13, <2>2, <2>3 DEF WriteTrack
<1>14. CASE WriteSend
  <2>1. work \in Seq(RawRequest) /\ Unwritten = work /\ Untracked = <<>>
        /\ Unwritten' = <<>> /\ Untracked' = <<>>
    BY <1>1, <1>14 DEF WriteSend, Unwritten, Untracked
  <2>2. Raws' \subseteq Raws
    <3>1. CASE WriteLine(work)
      <4>1. RawsInTransit' \subseteq RawsInTransit \cup Range(work)
        BY <1>1, <1>14, <2>1, <3>1, WriteLineType DEF WriteSend, ConnectionTypeOK
      <4>2. QED
        BY <2>1, <4>1 DEF Range
    <3>2. CASE WriteFails
      BY <1>14, <2>1, <3>2 DEF WriteSend, WriteFails, serverVars, RawsInTransit, Range
    <3>3. QED
      BY <1>14, <3>1, <3>2 DEF WriteSend
  <2>3. UNCHANGED <<next_id, answer, pending, sent, chan, s2c, reader, hand>>
    BY <1>14 DEF WriteSend, trackerVars, callerVars
  <2>4. UNCHANGED <<W, Msgs, Sent>>
    BY <2>1, <2>3 DEF Waiting, Unhandled, Sent
  <2>5. QED
    BY <1>5, <2>2, <2>3, <2>4
<1>15. CASE WriterDrops
  <2>1. RawsInTransit' \subseteq RawsInTransit
    BY <1>1, <1>15, DropHeldType DEF WriterDrops, ConnectionTypeOK
  <2>2. UNCHANGED <<next_id, answer, pending, sent, chan, writer, work, reader, hand, s2c>>
    BY <1>15 DEF WriterDrops, DropHeld, trackerVars, callerVars, threadVars
  <2>3. QED
    BY <1>5, <2>1, <2>2 DEF Waiting, Untracked, Unwritten, Unhandled, Sent
<1>16. CASE Server
  <2>1. /\ RawsInTransit' \subseteq RawsInTransit
        /\ \A msg \in Range(s2c') : msg \in Range(s2c) \/ IsAnswerTo(msg, RawsInTransit)
    BY <1>1, <1>16, ServerType DEF Server, ConnectionTypeOK
  <2>2. UNCHANGED <<next_id, answer, pending, sent, chan, writer, work, reader, hand>>
    BY <1>16 DEF Server, trackerVars, callerVars, threadVars
  <2>3. UNCHANGED <<W, Unwritten, Sent>>
    BY <2>2 DEF Waiting, Untracked, Unwritten, Sent
  <2>4. \A msg \in Msgs' : msg \in Msgs \/ IsAnswerTo(msg, Raws)
    BY <2>1, <2>2 DEF Unhandled, IsAnswerTo
  <2>5. QED
    BY <1>5, <2>1, <2>2, <2>3, <2>4
<1>17. CASE \/ \E r \in Req : CallerAbandons(r)
            \/ DropClient \/ DropEvents \/ CallbackReturns \/ CallbackPanics \/ ReadEmit
            \/ UNCHANGED vars
  <2>1. /\ UNCHANGED <<next_id, answer, pending, sent, chan, wireVars, serverVars, writer, work>>
        /\ UNCHANGED <<reader, hand>> \/ (reader # "lock" /\ reader' # "lock")
    BY <1>17 DEF CallerAbandons, AbandonReply, DropClient, CloseChannel, DropEvents,
                 CallbackReturns, CallbackPanics, ReadEmit, vars, connVars, trackerVars,
                 callerVars, threadVars
  <2>2. UNCHANGED <<W, Raws, Msgs, Sent>>
    BY <2>1 DEF Waiting, Untracked, Unwritten, RawsInTransit, Unhandled, Sent, wireVars, serverVars
  <2>3. QED
    BY <1>5, <2>1, <2>2
<1>18. QED
  BY <1>7, <1>8, <1>9, <1>10, <1>11, <1>12, <1>13, <1>14, <1>15, <1>16, <1>17
     DEF Next, Read, Write

\* While there is an id for each request, the id of a request is its place
\* among the tracked ones, in the tracker, in the line the write thread is at,
\* on the wire and in its answer.
THEOREM ClientInvariant == ASSUME EnoughIds PROVE Spec => []NumberingInv
<1>1. Init => NumberingInv
  <2>1. SUFFICES ASSUME Init PROVE NumberingInv
    OBVIOUS
  <2>2. OwnershipInv
    BY <2>1, OwnershipInit
  <2>3. Waiting = {} /\ Range(Unwritten) = {} /\ Unhandled = Range(s2c)
    BY <2>1, RequestsOfNone
       DEF Init, ConnectionInit, Waiting, Untracked, Unwritten, Unhandled, Range
  <2>4. IdsInOrder(Waiting, RawsInTransit \cup Range(Unwritten), Unhandled)
    BY <2>1, <2>3, NumberedInit DEF Init, IdsInOrder
  <2>5. Correlated
    BY <2>1 DEF Init, ConnectionInit, TrackerInit, Correlated
  <2>6. QED
    BY <2>2, <2>4, <2>5 DEF NumberingInv
<1>2. QED
  BY <1>1, InvariantStep, PTL DEF Spec

\* Then no request is ever handed another one's answer, whatever the threads
\* interleave and whatever the server answers first.
THEOREM AnswersAreCorrelated == ASSUME EnoughIds PROVE Spec => []Correlated
<1>1. NumberingInv => Correlated
  BY DEF NumberingInv
<1>2. QED
  BY <1>1, ClientInvariant, PTL

\* Then the answer to a request that still waits, on the wire or in the hand of
\* the read thread, finds the handler of that request: no answer overtakes the
\* tracking of its request.
THEOREM AnswersFindHandlers == ASSUME EnoughIds PROVE Spec => []AnswersFindTheirRequest
<1>1. ASSUME NumberingInv PROVE AnswersFindTheirRequest
  <2>1. ConnectionTypeOK /\ HandlersOwned(Waiting)
    BY <1>1 DEF NumberingInv, OwnershipInv, TypeOK
  <2>2. PICK log \in Logs :
          Numbered(log, Waiting, RawsInTransit \cup Range(Unwritten), Unhandled)
    BY <1>1 DEF NumberingInv, IdsInOrder
  <2>3. \A msg \in Unhandled : msg \in Message
    BY <1>1 DEF NumberingInv, OwnershipInv, TypeOK, ConnectionTypeOK, WireTypeOK, Unhandled, Range
  <2>4. QED
    BY <2>1, <2>2, <2>3, AnswerFindsRequest DEF AnswersFindTheirRequest
<1>2. QED
  BY <1>1, ClientInvariant, PTL

-----------------------------------------------------------------------------
(***************************************************************************)
(* What is in flight: the inductive invariant that the refinement needs.   *)
(***************************************************************************)

\* What the invariant says of types.
LEMMA ClientTypes ==
  ASSUME IInv
  PROVE  /\ TypeOK /\ ConnectionTypeOK /\ WireTypeOK /\ ChannelsTypeOK /\ TrackerTypeOK
         /\ OneIdEach /\ HandlersOwned(Waiting) /\ WaitsOnce /\ ChannelHoldsOnce
         /\ Untracked \in Seq(Req) /\ Unwritten \in Seq(RawRequest)
         /\ RequestsOf(Unwritten) \in Seq(Req) /\ RequestsOnWire \in Seq(Req)
         /\ InWork \in Seq(Req) /\ FlattenSeq(chan) \in Seq(Req)
<1>1. TypeOK /\ OwnershipInv
  BY DEF IInv, NumberingInv, OwnershipInv
<1>2. WireTypeOK /\ chan \in Seq(Seq(Req)) /\ Untracked \in Seq(Req) /\ Unwritten \in Seq(RawRequest)
  BY <1>1, WorkType DEF TypeOK, ConnectionTypeOK, ChannelsTypeOK
<1>3. RequestsOf(Unwritten) \in Seq(Req) /\ RequestsOnWire \in Seq(Req) /\ FlattenSeq(chan) \in Seq(Req)
  BY <1>2, LineType, WireIs, FlattenType
<1>4. InWork \in Seq(Req)
  BY <1>2, <1>3 DEF InWork, Unwritten, Untracked
<1>5. QED
  BY <1>1, <1>2, <1>3, <1>4 DEF TypeOK, ConnectionTypeOK, OwnershipInv, WaitsOnce, HandlersOwned

\* No line is unwritten but while the write thread writes.
LEMMA NothingUnwritten ==
  ASSUME IInv, writer # "write"
  PROVE  /\ RequestsOf(Unwritten) = <<>> /\ InWork = work
         /\ RequestsOnWire \o RequestsOf(Unwritten) = RequestsOnWire
<1>1. RequestsOf(Unwritten) = <<>>
  BY LinesOfNone DEF Unwritten
<1>2. QED
  BY <1>1, ClientTypes, ConcatEmptySeq DEF InWork

\* A batch that the write thread tracks displaces nothing.
LEMMA WorkIsTracked ==
  ASSUME EnoughIds, IInv, WriteTrack, ~poisoned
  PROVE  /\ work \in Seq(Req) /\ IsInjective(work) /\ Range(work) \cap Held = {}
         /\ Held' = Held \cup Range(work) /\ UNCHANGED reply
         /\ RequestsOf(work') = work
<1>1. PICK log \in Logs : Numbered(log, Waiting, RawsInTransit \cup Range(Unwritten), Unhandled)
  BY DEF IInv, NumberingInv, IdsInOrder
<1>2. PICK b : b = work
  OBVIOUS
<1>3. TrackRequest(b) /\ work' = RawRequests(b) /\ b = Untracked
  BY <1>2 DEF WriteTrack, Untracked
<1>4. b \in Seq(Req) /\ IsInjective(b) /\ Range(b) \subseteq Waiting
  BY <1>3, ClientTypes DEF WaitsOnce, Waiting
<1>5. Held' = Held \cup Range(b) /\ UNCHANGED reply
  BY <1>1, <1>3, <1>4, ClientTypes, TrackedIsHeld
<1>6. Range(b) \cap Held = {}
  BY <1>4, ClientTypes DEF HandlersOwned
<1>7. RequestsOf(work') = b
  BY <1>3, <1>4, TrackedLine
<1>8. QED
  BY <1>2, <1>4, <1>5, <1>6, <1>7

\* What the read thread has in its hand comes before what is on the wire.
LEMMA UnresolvedIs ==
  ASSUME IInv
  PROVE  /\ s2c \in Seq(Message) /\ Unresolved \in Seq(Message)
         /\ Range(Unresolved) = Unhandled
         /\ reader = "lock" => /\ hand \in Message /\ Unresolved # <<>>
                               /\ Head(Unresolved) = hand /\ Tail(Unresolved) = s2c
         /\ reader # "lock" => Unresolved = s2c
<1>1. s2c \in Seq(Message)
  BY ClientTypes DEF WireTypeOK
<1>2. CASE reader = "lock"
  <2>1. hand \in Message
    BY <1>2, ClientTypes DEF TypeOK
  <2> DEFINE h == <<hand>>
             u == h \o s2c
  <2>2. h \in Seq(Message) /\ Range(h) = {hand}
    BY <2>1 DEF Range
  <2>3. u \in Seq(Message) /\ Range(u) = Range(h) \cup Range(s2c)
    <3> HIDE DEF h
    <3>1. QED
      BY <1>1, <2>2, ConcatProperties, RangeConcatenation
  <2>4. u # <<>> /\ Head(u) = hand /\ Tail(u) = s2c
    BY <1>1, <2>1
  <2>5. Unresolved = u
    BY <1>2 DEF Unresolved
  <2> HIDE DEF u
  <2>6. QED
    BY <1>1, <1>2, <2>1, <2>2, <2>3, <2>4, <2>5 DEF Unhandled
<1>3. CASE reader # "lock"
  <2>1. <<>> \o s2c = s2c
    BY <1>1, ConcatEmptySeq
  <2>2. QED
    BY <1>1, <1>3, <2>1 DEF Unresolved, Unhandled
<1>4. QED
  BY <1>2, <1>3

\* A step that does not handle a message changes no reply but that of a request
\* that waits, and abandons none that has an event.
LEMMA RepliesStay ==
  ASSUME EnoughIds, IInv, [Next]_vars, ~ReadHandle, NEW r \in Req
  PROVE  /\ reply[r] # "open" => reply'[r] = reply[r]
         /\ r \in EventReq /\ reply[r] # "abandoned" => reply'[r] # "abandoned"
<1>1. reply \in [Req -> Outcomes]
  BY ClientTypes DEF TrackerTypeOK
<1>2. ASSUME NEW R, reply' = Dropped(R) PROVE reply'[r] \in {reply[r], "canceled"} /\ (reply[r] # "open" => reply'[r] = reply[r])
  BY <1>1, <1>2 DEF Dropped
<1>3. CASE (\E b \in Submissions : CallerSends(b)) \/ (\E q \in CallReq : CallbackCalls(q))
  BY <1>2, <1>3 DEF CallerSends, CallbackCalls, SendBatch
<1>4. CASE \E q \in Req : CallerAbandons(q)
  BY <1>1, <1>4 DEF CallerAbandons, AbandonReply
<1>5. CASE WriteTrack
  BY <1>5, WorkIsTracked DEF WriteTrack, trackerVars
<1>6. CASE ReadExit \/ WriteExit
  BY <1>2, <1>6 DEF ReadExit, WriteExit, Released
<1>7. CASE \/ DropClient \/ DropEvents \/ ReadNext \/ CallbackReturns \/ CallbackPanics
           \/ ReadEmit \/ WriteRecv \/ WriteSend \/ WriterDrops \/ Server \/ UNCHANGED vars
  BY <1>7 DEF DropClient, DropEvents, ReadNext, CallbackReturns, CallbackPanics,
              ReadEmit, WriteRecv, WriteSend, WriterDrops, Server, vars, connVars, trackerVars
<1>8. QED
  BY <1>3, <1>4, <1>5, <1>6, <1>7 DEF Next, Read, Write

\* A response that the read thread handles finds the handler of its request,
\* which still waits or whose caller has gone.
LEMMA HandledResponse ==
  ASSUME IInv, ReadHandle, hand.type = "response"
  PROVE  /\ hand \in Response /\ hand.of \in Req /\ hand.id \in Ids
         /\ pending[hand.id] = hand.of /\ IsKnownResponse(hand)
         /\ reply[hand.of] \in {"open", "abandoned"}
         /\ reply' = [reply EXCEPT ![hand.of] = Settled(hand.of, hand.result)]
<1>1. PICK log \in Logs : Numbered(log, Waiting, RawsInTransit \cup Range(Unwritten), Unhandled)
  BY DEF IInv, NumberingInv, IdsInOrder
<1>2. reader = "lock" /\ hand \in Message /\ hand \in Unhandled
  BY UnresolvedIs DEF ReadHandle, Unhandled
<1>3. hand.of \in Held
  <2>1. hand.of \in AnsweredBy(Unresolved)
    BY <1>2, UnresolvedIs DEF AnsweredBy
  <2>2. QED
    BY <1>2, <2>1 DEF IInv, Reading, InFlightOnce
<1>4. pending[hand.id] = hand.of /\ hand.id \in Ids /\ hand.of \in Req
  BY <1>1, <1>2, <1>3, ClientTypes, ResponseMeetsHandler
<1>5. hand \in Response
  BY <1>2 DEF Message, RawIncoming, Notification, Garbage
<1>6. IsKnownResponse(hand)
  BY <1>3, <1>4 DEF IsKnownResponse, Held
<1>7. reply[hand.of] \in {"open", "abandoned"}
  BY <1>3, ClientTypes DEF HandlersOwned
<1>8. Resolve(hand)
  BY <1>6 DEF ReadHandle, HandleIncoming, Garbage
<1>9. reply' = [reply EXCEPT ![hand.of] = Settled(hand.of, hand.result)]
  BY <1>4, <1>8 DEF Resolve
<1>10. QED
  BY <1>4, <1>5, <1>6, <1>7, <1>9

\* What handling leaves of the events that are due.
LEMMA EventStep ==
  ASSUME EnoughIds, IInv, [Next]_vars
  PROVE  /\ reader' = "emit" => EventIsDue'
         /\ \A r \in EventReq : reply'[r] # "abandoned"
<1>1. EventReq \subseteq Req /\ reply \in [Req -> Outcomes]
  BY ClientTypes, TrackerAssumption DEF TrackerTypeOK
<1>2. \A r \in EventReq : reply[r] # "abandoned"
  BY DEF IInv
<1>3. CASE ReadHandle
  <2>1. CASE hand.type = "response"
    <3>1. ASSUME NEW r \in EventReq PROVE reply'[r] # "abandoned"
      BY <1>1, <1>2, <1>3, <2>1, HandledResponse DEF Settled, Response
    <3>2. ASSUME reader' = "emit" PROVE EventIsDue'
      <4>1. hand' = hand /\ GivesEvent(hand) /\ ~IsProcessError(hand)
        BY <1>3, <3>2 DEF ReadHandle, GivesEvent
      <4>2. hand.of \in EventReq /\ hand.result # "malformed"
        BY <1>3, <2>1, <4>1, HandledResponse DEF GivesEvent, IsProcessError
      <4>3. reply'[hand.of] = hand.result
        BY <1>1, <1>2, <1>3, <2>1, <4>2, HandledResponse DEF Settled
      <4>4. QED
        BY <2>1, <4>1, <4>2, <4>3 DEF EventIsDue
    <3>3. QED
      BY <3>1, <3>2
  <2>2. CASE hand.type # "response"
    <3>1. UNCHANGED reply
      BY <1>3, <2>2 DEF ReadHandle, HandleIncoming, IsKnownResponse, trackerVars
    <3>2. ASSUME reader' = "emit" PROVE EventIsDue'
      <4>1. hand' = hand /\ hand # Garbage /\ hand \in Message /\ ~IsProcessError(hand)
        BY <1>3, <3>2, UnresolvedIs DEF ReadHandle, GivesEvent
      <4>2. hand.type = "notification" /\ hand.params = "valid"
        BY <2>2, <4>1 DEF Message, RawIncoming, Notification, Response, Garbage, IsProcessError
      <4>3. QED
        BY <2>2, <4>1, <4>2 DEF EventIsDue
    <3>3. QED
      BY <1>2, <3>1, <3>2
  <2>3. QED
    BY <2>1, <2>2
<1>4. CASE ~ReadHandle
  <2>1. \A r \in EventReq : reply'[r] # "abandoned"
    BY <1>1, <1>2, <1>4, RepliesStay
  <2>2. ASSUME reader' = "emit" PROVE EventIsDue'
    <3>1. reader = "emit" /\ hand' = hand
      BY <1>4, <2>2 DEF Next, Read, Write, CallerSends, CallerAbandons, CallbackCalls, DropClient,
         DropEvents, ReadNext, CallbackReturns, CallbackPanics, ReadEmit, ReadExit, WriteRecv,
         WriteTrack, WriteSend, WriteExit, WriterDrops, Server, vars, threadVars
    <3>2. EventIsDue /\ hand \in RawIncoming
      BY <3>1, ClientTypes DEF IInv, TypeOK
    <3>3. CASE hand.type = "response"
      <4>1. hand.result # "open" /\ hand.of \in Req
        BY <1>1, <3>2, <3>3 DEF EventIsDue, RawIncoming, Response, Notification
      <4>2. reply'[hand.of] = reply[hand.of]
        BY <1>4, <3>2, <3>3, <4>1, RepliesStay DEF EventIsDue
      <4>3. QED
        BY <3>1, <3>2, <3>3, <4>2 DEF EventIsDue
    <3>4. CASE hand.type # "response"
      BY <3>1, <3>2, <3>4 DEF EventIsDue
    <3>5. QED
      BY <3>3, <3>4
  <2>3. QED
    BY <2>1, <2>2
<1>5. QED
  BY <1>3, <1>4

\* Handling takes the first unresolved message, and no handler but its own.
LEMMA HandledFlight ==
  ASSUME IInv, ReadHandle
  PROVE  InFlightOnce(RequestsOnWire \o RequestsOf(Unwritten), OwedRequests, s2c, Held')
<1> DEFINE out == RequestsOnWire \o RequestsOf(Unwritten)
           owing == OwedRequests
           msgs == Unresolved
           held0 == Held
           h == Held'
<1>1. PICK log \in Logs : Numbered(log, Waiting, RawsInTransit \cup Range(Unwritten), Unhandled)
  BY DEF IInv, NumberingInv, IdsInOrder
<1>2. /\ reader = "lock" /\ hand \in Message /\ hand \in Unhandled
      /\ msgs \in Seq(Message) /\ msgs # <<>> /\ Head(msgs) = hand /\ Tail(msgs) = s2c
  BY UnresolvedIs DEF ReadHandle, Unhandled
<1>3. InFlightOnce(out, owing, msgs, held0)
  BY <1>2 DEF IInv, Reading
<1>4. held0 \ (IF hand.type = "response" THEN {hand.of} ELSE {}) \subseteq h
  <2>1. CASE UNCHANGED trackerVars
    BY <2>1 DEF trackerVars, Held
  <2>2. CASE hand \in RawIncoming /\ HandleIncoming(hand)
    <3>1. PICK msg : msg = hand
      OBVIOUS
    <3>2. msg \in Unhandled /\ msg \in RawIncoming /\ HandleIncoming(msg)
      BY <1>2, <2>2, <3>1
    <3>3. Held \ (IF msg.type = "response" THEN {msg.of} ELSE {}) \subseteq Held'
      BY <1>1, <3>2, ClientTypes, HandledIsHeld
    <3>4. QED
      BY <3>1, <3>3
  <2>3. QED
    BY <1>2, <2>1, <2>2 DEF ReadHandle, Message
<1> HIDE DEF out, owing, msgs, held0, h
<1>5. InFlightOnce(out, owing, Tail(msgs), h)
  BY <1>2, <1>3, <1>4, InFlightHandled
<1>6. QED
  BY <1>2, <1>5 DEF out, owing, h

\* What is lost or written leaves the rest in flight once.
LEMMA WrittenFlight ==
  ASSUME IInv, WireTypeOK', WriteSend \/ WriterDrops, Reading
  PROVE  InFlightOnce(RequestsOnWire', OwedRequests, Unresolved, Held)
<1> DEFINE out == RequestsOnWire \o RequestsOf(Unwritten)
<1>1. InFlightOnce(out, OwedRequests, Unresolved, Held) /\ WireTypeOK
  BY ClientTypes DEF IInv
<1>2. PICK a, b, c \in Seq(Req) : out = a \o b \o c /\ RequestsOnWire' = a \o c
  <2>1. CASE WriteSend /\ WriteLine(work)
    <3>1. Unwritten = work /\ work \in Seq(RawRequest)
      BY <2>1, ClientTypes DEF WriteSend, Unwritten
    <3>2. QED
      BY <1>1, <2>1, <3>1, WriteLineMoves
  <2>2. CASE WriteSend /\ WriteFails
    <3>1. out = RequestsOnWire \o RequestsOf(Unwritten) \o <<>> /\ <<>> \in Seq(Req)
      <4> DEFINE x == RequestsOnWire
                 y == RequestsOf(Unwritten)
      <4>1. x \in Seq(Req) /\ y \in Seq(Req)
        BY ClientTypes
      <4> HIDE DEF x, y
      <4>2. x \o y = x \o y \o <<>>
        <5> DEFINE xy == x \o y
        <5>1. xy \in Seq(Req)
          BY <4>1, ConcatProperties
        <5> HIDE DEF xy
        <5>2. QED
          BY <5>1, ConcatEmptySeq DEF xy
      <4>3. QED
        BY <4>2 DEF x, y
    <3>2. RequestsOnWire' = RequestsOnWire /\ RequestsOnWire = RequestsOnWire \o <<>>
      BY <2>2, ClientTypes, ConcatEmptySeq DEF WriteFails, RequestsOnWire
    <3>3. QED
      BY <3>1, <3>2, ClientTypes
  <2>3. CASE WriterDrops
    <3>1. out = RequestsOnWire
      BY <2>3, NothingUnwritten DEF WriterDrops
    <3>2. QED
      BY <1>1, <2>3, <3>1, DropHeldMoves DEF WriterDrops
  <2>4. QED
    BY <2>1, <2>2, <2>3 DEF WriteSend
<1>3. InFlightOnce(a \o b \o c, OwedRequests, Unresolved, Held)
  BY <1>1, <1>2
<1>4. AnsweredBy(Unresolved) \cap OwedRequests = {}
  BY <1>3 DEF InFlightOnce
<1>5. InFlightOnce(a \o c, OwedRequests, Unresolved, Held)
  BY <1>3, <1>4, InFlightLess
<1>6. QED
  BY <1>2, <1>5

\* Every step preserves the invariant.
LEMMA FlightStep == ASSUME EnoughIds PROVE IInv /\ [Next]_vars => IInv'
<1> SUFFICES ASSUME IInv, [Next]_vars PROVE IInv'
  OBVIOUS
<1> DEFINE Out == RequestsOnWire \o RequestsOf(Unwritten)
           Flight == InFlightOnce(Out, OwedRequests, Unresolved, Held)
<1>1. NumberingInv' /\ NumberingInv
  BY InvariantStep DEF IInv
<1>2. WireTypeOK /\ WireTypeOK' /\ TypeOK'
  BY <1>1 DEF NumberingInv, OwnershipInv, TypeOK, ConnectionTypeOK
<1>3. Reading => Flight
  BY DEF IInv
<1>4. ASSUME Reading' => Flight' PROVE IInv'
  BY <1>1, <1>4, EventStep DEF IInv
<1>5. ASSUME UNCHANGED <<pending, c2s, held, owed, s2c, Unwritten>>, Reading' => Reading,
             (reader' = "lock") = (reader = "lock"), hand' = hand \/ reader # "lock"
      PROVE  IInv'
  BY <1>3, <1>4, <1>5 DEF IInv, RequestsOnWire, OwedRequests, Held, Unresolved
<1>6. CASE ReadNext
  <2>1. CASE ReadMessage /\ hand' = Head(s2c) /\ reader' = "lock"
    <3>1. <<Head(s2c)>> \o Tail(s2c) = s2c
      BY <1>2, <2>1 DEF ReadMessage, WireTypeOK
    <3>2. Unresolved' = Unresolved
      <4>1. Unresolved = s2c
        BY <1>6, UnresolvedIs DEF ReadNext
      <4>2. Unresolved' = <<Head(s2c)>> \o Tail(s2c)
        BY <2>1 DEF Unresolved, ReadMessage
      <4>3. QED
        BY <3>1, <4>1, <4>2
    <3>3. UNCHANGED <<pending, RequestsOnWire, OwedRequests, Unwritten>> /\ Reading
      BY <1>6 DEF ReadNext, trackerVars, serverVars, RequestsOnWire, OwedRequests, Unwritten, Reading
    <3>4. QED
      BY <1>3, <1>4, <3>2, <3>3 DEF Held
  <2>2. CASE reader' = "exit"
    BY <1>4, <2>2 DEF Reading
  <2>3. QED
    BY <1>6, <2>1, <2>2 DEF ReadNext
<1>7. CASE ReadHandle
  <2>1. InFlightOnce(Out, OwedRequests, s2c, Held')
    BY <1>7, HandledFlight
  <2>2. UNCHANGED <<Out, OwedRequests>>
    BY <1>7 DEF ReadHandle, wireVars, serverVars, RequestsOnWire, OwedRequests, Unwritten
  <2>3. Unresolved' = s2c
    <3>1. reader' # "lock" /\ s2c' = s2c /\ s2c \in Seq(Message)
      BY <1>2, <1>7 DEF ReadHandle, wireVars, WireTypeOK
    <3>2. <<>> \o s2c = s2c
      BY <3>1, ConcatEmptySeq
    <3>3. QED
      BY <3>1, <3>2 DEF Unresolved
  <2>4. QED
    BY <1>4, <2>1, <2>2, <2>3
<1>8. CASE WriteTrack
  <2>1. CASE ~poisoned
    <3>1. /\ UNCHANGED <<RequestsOnWire, OwedRequests, Unresolved, Reading>>
          /\ writer = "lock" /\ writer' = "write" /\ Unwritten' = work'
      BY <1>8, <2>1 DEF WriteTrack, wireVars, serverVars, RequestsOnWire, OwedRequests,
                        Unresolved, Reading, Unwritten
    <3>2. /\ work \in Seq(Req) /\ IsInjective(work) /\ Range(work) \cap Held = {}
          /\ Held' = Held \cup Range(work) /\ RequestsOf(work') = work
      BY <1>8, <2>1, WorkIsTracked
    <3>3. ASSUME Reading PROVE Flight'
      <4>1. InFlightOnce(RequestsOnWire, OwedRequests, Unresolved, Held) /\ RequestsOnWire \in Seq(Req)
        BY <1>3, <3>1, <3>3, NothingUnwritten, ClientTypes
      <4>2. InFlightOnce(RequestsOnWire \o work, OwedRequests, Unresolved, Held \cup Range(work))
        BY <3>2, <4>1, InFlightTracked
      <4>3. QED
        BY <3>1, <3>2, <4>2
    <3>4. QED
      BY <1>4, <3>1, <3>3
  <2>2. CASE poisoned
    <3>1. /\ UNCHANGED <<pending, c2s, held, owed, s2c, reader, hand, work>>
          /\ writer # "write" /\ writer' # "write"
      BY <1>8, <2>2 DEF WriteTrack, trackerVars, wireVars, serverVars
    <3>2. QED
      BY <1>5, <3>1 DEF Unwritten, Reading
  <2>3. QED
    BY <2>1, <2>2
<1>9. CASE WriteSend \/ WriterDrops
  <2>1. UNCHANGED <<OwedRequests, Unresolved, Held, Reading>> /\ Unwritten' = <<>>
    BY <1>9, ClientTypes DEF WriteSend, WriterDrops, DropHeld, OwedRequests, Unresolved, Held,
       Reading, trackerVars, serverVars, threadVars, Unwritten
  <2>2. Out' = RequestsOnWire'
    BY <1>2, <2>1, LinesOfNone, WireBecomes, ConcatEmptySeq
  <2>3. ASSUME Reading PROVE Flight'
    BY <1>2, <1>9, <2>1, <2>2, <2>3, WrittenFlight
  <2>4. QED
    BY <1>4, <2>1, <2>3
<1>10. CASE Server
  <2>1. ServerNext /\ UNCHANGED <<Held, reader, hand, Unwritten>>
    BY <1>10 DEF Server, trackerVars, threadVars, Held, Unwritten
  <2>2. ASSUME Reading PROVE Flight'
    <3> DEFINE X == RequestsOf(Unwritten)
               P == IF reader = "lock" THEN <<hand>> ELSE <<>>
    <3>1. OwedOnce
      <4>1. PICK log \in Logs :
              Numbered(log, Waiting, RawsInTransit \cup Range(Unwritten), Unhandled)
        BY DEF IInv, NumberingInv, IdsInOrder
      <4>2. owed \subseteq RawsInTransit \cup Range(Unwritten)
        BY DEF RawsInTransit
      <4>3. QED
        BY <1>2, <4>1, <4>2, NumberedOnce
    <3>2. P \in Seq(Message) /\ Unresolved = P \o s2c /\ Unresolved' = P \o s2c'
      <4>1. P \in Seq(Message)
        BY UnresolvedIs
      <4>2. QED
        BY <2>1, <4>1 DEF Unresolved
    <3>3. X \in Seq(Req) /\ InFlightOnce(RequestsOnWire \o X, OwedRequests, P \o s2c, Held)
      BY <1>3, <2>2, <3>2, ClientTypes
    <3> HIDE DEF X, P
    <3>4. InFlightOnce(RequestsOnWire' \o X, OwedRequests', P \o s2c', Held)
      BY <1>2, <2>1, <3>1, <3>2, <3>3, ServerFlight
    <3>5. QED
      BY <2>1, <3>2, <3>4 DEF X
  <2>3. QED
    BY <1>4, <2>1, <2>2 DEF Reading
<1>11. CASE ReadExit \/ WriteExit
  <2>1. CASE ReadExit
    BY <1>4, <2>1 DEF ReadExit, Reading
  <2>2. CASE WriteExit /\ reader = "done"
    BY <1>4, <2>2 DEF WriteExit, Reading
  <2>3. CASE WriteExit /\ reader # "done"
    <3>1. /\ UNCHANGED <<pending, c2s, held, owed, s2c, reader, hand>>
          /\ writer # "write" /\ writer' # "write"
      BY <2>3 DEF WriteExit, Released, wireVars, serverVars
    <3>2. QED
      BY <1>5, <3>1 DEF Unwritten, Reading
  <2>4. QED
    BY <1>11, <2>1, <2>2, <2>3
<1>12. CASE ReadEmit \/ CallbackReturns \/ CallbackPanics
  <2>1. /\ UNCHANGED <<pending, c2s, held, owed, s2c, writer, work>>
        /\ reader \in {"emit", "callback"} /\ reader' # "lock"
    BY <1>12 DEF ReadEmit, CallbackReturns, CallbackPanics, connVars, trackerVars, wireVars, serverVars
  <2>2. QED
    BY <1>5, <2>1 DEF Unwritten, Reading
<1>13. CASE \/ \E batch \in Submissions : CallerSends(batch)
            \/ \E r \in Req : CallerAbandons(r)
            \/ \E r \in CallReq : CallbackCalls(r)
            \/ DropClient \/ DropEvents \/ WriteRecv \/ UNCHANGED vars
  <2>1. /\ UNCHANGED <<pending, c2s, held, owed, s2c, reader, hand>>
        /\ UNCHANGED <<writer, work>> \/ (writer # "write" /\ writer' # "write")
    BY <1>13 DEF CallerSends, SendBatch, CallerAbandons, AbandonReply, CallbackCalls, DropClient,
                 CloseChannel, DropEvents, WriteRecv, vars, connVars, trackerVars, wireVars,
                 serverVars, threadVars
  <2>2. QED
    BY <1>5, <2>1 DEF Unwritten, Reading
<1>14. QED
  BY <1>6, <1>7, <1>8, <1>9, <1>10, <1>11, <1>12, <1>13 DEF Next, Read, Write

-----------------------------------------------------------------------------
(***************************************************************************)
(* The steps, mapped to those of the contract.                             *)
(***************************************************************************)

ContractStep == [Contract!Next]_(Contract!vars)

\* Operators that the contract and the model both have.  The contract cancels
\* those of its requests that wait.
LEMMA ContractOperators ==
  /\ \A s : Contract!Range(s) = Range(s)
  /\ \A S, n : Contract!SeqOf(S, n) = SeqOf(S, n)
  /\ Contract!Cardinality(Req) = Cardinality(Req)
BY Zenon DEF Contract!Range, Range, Contract!SeqOf, SeqOf, Contract!Cardinality, Cardinality

\* The contract sees the replies as they are, unless an event waits to be sent.
LEMMA RepliesAre ==
  ASSUME IInv
  PROVE  /\ reader # "emit" \/ hand.type # "response" => ReplyOnceEmitted = reply
         /\ reader = "emit" /\ hand.type = "response" =>
              /\ hand \in Response /\ hand.of \in EventReq
              /\ hand.result \in {"ok", "error"} /\ reply[hand.of] = hand.result
              /\ ReplyOnceEmitted = [reply EXCEPT ![hand.of] = "open"]
<1>1. reply \in [Req -> Outcomes] /\ EventReq \subseteq Req
  BY ClientTypes, TrackerAssumption DEF TrackerTypeOK
<1>2. ASSUME reader # "emit" \/ hand.type # "response" PROVE ReplyOnceEmitted = reply
  BY <1>1, <1>2 DEF ReplyOnceEmitted
<1>3. ASSUME reader = "emit", hand.type = "response"
      PROVE  /\ hand \in Response /\ hand.of \in EventReq
             /\ hand.result \in {"ok", "error"} /\ reply[hand.of] = hand.result
             /\ ReplyOnceEmitted = [reply EXCEPT ![hand.of] = "open"]
  <2>1. EventIsDue /\ hand \in RawIncoming
    BY <1>3, ClientTypes DEF IInv, TypeOK
  <2>2. hand \in Response /\ hand.of \in EventReq /\ hand.result # "malformed"
        /\ reply[hand.of] = hand.result
    BY <1>3, <2>1 DEF EventIsDue, RawIncoming, Notification
  <2>3. hand.result \in {"ok", "error"}
    BY <2>2 DEF Response
  <2>4. ReplyOnceEmitted = [reply EXCEPT ![hand.of] = "open"]
    BY <1>1, <1>3, <2>2 DEF ReplyOnceEmitted
  <2>5. QED
    BY <2>2, <2>3, <2>4
<1>4. QED
  BY <1>2, <1>3

\* Dropping handlers of requests that were never resolved looks the same to the
\* contract.
LEMMA DropsAreCancellations ==
  ASSUME IInv, NEW R, reply' = Dropped(R), UNCHANGED <<reader, hand>>,
         \A r \in EventReq : r \in R => reply[r] = "open"
  PROVE  ReplyOnceEmitted' = Contract!Canceled(R)
<1>1. reply \in [Req -> Outcomes] /\ EventReq \subseteq Req
  BY ClientTypes, TrackerAssumption DEF TrackerTypeOK
<1>2. CASE reader # "emit" \/ hand.type # "response"
  <2>1. ReplyOnceEmitted = reply
    BY <1>2, RepliesAre
  <2>2. ReplyOnceEmitted' = reply'
    BY <1>1, <1>2 DEF ReplyOnceEmitted, Dropped
  <2>3. QED
    BY <2>1, <2>2 DEF Dropped, Contract!Canceled
<1>3. CASE reader = "emit" /\ hand.type = "response"
  <2>1. /\ hand.of \in EventReq /\ reply[hand.of] # "open"
        /\ ReplyOnceEmitted = [reply EXCEPT ![hand.of] = "open"]
    BY <1>3, RepliesAre
  <2>2. hand.of \notin R
    BY <2>1
  <2>3. ReplyOnceEmitted' = [r \in Req |-> IF r = hand.of THEN "open" ELSE Dropped(R)[r]]
    BY <1>3 DEF ReplyOnceEmitted
  <2>4. Contract!Canceled(R) =
          [r \in Req |-> IF r \in R /\ ReplyOnceEmitted[r] = "open" THEN "canceled"
                         ELSE ReplyOnceEmitted[r]]
    BY DEF Contract!Canceled
  <2>5. QED
    BY <1>1, <2>1, <2>2, <2>3, <2>4 DEF Dropped
<1>4. QED
  BY <1>2, <1>3

\* The outbox, in the order in which its parts reach the server.
LEMMA OutboxIs ==
  ASSUME IInv
  PROVE  /\ Outbox \in Seq(Req)
         /\ Outbox = RequestsOnWire \o (InWork \o FlattenSeq(chan))
         /\ InWork \o FlattenSeq(chan) \in Seq(Req)
         /\ work = <<>> => Outbox = RequestsOnWire \o FlattenSeq(chan)
<1> DEFINE x == RequestsOnWire
           y == InWork
           z == FlattenSeq(chan)
<1>1. x \in Seq(Req) /\ y \in Seq(Req) /\ z \in Seq(Req)
  BY ClientTypes
<1>2. x \o (y \o z) = (x \o y) \o z /\ (x \o y) \o z \in Seq(Req) /\ y \o z \in Seq(Req)
  <2> HIDE DEF x, y, z
  <2>1. x \o y \in Seq(Req) /\ y \o z \in Seq(Req)
    BY <1>1, ConcatProperties
  <2>2. (x \o y) \o z \in Seq(Req)
    BY <1>1, <2>1, ConcatProperties
  <2>3. QED
    BY <1>1, <2>1, <2>2, Regrouped
<1>3. work = <<>> => x \o y = x
  <2>1. work = <<>> => InWork = <<>>
    BY LinesOfNone DEF InWork
  <2>2. x \o <<>> = x
    <3> HIDE DEF x
    <3>1. QED
      BY <1>1, ConcatEmptySeq
  <2>3. QED
    BY <2>1, <2>2
<1>4. QED
  BY <1>2, <1>3 DEF Outbox

\* What a step leaves as it was for the contract.
LEMMA SeenAsBefore ==
  ASSUME UNCHANGED <<sent, reply, chanState, owed, s2c, events, reader, hand>>
  PROVE  UNCHANGED <<Sent, ReplyOnceEmitted, chanState = "open", OwedRequests,
                     WithoutIds(InReaderHand \o s2c), WithoutIds(events), Reading>>
BY DEF Sent, ReplyOnceEmitted, OwedRequests, WithoutIds, InReaderHand, Reading

\* What the write thread or a closed server loses, from the middle of the
\* outbox.
LEMMA LosesMiddle ==
  ASSUME NEW a \in Seq(Req), NEW b \in Seq(Req), NEW c \in Seq(Req),
         Outbox = a \o b \o c, Outbox' = a \o c,
         Writing' => Writing, ~Writing' \/ peer = "closed",
         UNCHANGED <<sent, reply, chanState, owed, s2c, events, reader, hand, listening, peer>>
  PROVE  ContractStep
<1>1. PICK from, to \in 0 .. Len(Outbox) : from <= to /\ Cut(Outbox, from, to) = Outbox'
  BY MiddleCut, Zenon
<1>2. UNCHANGED <<Sent, ReplyOnceEmitted, chanState = "open", OwedRequests,
                  WithoutIds(InReaderHand \o s2c), WithoutIds(events), Reading>>
  BY SeenAsBefore
<1>3. Contract!Lose(from, to)
  BY <1>1, <1>2 DEF Contract!Lose, Contract!MayStop, Cut
<1>4. QED
  BY <1>1, <1>3 DEF ContractStep, Contract!Next

\* So it is before what is not on the wire yet.
LEMMA LosesBefore ==
  ASSUME NEW a \in Seq(Req), NEW b \in Seq(Req), NEW c \in Seq(Req), NEW z \in Seq(Req)
  PROVE  /\ Outbox = (a \o b \o c) \o z /\ Outbox' = (a \o c) \o z
         /\ Writing' => Writing
         /\ ~Writing' \/ peer = "closed"
         /\ UNCHANGED <<sent, reply, chanState, owed, s2c, events, reader, hand, listening, peer>>
         => ContractStep
<1>1. LosesOnly(a, b, (a \o b \o c) \o z, (a \o c) \o z)
  BY CutBefore, Zenon
<1>2. SUFFICES ASSUME Outbox = (a \o b \o c) \o z, Outbox' = (a \o c) \o z,
                      Writing' => Writing, ~Writing' \/ peer = "closed",
                      UNCHANGED <<sent, reply, chanState, owed, s2c, events, reader, hand,
                                  listening, peer>>
               PROVE  ContractStep
  OBVIOUS
<1>3. PICK d \in Seq(Req) : Outbox = a \o b \o d /\ Outbox' = a \o d
  BY <1>1, <1>2, Zenon DEF LosesOnly
<1>4. QED
  BY <1>2, <1>3, LosesMiddle

\* The contract sees nothing of a step, but that a thread may stop with it.
LEMMA StopsOrStutters ==
  ASSUME Reading' => Reading, Writing' => Writing, Outbox' = Outbox,
         UNCHANGED <<sent, ReplyOnceEmitted, chanState, owed, WithoutIds(InReaderHand \o s2c),
                     events, listening, peer>>
  PROVE  ContractStep
<1>1. UNCHANGED <<Sent, OwedRequests, WithoutIds(events), chanState = "open">>
  BY DEF Sent, OwedRequests, WithoutIds
<1>2. Contract!Stop
  BY <1>1 DEF Contract!Stop, Contract!MayStop
<1>3. QED
  BY <1>2 DEF ContractStep, Contract!Next

\* A batch goes to the end of the outbox, or comes back.
LEMMA SendStep ==
  ASSUME EnoughIds, IInv, NEW b \in Seq(Req), IsInjective(b), Range(b) \subseteq Req \ Sent,
         SendBatch(b),
         UNCHANGED <<eventVars, wireVars, serverVars, reader, hand, writer, work>>
  PROVE  ContractStep
<1>1. Sent' = Sent \cup Range(b)
  BY ClientTypes, SentGrows DEF SendBatch
<1>2. ASSUME chanState = "open" PROVE Outbox' = Outbox \o b
  <2>1. FlattenSeq(chan') = FlattenSeq(chan) \o b
    BY <1>2, ClientTypes, FlattenAppended DEF SendBatch, ChannelsTypeOK
  <2> DEFINE x == RequestsOnWire \o InWork
             y == FlattenSeq(chan)
  <2>2. x \in Seq(Req) /\ y \in Seq(Req) /\ b \in Seq(Req)
    BY ClientTypes, ConcatProperties
  <2>3. x \o (y \o b) = (x \o y) \o b
    <3> HIDE DEF x, y
    <3>1. QED
      BY <2>2, Regrouped
  <2>4. x' = x
    BY DEF RequestsOnWire, InWork, wireVars
  <2>5. QED
    BY <2>1, <2>3, <2>4 DEF Outbox
<1>3. chanState # "open" => Outbox' = Outbox
  BY DEF SendBatch, Outbox, RequestsOnWire, InWork, wireVars
<1>4. IF chanState = "open" THEN ReplyOnceEmitted' = ReplyOnceEmitted
      ELSE ReplyOnceEmitted' = Contract!Canceled(Range(b))
  <2>1. CASE chanState = "open"
    BY <2>1 DEF SendBatch, ReplyOnceEmitted
  <2>2. CASE chanState # "open"
    <3>1. reply' = Dropped(Range(b))
      BY <2>2 DEF SendBatch
    <3>2. \A r \in EventReq : r \in Range(b) => reply[r] = "open"
      BY ClientTypes DEF HandlersOwned
    <3>3. QED
      BY <2>2, <3>1, <3>2, DropsAreCancellations
  <2>3. QED
    BY <2>1, <2>2
<1>5. UNCHANGED <<OwedRequests, WithoutIds(InReaderHand \o s2c), WithoutIds(events), listening,
                  Reading, Writing, peer, chanState = "open">>
  BY DEF SendBatch, OwedRequests, WithoutIds, InReaderHand, Reading, Writing,
         eventVars, wireVars, serverVars
<1>6. Contract!Send(b)
  BY <1>1, <1>2, <1>3, <1>4, <1>5, ContractOperators DEF Contract!Send
<1>7. b \in SeqOf(Req \ Sent, Cardinality(Req))
  <2>1. Len(b) <= Cardinality(Req) /\ Cardinality(Req) \in Nat /\ Len(b) \in Nat
    BY InjectiveLength, FS_CardinalityType DEF EnoughIds
  <2>2. Len(b) \in 0 .. Cardinality(Req) /\ b \in [1 .. Len(b) -> Req \ Sent]
    BY <2>1 DEF Range
  <2>3. QED
    BY <2>2, Zenon DEF SeqOf
<1>8. QED
  BY <1>6, <1>7, ContractOperators DEF ContractStep, Contract!Next

\* What callers do but send is a step of the contract.
LEMMA CallerStep ==
  ASSUME IInv, (\E r \in Req : CallerAbandons(r)) \/ DropClient \/ DropEvents
  PROVE  ContractStep
<1>1. UNCHANGED <<Sent, Outbox, OwedRequests, WithoutIds(InReaderHand \o s2c), WithoutIds(events),
                  Reading, Writing, peer>>
  BY DEF CallerAbandons, AbandonReply, DropClient, CloseChannel, DropEvents, DropEventReceiver,
         callerVars, eventVars, wireVars, serverVars, threadVars,
         Sent, Outbox, RequestsOnWire, InWork, OwedRequests, WithoutIds, InReaderHand, Reading, Writing
<1>2. ASSUME NEW r \in Req, CallerAbandons(r) PROVE Contract!Abandon(r)
  <2>1. /\ r \in Sent /\ reply[r] = "open" /\ r \notin EventReq
        /\ reply' = [reply EXCEPT ![r] = "abandoned"]
        /\ UNCHANGED <<chanState, listening, reader, hand>>
    BY <1>2 DEF CallerAbandons, AbandonReply, callerVars, eventVars, threadVars
  <2>2. reply \in [Req -> Outcomes]
    BY ClientTypes DEF TrackerTypeOK
  <2>3. /\ ReplyOnceEmitted[r] = "open"
        /\ ReplyOnceEmitted' = [ReplyOnceEmitted EXCEPT ![r] = "abandoned"]
    <3>1. CASE reader = "emit" /\ hand.type = "response"
      <4>1. hand.of # r /\ hand.of \in EventReq
        BY <2>1, <3>1, RepliesAre
      <4>2. QED
        BY <2>1, <2>2, <3>1, <4>1 DEF ReplyOnceEmitted
    <3>2. CASE ~(reader = "emit" /\ hand.type = "response")
      BY <2>1, <2>2, <3>2 DEF ReplyOnceEmitted
    <3>3. QED
      BY <3>1, <3>2
  <2>4. QED
    BY <1>1, <2>1, <2>3 DEF Contract!Abandon
<1>3. CASE DropClient
  <2>1. UNCHANGED <<ReplyOnceEmitted, listening>> /\ (chanState = "open")' = FALSE
    BY <1>3 DEF DropClient, CloseChannel, trackerVars, eventVars, threadVars, ReplyOnceEmitted
  <2>2. Contract!StopAccepting
    BY <1>1, <2>1 DEF Contract!StopAccepting
  <2>3. QED
    BY <2>2 DEF ContractStep, Contract!Next
<1>4. CASE DropEvents
  <2>1. UNCHANGED <<ReplyOnceEmitted, chanState>> /\ listening' = FALSE
    BY <1>4 DEF DropEvents, DropEventReceiver, trackerVars, callerVars, threadVars, ReplyOnceEmitted
  <2>2. Contract!StopListening
    BY <1>1, <2>1 DEF Contract!StopListening
  <2>3. QED
    BY <2>2 DEF ContractStep, Contract!Next
<1>5. QED
  BY <1>2, <1>3, <1>4 DEF ContractStep, Contract!Next

\* The first message of the inbox is the one in the hand of the read thread.
LEMMA InboxIs ==
  ASSUME IInv
  PROVE  /\ s2c \in Seq(Message)
         /\ reader \notin {"lock", "emit"} => InReaderHand \o s2c = s2c
         /\ reader \in {"lock", "emit"} =>
              /\ hand \in Message
              /\ WithoutIds(InReaderHand \o s2c) # <<>>
              /\ Head(WithoutIds(InReaderHand \o s2c)) = WithoutId(hand)
              /\ Tail(WithoutIds(InReaderHand \o s2c)) = WithoutIds(s2c)
<1>1. s2c \in Seq(Message)
  BY ClientTypes DEF WireTypeOK
<1>2. ASSUME reader \notin {"lock", "emit"} PROVE InReaderHand \o s2c = s2c
  <2>1. <<>> \o s2c = s2c
    BY <1>1, ConcatEmptySeq
  <2>2. QED
    BY <1>2, <2>1 DEF InReaderHand
<1>3. ASSUME reader \in {"lock", "emit"}
      PROVE  /\ hand \in Message
             /\ WithoutIds(InReaderHand \o s2c) # <<>>
             /\ Head(WithoutIds(InReaderHand \o s2c)) = WithoutId(hand)
             /\ Tail(WithoutIds(InReaderHand \o s2c)) = WithoutIds(s2c)
  <2> DEFINE u == <<hand>> \o s2c
  <2>1. hand \in Message
    BY <1>3, ClientTypes DEF TypeOK, Message
  <2>2. u \in Seq(Message) /\ u # <<>> /\ Head(u) = hand /\ Tail(u) = s2c
    BY <1>1, <2>1
  <2>3. InReaderHand \o s2c = u
    BY <1>3 DEF InReaderHand
  <2> HIDE DEF u
  <2>4. /\ WithoutIds(u) # <<>> /\ Head(WithoutIds(u)) = WithoutId(hand)
        /\ Tail(WithoutIds(u)) = WithoutIds(s2c)
    BY <2>2, WithoutIdsTaken
  <2>5. QED
    BY <2>1, <2>3, <2>4
<1>4. QED
  BY <1>1, <1>2, <1>3

\* A message that is read stays in the inbox.
LEMMA ReadNextStep ==
  ASSUME IInv, ReadNext
  PROVE  ContractStep
<1>1. /\ reader = "read" /\ reader' # "emit"
      /\ UNCHANGED <<sent, reply, chanState, chan, held, c2s, owed, events, listening, peer,
                     writer, work>>
  BY DEF ReadNext, trackerVars, callerVars, eventVars, serverVars
<1>2. UNCHANGED <<Outbox, ReplyOnceEmitted, Writing>> /\ Reading
  BY <1>1 DEF Outbox, RequestsOnWire, InWork, ReplyOnceEmitted, Writing, Reading
<1>3. InReaderHand' \o s2c' = InReaderHand \o s2c
  <2>1. InReaderHand \o s2c = s2c /\ s2c \in Seq(Message)
    BY <1>1, InboxIs
  <2>2. CASE ReadMessage /\ hand' = Head(s2c) /\ reader' = "lock"
    <3>1. InReaderHand' = <<Head(s2c)>> /\ s2c' = Tail(s2c) /\ s2c # <<>>
      BY <2>2 DEF InReaderHand, ReadMessage
    <3>2. <<Head(s2c)>> \o Tail(s2c) = s2c
      BY <2>1, <3>1
    <3>3. QED
      BY <2>1, <3>1, <3>2
  <2>3. CASE reader' = "exit" /\ UNCHANGED <<s2c, hand>>
    <3>1. InReaderHand' = InReaderHand
      BY <1>1, <2>3 DEF InReaderHand
    <3>2. QED
      BY <2>3, <3>1
  <2>4. QED
    BY <2>2, <2>3 DEF ReadNext
<1>4. UNCHANGED WithoutIds(InReaderHand \o s2c)
  BY <1>3 DEF WithoutIds
<1>5. QED
  BY <1>1, <1>2, <1>4, StopsOrStutters

\* A message takes effect when it is handled, unless it gives an event.
LEMMA ReadHandleStep ==
  ASSUME IInv, ReadHandle
  PROVE  ContractStep
<1> DEFINE m == WithoutId(hand)
           Usable == \/ m.type = "response" /\ m.result # "malformed"
                     \/ m.type = "notification" /\ m.params # "malformed"
           IsEvent == Usable /\ (m.type = "response" => m.of \in EventReq)
           inbox == WithoutIds(InReaderHand \o s2c)
<1>1. /\ reader = "lock" /\ hand \in Message
      /\ UNCHANGED <<sent, chan, chanState, held, c2s, s2c, owed, events, listening, peer,
                     writer, work>>
  BY InboxIs DEF ReadHandle, callerVars, eventVars, wireVars, serverVars
<1>2. UNCHANGED <<Sent, chanState = "open", Outbox, OwedRequests, WithoutIds(events), Writing>> /\ Reading
  BY <1>1 DEF Sent, Outbox, RequestsOnWire, InWork, OwedRequests, WithoutIds, Writing, Reading
<1>3. inbox # <<>> /\ Head(inbox) = m /\ Tail(inbox) = WithoutIds(s2c)
  BY <1>1, InboxIs
<1>4. reply \in [Req -> Outcomes] /\ EventReq \subseteq Req /\ ReplyOnceEmitted = reply
  BY <1>1, ClientTypes, TrackerAssumption, RepliesAre DEF TrackerTypeOK
<1>5. ASSUME hand.type = "response"
      PROVE  m = [type |-> "response", of |-> hand.of, result |-> hand.result]
  BY <1>5 DEF WithoutId
<1>6. ASSUME hand.type # "response"
      PROVE  m = hand /\ UNCHANGED reply /\ (hand = Garbage \/ hand.type = "notification")
  <2>1. m = hand /\ UNCHANGED reply
    BY <1>6 DEF WithoutId, ReadHandle, HandleIncoming, IsKnownResponse, trackerVars
  <2>2. hand = Garbage \/ hand.type = "notification"
    BY <1>1, <1>6 DEF Message, RawIncoming, Notification, Response
  <2>3. QED
    BY <2>1, <2>2
<1>7. Usable <=> hand # Garbage /\ ~IsProcessError(hand)
  BY <1>5, <1>6, HandledResponse DEF IsProcessError, Garbage
<1>8. IsEvent <=> hand # Garbage /\ GivesEvent(hand)
  <2>1. CASE hand.type = "response"
    BY <1>5, <1>7, <2>1, HandledResponse DEF GivesEvent
  <2>2. CASE hand.type # "response"
    BY <1>6, <1>7, <2>2 DEF GivesEvent
  <2>3. QED
    BY <2>1, <2>2
<1>9. /\ ~Usable => reader' = "exit"
      /\ Usable => reader' \in {"callback", "emit", "read"} /\ (reader' = "emit" => IsEvent)
      /\ IsEvent => reader' = "emit"
  <2>1. /\ ~(GivesEvent(hand) /\ RunsCallback(hand))
        /\ IsProcessError(hand) => ~GivesEvent(hand) /\ ~RunsCallback(hand)
    BY ConnectionAssumption DEF GivesEvent, RunsCallback
  <2>2. IsEvent => Usable
    OBVIOUS
  <2> HIDE DEF m, Usable, IsEvent
  <2>3. CASE ~Usable
    BY <1>7, <2>1, <2>2, <2>3 DEF ReadHandle
  <2>4. CASE Usable
    <3>1. reader' = CASE IsProcessError(hand) -> "exit"
                      [] RunsCallback(hand) -> "callback"
                      [] GivesEvent(hand) -> "emit"
                      [] OTHER -> "read"
      BY <1>7, <2>4 DEF ReadHandle
    <3>2. ~IsProcessError(hand)
      BY <1>7, <2>4
    <3>3. reader' \in {"callback", "emit", "read"}
      BY <3>1, <3>2
    <3>4. reader' = "emit" <=> GivesEvent(hand)
      BY <2>1, <3>1, <3>2
    <3>5. QED
      BY <1>7, <1>8, <2>4, <3>3, <3>4
  <2>5. QED
    BY <2>2, <2>3, <2>4
<1>10. CASE reader' = "emit"
  <2>1. hand' = hand /\ hand.type = hand'.type /\ IsEvent
    BY <1>7, <1>9, <1>10 DEF ReadHandle
  <2>2. UNCHANGED WithoutIds(InReaderHand \o s2c)
    BY <1>1, <1>10, <2>1 DEF InReaderHand, WithoutIds
  <2>3. ReplyOnceEmitted' = ReplyOnceEmitted
    <3>1. CASE hand.type = "response"
      <4>1. hand.of \in EventReq /\ hand.of \in Req
        BY <1>4, <1>5, <2>1, <3>1
      <4>2. reply[hand.of] = "open"
        BY <3>1, <4>1, HandledResponse DEF IInv
      <4>3. reply' = [reply EXCEPT ![hand.of] = Settled(hand.of, hand.result)]
        BY <3>1, HandledResponse
      <4>4. ReplyOnceEmitted' = [r \in Req |-> IF r = hand.of THEN "open" ELSE reply'[r]]
        BY <1>10, <2>1, <3>1 DEF ReplyOnceEmitted
      <4>5. QED
        BY <1>4, <4>1, <4>2, <4>3, <4>4
    <3>2. CASE hand.type # "response"
      BY <1>4, <1>6, <2>1, <3>2 DEF ReplyOnceEmitted
    <3>3. QED
      BY <3>1, <3>2
  <2>4. QED
    BY <1>1, <1>2, <2>2, <2>3, StopsOrStutters
<1>11. CASE reader' # "emit"
  <2>1. WithoutIds(InReaderHand' \o s2c') = Tail(inbox)
    <3>1. InReaderHand' = <<>> /\ s2c' = s2c /\ s2c \in Seq(Message)
      BY <1>1, <1>9, <1>11, InboxIs DEF InReaderHand
    <3>2. <<>> \o s2c = s2c
      BY <3>1, ConcatEmptySeq
    <3>3. QED
      BY <1>3, <3>1, <3>2
  <2>2. ReplyOnceEmitted' = reply'
    <3>1. reply' \in [Req -> Outcomes]
      <4>1. CASE hand.type = "response"
        BY <1>4, <4>1, HandledResponse DEF Settled, Response, Outcomes
      <4>2. CASE hand.type # "response"
        BY <1>4, <1>6, <4>2
      <4>3. QED
        BY <4>1, <4>2
    <3>2. QED
      BY <1>11, <3>1 DEF ReplyOnceEmitted
  <2>3. \/ /\ m.type = "response"
           /\ ReplyOnceEmitted' = [ReplyOnceEmitted EXCEPT ![m.of] =
                IF @ = "abandoned" THEN @
                ELSE IF m.result = "malformed" THEN "canceled" ELSE m.result]
        \/ m.type # "response" /\ UNCHANGED ReplyOnceEmitted
    <3>1. CASE hand.type = "response"
      BY <1>4, <1>5, <2>2, <3>1, HandledResponse DEF Settled
    <3>2. CASE hand.type # "response"
      BY <1>4, <1>6, <2>2, <3>2
    <3>3. QED
      BY <3>1, <3>2
  <2>4. ~IsEvent /\ (~Usable => ~Reading')
    BY <1>9, <1>11 DEF Reading
  <2>5. Contract!Deliver
    <3> HIDE DEF inbox, m
    <3>1. QED
      BY <1>1, <1>2, <1>3, <2>1, <2>3, <2>4 DEF Contract!Deliver, Contract!MayStop, inbox
  <2>6. QED
    BY <2>5 DEF ContractStep, Contract!Next
<1>12. QED
  BY <1>10, <1>11

\* A message that gives an event takes effect when the event is sent, or is
\* found to have no receiver.
LEMMA ReadEmitStep ==
  ASSUME IInv, ReadEmit
  PROVE  ContractStep
<1> DEFINE m == WithoutId(hand)
           Usable == \/ m.type = "response" /\ m.result # "malformed"
                     \/ m.type = "notification" /\ m.params # "malformed"
           IsEvent == Usable /\ (m.type = "response" => m.of \in EventReq)
           inbox == WithoutIds(InReaderHand \o s2c)
<1>1. /\ reader = "emit" /\ reader' \in {"read", "exit"} /\ hand \in RawIncoming
      /\ listening' = listening
      /\ UNCHANGED <<reply, sent, chan, chanState, held, c2s, s2c, owed, peer, writer, work>>
  BY ClientTypes DEF ReadEmit, EmitEvent, TypeOK, trackerVars, callerVars, eventVars, wireVars, serverVars
<1>2. UNCHANGED <<Sent, chanState = "open", Outbox, OwedRequests, Writing>> /\ Reading
  BY <1>1 DEF Sent, Outbox, RequestsOnWire, InWork, OwedRequests, Writing, Reading
<1>3. inbox # <<>> /\ Head(inbox) = m /\ Tail(inbox) = WithoutIds(s2c)
  BY <1>1, InboxIs
<1>4. WithoutIds(InReaderHand' \o s2c') = Tail(inbox)
  <2>1. InReaderHand' = <<>> /\ s2c' = s2c /\ s2c \in Seq(Message)
    BY <1>1, InboxIs DEF InReaderHand
  <2>2. <<>> \o s2c = s2c
    BY <2>1, ConcatEmptySeq
  <2>3. QED
    BY <1>3, <2>1, <2>2
<1>5. IsEvent
  <2>1. CASE hand.type = "response"
    BY <1>1, <2>1, RepliesAre DEF WithoutId
  <2>2. CASE hand.type # "response"
    <3>1. m = hand /\ hand.type = "notification" /\ hand.params = "valid"
      BY <1>1, <2>2 DEF WithoutId, IInv, EventIsDue, RawIncoming, Response, Notification
    <3>2. QED
      BY <2>2, <3>1
  <2>3. QED
    BY <2>1, <2>2
<1>6. \/ /\ m.type = "response"
         /\ ReplyOnceEmitted' = [ReplyOnceEmitted EXCEPT ![m.of] =
              IF @ = "abandoned" THEN @
              ELSE IF m.result = "malformed" THEN "canceled" ELSE m.result]
      \/ m.type # "response" /\ UNCHANGED ReplyOnceEmitted
  <2>1. reply \in [Req -> Outcomes] /\ ReplyOnceEmitted' = reply /\ EventReq \subseteq Req
    <3>1. reply \in [Req -> Outcomes] /\ EventReq \subseteq Req
      BY ClientTypes, TrackerAssumption DEF TrackerTypeOK
    <3>2. QED
      BY <1>1, <3>1 DEF ReplyOnceEmitted
  <2>2. CASE hand.type = "response"
    <3>1. m.type = "response" /\ m.of = hand.of /\ m.result = hand.result
      BY <2>2 DEF WithoutId
    <3>2. /\ hand.of \in Req /\ hand.result \in {"ok", "error"} /\ reply[hand.of] = hand.result
          /\ ReplyOnceEmitted = [reply EXCEPT ![hand.of] = "open"]
      BY <1>1, <2>1, <2>2, RepliesAre
    <3>3. [ReplyOnceEmitted EXCEPT ![hand.of] =
             IF @ = "abandoned" THEN @
             ELSE IF hand.result = "malformed" THEN "canceled" ELSE hand.result] = reply
      BY <2>1, <3>2
    <3> HIDE DEF m
    <3>4. QED
      BY <2>1, <3>1, <3>3
  <2>3. CASE hand.type # "response"
    BY <1>1, <2>1, <2>3, RepliesAre DEF WithoutId
  <2>4. QED
    BY <2>2, <2>3
<1>7. IF listening THEN WithoutIds(events') = Append(WithoutIds(events), m)
      ELSE UNCHANGED WithoutIds(events) /\ ~Reading'
  <2>1. CASE listening
    <3>1. events' = Append(events, hand) /\ events \in Seq(RawIncoming)
      BY <2>1, ClientTypes DEF ReadEmit, EmitEvent, ChannelsTypeOK
    <3>2. QED
      BY <1>1, <2>1, <3>1, WithoutIdsAppended
  <2>2. CASE ~listening
    BY <2>2 DEF ReadEmit, eventVars, WithoutIds, Reading
  <2>3. QED
    BY <2>1, <2>2
<1>8. Contract!Deliver
  <2>1. Usable
    BY <1>5
  <2> HIDE DEF inbox, m
  <2>2. QED
    BY <1>1, <1>2, <1>3, <1>4, <1>5, <1>6, <1>7, <2>1 DEF Contract!Deliver, Contract!MayStop, inbox
<1>9. QED
  BY <1>8 DEF ContractStep, Contract!Next

\* Whatever else the read thread or a callback of it does is a stutter, a stop
\* or a call.
LEMMA CallbackStep ==
  ASSUME EnoughIds, IInv,
         CallbackReturns \/ CallbackPanics \/ \E r \in CallReq : CallbackCalls(r)
  PROVE  ContractStep
<1>1. CASE CallbackReturns \/ CallbackPanics
  <2>1. /\ reader = "callback" /\ reader' \in {"read", "exit"} /\ hand' = hand
        /\ UNCHANGED <<sent, reply, chan, chanState, events, listening, held, c2s, s2c, owed, peer,
                       writer, work>>
    BY <1>1 DEF CallbackReturns, CallbackPanics, connVars, trackerVars, callerVars, eventVars,
                wireVars, serverVars
  <2>2. /\ Reading /\ UNCHANGED <<Outbox, Writing, ReplyOnceEmitted>>
        /\ UNCHANGED WithoutIds(InReaderHand \o s2c)
    BY <2>1 DEF Reading, Writing, Outbox, RequestsOnWire, InWork, ReplyOnceEmitted, InReaderHand,
                WithoutIds
  <2>3. QED
    BY <2>1, <2>2, StopsOrStutters
<1>2. ASSUME NEW r \in CallReq, CallbackCalls(r) PROVE ContractStep
  <2>1. r \in Req /\ r \notin Sent
    BY <1>2, ConnectionAssumption DEF CallbackCalls
  <2>2. <<r>> \in Seq(Req) /\ IsInjective(<<r>>) /\ Range(<<r>>) \subseteq Req \ Sent
    BY <2>1, CallIsBatch
  <2>3. QED
    BY <1>2, <2>2, SendStep DEF CallbackCalls
<1>3. QED
  BY <1>1, <1>2

\* The last of the threads to stop cancels everything that waits.
LEMMA ReadExitStep ==
  ASSUME IInv, ReadExit
  PROVE  ContractStep
<1>1. /\ reader = "exit" /\ reader' = "done" /\ hand' = hand
      /\ UNCHANGED <<sent, chan, chanState, events, listening, held, c2s, s2c, owed, peer, writer, work>>
  BY DEF ReadExit, callerVars, eventVars, wireVars, serverVars
<1>2. /\ ~Reading /\ ~Reading'
      /\ UNCHANGED <<Sent, chanState = "open", Outbox, OwedRequests, Reading, Writing, WithoutIds(events),
                     WithoutIds(InReaderHand \o s2c)>>
  BY <1>1 DEF Reading, Writing, Sent, Outbox, RequestsOnWire, InWork, OwedRequests, InReaderHand,
              WithoutIds
<1>3. reply \in [Req -> Outcomes] /\ ReplyOnceEmitted = reply
  BY <1>1, ClientTypes DEF TrackerTypeOK, ReplyOnceEmitted
<1>4. CASE writer = "done"
  <2>1. reply' = Dropped(Held)
    BY <1>4 DEF ReadExit, Released
  <2>2. chan = <<>> /\ chanState # "open"
    BY <1>4 DEF IInv, NumberingInv, OwnershipInv, StoppedThreadsHoldNothing
  <2>3. Waiting = {} /\ Sent \subseteq Req
    <3>1. work = <<>>
      BY <1>4, ClientTypes DEF TypeOK
    <3>2. QED
      BY <1>4, <2>2, <3>1, ClientTypes, RequestsOfNone
         DEF Waiting, Untracked, Range, ChannelsTypeOK, Sent
  <2>4. reply' = Dropped(Sent)
    BY <2>1, <2>3, ClientTypes DEF HandlersOwned, Dropped
  <2>5. ReplyOnceEmitted' = Contract!Canceled(Sent)
    <3>1. reply' = [r \in Req |-> reply'[r]]
      BY <2>4 DEF Dropped
    <3>2. ReplyOnceEmitted' = reply'
      BY <1>1, <3>1 DEF ReplyOnceEmitted
    <3>3. QED
      BY <1>3, <2>4, <3>2 DEF Dropped, Contract!Canceled
  <2>6. Outbox \in Seq(Req)
    BY OutboxIs
  <2>7. Len(Outbox) \in 0 .. Len(Outbox) /\ SubSeq(Outbox, 1, Len(Outbox)) = Outbox
    <3> DEFINE out == Outbox
    <3>1. out \in Seq(Req)
      BY <2>6
    <3> HIDE DEF out
    <3>2. Len(out) \in 0 .. Len(out) /\ SubSeq(out, 1, Len(out)) = out
      BY <3>1
    <3>3. QED
      BY <3>2 DEF out
  <2>8. PICK n \in 0 .. Len(Outbox) : SubSeq(Outbox, 1, n) = Outbox'
    BY <1>2, <2>7
  <2>9. Contract!Cancel(n)
    <3>1. ~Writing /\ (chanState = "open")' = FALSE
      BY <1>1, <1>4, <2>2 DEF Writing
    <3>2. QED
      BY <1>1, <1>2, <2>5, <2>8, <3>1 DEF Contract!Cancel
  <2>10. QED
    BY <2>8, <2>9 DEF ContractStep, Contract!Next
<1>5. CASE writer # "done"
  <2>1. reply' = reply
    BY <1>3, <1>5 DEF ReadExit, Released, Dropped
  <2>2. UNCHANGED ReplyOnceEmitted
    BY <1>1, <2>1 DEF ReplyOnceEmitted
  <2>3. QED
    BY <1>1, <1>2, <2>2, StopsOrStutters
<1>6. QED
  BY <1>4, <1>5

\* The outbox does not see a batch being taken ...
LEMMA WriteRecvStep ==
  ASSUME IInv, WriteRecv
  PROVE  ContractStep
<1>1. /\ writer = "recv" /\ work = <<>>
      /\ UNCHANGED <<sent, reply, chanState, held, c2s, s2c, owed, events, listening, peer, reader, hand>>
  BY ClientTypes DEF TypeOK, WriteRecv, trackerVars, eventVars, wireVars, serverVars
<1>2. /\ Writing
      /\ UNCHANGED <<RequestsOnWire, ReplyOnceEmitted, WithoutIds(InReaderHand \o s2c), Reading>>
  BY <1>1, SeenAsBefore DEF Writing, RequestsOnWire, Reading
<1>3. Outbox' = Outbox
  <2>1. CASE /\ chan # <<>>
             /\ work' = Head(chan) /\ chan' = Tail(chan)
             /\ writer' = "lock"
    <3> DEFINE b == Head(chan)
    <3>1. /\ FlattenSeq(chan) = b \o FlattenSeq(chan') /\ b \in Seq(Req)
          /\ FlattenSeq(chan') \in Seq(Req)
      <4>1. chan \in Seq(Seq(Req)) /\ Tail(chan) \in Seq(Seq(Req)) /\ Head(chan) \in Seq(Req)
        BY <2>1, ClientTypes, RequestsTaken DEF ChannelsTypeOK
      <4>2. QED
        BY <2>1, <4>1, FlattenTaken, FlattenType
    <3>2. Outbox' = (RequestsOnWire \o b) \o FlattenSeq(chan')
      BY <1>2, <2>1 DEF Outbox, InWork
    <3>3. Outbox = RequestsOnWire \o (b \o FlattenSeq(chan'))
      BY <1>1, <3>1, OutboxIs
    <3> DEFINE x == RequestsOnWire
               z == FlattenSeq(chan')
    <3>4. x \in Seq(Req) /\ b \in Seq(Req) /\ z \in Seq(Req)
      BY <3>1, ClientTypes
    <3>5. x \o (b \o z) = (x \o b) \o z
      <4> HIDE DEF x, b, z
      <4>1. QED
        BY <3>4, Regrouped
    <3>6. QED
      BY <3>2, <3>3, <3>5
  <2>2. CASE writer' = "exit" /\ UNCHANGED <<work, chan>>
    BY <1>1, <1>2, <2>2 DEF Outbox, InWork
  <2>3. QED
    BY <2>1, <2>2 DEF WriteRecv
<1>4. QED
  BY <1>1, <1>2, <1>3, StopsOrStutters

\* ... nor tracked.
LEMMA WriteTrackStep ==
  ASSUME EnoughIds, IInv, WriteTrack
  PROVE  ContractStep
<1>1. /\ writer = "lock" /\ writer' \in {"write", "exit"}
      /\ UNCHANGED <<sent, chan, chanState, held, c2s, s2c, owed, events, listening, peer, reader, hand>>
  BY DEF WriteTrack, callerVars, eventVars, wireVars, serverVars
<1>2. UNCHANGED reply
  BY WorkIsTracked DEF WriteTrack, trackerVars
<1>3. InWork' = InWork
  BY <1>1, WorkIsTracked DEF WriteTrack, InWork
<1>4. Outbox' = Outbox
  BY <1>1, <1>3 DEF Outbox, RequestsOnWire
<1>5. Writing /\ UNCHANGED <<ReplyOnceEmitted, WithoutIds(InReaderHand \o s2c), Reading>>
  BY <1>1, <1>2, SeenAsBefore DEF Writing, Reading
<1>6. QED
  BY <1>1, <1>4, <1>5, StopsOrStutters

\* A line is written, or lost with a write that fails.
LEMMA WriteSendStep ==
  ASSUME IInv, IInv', WriteSend
  PROVE  ContractStep
<1>1. /\ writer = "write" /\ writer' \in {"recv", "exit"} /\ work' = <<>>
      /\ UNCHANGED <<sent, chan, chanState, reply, owed, s2c, events, listening, peer, reader, hand>>
  BY DEF WriteSend, trackerVars, callerVars, eventVars, serverVars
<1>2. Writing /\ UNCHANGED <<ReplyOnceEmitted, WithoutIds(InReaderHand \o s2c), Reading>>
  BY <1>1, SeenAsBefore DEF Writing, Reading
<1>3. /\ WireTypeOK /\ WireTypeOK' /\ work \in Seq(RawRequest)
      /\ InWork = RequestsOf(work) /\ InWork \in Seq(Req)
  BY <1>1, ClientTypes
     DEF TypeOK, IInv, NumberingInv, OwnershipInv, ConnectionTypeOK, InWork
<1>4. Outbox' = RequestsOnWire' \o FlattenSeq(chan)
  <2>1. RequestsOnWire' \in Seq(Req)
    BY <1>3, WireBecomes
  <2>2. RequestsOnWire' \o <<>> = RequestsOnWire'
    BY <2>1, ConcatEmptySeq
  <2>3. InWork' = <<>>
    BY <1>1 DEF InWork
  <2>4. QED
    BY <1>1, <2>2, <2>3 DEF Outbox
<1>5. CASE WriteLine(work)
  <2>1. PICK a, b, c \in Seq(Req) :
          /\ RequestsOnWire \o RequestsOf(work) = a \o b \o c
          /\ RequestsOnWire' = a \o c
          /\ b = <<>> \/ peer = "closed"
    BY <1>3, <1>5, WriteLineMoves
  <2> DEFINE z == FlattenSeq(chan)
  <2>2. z \in Seq(Req)
    BY ClientTypes
  <2>3. Outbox = (a \o b \o c) \o z /\ Outbox' = (a \o c) \o z
    BY <1>3, <1>4, <2>1 DEF Outbox
  <2> HIDE DEF z
  <2>4. CASE b = <<>>
    <3>1. a \o <<>> = a
      BY ConcatEmptySeq
    <3>2. Outbox' = Outbox
      BY <2>3, <2>4, <3>1
    <3>3. QED
      BY <1>1, <1>2, <3>2, StopsOrStutters
  <2>5. CASE peer = "closed"
    BY <1>1, <1>2, <2>2, <2>3, <2>5, LosesBefore
  <2>6. QED
    BY <2>1, <2>4, <2>5
<1>6. CASE WriteFails /\ writer' = "exit"
  <2> DEFINE a == RequestsOnWire
             b == InWork
             c == FlattenSeq(chan)
  <2>1. a \in Seq(Req) /\ b \in Seq(Req) /\ c \in Seq(Req) /\ Outbox = a \o b \o c
    BY ClientTypes DEF Outbox
  <2>2. Outbox' = a \o c
    BY <1>4, <1>6 DEF WriteFails, RequestsOnWire
  <2>3. ~Writing'
    BY <1>6 DEF Writing
  <2> HIDE DEF a, b, c
  <2>4. QED
    BY <1>1, <1>2, <2>1, <2>2, <2>3, LosesMiddle
<1>7. QED
  BY <1>5, <1>6 DEF WriteSend

\* What the write thread has not begun to write is canceled, and everything
\* that waits if the read thread has stopped before.
LEMMA WriteExitStep ==
  ASSUME IInv, IInv', WriteExit
  PROVE  ContractStep
<1> DEFINE x == RequestsOnWire
           y == work \o FlattenSeq(chan)
           R == Requests(chan) \cup Range(work)
<1>1. /\ writer = "exit" /\ writer' = "done" /\ chan' = <<>> /\ work' = <<>>
      /\ UNCHANGED <<sent, held, c2s, owed, s2c, events, listening, peer, reader, hand>>
  BY DEF WriteExit, eventVars, wireVars, serverVars
<1>2. x \in Seq(Req) /\ y \in Seq(Req) /\ Outbox = x \o y /\ Range(y) = R
  <2>1. InWork = work /\ work \in Seq(Req)
    BY <1>1, ClientTypes DEF InWork
  <2>2. Range(FlattenSeq(chan)) = Requests(chan) /\ FlattenSeq(chan) \in Seq(Req)
    BY ClientTypes, FlattenRange DEF ChannelsTypeOK
  <2>3. Range(y) = Range(work) \cup Range(FlattenSeq(chan))
    BY <2>1, <2>2, RangeConcatenation
  <2>4. QED
    BY <2>1, <2>2, <2>3, ClientTypes, OutboxIs
<1>3. Outbox' = x
  <2>1. RequestsOnWire' = x /\ InWork' = <<>> /\ FlattenSeq(chan') = <<>>
    BY <1>1, FlattenEmpty DEF RequestsOnWire, InWork
  <2>2. x \o <<>> = x
    <3> HIDE DEF x
    <3>1. QED
      BY <1>2, ConcatEmptySeq
  <2>3. QED
    BY <2>1, <2>2 DEF Outbox
<1>4. PICK n \in 0 .. Len(Outbox) : Upto(Outbox, n) = x /\ After(Outbox, n) = y
  <2> HIDE DEF x, y
  <2>1. \E n \in 0 .. Len(x \o y) : Upto(x \o y, n) = x /\ After(x \o y, n) = y
    BY <1>2, FrontCut, Zenon
  <2>2. QED
    BY <1>2, <2>1
<1>5. /\ ~Writing /\ (chanState = "open")' = FALSE
      /\ UNCHANGED <<Sent, OwedRequests, WithoutIds(InReaderHand \o s2c), WithoutIds(events),
                     Reading, Writing>>
  BY <1>1 DEF WriteExit, Writing, Reading, Sent, OwedRequests, WithoutIds, InReaderHand
<1>6. HandlersOwned(Waiting) /\ Waiting = R /\ EventReq \subseteq Req
  BY <1>1, ClientTypes, TrackerAssumption DEF Waiting, Untracked
<1>7. ReplyOnceEmitted' \in {Contract!Canceled(R)} \cup (IF Reading THEN {} ELSE {Contract!Canceled(Sent)})
  <2>1. CASE reader = "done"
    <3>1. reply' = Dropped(Held \cup R)
      BY <2>1 DEF WriteExit, Released
    <3>2. reply' = Dropped(Sent)
      <4>1. Sent \subseteq Req
        BY ClientTypes DEF ChannelsTypeOK, Sent, Range
      <4> HIDE DEF R
      <4>2. QED
        BY <1>6, <3>1, <4>1 DEF HandlersOwned, Dropped
    <3>3. ReplyOnceEmitted' = Contract!Canceled(Sent)
      <4>1. reply \in [Req -> Outcomes] /\ ReplyOnceEmitted = reply
        BY <2>1, ClientTypes DEF TrackerTypeOK, ReplyOnceEmitted
      <4>2. ReplyOnceEmitted' = reply'
        BY <1>1, <2>1, <3>2 DEF ReplyOnceEmitted, Dropped
      <4>3. QED
        BY <3>2, <4>1, <4>2 DEF Dropped, Contract!Canceled
    <3>4. QED
      BY <2>1, <3>3 DEF Reading
  <2>2. CASE reader # "done"
    <3>1. reply' = Dropped(R)
      BY <2>2 DEF WriteExit, Released
    <3>2. \A r \in EventReq : r \in R => reply[r] = "open"
      <4>1. \A r \in EventReq : reply[r] # "abandoned"
        BY DEF IInv
      <4> HIDE DEF R
      <4>2. QED
        BY <1>6, <4>1 DEF HandlersOwned
    <3>3. ReplyOnceEmitted' = Contract!Canceled(R)
      <4> HIDE DEF R
      <4>1. QED
        BY <1>1, <3>1, <3>2, DropsAreCancellations
    <3>4. QED
      BY <3>3
  <2>3. QED
    BY <2>1, <2>2
<1>8. Contract!Cancel(n)
  <2> HIDE DEF x, y, R
  <2>1. Contract!Range(After(Outbox, n)) = R
    BY <1>2, <1>4, ContractOperators
  <2>2. QED
    BY <1>1, <1>3, <1>4, <1>5, <1>7, <2>1 DEF Contract!Cancel, Upto, After
<1>9. QED
  BY <1>4, <1>8 DEF ContractStep, Contract!Next

\* What the writer held back is lost, or stays in the outbox.
LEMMA WriterDropsStep ==
  ASSUME IInv, IInv', WriterDrops
  PROVE  ContractStep
<1>1. /\ writer = "done" /\ writer' = "done" /\ work' = work /\ chan' = chan
      /\ UNCHANGED <<sent, chanState, reply, owed, s2c, events, listening, peer, reader, hand>>
  BY DEF WriterDrops, DropHeld, trackerVars, callerVars, eventVars, serverVars, threadVars
<1>2. PICK a, b, c \in Seq(Req) : RequestsOnWire = a \o b \o c /\ RequestsOnWire' = a \o c
  <2>1. WireTypeOK /\ WireTypeOK' /\ DropHeld
    BY ClientTypes DEF WriterDrops, IInv, NumberingInv, OwnershipInv, TypeOK, ConnectionTypeOK
  <2>2. QED
    BY <2>1, DropHeldMoves
<1> DEFINE z == FlattenSeq(chan)
<1>3. z \in Seq(Req) /\ work = <<>>
  BY <1>1, ClientTypes DEF TypeOK
<1>4. Outbox = (a \o b \o c) \o z
  BY <1>2, <1>3, OutboxIs
<1>5. Outbox' = (a \o c) \o z
  <2>1. InWork' = <<>>
    BY <1>1, <1>3 DEF InWork
  <2>2. (a \o c) \o <<>> = a \o c
    <3> DEFINE ac == a \o c
    <3>1. ac \in Seq(Req)
      BY ConcatProperties
    <3> HIDE DEF ac
    <3>2. ac \o <<>> = ac
      BY <3>1, ConcatEmptySeq
    <3>3. QED
      BY <3>2 DEF ac
  <2>3. QED
    BY <1>1, <1>2, <2>1, <2>2 DEF Outbox
<1>6. (Writing' => Writing) /\ ~Writing'
  BY <1>1 DEF Writing
<1> HIDE DEF z
<1>7. QED
  BY <1>1, <1>3, <1>4, <1>5, <1>6, LosesBefore

\* What is on the wire is the server's to take, to answer and to lose.
LEMMA ServerStep ==
  ASSUME EnoughIds, IInv, IInv', Server
  PROVE  ContractStep
<1> DEFINE z == InWork \o FlattenSeq(chan)
<1>1. /\ ServerNext
      /\ UNCHANGED <<sent, chan, chanState, reply, events, listening, reader, hand, writer, work>>
  BY DEF Server, trackerVars, callerVars, eventVars, threadVars
<1>2. UNCHANGED <<Sent, chanState = "open", ReplyOnceEmitted, WithoutIds(events), listening,
                  Reading, Writing, InWork, InReaderHand>>
  BY <1>1 DEF Sent, WithoutIds, ReplyOnceEmitted, Reading, Writing, InWork, InReaderHand
<1>3. WireTypeOK /\ WireTypeOK' /\ RequestsOnWire' \in Seq(Req)
  <2>1. WireTypeOK /\ WireTypeOK'
    BY ClientTypes DEF IInv, NumberingInv, OwnershipInv, TypeOK, ConnectionTypeOK
  <2>2. QED
    BY <2>1, WireBecomes
<1>4. z \in Seq(Req) /\ Outbox = RequestsOnWire \o z /\ Outbox' = RequestsOnWire' \o z
  <2>1. z \in Seq(Req) /\ Outbox = RequestsOnWire \o z
    BY OutboxIs
  <2>2. Outbox' = RequestsOnWire' \o (InWork \o FlattenSeq(chan))
    <3> DEFINE x == RequestsOnWire'
               y == InWork
               w == FlattenSeq(chan)
    <3>1. x \in Seq(Req) /\ y \in Seq(Req) /\ w \in Seq(Req)
      BY <1>3, ClientTypes
    <3>2. Outbox' = (x \o y) \o w
      BY <1>1, <1>2 DEF Outbox
    <3> HIDE DEF x, y, w
    <3>3. Outbox' = x \o (y \o w)
      BY <3>1, <3>2, Regrouped
    <3>4. QED
      BY <3>3 DEF x, y, w
  <2>3. QED
    BY <2>1, <2>2
<1> HIDE DEF z
<1>5. ASSUME NEW h \in Seq(Req), RequestsOnWire = h \o RequestsOnWire'
      PROVE  \E n \in 0 .. Len(Outbox) : Upto(Outbox, n) = h /\ After(Outbox, n) = Outbox'
  <2> DEFINE x == RequestsOnWire'
             c == x \o z
  <2>1. x \in Seq(Req) /\ Outbox = (h \o x) \o z
    BY <1>3, <1>4, <1>5
  <2>2. c \in Seq(Req) /\ Outbox' = c
    BY <1>3, <1>4, ConcatProperties
  <2>3. Outbox = h \o c
    <3> HIDE DEF x
    <3>1. (h \o x) \o z = h \o (x \o z)
      BY <1>4, <2>1, Regrouped
    <3>2. QED
      BY <2>1, <3>1
  <2> HIDE DEF c
  <2>4. \E n \in 0 .. Len(Outbox) : Upto(Outbox, n) = h /\ After(Outbox, n) = c
    BY <2>2, <2>3, FrontCut, Zenon
  <2>5. QED
    BY <2>2, <2>4
<1> DEFINE inbox == InReaderHand \o s2c
<1>6. CASE ServerReceives
  <2>1. PICK h \in Seq(Req) : /\ RequestsOnWire = h \o RequestsOnWire'
                              /\ OwedRequests' = OwedRequests \cup Range(h)
    BY <1>3, <1>6, ServerReceivesMoves
  <2>2. PICK n \in 0 .. Len(Outbox) : Upto(Outbox, n) = h /\ After(Outbox, n) = Outbox'
    BY <1>5, <2>1
  <2>3. peer = "open" /\ UNCHANGED <<WithoutIds(inbox), peer>>
    BY <1>2, <1>6 DEF ServerReceives, WithoutIds
  <2>4. Contract!ServerTakes(n)
    BY <1>2, <2>1, <2>2, <2>3, ContractOperators
       DEF Contract!ServerTakes, Upto, After
  <2>5. QED
    BY <2>4 DEF ContractStep, Contract!Next
<1>7. CASE ServerCloses
  <2>1. PICK h \in Seq(Req) : RequestsOnWire = h \o RequestsOnWire'
    BY <1>3, <1>7, ServerClosesMoves
  <2>2. PICK n \in 0 .. Len(Outbox) : Upto(Outbox, n) = h /\ After(Outbox, n) = Outbox'
    BY <1>5, <2>1
  <2>3. peer' = "closed" /\ OwedRequests' = {} /\ UNCHANGED WithoutIds(inbox)
    BY <1>2, <1>3, <1>7, ServerClosesMoves DEF ServerCloses, WithoutIds
  <2>4. Contract!ServerCloses(n)
    BY <1>2, <2>2, <2>3 DEF Contract!ServerCloses, After
  <2>5. QED
    BY <2>4 DEF ContractStep, Contract!Next
<1>8. CASE ~ServerReceives /\ ~ServerCloses
  <2>1. OwedOnce
    <3>1. PICK log \in Logs :
            Numbered(log, Waiting, RawsInTransit \cup Range(Unwritten), Unhandled)
      BY DEF IInv, NumberingInv, IdsInOrder
    <3>2. owed \subseteq RawsInTransit \cup Range(Unwritten)
      BY DEF RawsInTransit
    <3>3. QED
      BY <1>3, <3>1, <3>2, NumberedOnce
  <2>2. PICK msg \in Message :
          /\ peer = "open" /\ s2c' = Append(s2c, msg)
          /\ IF msg.type = "response"
             THEN msg.of \in OwedRequests /\ OwedRequests' = OwedRequests \ {msg.of}
             ELSE OwedRequests' = OwedRequests
          /\ UNCHANGED <<RequestsOnWire, peer>>
    BY <1>1, <1>3, <1>8, <2>1, ServerSendsMoves
  <2> DEFINE m == WithoutId(msg)
  <2>3. WithoutIds(inbox') = Append(WithoutIds(inbox), m)
    <3>1. inbox \in Seq(Message) /\ inbox' = Append(inbox, msg)
      <4>1. InReaderHand \in Seq(Message) /\ s2c \in Seq(Message)
        BY InboxIs DEF InReaderHand
      <4>2. inbox' = InReaderHand \o Append(s2c, msg)
        BY <1>2, <2>2
      <4>3. inbox \in Seq(Message) /\ InReaderHand \o Append(s2c, msg) = Append(inbox, msg)
        <5> DEFINE h == InReaderHand
        <5>1. h \in Seq(Message)
          BY <4>1
        <5> HIDE DEF h
        <5>2. h \o Append(s2c, msg) = Append(h \o s2c, msg) /\ h \o s2c \in Seq(Message)
          BY <4>1, <5>1
        <5>3. QED
          BY <5>2 DEF h
      <4>4. QED
        BY <4>2, <4>3
    <3> HIDE DEF inbox
    <3>2. WithoutIds(Append(inbox, msg)) = Append(WithoutIds(inbox), WithoutId(msg))
      BY <3>1, WithoutIdsAppended
    <3>3. QED
      BY <3>1, <3>2
  <2>4. \/ msg.type = "response" /\ m.type = "response" /\ m.of = msg.of /\ m \in Contract!Response
        \/ msg.type # "response" /\ m \in Contract!Other
    BY DEF WithoutId, Message, RawIncoming, Response, Notification, Garbage,
           Contract!Response, Contract!Other
  <2>5. Outbox' = Outbox
    BY <1>4, <2>2
  <2> HIDE DEF m
  <2>6. Contract!ServerSends(m)
    BY <1>2, <2>2, <2>3, <2>4, <2>5 DEF Contract!ServerSends
  <2>7. QED
    BY <2>4, <2>6 DEF ContractStep, Contract!Next
<1>9. QED
  BY <1>6, <1>7, <1>8

-----------------------------------------------------------------------------
(***************************************************************************)
(* The refinement.                                                         *)
(***************************************************************************)

\* The client starts where the contract does.
LEMMA InitRefines == ASSUME Init, NumberingInv PROVE IInv /\ Contract!Init
<1>1. /\ ConnectionInit /\ reader = "read" /\ writer = "recv" /\ work = <<>> /\ Reading /\ Writing
      /\ Unwritten = <<>>
  BY DEF Init, Reading, Writing, Unwritten
<1>2. RequestsOnWire \o RequestsOf(Unwritten) = <<>> /\ Outbox = <<>>
  <2>1. RequestsOnWire = <<>> /\ RequestsOf(Unwritten) = <<>> /\ FlattenSeq(chan) = <<>>
    BY <1>1, ContractInit, LinesOfNone
  <2>2. InWork = <<>>
    BY <1>1 DEF InWork
  <2>3. QED
    BY <2>1, <2>2 DEF Outbox
<1>3. s2c = <<>> /\ Unresolved = s2c /\ InReaderHand \o s2c = s2c
  BY <1>1 DEF ConnectionInit, Unresolved, InReaderHand
<1>4. reply = [r \in Req |-> "open"] /\ EventReq \subseteq Req
  BY <1>1, TrackerAssumption DEF ConnectionInit, TrackerInit
<1>5. IInv
  <2>1. \A r \in EventReq : reply[r] # "abandoned"
    BY <1>4
  <2>2. QED
    BY <1>1, <1>2, <1>3, <2>1, ContractInit DEF IInv
<1>6. ReplyOnceEmitted = reply
  BY <1>1, <1>4 DEF ReplyOnceEmitted
<1>7. Contract!Init
  BY <1>1, <1>2, <1>3, <1>4, <1>6, ContractInit DEF Contract!Init, ConnectionInit
<1>8. QED
  BY <1>5, <1>7

\* Each step is one of the contract's, or a stutter.
LEMMA StepRefines ==
  ASSUME EnoughIds, IInv, IInv', [Next]_vars
  PROVE  ContractStep
<1>1. ASSUME NEW b \in Submissions, CallerSends(b) PROVE ContractStep
  BY <1>1, SubmissionIsBatch, SendStep DEF CallerSends, threadVars
<1>2. CASE UNCHANGED vars
  <2>1. UNCHANGED <<sent, reply, chan, chanState, held, c2s, owed, s2c, events, listening, peer,
                    reader, hand, writer, work>>
    BY <1>2 DEF vars, threadVars, connVars, trackerVars, callerVars, eventVars, wireVars, serverVars
  <2>2. UNCHANGED <<Outbox, Reading, Writing, ReplyOnceEmitted, WithoutIds(InReaderHand \o s2c)>>
    BY <2>1 DEF Outbox, RequestsOnWire, InWork, Reading, Writing, ReplyOnceEmitted, InReaderHand,
                WithoutIds
  <2>3. QED
    BY <2>1, <2>2, StopsOrStutters
<1>3. QED
  BY <1>1, <1>2, CallerStep, CallbackStep, ReadNextStep, ReadHandleStep, ReadEmitStep,
     ReadExitStep, WriteRecvStep, WriteTrackStep, WriteSendStep, WriteExitStep, WriterDropsStep,
     ServerStep DEF Next, Read, Write

\* While the read thread runs and there is an id for each request, a tracked
\* request is in one place, on its way out, with the server or in an answer,
\* and the tracker has its handler; and an event that waits to be sent is that
\* of a request which is resolved.
THEOREM FlightInvariant == ASSUME EnoughIds PROVE Spec => []IInv
<1>1. Init /\ NumberingInv => IInv
  BY InitRefines
<1>2. IInv /\ [Next]_vars => IInv'
  BY FlightStep
<1>3. QED
  BY <1>1, <1>2, ClientInvariant, PTL DEF Spec

\* BlockingClient implements ClientContract: what the two threads, the mutex,
\* the tracker and its ids do to a request and its answer, callers can take
\* for a queue to the server, a set of owed requests and a queue back.
THEOREM ImplementsTheContract == ASSUME EnoughIds PROVE Spec => ImplementsContract
<1>1. Init /\ NumberingInv => Contract!Init
  BY InitRefines
<1>2. IInv /\ IInv' /\ [Next]_vars => [Contract!Next]_(Contract!vars)
  BY StepRefines DEF ContractStep
<1>3. QED
  BY <1>1, <1>2, ClientInvariant, FlightInvariant, PTL
     DEF Spec, ImplementsContract, Contract!Spec

=============================================================================
