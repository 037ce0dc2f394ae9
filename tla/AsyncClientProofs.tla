-------------------------- MODULE AsyncClientProofs --------------------------
(***************************************************************************)
(* Theorems about AsyncClient, for any requests and any bounds.            *)
(***************************************************************************)
EXTENDS AsyncClient, ConnectionProofs

-----------------------------------------------------------------------------
(***************************************************************************)
(* Type correctness.                                                       *)
(***************************************************************************)

\* Every step keeps every variable within its type.
LEMMA TypeStep == TypeOK /\ [Next]_vars => TypeOK'
<1> SUFFICES ASSUME TypeOK, [Next]_vars PROVE TypeOK'
  OBVIOUS
<1> USE DEF TypeOK, ConnectionTypeOK
<1>1. ASSUME NEW batch \in Submissions, CallerSends(batch) PROVE TypeOK'
  BY <1>1, SubmissionIsBatch, SendBatchType
     DEF CallerSends, WireTypeOK, wireVars, serverVars, workerVars
<1>2. ASSUME NEW r \in Req, CallerAbandons(r) PROVE TypeOK'
  BY <1>2, AbandonReplyType
     DEF CallerAbandons, ChannelsTypeOK, WireTypeOK, callerVars, eventVars, wireVars,
         serverVars, workerVars
<1>3. CASE Close
  BY <1>3 DEF Close, CloseChannel, trackerVars, TrackerTypeOK, ChannelsTypeOK, WireTypeOK,
              eventVars, wireVars, serverVars, workerVars
<1>4. CASE DropEvents
  BY <1>4 DEF DropEvents, DropEventReceiver, trackerVars, TrackerTypeOK, ChannelsTypeOK,
              WireTypeOK, callerVars, wireVars, serverVars, workerVars
<1>5. CASE SelectRequest
  <2>1. CASE /\ chan # <<>>
             /\ TrackRequest(Head(chan))
             /\ work' = RawRequests(Head(chan)) /\ chan' = Tail(chan)
             /\ worker' = "write"
    <3>1. Head(chan) \in Seq(Req) /\ chan' \in Seq(Seq(Req))
      BY <2>1, RequestsTaken DEF ChannelsTypeOK
    <3>2. TrackerTypeOK' /\ work' \in Seq(RawRequest)
      BY <2>1, <3>1, TrackRequestType, RawRequestsType
    <3>3. QED
      BY <1>5, <2>1, <3>1, <3>2
         DEF SelectRequest, ChannelsTypeOK, WireTypeOK, eventVars, wireVars, serverVars
  <2>2. CASE worker' = "exit" /\ UNCHANGED <<trackerVars, work, chan>>
    BY <1>5, <2>2 DEF SelectRequest, trackerVars, TrackerTypeOK, ChannelsTypeOK, WireTypeOK,
                      eventVars, wireVars, serverVars
  <2>3. QED
    BY <1>5, <2>1, <2>2 DEF SelectRequest
<1>6. CASE SelectMessage
  <2> DEFINE msg == Head(s2c)
  <2>1. /\ msg \in Message /\ s2c' \in Seq(Message) /\ Len(s2c') = Len(s2c) - 1
        /\ Len(s2c) \in Nat
    BY <1>6, RangeTaken DEF SelectMessage, ReadMessage, WireTypeOK
  <2>2. TrackerTypeOK'
    BY <1>6, <2>1, HandleIncomingType DEF SelectMessage, Message, trackerVars, TrackerTypeOK
  <2>3. events' \in Seq(RawIncoming) /\ listening' = listening
    <3>1. CASE msg \in RawIncoming /\ EmitEvent(msg)
      BY <3>1, RangeAppended DEF EmitEvent, ChannelsTypeOK
    <3>2. CASE UNCHANGED eventVars
      BY <3>2 DEF eventVars, ChannelsTypeOK
    <3>3. QED
      BY <1>6, <2>1, <3>1, <3>2 DEF SelectMessage, Message
  <2>4. ChannelsTypeOK'
    BY <1>6, <2>3 DEF SelectMessage, ChannelsTypeOK, callerVars
  <2>5. WireTypeOK'
    BY <1>6, <2>1, ConnectionAssumption DEF SelectMessage, WireTypeOK, serverVars
  <2>6. worker' \in {"select", "exit"} /\ work' = work
    BY <1>6 DEF SelectMessage
  <2>7. QED
    BY <2>2, <2>4, <2>5, <2>6
<1>7. CASE SelectEndOfStream
  BY <1>7 DEF SelectEndOfStream, connVars, trackerVars, TrackerTypeOK, ChannelsTypeOK,
              WireTypeOK, callerVars, eventVars, wireVars, serverVars
<1>8. CASE AwaitWrite
  <2>1. WireTypeOK'
    BY <1>8, WriteLineType DEF AwaitWrite, WriteFails, WireTypeOK, serverVars
  <2>2. QED
    BY <1>8, <2>1 DEF AwaitWrite, trackerVars, TrackerTypeOK, ChannelsTypeOK,
                      callerVars, eventVars
<1>9. CASE WorkerExit
  <2>1. TrackerTypeOK'
    BY <1>9, DropHandlersType DEF WorkerExit
  <2>2. QED
    BY <1>9, <2>1 DEF WorkerExit, ChannelsTypeOK, WireTypeOK, eventVars, wireVars, serverVars
<1>10. CASE WriterDrops
  <2>1. WireTypeOK'
    BY <1>10, DropHeldType DEF WriterDrops
  <2>2. QED
    BY <1>10, <2>1 DEF WriterDrops, trackerVars, TrackerTypeOK, ChannelsTypeOK,
                       callerVars, eventVars, workerVars
<1>11. CASE AbortWorker
  BY <1>11 DEF AbortWorker, connVars, trackerVars, TrackerTypeOK, ChannelsTypeOK,
               WireTypeOK, callerVars, eventVars, wireVars, serverVars
<1>12. CASE Server
  BY <1>12, ServerType DEF Server, trackerVars, TrackerTypeOK, ChannelsTypeOK,
                           callerVars, eventVars, workerVars
<1>13. CASE UNCHANGED vars
  BY <1>13 DEF vars, connVars, trackerVars, TrackerTypeOK, ChannelsTypeOK, WireTypeOK,
               callerVars, eventVars, wireVars, serverVars, workerVars
<1>14. QED
  BY <1>1, <1>2, <1>3, <1>4, <1>5, <1>6, <1>7, <1>8, <1>9, <1>10, <1>11, <1>12, <1>13
     DEF Next, Work

\* The client, its connection and its tracker are well typed in every
\* reachable state, also when ids wrap around; in particular neither the
\* writer nor the transport ever holds more than it can.
THEOREM TypeCorrect == Spec => []TypeOK
<1>1. Init => TypeOK
  BY ConnectionInitType DEF Init, TypeOK
<1>2. QED
  BY <1>1, TypeStep, PTL DEF Spec

-----------------------------------------------------------------------------
(***************************************************************************)
(* Where the handlers are, also when ids wrap around.                      *)
(***************************************************************************)

\* Every step preserves the invariant of ownership.
LEMMA OwnershipStep == OwnershipInv /\ [Next]_vars => OwnershipInv'
<1> SUFFICES ASSUME OwnershipInv, [Next]_vars PROVE OwnershipInv'
  OBVIOUS
<1> DEFINE W == Requests(chan)
<1>1. TypeOK' /\ ConnectionTypeOK
  BY TypeStep DEF OwnershipInv, TypeOK
<1>2. ChannelHoldsOnce /\ HandlersOwned(W)
  BY DEF OwnershipInv
<1>3. ASSUME UNCHANGED <<pending, reply, sent, chan>> PROVE OwnershipInv'
  BY <1>1, <1>2, <1>3, OwnedStays DEF OwnershipInv, ChannelHoldsOnce
<1>4. ASSUME NEW b \in Submissions, CallerSends(b) PROVE OwnershipInv'
  <2>1. /\ b \in Seq(Req) /\ IsInjective(b) /\ Range(b) \cap Sent = {} /\ SendBatch(b)
        /\ Range(b) \cap W = {}
    BY <1>2, <1>4, SubmissionIsBatch DEF CallerSends, HandlersOwned
  <2>2. ChannelHoldsOnce' /\ W' = IF chanState = "open" THEN W \cup Range(b) ELSE W
    BY <1>1, <1>2, <2>1, ChannelSent
  <2>3. HandlersOwned(W)'
    BY <1>1, <1>2, <2>1, <2>2, OwnedSend
  <2>4. QED
    BY <1>1, <2>2, <2>3 DEF OwnershipInv
<1>5. ASSUME NEW r \in Req, CallerAbandons(r) PROVE OwnershipInv'
  <2>1. AbandonReply(r) /\ UNCHANGED <<sent, chan>>
    BY <1>5 DEF CallerAbandons, callerVars
  <2>2. HandlersOwned(W)'
    BY <1>1, <1>2, <2>1, OwnedAbandon
  <2>3. QED
    BY <1>1, <1>2, <2>1, <2>2 DEF OwnershipInv, ChannelHoldsOnce
<1>6. CASE SelectRequest
  <2>1. CASE chan # <<>> /\ TrackRequest(Head(chan)) /\ chan' = Tail(chan)
    <3>1. PICK b : b = Head(chan)
      OBVIOUS
    <3>2. /\ ChannelHoldsOnce' /\ b \in Seq(Req) /\ IsInjective(b)
          /\ Range(b) \subseteq W /\ W' = W \ Range(b)
      BY <1>1, <1>2, <2>1, <3>1, ChannelTaken
    <3>3. HandlersOwned(W)'
      BY <1>1, <1>2, <1>6, <2>1, <3>1, <3>2, OwnedTrack DEF SelectRequest
    <3>4. QED
      BY <1>1, <3>2, <3>3 DEF OwnershipInv
  <2>2. CASE UNCHANGED <<trackerVars, chan>>
    BY <1>3, <1>6, <2>2 DEF SelectRequest, trackerVars
  <2>3. QED
    BY <1>6, <2>1, <2>2 DEF SelectRequest
<1>7. CASE SelectMessage
  <2> DEFINE msg == Head(s2c)
  <2>1. msg \in Message /\ UNCHANGED <<sent, chan>>
    BY <1>1, <1>7, RangeTaken
       DEF SelectMessage, ReadMessage, ConnectionTypeOK, WireTypeOK, callerVars
  <2>2. CASE UNCHANGED trackerVars
    BY <1>3, <2>1, <2>2 DEF trackerVars
  <2>3. CASE msg \in RawIncoming /\ HandleIncoming(msg)
    <3>1. HandlersOwned(W)'
      BY <1>1, <1>2, <2>1, <2>3, OwnedHandle
    <3>2. QED
      BY <1>1, <1>2, <2>1, <3>1 DEF OwnershipInv, ChannelHoldsOnce
  <2>4. QED
    BY <1>7, <2>1, <2>2, <2>3 DEF SelectMessage, Message
<1>8. CASE WorkerExit
  <2>1. /\ reply' = Dropped(Held \cup W) /\ pending' = [i \in Ids |-> NoReq]
        /\ chan' = <<>> /\ sent' = sent
    BY <1>8 DEF WorkerExit
  <2>2. ChannelHoldsOnce' /\ W' = W \ W
    BY <2>1, RequestsOfNone DEF ChannelHoldsOnce
  <2>3. HandlersOwned(W)'
    BY <1>1, <1>2, <2>1, <2>2, OwnedDrop
  <2>4. QED
    BY <1>1, <2>2, <2>3 DEF OwnershipInv
<1>9. CASE \/ Close \/ DropEvents \/ SelectEndOfStream \/ AwaitWrite \/ WriterDrops
           \/ AbortWorker \/ Server \/ UNCHANGED vars
  BY <1>3, <1>9 DEF Close, CloseChannel, DropEvents, SelectEndOfStream, AwaitWrite, WriterDrops,
                    AbortWorker, Server, vars, connVars, trackerVars, callerVars
<1>10. QED
  BY <1>4, <1>5, <1>6, <1>7, <1>8, <1>9 DEF Next, Work

\* Whatever is sent, selected, abandoned, aborted or lost, the handler of a
\* request is in one place until it is resolved.
THEOREM HandlersAreOwned == Spec => []OwnershipInv
<1>1. Init => OwnershipInv
  <2>1. SUFFICES ASSUME Init PROVE OwnershipInv
    OBVIOUS
  <2>2. TypeOK
    BY <2>1, ConnectionInitType DEF Init, TypeOK
  <2>3. Requests(chan) = {}
    BY <2>1, RequestsOfNone DEF Init, ConnectionInit
  <2>4. QED
    BY <2>1, <2>2, <2>3, OwnedInit DEF Init, OwnershipInv
<1>2. QED
  BY <1>1, OwnershipStep, PTL DEF Spec

\* No request is orphaned, resolved twice or left waiting for a worker that
\* has ended, whether or not ids wrap around.
THEOREM HandlersAreHeldOnce == Spec => []HandlerHeldOnce
<1>1. ASSUME OwnershipInv PROVE HandlerHeldOnce
  <2>1. /\ TrackerTypeOK /\ OneIdEach /\ HandlersOwned(Requests(chan))
        /\ Sent \subseteq Req
    BY <1>1 DEF OwnershipInv, TypeOK, ConnectionTypeOK, ChannelsTypeOK, HandlersOwned, Sent, Range
  <2>2. SUFFICES ASSUME NEW r \in Req
                 PROVE  LET Places == Cardinality({i \in Ids : pending[i] = r})
                                        + (IF r \in Requests(chan) THEN 1 ELSE 0)
                        IN CASE reply[r] = "open" -> Places = (IF r \in Sent THEN 1 ELSE 0)
                             [] reply[r] = "abandoned" -> Places <= 1
                             [] OTHER -> Places = 0
    BY DEF HandlerHeldOnce
  <2>3. Cardinality({i \in Ids : pending[i] = r}) = IF r \in Held THEN 1 ELSE 0
    BY <2>1, UnderOneId
  <2>4. QED
    BY <2>1, <2>3 DEF HandlersOwned
<1>2. QED
  BY <1>1, HandlersAreOwned, PTL

-----------------------------------------------------------------------------
(***************************************************************************)
(* Whose answer is whose, as long as there is an id for each request.      *)
(***************************************************************************)

\* Every step preserves the inductive invariant.
LEMMA InvariantStep == ASSUME EnoughIds PROVE NumberingInv /\ [Next]_vars => NumberingInv'
<1> SUFFICES ASSUME NumberingInv, [Next]_vars PROVE NumberingInv'
  OBVIOUS
<1> DEFINE W == Requests(chan)
           Raws == RawsInTransit \cup Range(work)
           Msgs == Range(s2c)
<1>1. OwnershipInv' /\ OwnershipInv /\ ConnectionTypeOK /\ TypeOK
  BY OwnershipStep DEF NumberingInv, OwnershipInv, TypeOK
<1>2. PICK log \in Logs : Numbered(log, W, Raws, Msgs)
  BY DEF NumberingInv, IdsInOrder
<1>3. Correlated /\ HandlersOwned(W) /\ OneIdEach
  BY <1>1 DEF NumberingInv, OwnershipInv, HandlersOwned
<1>4. ASSUME NEW line, Numbered(line, W, Raws, Msgs)', line \in Logs, Correlated' PROVE NumberingInv'
  BY <1>1, <1>4 DEF NumberingInv, IdsInOrder
<1>5. ASSUME UNCHANGED <<next_id, answer>>, Sent \subseteq Sent',
             \A i \in Ids : pending'[i] \in {pending[i], NoReq},
             W' \subseteq W \cup (Req \ Sent), Raws' \subseteq Raws,
             \A msg \in Msgs' : msg \in Msgs \/ IsAnswerTo(msg, Raws)
      PROVE  NumberingInv'
  <2>1. Numbered(log, W, Raws, Msgs)'
    BY <1>2, <1>5, NumberedStays
  <2>2. Correlated'
    BY <1>3, <1>5 DEF Correlated
  <2>3. QED
    BY <1>2, <1>4, <2>1, <2>2
<1>6. ASSUME NEW b \in Submissions, CallerSends(b) PROVE NumberingInv'
  <2>1. /\ b \in Seq(Req) /\ IsInjective(b) /\ Range(b) \subseteq Req \ Sent /\ SendBatch(b)
        /\ Range(b) \cap W = {}
    BY <1>3, <1>6, SubmissionIsBatch DEF CallerSends, HandlersOwned
  <2>2. W' \subseteq W \cup (Req \ Sent)
    BY <1>1, <2>1, ChannelSent DEF OwnershipInv
  <2>3. Sent \subseteq Sent'
    BY <1>1, <2>1, SentGrows DEF SendBatch
  <2>4. UNCHANGED <<next_id, answer, pending, Raws, Msgs>>
    BY <1>6 DEF CallerSends, SendBatch, wireVars, serverVars, workerVars, RawsInTransit
  <2>5. QED
    BY <1>5, <2>2, <2>3, <2>4
<1>7. CASE SelectRequest
  <2>1. CASE /\ chan # <<>> /\ TrackRequest(Head(chan)) /\ chan' = Tail(chan)
             /\ work' = RawRequests(Head(chan))
    <3>1. PICK b : b = Head(chan)
      OBVIOUS
    <3>2. /\ b \in Seq(Req) /\ IsInjective(b) /\ Range(b) \subseteq W /\ W' = W \ Range(b)
          /\ W \subseteq Sent
      BY <1>1, <1>3, <2>1, <3>1, ChannelTaken DEF OwnershipInv, HandlersOwned
    <3>3. Raws \subseteq RawRequest /\ Msgs \subseteq Message
      BY <1>1 DEF TypeOK, ConnectionTypeOK, WireTypeOK, RawsInTransit, Requests, Range
    <3>4. /\ UNCHANGED sent /\ Msgs' \subseteq Msgs
          /\ Raws' \subseteq Raws \cup Range(RawRequests(b))
      BY <1>7, <2>1, <3>1 DEF SelectRequest, wireVars, serverVars, RawsInTransit
    <3>5. log \o b \in Logs /\ Numbered(log \o b, W, Raws, Msgs)'
      <4>1. TrackRequest(b)
        BY <2>1, <3>1
      <4>2. W' \subseteq W \ Range(b)
        BY <3>2
      <4>3. QED
        BY <1>1, <1>2, <3>2, <3>3, <3>4, <4>1, <4>2, NumberedTrack
    <3>6. Correlated'
      BY <1>3, <2>1 DEF TrackRequest, Correlated
    <3>7. QED
      BY <1>4, <3>5, <3>6
  <2>2. CASE UNCHANGED <<trackerVars, work, chan>>
    BY <1>5, <1>7, <2>2
       DEF SelectRequest, trackerVars, wireVars, serverVars, RawsInTransit, Sent
  <2>3. QED
    BY <1>7, <2>1, <2>2 DEF SelectRequest
<1>8. CASE SelectMessage
  <2> DEFINE msg == Head(s2c)
  <2>1. /\ msg \in Message /\ msg \in Msgs /\ Msgs' \subseteq Msgs
        /\ UNCHANGED <<sent, chan, held, c2s, owed, work>>
    BY <1>1, <1>8, RangeTaken
       DEF SelectMessage, ReadMessage, ConnectionTypeOK, WireTypeOK, callerVars, serverVars
  <2>2. W' = W /\ Raws' = Raws /\ Sent' = Sent
    BY <2>1 DEF RawsInTransit, Sent
  <2>3. CASE UNCHANGED trackerVars
    BY <1>5, <2>1, <2>2, <2>3 DEF trackerVars
  <2>4. CASE msg \in RawIncoming /\ HandleIncoming(msg)
    <3>1. /\ next_id' = next_id /\ \A i \in Ids : pending'[i] \in {pending[i], NoReq}
          /\ Correlated'
      BY <1>1, <1>2, <1>3, <2>1, <2>4, NumberedHandle
    <3>2. Numbered(log, W, Raws, Msgs)'
      BY <1>2, <2>1, <2>2, <3>1, NumberedStays
    <3>3. QED
      BY <1>2, <1>4, <3>1, <3>2
  <2>5. QED
    BY <1>8, <2>1, <2>3, <2>4 DEF SelectMessage, Message
<1>9. CASE AwaitWrite
  <2>1. Raws' \subseteq Raws
    <3>1. CASE WriteLine(work)
      <4>1. RawsInTransit' \subseteq RawsInTransit \cup Range(work)
        BY <1>1, <1>9, <3>1, WriteLineType DEF AwaitWrite, TypeOK, ConnectionTypeOK
      <4>2. QED
        BY <1>9, <4>1 DEF AwaitWrite, Range
    <3>2. CASE WriteFails
      BY <1>9, <3>2 DEF AwaitWrite, WriteFails, serverVars, RawsInTransit, Range
    <3>3. QED
      BY <1>9, <3>1, <3>2 DEF AwaitWrite
  <2>2. QED
    BY <1>5, <1>9, <2>1 DEF AwaitWrite, trackerVars, callerVars, Sent
<1>10. CASE WorkerExit
  <2>1. W' = {} /\ UNCHANGED <<next_id, answer, sent, Raws, Msgs>>
    BY <1>10, RequestsOfNone DEF WorkerExit, wireVars, serverVars, RawsInTransit
  <2>2. \A i \in Ids : pending'[i] = NoReq
    BY <1>10 DEF WorkerExit
  <2>3. QED
    BY <1>5, <2>1, <2>2 DEF Sent
<1>11. CASE WriterDrops
  <2>1. RawsInTransit' \subseteq RawsInTransit
    BY <1>1, <1>11, DropHeldType DEF WriterDrops, ConnectionTypeOK
  <2>2. QED
    BY <1>5, <1>11, <2>1
       DEF WriterDrops, DropHeld, trackerVars, callerVars, workerVars, Sent
<1>12. CASE AbortWorker
  BY <1>5, <1>12 DEF AbortWorker, connVars, trackerVars, callerVars, wireVars, serverVars,
                     RawsInTransit, Sent, Range
<1>13. CASE Server
  <2>1. /\ RawsInTransit' \subseteq RawsInTransit
        /\ \A msg \in Msgs' : msg \in Msgs \/ IsAnswerTo(msg, RawsInTransit)
    BY <1>1, <1>13, ServerType DEF Server, ConnectionTypeOK
  <2>2. QED
    BY <1>5, <1>13, <2>1 DEF Server, trackerVars, callerVars, workerVars, Sent, IsAnswerTo
<1>14. CASE \/ \E r \in Req : CallerAbandons(r)
            \/ Close \/ DropEvents \/ SelectEndOfStream \/ UNCHANGED vars
  <2>1. UNCHANGED <<next_id, answer, pending, sent, chan, wireVars, serverVars, work>>
    BY <1>14 DEF CallerAbandons, AbandonReply, Close, CloseChannel, DropEvents,
                 SelectEndOfStream, vars, connVars, trackerVars, callerVars, workerVars
  <2>2. QED
    BY <1>5, <2>1 DEF wireVars, serverVars, RawsInTransit, Sent
<1>15. QED
  BY <1>6, <1>7, <1>8, <1>9, <1>10, <1>11, <1>12, <1>13, <1>14 DEF Next, Work

\* While there is an id for each request, the id of a request is its place
\* among the tracked ones, in the tracker, on the wire and in its answer.
THEOREM ClientInvariant == ASSUME EnoughIds PROVE Spec => []NumberingInv
<1>1. Init => NumberingInv
  <2>1. SUFFICES ASSUME Init PROVE NumberingInv
    OBVIOUS
  <2>2. OwnershipInv
    <3>1. TypeOK
      BY <2>1, ConnectionInitType DEF Init, TypeOK
    <3>2. Requests(chan) = {}
      BY <2>1, RequestsOfNone DEF Init, ConnectionInit
    <3>3. QED
      BY <2>1, <3>1, <3>2, OwnedInit DEF Init, OwnershipInv
  <2>3. IdsInOrder(Requests(chan), RawsInTransit \cup Range(work), Range(s2c))
    <3>1. Requests(chan) = {} /\ Range(work) = {}
      BY <2>1, RequestsOfNone DEF Init, ConnectionInit, Range
    <3>2. QED
      BY <2>1, <3>1, NumberedInit DEF Init, IdsInOrder
  <2>4. Correlated
    BY <2>1 DEF Init, ConnectionInit, TrackerInit, Correlated
  <2>5. QED
    BY <2>2, <2>3, <2>4 DEF NumberingInv
<1>2. QED
  BY <1>1, InvariantStep, PTL DEF Spec

\* Then no request is ever handed another one's answer, whatever the worker
\* selects first and whatever the server answers first.
THEOREM AnswersAreCorrelated == ASSUME EnoughIds PROVE Spec => []Correlated
<1>1. NumberingInv => Correlated
  BY DEF NumberingInv
<1>2. QED
  BY <1>1, ClientInvariant, PTL

\* Then the answer to a request that still waits finds the handler of that
\* request.
THEOREM AnswersFindHandlers == ASSUME EnoughIds PROVE Spec => []AnswersFindTheirRequest
<1>1. ASSUME NumberingInv PROVE AnswersFindTheirRequest
  <2>1. ConnectionTypeOK /\ HandlersOwned(Requests(chan))
    BY <1>1 DEF NumberingInv, OwnershipInv, TypeOK
  <2>2. PICK log \in Logs :
          Numbered(log, Requests(chan), RawsInTransit \cup Range(work), Range(s2c))
    BY <1>1 DEF NumberingInv, IdsInOrder
  <2>3. \A msg \in Range(s2c) : msg \in Message
    BY <2>1 DEF ConnectionTypeOK, WireTypeOK, Range
  <2>4. QED
    BY <2>1, <2>2, <2>3, AnswerFindsRequest DEF AnswersFindTheirRequest
<1>2. QED
  BY <1>1, ClientInvariant, PTL

-----------------------------------------------------------------------------
(***************************************************************************)
(* What is in flight: the inductive invariant that the refinement needs.   *)
(***************************************************************************)

\* What the invariant says of types.
LEMMA ClientTypes ==
  ASSUME IInv
  PROVE  /\ TypeOK /\ ConnectionTypeOK /\ WireTypeOK /\ ChannelsTypeOK /\ TrackerTypeOK
         /\ OneIdEach /\ HandlersOwned(Requests(chan)) /\ ChannelHoldsOnce
         /\ RequestsOf(work) \in Seq(Req) /\ RequestsOnWire \in Seq(Req)
         /\ FlattenSeq(chan) \in Seq(Req)
<1>1. TypeOK /\ OwnershipInv
  BY DEF IInv, NumberingInv, OwnershipInv
<1>2. WireTypeOK /\ work \in Seq(RawRequest) /\ chan \in Seq(Seq(Req))
  BY <1>1 DEF TypeOK, ConnectionTypeOK, ChannelsTypeOK
<1>3. RequestsOf(work) \in Seq(Req) /\ RequestsOnWire \in Seq(Req) /\ FlattenSeq(chan) \in Seq(Req)
  BY <1>2, LineType, WireIs, FlattenType
<1>4. QED
  BY <1>1, <1>2, <1>3 DEF TypeOK, ConnectionTypeOK, OwnershipInv, HandlersOwned

\* Between two writes the worker has no line in its hand.
LEMMA NothingToWrite ==
  ASSUME IInv, worker # "write"
  PROVE  RequestsOf(work) = <<>> /\ RequestsOnWire \o RequestsOf(work) = RequestsOnWire
<1>1. RequestsOf(work) = <<>>
  BY LinesOfNone DEF IInv
<1>2. QED
  BY <1>1, ClientTypes, ConcatEmptySeq

\* A batch that the worker takes is tracked, and nothing else changes for its
\* requests or any other.
LEMMA SelectedIsTracked ==
  ASSUME EnoughIds, IInv, SelectRequest, chan # <<>>
  PROVE  /\ Head(chan) \in Seq(Req) /\ IsInjective(Head(chan))
         /\ Range(Head(chan)) \cap Held = {}
         /\ Held' = Held \cup Range(Head(chan)) /\ UNCHANGED reply
         /\ RequestsOf(work') = Head(chan)
<1> DEFINE W == Requests(chan)
<1>1. PICK log \in Logs : Numbered(log, W, RawsInTransit \cup Range(work), Range(s2c))
  BY DEF IInv, NumberingInv, IdsInOrder
<1>2. PICK b : b = Head(chan)
  OBVIOUS
<1>3. TrackRequest(b) /\ chan' = Tail(chan) /\ work' = RawRequests(b)
  BY <1>2 DEF SelectRequest
<1>4. b \in Seq(Req) /\ IsInjective(b) /\ Range(b) \subseteq W
  BY <1>2, <1>3, ClientTypes, ChannelTaken
<1>5. Held' = Held \cup Range(b) /\ UNCHANGED reply
  BY <1>1, <1>3, <1>4, ClientTypes, TrackedIsHeld
<1>6. Range(b) \cap Held = {}
  BY <1>4, ClientTypes DEF HandlersOwned
<1>7. RequestsOf(work') = b
  BY <1>3, <1>4, TrackedLine
<1>8. QED
  BY <1>2, <1>4, <1>5, <1>6, <1>7

\* Every step preserves it.
LEMMA FlightStep == ASSUME EnoughIds PROVE IInv /\ [Next]_vars => IInv'
<1> SUFFICES ASSUME IInv, [Next]_vars PROVE IInv'
  OBVIOUS
<1> DEFINE Out == RequestsOnWire \o RequestsOf(work)
           Flight == InFlightOnce(Out, OwedRequests, s2c, Held)
<1>1. NumberingInv' /\ NumberingInv
  BY InvariantStep DEF IInv
<1>2. WireTypeOK /\ WireTypeOK'
  BY <1>1 DEF NumberingInv, OwnershipInv, TypeOK, ConnectionTypeOK
<1>3. Running => Flight
  BY DEF IInv
<1>4. ASSUME worker' # "write" => work' = <<>>, Running' => Flight' PROVE IInv'
  BY <1>1, <1>4 DEF IInv
<1>5. ASSUME UNCHANGED <<pending, c2s, held, owed, s2c, worker, work>> PROVE IInv'
  BY <1>3, <1>4, <1>5
     DEF IInv, Running, RequestsOnWire, OwedRequests, Held
<1>6. CASE SelectRequest
  <2>1. CASE chan # <<>>
    <3> DEFINE b == Head(chan)
    <3>1. /\ worker = "select" /\ worker' = "write"
          /\ UNCHANGED <<RequestsOnWire, OwedRequests, s2c>>
      BY <1>6, <2>1 DEF SelectRequest, RequestsOnWire, OwedRequests, wireVars, serverVars
    <3>2. /\ b \in Seq(Req) /\ IsInjective(b) /\ Range(b) \cap Held = {}
          /\ Held' = Held \cup Range(b) /\ RequestsOf(work') = b
      BY <1>6, <2>1, SelectedIsTracked
    <3>3. InFlightOnce(RequestsOnWire, OwedRequests, s2c, Held) /\ RequestsOnWire \in Seq(Req)
      BY <1>3, <3>1, NothingToWrite, ClientTypes DEF Running
    <3> HIDE DEF b
    <3>4. InFlightOnce(RequestsOnWire \o b, OwedRequests, s2c, Held \cup Range(b))
      BY <3>2, <3>3, InFlightTracked
    <3>5. Flight'
      BY <3>1, <3>2, <3>4
    <3>6. QED
      BY <1>4, <3>1, <3>5
  <2>2. CASE chan = <<>>
    BY <1>4, <1>6, <2>2 DEF SelectRequest, IInv, Running
  <2>3. QED
    BY <2>1, <2>2
<1>7. CASE SelectMessage
  <2> DEFINE msg == Head(s2c)
             h == Held'
  <2>1. /\ worker = "select" /\ worker' # "write" /\ work' = work /\ s2c # <<>> /\ s2c' = Tail(s2c)
        /\ UNCHANGED <<RequestsOnWire, OwedRequests>>
    BY <1>7 DEF SelectMessage, ReadMessage, RequestsOnWire, OwedRequests, serverVars
  <2>2. msg \in Message /\ msg \in Range(s2c) /\ s2c \in Seq(Message)
    BY <1>2, <2>1, RangeTaken DEF WireTypeOK
  <2>3. Held \ (IF msg.type = "response" THEN {msg.of} ELSE {}) \subseteq h
    <3>1. PICK log \in Logs :
            Numbered(log, Requests(chan), RawsInTransit \cup Range(work), Range(s2c))
      BY DEF IInv, NumberingInv, IdsInOrder
    <3>2. CASE UNCHANGED trackerVars
      BY <3>2 DEF trackerVars, Held
    <3>3. CASE msg \in RawIncoming /\ HandleIncoming(msg)
      BY <2>2, <3>1, <3>3, ClientTypes, HandledIsHeld
    <3>4. QED
      BY <1>7, <2>2, <3>2, <3>3 DEF SelectMessage, Message
  <2>4. InFlightOnce(Out, OwedRequests, s2c, Held)
    BY <1>3, <2>1 DEF Running
  <2>5. InFlightOnce(Out, OwedRequests, Tail(s2c), h)
    <3> HIDE DEF h, Out
    <3>1. QED
      BY <2>1, <2>2, <2>3, <2>4, InFlightHandled
  <2>6. Flight'
    BY <2>1, <2>5
  <2>7. QED
    BY <1>4, <2>1, <2>6 DEF IInv
<1>8. CASE AwaitWrite
  <2>1. /\ worker = "write" /\ work' = <<>> /\ worker' \in {"select", "exit"}
        /\ UNCHANGED <<OwedRequests, s2c, Held>>
    BY <1>8 DEF AwaitWrite, OwedRequests, Held, trackerVars, serverVars
  <2>2. CASE WriteLine(work)
    <3>1. PICK a, b, c \in Seq(Req) : Out = a \o b \o c /\ RequestsOnWire' = a \o c
      BY <1>2, <2>2, ClientTypes, WriteLineMoves DEF TypeOK
    <3>2. InFlightOnce(a \o b \o c, OwedRequests, s2c, Held)
      BY <1>3, <2>1, <3>1 DEF Running
    <3>3. InFlightOnce(a \o c, OwedRequests, s2c, Held)
      <4>1. AnsweredBy(s2c) \cap OwedRequests = {}
        BY <3>2 DEF InFlightOnce
      <4>2. QED
        BY <3>2, <4>1, InFlightLess
    <3>4. RequestsOf(work') = <<>> /\ Out' = RequestsOnWire'
      BY <1>2, <2>1, LinesOfNone, WireBecomes, ConcatEmptySeq
    <3>5. Flight'
      BY <2>1, <3>1, <3>3, <3>4
    <3>6. QED
      BY <1>4, <2>1, <3>5
  <2>3. CASE worker' = "exit"
    BY <1>4, <2>1, <2>3 DEF Running
  <2>4. QED
    BY <1>8, <2>2, <2>3 DEF AwaitWrite
<1>9. CASE Server
  <2>1. ServerNext /\ UNCHANGED <<Held, worker, work>>
    BY <1>9 DEF Server, trackerVars, workerVars, Held
  <2>2. ASSUME Running PROVE Flight'
    <3> DEFINE X == RequestsOf(work)
    <3>1. OwedOnce
      <4>1. PICK log \in Logs :
              Numbered(log, Requests(chan), RawsInTransit \cup Range(work), Range(s2c))
        BY DEF IInv, NumberingInv, IdsInOrder
      <4>2. owed \subseteq RawsInTransit \cup Range(work)
        BY DEF RawsInTransit
      <4>3. QED
        BY <1>2, <4>1, <4>2, NumberedOnce
    <3>2. <<>> \o s2c = s2c /\ <<>> \o s2c' = s2c' /\ <<>> \in Seq(Message)
      BY <1>2, ConcatEmptySeq DEF WireTypeOK
    <3>3. X \in Seq(Req) /\ InFlightOnce(RequestsOnWire \o X, OwedRequests, <<>> \o s2c, Held)
      BY <1>3, <2>2, <3>2, ClientTypes
    <3> HIDE DEF X
    <3>4. InFlightOnce(RequestsOnWire' \o X, OwedRequests', <<>> \o s2c', Held)
      BY <1>2, <2>1, <3>1, <3>2, <3>3, ServerFlight
    <3>5. QED
      BY <2>1, <3>2, <3>4 DEF X
  <2>3. QED
    BY <1>4, <2>1, <2>2 DEF IInv, Running
<1>10. CASE SelectEndOfStream \/ AbortWorker \/ WorkerExit \/ WriterDrops
  <2>1. ~Running' /\ (worker' # "write" => work' = <<>>)
    BY <1>10 DEF SelectEndOfStream, AbortWorker, WorkerExit, WriterDrops, workerVars, Running, IInv
  <2>2. QED
    BY <1>4, <2>1
<1>11. CASE \/ \E batch \in Submissions : CallerSends(batch)
            \/ \E r \in Req : CallerAbandons(r)
            \/ Close \/ DropEvents \/ UNCHANGED vars
  <2>1. UNCHANGED <<pending, c2s, held, owed, s2c, worker, work>>
    BY <1>11 DEF CallerSends, SendBatch, CallerAbandons, AbandonReply, Close, CloseChannel,
                 DropEvents, vars, connVars, trackerVars, wireVars, serverVars, workerVars
  <2>2. QED
    BY <1>5, <2>1
<1>12. QED
  BY <1>6, <1>7, <1>8, <1>9, <1>10, <1>11 DEF Next, Work

-----------------------------------------------------------------------------
(***************************************************************************)
(* The steps, mapped to those of the contract.                             *)
(***************************************************************************)

ContractStep == [Contract!Next]_(Contract!vars)

\* Operators that the contract and the model both have.
LEMMA ContractOperators ==
  /\ \A s : Contract!Range(s) = Range(s)
  /\ \A R : Contract!Canceled(R) = Dropped(R)
  /\ \A S, n : Contract!SeqOf(S, n) = SeqOf(S, n)
  /\ Contract!Cardinality(Req) = Cardinality(Req)
BY Zenon DEF Contract!Range, Range, Contract!Canceled, Dropped, Contract!SeqOf, SeqOf,
             Contract!Cardinality, Cardinality

\* The outbox, in the order in which its parts reach the server.
LEMMA OutboxIs ==
  ASSUME IInv
  PROVE  /\ Outbox \in Seq(Req)
         /\ Outbox = RequestsOnWire \o (RequestsOf(work) \o FlattenSeq(chan))
         /\ RequestsOf(work) \o FlattenSeq(chan) \in Seq(Req)
         /\ worker # "write" => Outbox = RequestsOnWire \o FlattenSeq(chan)
<1> DEFINE x == RequestsOnWire
           y == RequestsOf(work)
           z == FlattenSeq(chan)
<1>1. x \in Seq(Req) /\ y \in Seq(Req) /\ z \in Seq(Req)
  BY ClientTypes
<1>2. x \o (y \o z) = (x \o y) \o z /\ (x \o y) \o z \in Seq(Req) /\ y \o z \in Seq(Req)
  <2> HIDE DEF x, y, z
  <2>1. x \o y \in Seq(Req) /\ y \o z \in Seq(Req)
    BY <1>1, ConcatProperties
  <2>2. (x \o y) \o z \in Seq(Req)
    BY <1>1, <2>1, ConcatProperties
  <2>3. QED
    BY <1>1, <2>1, <2>2, Regrouped
<1>3. worker # "write" => x \o y = x
  BY NothingToWrite
<1>4. QED
  BY <1>2, <1>3 DEF Outbox

\* What the worker or a closed server loses, from the middle of the outbox.
LEMMA LosesMiddle ==
  ASSUME NEW a \in Seq(Req), NEW b \in Seq(Req), NEW c \in Seq(Req),
         Outbox = a \o b \o c, Outbox' = a \o c,
         Running' => Running, ~Running' \/ peer = "closed",
         UNCHANGED <<sent, reply, chanState, owed, s2c, events, listening, peer>>
  PROVE  ContractStep
<1>1. PICK from, to \in 0 .. Len(Outbox) : from <= to /\ Cut(Outbox, from, to) = Outbox'
  BY MiddleCut, Zenon
<1>2. UNCHANGED <<Sent, OwedRequests, WithoutIds(s2c), WithoutIds(events), chanState = "open">>
  BY DEF Sent, OwedRequests, WithoutIds
<1>3. Contract!Lose(from, to)
  BY <1>1, <1>2 DEF Contract!Lose, Contract!MayStop, Cut
<1>4. QED
  BY <1>1, <1>3 DEF ContractStep, Contract!Next

\* So it is before what is not on the wire yet.
LEMMA LosesBefore ==
  ASSUME NEW a \in Seq(Req), NEW b \in Seq(Req), NEW c \in Seq(Req), NEW z \in Seq(Req)
  PROVE  /\ Outbox = (a \o b \o c) \o z /\ Outbox' = (a \o c) \o z
         /\ Running' => Running
         /\ ~Running' \/ peer = "closed"
         /\ UNCHANGED <<sent, reply, chanState, owed, s2c, events, listening, peer>>
         => ContractStep
<1>1. LosesOnly(a, b, (a \o b \o c) \o z, (a \o c) \o z)
  BY CutBefore, Zenon
<1>2. SUFFICES ASSUME Outbox = (a \o b \o c) \o z, Outbox' = (a \o c) \o z,
                      Running' => Running, ~Running' \/ peer = "closed",
                      UNCHANGED <<sent, reply, chanState, owed, s2c, events, listening, peer>>
               PROVE  ContractStep
  OBVIOUS
<1>3. PICK d \in Seq(Req) : Outbox = a \o b \o d /\ Outbox' = a \o d
  BY <1>1, <1>2, Zenon DEF LosesOnly
<1>4. QED
  BY <1>2, <1>3, LosesMiddle

\* What is given up before it is written is lost.
LEMMA GivesUpWork ==
  ASSUME IInv, IInv', work' = <<>>, ~Running', UNCHANGED connVars
  PROVE  ContractStep
<1> DEFINE a == RequestsOnWire
           b == RequestsOf(work)
           c == FlattenSeq(chan)
<1>1. a \in Seq(Req) /\ b \in Seq(Req) /\ c \in Seq(Req)
  BY ClientTypes
<1>2. Outbox = a \o b \o c
  BY DEF Outbox
<1>3. Outbox' = a \o c
  <2>1. RequestsOnWire' = a /\ FlattenSeq(chan') = c /\ RequestsOf(work') = <<>>
    BY LinesOfNone DEF connVars, callerVars, wireVars, RequestsOnWire
  <2>2. a \o <<>> = a
    <3> HIDE DEF a
    <3>1. QED
      BY <1>1, ConcatEmptySeq
  <2>3. QED
    BY <2>1, <2>2 DEF Outbox
<1>4. UNCHANGED <<sent, reply, chanState, owed, s2c, events, listening, peer>>
  BY DEF connVars, trackerVars, callerVars, eventVars, wireVars, serverVars
<1> HIDE DEF a, b, c
<1>5. QED
  BY <1>1, <1>2, <1>3, <1>4, LosesMiddle

\* The contract sees nothing of a step, but that the worker may end with it.
LEMMA StopsOrStutters ==
  ASSUME Running' => Running, Outbox' = Outbox,
         UNCHANGED <<sent, reply, chanState, owed, s2c, events, listening, peer>>
  PROVE  ContractStep
<1>1. UNCHANGED <<Sent, OwedRequests, WithoutIds(s2c), WithoutIds(events), chanState = "open">>
  BY DEF Sent, OwedRequests, WithoutIds
<1>2. Contract!Stop
  BY <1>1 DEF Contract!Stop, Contract!MayStop
<1>3. QED
  BY <1>2 DEF ContractStep, Contract!Next

\* A batch goes to the end of the outbox, or comes back.
LEMMA SendStep ==
  ASSUME EnoughIds, IInv, NEW b \in Submissions, CallerSends(b)
  PROVE  ContractStep
<1>1. /\ b \in Seq(Req) /\ b \in Seq(Req \ Sent) /\ IsInjective(b) /\ SendBatch(b)
      /\ UNCHANGED <<work, held, c2s>>
  BY SubmissionIsBatch DEF CallerSends, wireVars, workerVars
<1>2. Sent' = Sent \cup Range(b)
  BY <1>1, ClientTypes, SentGrows DEF SendBatch
<1>3. ASSUME chanState = "open" PROVE Outbox' = Outbox \o b
  <2>1. FlattenSeq(chan') = FlattenSeq(chan) \o b
    BY <1>1, <1>3, ClientTypes, FlattenAppended DEF SendBatch, ChannelsTypeOK
  <2>2. Outbox' = Outbox \o b
    <3> DEFINE x == RequestsOnWire \o RequestsOf(work)
               y == FlattenSeq(chan)
    <3>1. x \in Seq(Req) /\ y \in Seq(Req) /\ b \in Seq(Req)
      BY <1>1, ClientTypes, ConcatProperties
    <3>2. x \o (y \o b) = (x \o y) \o b
      <4> HIDE DEF x, y
      <4>1. QED
        BY <3>1, Regrouped
    <3>3. QED
      BY <1>1, <2>1, <3>2 DEF Outbox, RequestsOnWire
  <2>3. QED
    BY <2>2
<1>4. chanState # "open" => Outbox' = Outbox
  BY <1>1 DEF SendBatch, Outbox, RequestsOnWire
<1>5. UNCHANGED <<OwedRequests, WithoutIds(s2c), WithoutIds(events), Running, chanState = "open">>
  BY DEF CallerSends, SendBatch, OwedRequests, WithoutIds, Running,
         eventVars, wireVars, serverVars, workerVars
<1>6. Contract!Send(b)
  BY <1>2, <1>3, <1>4, <1>5, ContractOperators
     DEF CallerSends, SendBatch, Contract!Send, eventVars, wireVars, serverVars, workerVars
<1>7. b \in SeqOf(Req \ Sent, Cardinality(Req))
  <2>1. Len(b) <= Cardinality(Req) /\ Cardinality(Req) \in Nat /\ Len(b) \in Nat
    BY <1>1, InjectiveLength, FS_CardinalityType DEF EnoughIds
  <2>2. Len(b) \in 0 .. Cardinality(Req) /\ b \in [1 .. Len(b) -> Req \ Sent]
    BY <1>1, <2>1
  <2>3. QED
    BY <2>2, Zenon DEF SeqOf
<1>8. QED
  BY <1>6, <1>7, ContractOperators DEF ContractStep, Contract!Next

\* What callers do but send is a step of the same name in the contract.
LEMMA CallerStep ==
  ASSUME IInv, (\E r \in Req : CallerAbandons(r)) \/ Close \/ DropEvents
  PROVE  ContractStep
<1>1. UNCHANGED <<Sent, Outbox, OwedRequests, WithoutIds(s2c), WithoutIds(events), Running, peer>>
  BY DEF CallerAbandons, AbandonReply, Close, CloseChannel, DropEvents, DropEventReceiver,
         callerVars, eventVars, wireVars, serverVars, workerVars,
         Sent, Outbox, RequestsOnWire, OwedRequests, WithoutIds, Running
<1>2. ASSUME NEW r \in Req, CallerAbandons(r) PROVE Contract!Abandon(r)
  BY <1>1, <1>2
     DEF CallerAbandons, AbandonReply, Contract!Abandon, callerVars, eventVars
<1>3. CASE Close
  BY <1>1, <1>3
     DEF Close, CloseChannel, Contract!StopAccepting, ContractStep, Contract!Next,
         trackerVars, eventVars
<1>4. CASE DropEvents
  BY <1>1, <1>4
     DEF DropEvents, DropEventReceiver, Contract!StopListening, ContractStep, Contract!Next,
         trackerVars, callerVars
<1>5. QED
  BY <1>2, <1>3, <1>4 DEF ContractStep, Contract!Next

\* The outbox does not see a batch being tracked.
LEMMA SelectRequestStep ==
  ASSUME EnoughIds, IInv, SelectRequest
  PROVE  ContractStep
<1>1. /\ worker = "select"
      /\ UNCHANGED <<sent, chanState, held, c2s, owed, s2c, events, listening, peer>>
  BY DEF SelectRequest, eventVars, wireVars, serverVars
<1>2. CASE chan # <<>>
  <2> DEFINE b == Head(chan)
  <2>1. RequestsOf(work') = b /\ UNCHANGED reply
    BY <1>2, SelectedIsTracked
  <2>2. worker' = "write" /\ chan' = Tail(chan)
    BY <1>2 DEF SelectRequest
  <2>3. /\ FlattenSeq(chan) = b \o FlattenSeq(chan') /\ b \in Seq(Req)
        /\ FlattenSeq(chan') \in Seq(Req)
    <3>1. chan \in Seq(Seq(Req)) /\ Tail(chan) \in Seq(Seq(Req)) /\ Head(chan) \in Seq(Req)
      BY <1>2, ClientTypes, RequestsTaken DEF ChannelsTypeOK
    <3>2. QED
      BY <1>2, <2>2, <3>1, FlattenTaken, FlattenType
  <2>4. Outbox' = (RequestsOnWire \o b) \o FlattenSeq(chan')
    BY <1>1, <2>1 DEF Outbox, RequestsOnWire
  <2>5. Outbox = RequestsOnWire \o (b \o FlattenSeq(chan'))
    BY <1>1, <2>3, OutboxIs
  <2>6. Outbox' = Outbox
    <3> DEFINE x == RequestsOnWire
               z == FlattenSeq(chan')
    <3>1. x \in Seq(Req) /\ b \in Seq(Req) /\ z \in Seq(Req)
      BY <2>3, ClientTypes
    <3>2. x \o (b \o z) = (x \o b) \o z
      <4> HIDE DEF x, b, z
      <4>1. QED
        BY <3>1, Regrouped
    <3>3. QED
      BY <2>4, <2>5, <3>2
  <2>7. QED
    BY <1>1, <2>1, <2>2, <2>6, StopsOrStutters DEF Running
<1>3. CASE chan = <<>>
  <2>1. /\ worker' = "exit" /\ UNCHANGED <<reply, work, chan>>
    BY <1>3 DEF SelectRequest, trackerVars
  <2>2. UNCHANGED Outbox
    BY <1>1, <2>1 DEF Outbox, RequestsOnWire
  <2>3. QED
    BY <1>1, <2>1, <2>2, StopsOrStutters DEF Running
<1>4. QED
  BY <1>2, <1>3

\* A message takes effect.
LEMMA SelectMessageStep ==
  ASSUME EnoughIds, IInv, SelectMessage
  PROVE  ContractStep
<1> DEFINE msg == Head(s2c)
           m == WithoutId(msg)
           Usable == \/ m.type = "response" /\ m.result # "malformed"
                     \/ m.type = "notification" /\ m.params # "malformed"
           IsEvent == Usable /\ (m.type = "response" => m.of \in EventReq)
<1>1. /\ worker = "select" /\ s2c # <<>> /\ s2c' = Tail(s2c)
      /\ UNCHANGED <<sent, chan, chanState, held, c2s, owed, peer, work>>
  BY DEF SelectMessage, ReadMessage, callerVars, serverVars
<1>2. s2c \in Seq(Message) /\ msg \in Message /\ msg \in Range(s2c)
  BY <1>1, ClientTypes, RangeTaken DEF WireTypeOK
<1>3. /\ WithoutIds(s2c) # <<>> /\ Head(WithoutIds(s2c)) = m
      /\ Tail(WithoutIds(s2c)) = WithoutIds(s2c')
  BY <1>1, <1>2, WithoutIdsTaken
<1>4. UNCHANGED <<Sent, chanState = "open", Outbox, OwedRequests, peer>>
  BY <1>1 DEF Sent, Outbox, RequestsOnWire, OwedRequests
<1>5. Running /\ (worker' \in {"select", "exit"})
  BY <1>1 DEF Running, SelectMessage
<1>6. ASSUME msg.type = "response"
      PROVE  /\ msg \in Response /\ pending[msg.id] = msg.of /\ msg.of \in Req
             /\ m = [type |-> "response", of |-> msg.of, result |-> msg.result]
             /\ IsKnownResponse(msg)
  <2>1. PICK log \in Logs :
          Numbered(log, Requests(chan), RawsInTransit \cup Range(work), Range(s2c))
    BY DEF IInv, NumberingInv, IdsInOrder
  <2>2. msg.of \in Held
    <3>1. msg.of \in AnsweredBy(s2c)
      BY <1>2, <1>6 DEF AnsweredBy
    <3>2. QED
      BY <1>5, <3>1 DEF IInv, InFlightOnce
  <2>3. pending[msg.id] = msg.of /\ msg.of \in Req
    BY <1>2, <1>6, <2>1, <2>2, ClientTypes, ResponseMeetsHandler
  <2>4. msg \in Response
    BY <1>2, <1>6 DEF Message, RawIncoming, Notification, Garbage
  <2>5. QED
    BY <1>6, <2>2, <2>3, <2>4 DEF WithoutId, IsKnownResponse, Held
<1>7. Usable <=> msg # Garbage /\ ~IsProcessError(msg)
  <2>1. CASE msg.type = "response"
    BY <1>6, <2>1 DEF IsProcessError, Garbage
  <2>2. CASE msg.type # "response"
    <3>1. m = msg
      BY <2>2 DEF WithoutId
    <3>2. msg = Garbage \/ (msg.type = "notification" /\ msg # Garbage)
      BY <1>2, <2>2 DEF Message, RawIncoming, Notification, Response, Garbage
    <3>3. QED
      BY <2>2, <3>1, <3>2 DEF IsProcessError, Garbage
  <2>3. QED
    BY <2>1, <2>2
<1>8. IsEvent <=> msg # Garbage /\ GivesEvent(msg)
  <2>1. CASE msg.type = "response"
    BY <1>6, <1>7, <2>1 DEF GivesEvent
  <2>2. CASE msg.type # "response"
    <3>1. m = msg
      BY <2>2 DEF WithoutId
    <3>2. QED
      BY <1>7, <2>2, <3>1 DEF GivesEvent
  <2>3. QED
    BY <2>1, <2>2
<1>9. \/ /\ m.type = "response"
         /\ reply' = [reply EXCEPT ![m.of] =
              IF @ = "abandoned" THEN @
              ELSE IF m.result = "malformed" THEN "canceled" ELSE m.result]
      \/ m.type # "response" /\ UNCHANGED reply
  <2>1. CASE msg.type = "response"
    <3>1. HandleIncoming(msg)
      BY <2>1 DEF SelectMessage, Garbage
    <3>2. Resolve(msg)
      BY <1>6, <2>1, <3>1 DEF HandleIncoming
    <3>3. reply' = [reply EXCEPT ![msg.of] = Settled(msg.of, msg.result)]
      BY <1>6, <2>1, <3>2 DEF Resolve
    <3>4. m.type = "response" /\ m.of = msg.of /\ m.result = msg.result
      BY <1>6, <2>1
    <3>5. QED
      BY <3>3, <3>4 DEF Settled
  <2>2. CASE msg.type # "response"
    <3>1. m = msg /\ UNCHANGED reply
      BY <2>2 DEF WithoutId, SelectMessage, HandleIncoming, IsKnownResponse, trackerVars
    <3>2. QED
      BY <2>2, <3>1
  <2>3. QED
    BY <2>1, <2>2
<1>10. listening' = listening
  BY DEF SelectMessage, EmitEvent, eventVars
<1>11. IF IsEvent /\ listening THEN WithoutIds(events') = Append(WithoutIds(events), m)
       ELSE UNCHANGED events
  <2>1. CASE IsEvent /\ listening
    <3>1. events' = Append(events, msg)
      BY <1>8, <2>1 DEF SelectMessage, EmitEvent, GivesEvent
    <3>2. msg \in RawIncoming /\ events \in Seq(RawIncoming)
      BY <1>2, <1>8, <2>1, ClientTypes DEF Message, ChannelsTypeOK
    <3>3. QED
      BY <2>1, <3>1, <3>2, WithoutIdsAppended
  <2>2. CASE ~(IsEvent /\ listening)
    BY <1>8, <2>2 DEF SelectMessage, eventVars
  <2>3. QED
    BY <2>1, <2>2
<1>12. ~Usable \/ (IsEvent /\ ~listening) => ~Running'
  BY <1>7, <1>8 DEF SelectMessage, Running, GivesEvent
<1>13. Contract!Deliver
  <2> HIDE DEF msg, m
  <2>1. IF IsEvent /\ listening THEN WithoutIds(events') = Append(WithoutIds(events), m)
        ELSE UNCHANGED WithoutIds(events)
    BY <1>11 DEF WithoutIds
  <2>2. QED
    BY <1>3, <1>4, <1>5, <1>9, <1>10, <1>12, <2>1 DEF Contract!Deliver, Contract!MayStop
<1>14. QED
  BY <1>13 DEF ContractStep, Contract!Next

\* A line is written, or lost with a write that fails.
LEMMA AwaitWriteStep ==
  ASSUME IInv, IInv', AwaitWrite
  PROVE  ContractStep
<1>1. /\ worker = "write" /\ worker' \in {"select", "exit"} /\ work' = <<>>
      /\ UNCHANGED <<sent, chan, chanState, reply, owed, s2c, events, listening, peer>>
  BY DEF AwaitWrite, trackerVars, callerVars, eventVars, serverVars
<1>2. Outbox' = RequestsOnWire' \o FlattenSeq(chan)
  <2>1. RequestsOnWire' \in Seq(Req)
    BY WireBecomes DEF IInv, NumberingInv, OwnershipInv, TypeOK, ConnectionTypeOK
  <2>2. RequestsOnWire' \o <<>> = RequestsOnWire'
    BY <2>1, ConcatEmptySeq
  <2>3. QED
    BY <1>1, <2>2, LinesOfNone DEF Outbox
<1>3. CASE WriteLine(work)
  <2>1. PICK a, b, c \in Seq(Req) :
          /\ RequestsOnWire \o RequestsOf(work) = a \o b \o c
          /\ RequestsOnWire' = a \o c
          /\ b = <<>> \/ peer = "closed"
    <3>1. WireTypeOK /\ WireTypeOK' /\ work \in Seq(RawRequest)
      BY <1>1, ClientTypes DEF TypeOK, IInv, NumberingInv, OwnershipInv, ConnectionTypeOK
    <3>2. QED
      BY <1>3, <3>1, WriteLineMoves
  <2> DEFINE z == FlattenSeq(chan)
  <2>2. z \in Seq(Req)
    BY ClientTypes
  <2>3. Outbox = (a \o b \o c) \o z /\ Outbox' = (a \o c) \o z
    BY <1>2, <2>1 DEF Outbox
  <2> HIDE DEF z
  <2>4. CASE b = <<>>
    <3>1. a \o <<>> = a
      BY ConcatEmptySeq
    <3>2. Outbox' = Outbox
      BY <2>3, <2>4, <3>1
    <3>3. QED
      BY <1>1, <3>2, StopsOrStutters DEF Running
  <2>5. CASE peer = "closed"
    BY <1>1, <2>2, <2>3, <2>5, LosesBefore DEF Running
  <2>6. QED
    BY <2>1, <2>4, <2>5
<1>4. CASE WriteFails /\ worker' = "exit"
  <2> DEFINE a == RequestsOnWire
             b == RequestsOf(work)
             c == FlattenSeq(chan)
  <2>1. a \in Seq(Req) /\ b \in Seq(Req) /\ c \in Seq(Req) /\ Outbox = a \o b \o c
    BY ClientTypes DEF Outbox
  <2>2. Outbox' = a \o c
    BY <1>2, <1>4 DEF WriteFails, RequestsOnWire
  <2> HIDE DEF a, b, c
  <2>3. QED
    BY <1>1, <1>4, <2>1, <2>2, LosesMiddle DEF Running
<1>5. QED
  BY <1>3, <1>4 DEF AwaitWrite

\* Everything that waits is canceled, written or not.
LEMMA WorkerExitStep ==
  ASSUME IInv, IInv', WorkerExit
  PROVE  ContractStep
<1>1. /\ worker = "exit" /\ worker' = "done" /\ chan' = <<>> /\ work' = work
      /\ UNCHANGED <<sent, held, c2s, owed, s2c, events, listening, peer>>
  BY DEF WorkerExit, eventVars, wireVars, serverVars
<1>2. Outbox = RequestsOnWire \o FlattenSeq(chan) /\ Outbox' = RequestsOnWire
  <2>1. RequestsOf(work) = <<>> /\ FlattenSeq(chan') = <<>> /\ RequestsOnWire' = RequestsOnWire
    BY <1>1, NothingToWrite, FlattenEmpty DEF RequestsOnWire
  <2>2. RequestsOnWire \o <<>> = RequestsOnWire
    BY ClientTypes, ConcatEmptySeq
  <2>3. Outbox' = RequestsOnWire
    BY <1>1, <2>1, <2>2 DEF Outbox
  <2>4. QED
    BY <1>1, <2>3, OutboxIs
<1>3. PICK n \in 0 .. Len(Outbox) : Upto(Outbox, n) = Outbox'
  BY <1>2, ClientTypes, FrontCut, Zenon
<1>4. reply' = Dropped(Sent)
  <2>1. Sent \subseteq Req /\ HandlersOwned(Requests(chan))
    BY ClientTypes DEF ChannelsTypeOK, Sent, Range
  <2>2. reply' = Dropped(Held \cup Requests(chan))
    BY DEF WorkerExit
  <2>3. \A r \in Req : r \in Held \cup Requests(chan) /\ reply[r] = "open"
                        <=> r \in Sent /\ reply[r] = "open"
    BY <2>1 DEF HandlersOwned
  <2>4. QED
    BY <2>2, <2>3 DEF Dropped
<1>5. (chanState = "open")' = FALSE /\ ~Running /\ ~Running'
  BY <1>1 DEF WorkerExit, Running
<1>6. UNCHANGED <<Sent, OwedRequests, WithoutIds(s2c), WithoutIds(events), Running>>
  BY <1>1 DEF Sent, OwedRequests, WithoutIds, Running
<1>7. Contract!Cancel(n)
  BY <1>1, <1>3, <1>4, <1>5, <1>6, ContractOperators DEF Contract!Cancel, Upto
<1>8. QED
  BY <1>7 DEF ContractStep, Contract!Next

\* What the writer held back is lost, or stays in the outbox.
LEMMA WriterDropsStep ==
  ASSUME IInv, IInv', WriterDrops
  PROVE  ContractStep
<1>1. /\ worker = "done" /\ worker' = "done" /\ work' = work /\ chan' = chan
      /\ UNCHANGED <<sent, chanState, reply, owed, s2c, events, listening, peer>>
  BY DEF WriterDrops, DropHeld, trackerVars, callerVars, eventVars, serverVars, workerVars
<1>2. PICK a, b, c \in Seq(Req) : RequestsOnWire = a \o b \o c /\ RequestsOnWire' = a \o c
  <2>1. WireTypeOK /\ WireTypeOK' /\ DropHeld
    BY ClientTypes DEF WriterDrops, IInv, NumberingInv, OwnershipInv, TypeOK, ConnectionTypeOK
  <2>2. QED
    BY <2>1, DropHeldMoves
<1> DEFINE z == FlattenSeq(chan)
<1>3. z \in Seq(Req)
  BY ClientTypes
<1>4. Outbox = (a \o b \o c) \o z
  BY <1>1, <1>2, OutboxIs
<1>5. Outbox' = (a \o c) \o z
  <2>1. RequestsOf(work) = <<>>
    BY <1>1, NothingToWrite
  <2>2. (a \o c) \o <<>> = a \o c
    <3> DEFINE ac == a \o c
    <3>1. ac \in Seq(Req)
      BY ConcatProperties
    <3> HIDE DEF ac
    <3>2. ac \o <<>> = ac
      BY <3>1, ConcatEmptySeq
    <3>3. QED
      BY <3>2 DEF ac
  <2>3. QED
    BY <1>1, <1>2, <2>1, <2>2 DEF Outbox
<1> HIDE DEF z
<1>6. QED
  BY <1>1, <1>3, <1>4, <1>5, LosesBefore DEF Running

\* What is on the wire is the server's to take, to answer and to lose.
LEMMA ServerStep ==
  ASSUME EnoughIds, IInv, IInv', Server
  PROVE  ContractStep
<1> DEFINE z == RequestsOf(work) \o FlattenSeq(chan)
<1>1. /\ ServerNext
      /\ UNCHANGED <<sent, chan, chanState, reply, events, listening, worker, work>>
  BY DEF Server, trackerVars, callerVars, eventVars, workerVars
<1>2. UNCHANGED <<Sent, chanState = "open", reply, WithoutIds(events), listening, Running>>
  BY <1>1 DEF Sent, WithoutIds, Running
<1>3. WireTypeOK /\ WireTypeOK' /\ RequestsOnWire' \in Seq(Req)
  <2>1. WireTypeOK /\ WireTypeOK'
    BY ClientTypes DEF IInv, NumberingInv, OwnershipInv, TypeOK, ConnectionTypeOK
  <2>2. QED
    BY <2>1, WireBecomes
<1>4. z \in Seq(Req) /\ Outbox = RequestsOnWire \o z /\ Outbox' = RequestsOnWire' \o z
  <2>1. z \in Seq(Req) /\ Outbox = RequestsOnWire \o z
    BY OutboxIs
  <2>2. Outbox' = RequestsOnWire' \o (RequestsOf(work) \o FlattenSeq(chan))
    <3> DEFINE x == RequestsOnWire'
               y == RequestsOf(work)
               w == FlattenSeq(chan)
    <3>1. x \in Seq(Req) /\ y \in Seq(Req) /\ w \in Seq(Req)
      BY <1>3, ClientTypes
    <3>2. Outbox' = (x \o y) \o w
      BY <1>1 DEF Outbox
    <3> HIDE DEF x, y, w
    <3>3. Outbox' = x \o (y \o w)
      BY <3>1, <3>2, Regrouped
    <3>4. QED
      BY <3>3 DEF x, y, w
  <2>3. QED
    BY <2>1, <2>2
<1> HIDE DEF z
<1>5. ASSUME NEW h \in Seq(Req), RequestsOnWire = h \o RequestsOnWire'
      PROVE  \E n \in 0 .. Len(Outbox) : Upto(Outbox, n) = h /\ After(Outbox, n) = Outbox'
  <2> DEFINE x == RequestsOnWire'
             c == x \o z
  <2>1. x \in Seq(Req) /\ Outbox = (h \o x) \o z
    BY <1>3, <1>4, <1>5
  <2>2. c \in Seq(Req) /\ Outbox' = c
    BY <1>3, <1>4, ConcatProperties
  <2>3. Outbox = h \o c
    <3> HIDE DEF x
    <3>1. (h \o x) \o z = h \o (x \o z)
      BY <1>4, <2>1, Regrouped
    <3>2. QED
      BY <2>1, <3>1
  <2> HIDE DEF c
  <2>4. \E n \in 0 .. Len(Outbox) : Upto(Outbox, n) = h /\ After(Outbox, n) = c
    BY <2>2, <2>3, FrontCut, Zenon
  <2>5. QED
    BY <2>2, <2>4
<1>6. CASE ServerReceives
  <2>1. PICK h \in Seq(Req) : /\ RequestsOnWire = h \o RequestsOnWire'
                              /\ OwedRequests' = OwedRequests \cup Range(h)
    BY <1>3, <1>6, ServerReceivesMoves
  <2>2. PICK n \in 0 .. Len(Outbox) : Upto(Outbox, n) = h /\ After(Outbox, n) = Outbox'
    BY <1>5, <2>1
  <2>3. peer = "open" /\ UNCHANGED <<s2c, peer>>
    BY <1>6 DEF ServerReceives
  <2>4. Contract!ServerTakes(n)
    BY <1>2, <2>1, <2>2, <2>3, ContractOperators
       DEF Contract!ServerTakes, Upto, After, WithoutIds
  <2>5. QED
    BY <2>4 DEF ContractStep, Contract!Next
<1>7. CASE ServerCloses
  <2>1. PICK h \in Seq(Req) : RequestsOnWire = h \o RequestsOnWire'
    BY <1>3, <1>7, ServerClosesMoves
  <2>2. PICK n \in 0 .. Len(Outbox) : Upto(Outbox, n) = h /\ After(Outbox, n) = Outbox'
    BY <1>5, <2>1
  <2>3. peer' = "closed" /\ OwedRequests' = {} /\ UNCHANGED s2c
    BY <1>3, <1>7, ServerClosesMoves DEF ServerCloses
  <2>4. Contract!ServerCloses(n)
    BY <1>2, <2>2, <2>3 DEF Contract!ServerCloses, After, WithoutIds
  <2>5. QED
    BY <2>4 DEF ContractStep, Contract!Next
<1>8. CASE ~ServerReceives /\ ~ServerCloses
  <2>1. OwedOnce
    <3>1. PICK log \in Logs :
            Numbered(log, Requests(chan), RawsInTransit \cup Range(work), Range(s2c))
      BY DEF IInv, NumberingInv, IdsInOrder
    <3>2. owed \subseteq RawsInTransit \cup Range(work)
      BY DEF RawsInTransit
    <3>3. QED
      BY <1>3, <3>1, <3>2, NumberedOnce
  <2>2. PICK msg \in Message :
          /\ peer = "open" /\ s2c' = Append(s2c, msg)
          /\ IF msg.type = "response"
             THEN msg.of \in OwedRequests /\ OwedRequests' = OwedRequests \ {msg.of}
             ELSE OwedRequests' = OwedRequests
          /\ UNCHANGED <<RequestsOnWire, peer>>
    BY <1>1, <1>3, <1>8, <2>1, ServerSendsMoves
  <2> DEFINE m == WithoutId(msg)
  <2>3. WithoutIds(s2c') = Append(WithoutIds(s2c), m)
    BY <1>3, <2>2, WithoutIdsAppended DEF WireTypeOK
  <2>4. \/ msg.type = "response" /\ m.type = "response" /\ m.of = msg.of /\ m \in Contract!Response
        \/ msg.type # "response" /\ m \in Contract!Other
    BY DEF WithoutId, Message, RawIncoming, Response, Notification, Garbage,
           Contract!Response, Contract!Other
  <2>5. Outbox' = Outbox
    BY <1>4, <2>2
  <2> HIDE DEF m
  <2>6. Contract!ServerSends(m)
    BY <1>2, <2>2, <2>3, <2>4, <2>5 DEF Contract!ServerSends
  <2>7. QED
    BY <2>4, <2>6 DEF ContractStep, Contract!Next
<1>9. QED
  BY <1>6, <1>7, <1>8

-----------------------------------------------------------------------------
(***************************************************************************)
(* The refinement.                                                         *)
(***************************************************************************)

\* The client starts where the contract does.
LEMMA InitRefines == ASSUME Init, NumberingInv PROVE IInv /\ Contract!Init
<1>1. ConnectionInit /\ worker = "select" /\ work = <<>> /\ Running
  BY DEF Init, Running
<1>2. RequestsOnWire \o RequestsOf(work) = <<>> /\ Outbox = <<>>
  <2>1. RequestsOnWire = <<>> /\ RequestsOf(work) = <<>> /\ FlattenSeq(chan) = <<>>
    BY <1>1, ContractInit, LinesOfNone
  <2>2. QED
    BY <2>1 DEF Outbox
<1>3. IInv
  BY <1>1, <1>2, ContractInit DEF IInv
<1>4. Contract!Init
  BY <1>1, <1>2, ContractInit DEF Contract!Init, ConnectionInit, TrackerInit
<1>5. QED
  BY <1>3, <1>4

\* Each step is one of the contract's, or a stutter.
LEMMA StepRefines ==
  ASSUME EnoughIds, IInv, IInv', [Next]_vars
  PROVE  ContractStep
<1>1. CASE SelectEndOfStream
  <2>1. UNCHANGED <<Outbox, sent, reply, chanState, owed, s2c, events, listening, peer>>
    BY <1>1 DEF SelectEndOfStream, connVars, trackerVars, callerVars, eventVars, wireVars,
                serverVars, Outbox, RequestsOnWire
  <2>2. QED
    BY <1>1, <2>1, StopsOrStutters DEF SelectEndOfStream, Running
<1>2. CASE AbortWorker
  BY <1>2, GivesUpWork DEF AbortWorker, Running
<1>3. CASE UNCHANGED vars
  <2>1. UNCHANGED <<Outbox, sent, reply, chanState, owed, s2c, events, listening, peer, Running>>
    BY <1>3 DEF vars, workerVars, connVars, trackerVars, callerVars, eventVars, wireVars,
                serverVars, Outbox, RequestsOnWire, Running
  <2>2. QED
    BY <2>1, StopsOrStutters
<1>4. QED
  BY <1>1, <1>2, <1>3, SendStep, CallerStep, SelectRequestStep, SelectMessageStep,
     AwaitWriteStep, WorkerExitStep, WriterDropsStep, ServerStep DEF Next, Work

\* While the worker runs and there is an id for each request, a tracked
\* request is in one place, on its way out, with the server or in an answer,
\* and the tracker has its handler.
THEOREM FlightInvariant == ASSUME EnoughIds PROVE Spec => []IInv
<1>1. Init /\ NumberingInv => IInv
  BY InitRefines
<1>2. IInv /\ [Next]_vars => IInv'
  BY FlightStep
<1>3. QED
  BY <1>1, <1>2, ClientInvariant, PTL DEF Spec

\* AsyncClient implements ClientContract: what the select loop, the tracker
\* and its ids do to a request and its answer, callers can take for a queue
\* to the server, a set of owed requests and a queue back.
THEOREM ImplementsTheContract == ASSUME EnoughIds PROVE Spec => ImplementsContract
<1>1. Init /\ NumberingInv => Contract!Init
  BY InitRefines
<1>2. IInv /\ IInv' /\ [Next]_vars => [Contract!Next]_(Contract!vars)
  BY StepRefines DEF ContractStep
<1>3. QED
  BY <1>1, <1>2, ClientInvariant, FlightInvariant, PTL
     DEF Spec, ImplementsContract, Contract!Spec

=============================================================================
