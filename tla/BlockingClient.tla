--------------------------- MODULE BlockingClient ---------------------------
(***************************************************************************)
(* BlockingClient: a read thread and a write thread that share one         *)
(* RequestTracker behind a mutex (client.rs, BlockingClient::new).         *)
(*                                                                         *)
(* The read thread holds the mutex while a message is handled, callbacks   *)
(* included, and releases it before it sends the event; the write thread   *)
(* holds it to track a batch and writes the batch afterwards.  Nothing     *)
(* tells one thread that the other has stopped: each keeps its reference   *)
(* to the tracker, whose handlers are dropped with the last of the two.    *)
(***************************************************************************)
EXTENDS Connection

VARIABLES
  reader,    \* the read thread: "read", "lock", "callback", "emit", "exit", "done"
  hand,      \* the message it is at
  writer,    \* the write thread: "recv", "lock", "write", "exit", "done"
  work,      \* the batch, then the line, it is at
  poisoned,  \* whether a thread panicked with the mutex held
  calling    \* the request a callback waits for in send_request, or NoReq

threadVars == <<reader, hand, writer, work, poisoned, calling>>
vars == <<connVars, threadVars>>

TypeOK ==
  /\ ConnectionTypeOK
  /\ reader \in {"read", "lock", "callback", "emit", "exit", "done"}
  /\ hand \in CASE reader = "lock" -> Message
               [] reader = "emit" -> RawIncoming
               [] OTHER -> {NoMessage}
  /\ writer \in {"recv", "lock", "write", "exit", "done"}
  /\ work \in CASE writer \in {"lock", "exit"} -> Seq(Req)
               [] writer = "write" -> Seq(RawRequest)
               [] OTHER -> {<<>>}
  /\ poisoned \in BOOLEAN
  /\ calling \in Req \cup {NoReq}

Init ==
  /\ ConnectionInit
  /\ reader = "read" /\ hand = NoMessage
  /\ writer = "recv" /\ work = <<>>
  /\ poisoned = FALSE /\ calling = NoReq

\* Mutants: the mutex is not held in a callback; it is also held in a write.
NeverLocked == FALSE
LockedInWrite == reader = "callback" \/ writer = "write"

\* The mutex is held across steps only while a callback runs: the guard of
\* track_request goes before the line is written.
Locked == reader = "callback"

-----------------------------------------------------------------------------
(***************************************************************************)
(* The read thread.                                                        *)
(***************************************************************************)

ReadNext ==
  /\ reader = "read"
  /\ \/ ReadMessage /\ hand' = Head(s2c) /\ reader' = "lock"
     \/ EndOfStream /\ reader' = "exit" /\ UNCHANGED <<s2c, hand>>
  /\ UNCHANGED <<trackerVars, callerVars, eventVars, held, c2s, serverVars,
                 writer, work, poisoned, calling>>

\* Whether handling the message runs a callback of the user's own.
RunsCallback(msg) ==
  ~IsProcessError(msg) /\ msg.type = "response" /\ pending[msg.id] \in CallbackReq

\* The mutex is taken before the result of the read is looked at.  The
\* error of a message ends the thread, after what the message changed.
ReadHandle ==
  /\ reader = "lock" /\ ~Locked
  /\ \/ hand = Garbage /\ reader' = "exit" /\ UNCHANGED trackerVars
     \/ /\ hand # Garbage
        /\ HandleIncoming(hand)
        /\ reader' = CASE IsProcessError(hand) -> "exit"
                       [] RunsCallback(hand) -> "callback"
                       [] GivesEvent(hand) -> "emit"
                       [] OTHER -> "read"
  /\ hand' = IF reader' = "emit" THEN hand ELSE NoMessage
  /\ UNCHANGED <<callerVars, eventVars, wireVars, serverVars,
                 writer, work, poisoned, calling>>

\* A callback may call send_request on a client it holds, and wait.
CallbackCalls(r) ==
  /\ reader = "callback" /\ calling = NoReq
  /\ r \in CallReq \ Sent
  /\ chanState # "closed"
  /\ SendBatch(<<r>>)
  /\ calling' = r
  /\ UNCHANGED <<eventVars, wireVars, serverVars, reader, hand, writer, work, poisoned>>

CallbackReturns ==
  /\ reader = "callback"
  /\ calling # NoReq => reply[calling] # "open"
  /\ reader' = "read" /\ calling' = NoReq
  /\ UNCHANGED <<connVars, hand, writer, work, poisoned>>

CallbackPanics ==
  /\ "panic" \in Faults
  /\ reader = "callback" /\ calling = NoReq
  /\ reader' = "exit" /\ poisoned' = TRUE
  /\ UNCHANGED <<connVars, hand, writer, work, calling>>

\* The event is sent without the mutex; with nobody to receive it, the
\* thread stops.
ReadEmit ==
  /\ reader = "emit"
  /\ \/ listening /\ EmitEvent(hand) /\ reader' = "read"
     \/ ~listening /\ reader' = "exit" /\ UNCHANGED eventVars
  /\ hand' = NoMessage
  /\ UNCHANGED <<trackerVars, callerVars, wireVars, serverVars,
                 writer, work, poisoned, calling>>

\* Mutant: the tracker is never dropped.
ReleasedByNone(other, R) == reply' = Dropped(R) /\ UNCHANGED pending

\* What happens to the tracker when a thread drops its reference to it.
Released(other, R) ==
  IF other = "done"
  THEN pending' = [i \in Ids |-> NoReq] /\ reply' = Dropped(Held \cup R)
  ELSE reply' = Dropped(R) /\ UNCHANGED pending

ReadExit ==
  /\ reader = "exit"
  /\ reader' = "done"
  /\ Released(writer, {})
  /\ UNCHANGED <<next_id, answer, callerVars, eventVars, wireVars, serverVars,
                 hand, writer, work, poisoned, calling>>

-----------------------------------------------------------------------------
(***************************************************************************)
(* The write thread.                                                       *)
(***************************************************************************)

\* Mutants: the last batch is taken first; a line is written before it is
\* tracked.
WriteRecvLast ==
  /\ writer = "recv"
  /\ \/ /\ chan # <<>>
        /\ work' = Last(chan) /\ chan' = Front(chan)
        /\ writer' = "lock"
     \/ /\ chan = <<>> /\ chanState = "closed"
        /\ writer' = "exit"
        /\ UNCHANGED <<work, chan>>
  /\ UNCHANGED <<trackerVars, sent, chanState, eventVars, wireVars, serverVars,
                 reader, hand, poisoned, calling>>

WriteRecvSends ==
  /\ writer = "recv" /\ chan # <<>>
  /\ work' = Head(chan) /\ chan' = Tail(chan)
  /\ writer' = "lock"
  /\ WriteLine(RawRequests(work'))
  /\ UNCHANGED <<trackerVars, sent, chanState, eventVars, s2c, serverVars,
                 reader, hand, poisoned, calling>>

WriteRecv ==
  /\ writer = "recv"
  /\ \/ /\ chan # <<>>
        /\ work' = Head(chan) /\ chan' = Tail(chan)
        /\ writer' = "lock"
     \/ /\ chan = <<>> /\ chanState = "closed"
        /\ writer' = "exit"
        /\ UNCHANGED <<work, chan>>
  /\ UNCHANGED <<trackerVars, sent, chanState, eventVars, wireVars, serverVars,
                 reader, hand, poisoned, calling>>

\* Mutant: the poison of the mutex is ignored.
WriteTrackPoisoned ==
  /\ writer = "lock"
  /\ ~Locked
  /\ TrackRequest(work)
  /\ work' = RawRequests(work)
  /\ writer' = "write"
  /\ UNCHANGED <<callerVars, eventVars, wireVars, serverVars,
                 reader, hand, poisoned, calling>>

\* On a poisoned mutex the thread panics, the batch still in its hand.
WriteTrack ==
  /\ writer = "lock"
  /\ ~Locked
  /\ \/ /\ ~poisoned
        /\ TrackRequest(work)
        /\ work' = RawRequests(work)
        /\ writer' = "write"
     \/ /\ poisoned
        /\ writer' = "exit"
        /\ UNCHANGED <<trackerVars, work>>
  /\ UNCHANGED <<callerVars, eventVars, wireVars, serverVars,
                 reader, hand, poisoned, calling>>

WriteSend ==
  /\ writer = "write"
  /\ \/ WriteLine(work) /\ writer' = "recv"
     \/ WriteFails /\ writer' = "exit"
  /\ work' = <<>>
  /\ UNCHANGED <<trackerVars, callerVars, eventVars, s2c, serverVars,
                 reader, hand, poisoned, calling>>

\* Mutant: the batches in the channel are not dropped.
WriteExitLeaks ==
  /\ writer = "exit"
  /\ writer' = "done"
  /\ chanState' = IF chanState = "open" THEN "gone" ELSE chanState
  /\ chan' = <<>> /\ work' = <<>>
  /\ Released(reader, Range(work))
  /\ UNCHANGED <<next_id, answer, sent, eventVars, wireVars, serverVars,
                 reader, hand, poisoned, calling>>

\* The thread drops the receiver with the batches in the channel, and the
\* batch a panic left in its hand.
WriteExit ==
  /\ writer = "exit"
  /\ writer' = "done"
  /\ chanState' = IF chanState = "open" THEN "gone" ELSE chanState
  /\ chan' = <<>> /\ work' = <<>>
  /\ Released(reader, Requests(chan) \cup Range(work))
  /\ UNCHANGED <<next_id, answer, sent, eventVars, wireVars, serverVars,
                 reader, hand, poisoned, calling>>

\* The thread's writer is dropped with it, and what it holds comes out.
WriterDrops ==
  /\ writer = "done"
  /\ DropHeld
  /\ UNCHANGED <<trackerVars, callerVars, eventVars, serverVars, threadVars>>

-----------------------------------------------------------------------------
(***************************************************************************)
(* The callers and the server.                                             *)
(***************************************************************************)

CallerSends(batch) ==
  /\ chanState # "closed"
  /\ SendBatch(batch)
  /\ UNCHANGED <<eventVars, wireVars, serverVars, threadVars>>

CallerAbandons(r) ==
  /\ r \notin CallReq
  /\ AbandonReply(r)
  /\ UNCHANGED <<callerVars, eventVars, wireVars, serverVars, threadVars>>

\* The last handle is dropped: a caller that waits in send_request holds one.
\* A callback of the user's own may hold one too, or none.
DropClient ==
  /\ \A r \in Sent \cap CallReq : reply[r] # "open"
  /\ CloseChannel
  /\ UNCHANGED <<trackerVars, eventVars, wireVars, serverVars, threadVars>>

DropEvents ==
  /\ DropEventReceiver
  /\ UNCHANGED <<trackerVars, callerVars, wireVars, serverVars, threadVars>>

Server == ServerNext /\ UNCHANGED <<trackerVars, callerVars, eventVars, threadVars>>

Read == ReadNext \/ ReadHandle \/ CallbackReturns \/ ReadEmit \/ ReadExit
Write == WriteRecv \/ WriteTrack \/ WriteSend \/ WriteExit \/ WriterDrops

Next ==
  \/ \E batch \in Submissions : CallerSends(batch)
  \/ \E r \in Req : CallerAbandons(r)
  \/ DropClient
  \/ DropEvents
  \/ Read
  \/ CallbackPanics
  \/ \E r \in CallReq : CallbackCalls(r)
  \/ Write
  \/ Server

Spec == Init /\ [][Next]_vars

\* A write goes on once there is room for it, be it for the last line of what
\* the writer holds.  No writer owes it to hold a line back, nor to fail.
WriteGoesOn == WriteSend /\ TransmitOldest(work)

\* The scheduler runs both threads, callbacks return unless they wait for a
\* call of theirs, and the server takes and answers what it is sent unless
\* it closes.  Nothing obliges a user or a fault to happen.
Fairness ==
  /\ WF_vars(Read)
  /\ WF_vars(WriteRecv \/ WriteTrack \/ WriteGoesOn \/ WriteExit \/ WriterDrops)
  /\ WF_vars(ServerReceives /\ UNCHANGED <<trackerVars, callerVars, eventVars, threadVars>>)
  /\ \A q \in RawRequest :
       WF_vars(/\ \E result \in Results : ServerAnswers(q, result)
               /\ UNCHANGED <<trackerVars, callerVars, eventVars, threadVars>>)

FairSpec == Spec /\ Fairness

-----------------------------------------------------------------------------
(***************************************************************************)
(* Properties.                                                             *)
(***************************************************************************)

\* The handler of an unresolved request is in exactly one place: in the
\* channel, in the write thread's hand, or under one id of the tracker.  The
\* handler of a resolved request is nowhere, so it cannot run again.  Hence
\* no caller waits once both threads are gone (client.rs:322-344).
HandlerHeldOnce ==
  \A r \in Req :
    LET InChannel == r \in Requests(chan)
        InHand == writer # "write" /\ r \in Range(work)
        Under == {i \in Ids : pending[i] = r}
        Places == Cardinality(Under) + (IF InChannel THEN 1 ELSE 0) + (IF InHand THEN 1 ELSE 0)
    IN CASE reply[r] = "open" -> Places = (IF r \in Sent THEN 1 ELSE 0)
         [] reply[r] = "abandoned" -> Places <= 1
         [] OTHER -> Places = 0

NoWaiterWithoutThreads ==
  reader = "done" /\ writer = "done" => \A r \in Sent : reply[r] # "open"

\* The messages that have come and not been handled.
Unhandled == Range(s2c) \cup (IF reader = "lock" THEN {hand} ELSE {})

\* Whatever the two threads interleave, the answer to an unresolved request
\* finds its handler: a batch is tracked before it is written, so that no
\* answer is taken for one to an unknown request (client.rs:324-341).
AnswersFindTheirRequest ==
  \A msg \in Unhandled :
    msg.type = "response" /\ reply[msg.of] = "open" => pending[msg.id] = msg.of

\* A request that a callback makes with send_request and waits for is never
\* answered, as the read thread holds the mutex: at best it is canceled.
NestedCallIsNeverAnswered ==
  calling # NoReq => reply[calling] \in {"open", "canceled"} /\ calling \notin Held

\* The batch the write thread has taken from the channel and not tracked, and
\* the line it has made of one and not written.
Untracked == IF writer = "write" THEN <<>> ELSE work
Unwritten == IF writer = "write" THEN work ELSE <<>>

Waiting == Requests(chan) \cup Range(Untracked)

\* The last of the threads to stop drops what they share, and the write thread
\* the receiver.
StoppedThreadsHoldNothing ==
  /\ writer = "done" => chan = <<>> /\ chanState # "open"
  /\ writer = "done" /\ reader = "done" => Held = {}

\* No request waits twice.
WaitsOnce ==
  /\ ChannelHoldsOnce
  /\ IsInjective(Untracked) /\ Range(Untracked) \cap Requests(chan) = {}

\* What every step preserves, also when ids wrap around: HandlerHeldOnce,
\* NoWaiterWithoutThreads and NestedCallIsNeverAnswered follow.
OwnershipInv ==
  /\ TypeOK
  /\ WaitsOnce
  /\ HandlersOwned(Waiting)
  /\ StoppedThreadsHoldNothing
  /\ calling # NoReq => reader = "callback" /\ calling \in CallReq
  /\ NestedCallIsNeverAnswered

\* What every step preserves while there is an id for each request: Correlated
\* and AnswersFindTheirRequest follow ...
NumberingInv ==
  /\ OwnershipInv
  /\ IdsInOrder(Waiting, RawsInTransit \cup Range(Unwritten), Unhandled)
  /\ Correlated

\* The messages that have come and not been handled, in their order.
Unresolved == (IF reader = "lock" THEN <<hand>> ELSE <<>>) \o s2c

Reading == reader \notin {"exit", "done"}
Writing == writer \notin {"exit", "done"}

\* An event that waits to be sent is that of a notification, or of a request
\* which is resolved already.
EventIsDue ==
  IF hand.type = "response"
  THEN hand.of \in EventReq /\ hand.result # "malformed" /\ reply[hand.of] = hand.result
  ELSE hand.params = "valid"

\* ... and what ImplementsContract needs besides.
IInv ==
  /\ NumberingInv
  /\ Reading => InFlightOnce(RequestsOnWire \o RequestsOf(Unwritten), OwedRequests, Unresolved, Held)
  /\ reader = "emit" => EventIsDue
  /\ \A r \in EventReq : reply[r] # "abandoned"

\* Unless a write fails on an open connection, again and again no request
\* waits that was sent, or the read thread has stopped, or a callback waits
\* for a call of its own: the two threads, the mutex and the transport do not
\* wait on each other for good, however little the transport holds.
EventuallySettled ==
  []<>((\A r \in Sent : reply[r] # "open") \/ reader = "done" \/ calling # NoReq)

\* A panic of a callback poisons the mutex: the next batch that the write
\* thread finds in the channel stops it, and every request still waiting is
\* canceled with it.  (A write that waits for room, which nobody makes once
\* the read thread has ended, keeps the thread from its channel for good.)
PoisonCancelsOnNextRequest ==
  (poisoned /\ chan # <<>> /\ writer # "write") ~> (\A r \in Sent : reply[r] # "open")

\* What the comment of send_request says (client.rs:356-357): a call returns
\* Canceled if the client shut down.  Here: once the read thread has stopped,
\* after which nothing can be answered, a waiting call returns.
CallsReturnAfterShutdown ==
  \A r \in CallReq : (r \in Sent /\ reader = "done") ~> reply[r] # "open"

\* The requests of the batch, or the line, that the write thread is at.
InWork ==
  IF writer = "write" THEN RequestsOf(work) ELSE work

\* What the README says (README.md:12): the client works with any writer that
\* implements Write, hence with one that buffers.  Here: with nothing that
\* fails, each request given to the client reaches the transport.
SentIsTransmitted ==
  \A r \in Req : r \in Sent ~> r \notin Requests(chan) \cup Range(InWork)
                                     \cup UNION {Range(RequestsOf(line)) : line \in Range(held)}

-----------------------------------------------------------------------------
(***************************************************************************)
(* BlockingClient implements ClientContract.  A message is in the inbox    *)
(* until it has taken effect: until the read thread has handled it, and,   *)
(* if it makes an event, has sent that event.                              *)
(***************************************************************************)
InReaderHand == IF reader \in {"lock", "emit"} THEN <<hand>> ELSE <<>>

ReplyOnceEmitted ==
  [r \in Req |-> IF reader = "emit" /\ hand.type = "response" /\ hand.of = r
                 THEN "open" ELSE reply[r]]

Outbox == RequestsOnWire \o InWork \o FlattenSeq(chan)

Contract == INSTANCE ClientContract WITH
  sent <- Sent,
  reply <- ReplyOnceEmitted,
  accepting <- chanState = "open",
  outbox <- Outbox,
  owed <- OwedRequests,
  inbox <- WithoutIds(InReaderHand \o s2c),
  events <- WithoutIds(events),
  reading <- Reading,
  writing <- Writing

\* Two threads, ids, mutex and tracker come down to what ClientContract
\* promises: requests and messages in order, to each its own answer, and
\* no cancellation but of a malformed answer or by a thread that stops.
ImplementsContract == Contract!Spec

=============================================================================
