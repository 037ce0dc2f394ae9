----------------------------- MODULE AsyncClient -----------------------------
(***************************************************************************)
(* AsyncClient: one worker, a future that selects between the next request *)
(* and the next message (client.rs, AsyncClient::new).                     *)
(*                                                                         *)
(* Between two awaits the worker's code is one step.  While it awaits the  *)
(* write of a batch it reads nothing.  When it ends, for whatever reason,  *)
(* it drops the tracker, the receiver of requests and the sender of events *)
(* together.                                                               *)
(***************************************************************************)
EXTENDS Connection

VARIABLES
  worker,  \* "select", "write", "exit" or "done"
  work     \* the line it writes

workerVars == <<worker, work>>
vars == <<connVars, workerVars>>

TypeOK ==
  /\ ConnectionTypeOK
  /\ worker \in {"select", "write", "exit", "done"}
  /\ work \in Seq(RawRequest)

Init ==
  /\ ConnectionInit
  /\ worker = "select" /\ work = <<>>

-----------------------------------------------------------------------------
(***************************************************************************)
(* The worker.                                                             *)
(***************************************************************************)

\* Mutant: the end of the closed channel is not noticed.
SelectRequestOnly ==
  /\ worker = "select"
  /\ chan # <<>>
  /\ TrackRequest(Head(chan))
  /\ work' = RawRequests(Head(chan)) /\ chan' = Tail(chan)
  /\ worker' = "write"
  /\ UNCHANGED <<sent, chanState, eventVars, wireVars, serverVars>>

\* A batch is tracked, then its line is awaited.  A closed channel still
\* gives the batches it holds; then the worker ends.
SelectRequest ==
  /\ worker = "select"
  /\ \/ /\ chan # <<>>
        /\ TrackRequest(Head(chan))
        /\ work' = RawRequests(Head(chan)) /\ chan' = Tail(chan)
        /\ worker' = "write"
     \/ /\ chan = <<>> /\ chanState = "closed"
        /\ worker' = "exit"
        /\ UNCHANGED <<trackerVars, work, chan>>
  /\ UNCHANGED <<sent, chanState, eventVars, wireVars, serverVars>>

\* A message is handled and its event sent; the worker ends with an error of
\* the message, without an event receiver, or by the panic of a callback.
SelectMessage ==
  /\ worker = "select"
  /\ ReadMessage
  /\ LET msg == Head(s2c) IN
     \/ /\ msg = Garbage
        /\ worker' = "exit"
        /\ UNCHANGED <<trackerVars, eventVars>>
     \/ /\ msg # Garbage
        /\ HandleIncoming(msg)
        /\ \/ IsProcessError(msg) /\ worker' = "exit" /\ UNCHANGED eventVars
           \/ GivesEvent(msg) /\ listening /\ EmitEvent(msg) /\ UNCHANGED worker
           \/ GivesEvent(msg) /\ ~listening /\ worker' = "exit" /\ UNCHANGED eventVars
           \/ /\ ~IsProcessError(msg) /\ ~GivesEvent(msg)
              /\ \/ UNCHANGED worker
                 \/ /\ "panic" \in Faults /\ pending[msg.id] \in CallbackReq
                    /\ worker' = "exit"
              /\ UNCHANGED eventVars
  /\ UNCHANGED <<callerVars, held, c2s, serverVars, work>>

\* Mutant: at its end the stream is not read any more, and nothing else ends.
SelectEndIgnored ==
  /\ worker = "select"
  /\ EndOfStream
  /\ UNCHANGED <<connVars, workerVars>>

SelectEndOfStream ==
  /\ worker = "select"
  /\ EndOfStream
  /\ worker' = "exit"
  /\ UNCHANGED <<connVars, work>>

AwaitWrite ==
  /\ worker = "write"
  /\ \/ WriteLine(work) /\ worker' = "select"
     \/ WriteFails /\ worker' = "exit"
  /\ work' = <<>>
  /\ UNCHANGED <<trackerVars, callerVars, eventVars, s2c, serverVars>>

\* Mutant: the batches in the channel are not dropped.
WorkerExitLeaks ==
  /\ worker = "exit"
  /\ worker' = "done"
  /\ chanState' = IF chanState = "open" THEN "gone" ELSE chanState
  /\ chan' = <<>>
  /\ pending' = [i \in Ids |-> NoReq]
  /\ reply' = Dropped(Held)
  /\ UNCHANGED <<next_id, answer, sent, eventVars, wireVars, serverVars, work>>

\* Everything the worker owns is dropped.
WorkerExit ==
  /\ worker = "exit"
  /\ worker' = "done"
  /\ chanState' = IF chanState = "open" THEN "gone" ELSE chanState
  /\ chan' = <<>>
  /\ pending' = [i \in Ids |-> NoReq]
  /\ reply' = Dropped(Held \cup Requests(chan))
  /\ UNCHANGED <<next_id, answer, sent, eventVars, wireVars, serverVars, work>>

\* The writer is dropped with the worker, and what it holds comes out.
WriterDrops ==
  /\ worker = "done"
  /\ DropHeld
  /\ UNCHANGED <<trackerVars, callerVars, eventVars, serverVars, workerVars>>

\* Whoever runs the worker drops it at an await, in the middle of a line or
\* between two steps.
AbortWorker ==
  /\ worker \in {"select", "write"}
  /\ worker' = "exit" /\ work' = <<>>
  /\ UNCHANGED connVars

-----------------------------------------------------------------------------
(***************************************************************************)
(* The callers and the server.                                             *)
(***************************************************************************)

CallerSends(batch) ==
  /\ SendBatch(batch)
  /\ UNCHANGED <<eventVars, wireVars, serverVars, workerVars>>

CallerAbandons(r) ==
  /\ AbandonReply(r)
  /\ UNCHANGED <<callerVars, eventVars, wireVars, serverVars, workerVars>>

\* close, by any clone of the client, or the drop of the last of them.
Close ==
  /\ CloseChannel
  /\ UNCHANGED <<trackerVars, eventVars, wireVars, serverVars, workerVars>>

DropEvents ==
  /\ DropEventReceiver
  /\ UNCHANGED <<trackerVars, callerVars, wireVars, serverVars, workerVars>>

Server == ServerNext /\ UNCHANGED <<trackerVars, callerVars, eventVars, workerVars>>

Work ==
  \/ SelectRequest
  \/ SelectMessage
  \/ SelectEndOfStream
  \/ AwaitWrite
  \/ WorkerExit
  \/ WriterDrops

Next ==
  \/ \E batch \in Submissions : CallerSends(batch)
  \/ \E r \in Req : CallerAbandons(r)
  \/ Close
  \/ DropEvents
  \/ Work
  \/ AbortWorker
  \/ Server

Spec == Init /\ [][Next]_vars

\* A write goes on once there is room for it, be it for the last line of what
\* the writer holds.  No writer owes it to hold a line back, nor to fail.
WriteGoesOn == AwaitWrite /\ TransmitOldest(work)

\* The worker is polled, and the server takes and answers what it is sent
\* unless it closes.
Fairness ==
  /\ WF_vars(\/ SelectRequest \/ SelectMessage \/ SelectEndOfStream \/ WriteGoesOn
             \/ WorkerExit \/ WriterDrops)
  /\ WF_vars(ServerReceives /\ UNCHANGED <<trackerVars, callerVars, eventVars, workerVars>>)
  /\ \A q \in RawRequest :
       WF_vars(/\ \E result \in Results : ServerAnswers(q, result)
               /\ UNCHANGED <<trackerVars, callerVars, eventVars, workerVars>>)

FairSpec == Spec /\ Fairness

-----------------------------------------------------------------------------
(***************************************************************************)
(* Properties.                                                             *)
(***************************************************************************)

\* The handler of an unresolved request is in exactly one place, the channel
\* or one id of the tracker, and that of a resolved request is nowhere, so
\* that it cannot run again and nobody waits for a worker that has ended
\* (client.rs:113-139).
HandlerHeldOnce ==
  \A r \in Req :
    LET Under == {i \in Ids : pending[i] = r}
        Places == Cardinality(Under) + (IF r \in Requests(chan) THEN 1 ELSE 0)
    IN CASE reply[r] = "open" -> Places = (IF r \in Sent THEN 1 ELSE 0)
         [] reply[r] = "abandoned" -> Places <= 1
         [] OTHER -> Places = 0

\* Whatever the worker selects first, the answer to an unresolved request
\* finds its handler.
AnswersFindTheirRequest ==
  \A msg \in Range(s2c) :
    msg.type = "response" /\ reply[msg.of] = "open" => pending[msg.id] = msg.of

\* What every step preserves, also when ids wrap around: HandlerHeldOnce
\* follows.
OwnershipInv ==
  /\ TypeOK
  /\ ChannelHoldsOnce
  /\ HandlersOwned(Requests(chan))

\* What every step preserves while there is an id for each request: Correlated
\* and AnswersFindTheirRequest follow ...
NumberingInv ==
  /\ OwnershipInv
  /\ IdsInOrder(Requests(chan), RawsInTransit \cup Range(work), Range(s2c))
  /\ Correlated

Running == worker \notin {"exit", "done"}

\* ... and what ImplementsContract needs besides.
IInv ==
  /\ NumberingInv
  /\ worker # "write" => work = <<>>
  /\ Running => InFlightOnce(RequestsOnWire \o RequestsOf(work), OwedRequests, s2c, Held)

\* The worker awaits a write for which the transport has no room, and the
\* server, which has stopped reading, awaits room for its own messages.
MutualWait == worker = "write" /\ Jammed

\* Whether the writer holds a request back.
HeldBack(r) == \E line \in Range(held) : r \in Range(RequestsOf(line))

\* Again and again no request waits that was sent, be it that it is canceled,
\* unless worker and server wait on each other or the writer holds it back: a
\* select never starves, and an end of the worker, for whatever reason,
\* forgets nobody.
EventuallySettled ==
  []<>(MutualWait \/ \A r \in Sent : reply[r] # "open" \/ HeldBack(r))

\* close ends the worker, after what was sent before has been written, unless
\* worker and server wait on each other.
CloseEndsWorker == chanState = "closed" ~> worker = "done" \/ MutualWait

-----------------------------------------------------------------------------
(***************************************************************************)
(* AsyncClient implements ClientContract: it stops reading and writing at  *)
(* once, and a message takes effect as it is read.                         *)
(***************************************************************************)
Outbox == RequestsOnWire \o RequestsOf(work) \o FlattenSeq(chan)

Contract == INSTANCE ClientContract WITH
  sent <- Sent,
  accepting <- chanState = "open",
  outbox <- Outbox,
  owed <- OwedRequests,
  inbox <- WithoutIds(s2c),
  events <- WithoutIds(events),
  reading <- Running,
  writing <- Running

\* The select loop and the tracker come down to what ClientContract promises:
\* requests and messages in order, to each its own answer, and no
\* cancellation but of a malformed answer or by the end of the worker.
ImplementsContract == Contract!Spec

=============================================================================
