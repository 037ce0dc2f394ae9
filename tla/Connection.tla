----------------------------- MODULE Connection -----------------------------
(***************************************************************************)
(* What BlockingClient and AsyncClient share: the channel of requests from *)
(* the callers to the worker, the channel of events back to them, the two  *)
(* directions of the transport, and the server at its other end.           *)
(*                                                                         *)
(* The transport carries a batch of requests, which is one line, as one    *)
(* item and the server's messages one by one (ReadStreamer turns lines     *)
(* into messages).  A direction holds at most WireCap items: whoever wants *)
(* to write more has to wait, as with the buffers of a socket or a pipe.   *)
(* The writer is the user's, any Write or AsyncWrite: it may hold lines    *)
(* back, as a BufWriter does, until it is full, flushed or dropped.        *)
(* Callers and server are the environment; the operators below that take   *)
(* a step for the worker are completed by the clients' modules.            *)
(***************************************************************************)
EXTENDS RequestTracker, SequencesExt

CONSTANTS
  CallReq,      \* requests made with send_request, whose caller waits in it
  CallbackReq,  \* requests with a callback of the user's own
  MaxBatch,     \* bound: requests in a batch
  MaxNotes,     \* bound: notifications the server sends
  WireCap,      \* bound: items in one direction of the transport
  WriterCap,    \* lines the writer holds back; 0 for one that does not buffer
  ServerCap,    \* unanswered requests at which the server stops reading
  Results,      \* the kinds of results the server sends
  Faults        \* the faults that may happen, of FaultKinds

\* A write fails on an open connection; the server sends what is no message;
\* it closes the connection; a callback panics.
FaultKinds == {"write", "garbage", "close", "panic"}

ASSUME ConnectionAssumption ==
  /\ CallReq \subseteq Req /\ CallbackReq \subseteq Req
  /\ CallReq \cap (CallbackReq \cup EventReq) = {}
  /\ CallbackReq \cap EventReq = {}
  /\ MaxBatch \in Nat /\ MaxNotes \in Nat /\ WireCap \in Nat \ {0}
  /\ WriterCap \in Nat /\ ServerCap \in Nat \ {0}
  /\ Results \subseteq {"ok", "error", "malformed"}
  /\ Faults \subseteq FaultKinds

VARIABLES
  sent,       \* the requests given to the client, in that order
  chan,       \* the request channel: batches the worker has yet to take
  chanState,  \* "open", "closed" for sending, or "gone" with its receiver
  events,     \* the events sent to the event receiver
  listening,  \* whether the event receiver exists
  held,       \* lines the writer holds back
  c2s,        \* lines on their way to the server
  s2c,        \* messages on their way to the client
  owed,       \* raw requests the server has received and not answered
  peer,       \* whether the server keeps the connection "open"
  notes       \* the number of notifications it sent

callerVars == <<sent, chan, chanState>>
eventVars == <<events, listening>>
serverVars == <<owed, peer, notes>>
wireVars == <<held, c2s, s2c>>
connVars == <<trackerVars, callerVars, eventVars, wireVars, serverVars>>

\* What the streamer gives for a line that is no JSON-RPC message, and for
\* a failed read.
Garbage == [type |-> "garbage"]

NoMessage == [type |-> "none"]

Message == RawIncoming \cup {Garbage}

ChannelsTypeOK ==
  /\ sent \in Seq(Req) /\ chan \in Seq(Seq(Req))
  /\ chanState \in {"open", "closed", "gone"}
  /\ events \in Seq(RawIncoming) /\ listening \in BOOLEAN

WireTypeOK ==
  /\ held \in Seq(Seq(RawRequest)) /\ Len(held) <= WriterCap
  /\ c2s \in Seq(Seq(RawRequest)) /\ Len(c2s) <= WireCap
  /\ s2c \in Seq(Message) /\ Len(s2c) <= WireCap
  /\ owed \subseteq RawRequest
  /\ peer \in {"open", "closed"} /\ notes \in 0 .. MaxNotes

ConnectionTypeOK == TrackerTypeOK /\ ChannelsTypeOK /\ WireTypeOK

ConnectionInit ==
  /\ TrackerInit
  /\ sent = <<>> /\ chan = <<>> /\ chanState = "open"
  /\ events = <<>> /\ listening = TRUE
  /\ held = <<>> /\ c2s = <<>> /\ s2c = <<>>
  /\ owed = {} /\ peer = "open" /\ notes = 0

Sent == Range(sent)

\* The requests of a sequence of batches.
Requests(batches) == UNION {Range(batches[k]) : k \in DOMAIN batches}

\* For the refinements of ClientContract: lines and messages without ids.
RequestsOf(line) == [k \in DOMAIN line |-> line[k].req]

RequestsOfLines(lines) == FlattenSeq([k \in DOMAIN lines |-> RequestsOf(lines[k])])

RequestsOnWire == RequestsOfLines(c2s \o held)

OwedRequests == {q.req : q \in owed}

WithoutId(msg) ==
  IF msg.type = "response" THEN [type |-> "response", of |-> msg.of, result |-> msg.result]
  ELSE msg

WithoutIds(msgs) == [k \in DOMAIN msgs |-> WithoutId(msgs[k])]

-----------------------------------------------------------------------------
(***************************************************************************)
(* The callers.                                                            *)
(***************************************************************************)

\* What a caller can submit: send_request makes a batch of its own.
Submissions ==
  {b \in Batches(Req \ Sent, MaxBatch) : Len(b) = 1 \/ Range(b) \cap CallReq = {}}

\* send_batch: without a receiver, or on a closed channel, the batch comes
\* back as an error and its handlers are dropped.
SendBatch(batch) ==
  /\ sent' = sent \o batch
  /\ \/ /\ chanState = "open"
        /\ chan' = Append(chan, batch)
        /\ UNCHANGED reply
     \/ /\ chanState # "open"
        /\ reply' = Dropped(Range(batch))
        /\ UNCHANGED chan
  /\ UNCHANGED <<next_id, pending, answer, chanState>>

\* The caller drops the receiver of its reply, as a timeout does.
AbandonReply(r) ==
  /\ r \in Sent \ (EventReq \cup CallbackReq)
  /\ reply[r] = "open"
  /\ reply' = [reply EXCEPT ![r] = "abandoned"]
  /\ UNCHANGED <<next_id, pending, answer>>

CloseChannel ==
  /\ chanState = "open"
  /\ chanState' = "closed"
  /\ UNCHANGED <<sent, chan>>

DropEventReceiver ==
  /\ listening
  /\ listening' = FALSE
  /\ UNCHANGED events

-----------------------------------------------------------------------------
(***************************************************************************)
(* The worker's side of the transport.                                     *)
(***************************************************************************)

\* A line reaches the transport whole.  After the server closed, it may
\* still seem to, and is lost.
Transmit(line) ==
  \/ peer = "open" /\ Len(c2s) < WireCap /\ c2s' = Append(c2s, line)
  \/ peer = "closed" /\ UNCHANGED c2s

\* The writer, given a line, transmits the oldest one it has.
TransmitOldest(line) ==
  LET lines == Append(held, line) IN held' = Tail(lines) /\ Transmit(Head(lines))

\* write_all of a line, without a flush: the writer holds it back if it has
\* room, or transmits the oldest line it has.
WriteLine(line) ==
  \/ LET lines == Append(held, line) IN
     /\ Len(lines) <= WriterCap
     /\ held' = lines
     /\ UNCHANGED c2s
  \/ TransmitOldest(line)

WriteFails == (peer = "closed" \/ "write" \in Faults) /\ UNCHANGED <<held, c2s>>

\* A writer that is dropped transmits what it holds, as std's BufWriter
\* does, or loses it, as those of futures and tokio do.
DropHeld ==
  /\ held # <<>>
  /\ held' = Tail(held)
  /\ Transmit(Head(held)) \/ UNCHANGED c2s
  /\ UNCHANGED s2c

ReadMessage == s2c # <<>> /\ s2c' = Tail(s2c)

EndOfStream == s2c = <<>> /\ peer = "closed"

\* Mutant: events are received last in, first out.
EmitEventFirst(msg) == events' = <<msg>> \o events /\ UNCHANGED listening

\* The event a message makes is appended to the event channel.
EmitEvent(msg) == events' = Append(events, msg) /\ UNCHANGED listening

-----------------------------------------------------------------------------
(***************************************************************************)
(* The server: it answers the requests it received once each, in any       *)
(* order and with their ids, and sends notifications in between.           *)
(***************************************************************************)

SendToClient(msg) ==
  /\ peer = "open"
  /\ Len(s2c) < WireCap
  /\ s2c' = Append(s2c, msg)

ServerReceives ==
  /\ peer = "open"
  /\ c2s # <<>> /\ Cardinality(owed) < ServerCap
  /\ owed' = owed \cup Range(Head(c2s))
  /\ c2s' = Tail(c2s)
  /\ UNCHANGED <<held, s2c, peer, notes>>

ServerAnswers(q, result) ==
  /\ q \in owed
  /\ SendToClient([type |-> "response", id |-> q.id, of |-> q.req, result |-> result])
  /\ owed' = owed \ {q}
  /\ UNCHANGED <<held, c2s, peer, notes>>

ServerNotifies ==
  /\ notes < MaxNotes
  /\ SendToClient([type |-> "notification", params |-> "valid"])
  /\ notes' = notes + 1
  /\ UNCHANGED <<held, c2s, owed, peer>>

\* A line the client cannot use; bound: one on its way.
ServerSendsGarbage ==
  /\ "garbage" \in Faults
  /\ Garbage \notin Range(s2c)
  /\ \/ SendToClient(Garbage)
     \/ SendToClient([type |-> "notification", params |-> "malformed"])
  /\ UNCHANGED <<held, c2s, serverVars>>

ServerCloses ==
  /\ "close" \in Faults /\ peer = "open"
  /\ peer' = "closed"
  /\ c2s' = <<>> /\ owed' = {}
  /\ UNCHANGED <<held, s2c, notes>>

ServerNext ==
  \/ ServerReceives
  \/ \E q \in owed, result \in Results : ServerAnswers(q, result)
  \/ ServerNotifies
  \/ ServerSendsGarbage
  \/ ServerCloses

\* The server reads no more until it is rid of an answer, for which there is
\* no room until the client reads; and there is no room for a line to it.
Jammed ==
  /\ peer = "open" /\ Cardinality(owed) >= ServerCap
  /\ Len(c2s) = WireCap /\ Len(s2c) = WireCap

-----------------------------------------------------------------------------
(***************************************************************************)
(* The parts of the clients' inductive invariants.  A request waits from   *)
(* its send to its track_request: in the channel or in the worker's hand.  *)
(***************************************************************************)

\* No request is in the channel twice.
ChannelHoldsOnce ==
  \A k, l \in DOMAIN chan : \A i \in DOMAIN chan[k], j \in DOMAIN chan[l] :
    chan[k][i] = chan[l][j] => k = l /\ i = j

\* Each request given to the client has its handler in one place, with those
\* that wait or in the tracker, until it is resolved.
HandlersOwned(waiting) ==
  /\ OneIdEach
  /\ Held \cup waiting \subseteq Sent
  /\ Held \cap waiting = {}
  /\ \A r \in Held \cup waiting : reply[r] \in {"open", "abandoned"}
  /\ \A r \in Sent \ (Held \cup waiting) : reply[r] # "open"
  /\ \A r \in Req \ Sent : reply[r] = "open"

\* The log of tracked requests numbers them: the id of each is its place,
\* in the tracker, in the raw requests and in the messages.
Numbered(log, waiting, raws, msgs) ==
  /\ next_id = Len(log) % IdCount
  /\ Range(log) \subseteq Sent /\ Range(log) \cap waiting = {}
  /\ \A i \in Ids : pending[i] # NoReq => i < Len(log) /\ pending[i] = log[i + 1]
  /\ \A q \in raws : q.id < Len(log) /\ q.req = log[q.id + 1]
  /\ \A msg \in msgs : msg.type = "response" =>
       msg.id < Len(log) /\ msg.of = log[msg.id + 1]

\* Some log of requests, each tracked once, does, if there is an id for each.
Logs == {<<>>} \cup Batches(Req, IdCount)

IdsInOrder(waiting, raws, msgs) == \E log \in Logs : Numbered(log, waiting, raws, msgs)

EnoughIds == IsFiniteSet(Req) /\ Cardinality(Req) <= IdCount

\* The raw requests on their way to the server, and those it holds.
RawsInTransit == Requests(held) \cup Requests(c2s) \cup owed

\* From its track_request until its answer is handled a request is in one
\* place: on its way out, with the server, or in an answer to be handled; and
\* the tracker has its handler.
AnsweredBy(msgs) == {msg.of : msg \in {m \in Range(msgs) : m.type = "response"}}

InFlightOnce(out, owing, msgs, handlers) ==
  /\ IsInjective(out) /\ Range(out) \cap owing = {}
  /\ AnsweredBy(msgs) \cap (Range(out) \cup owing) = {}
  /\ \A i, j \in DOMAIN msgs :
       msgs[i].type = "response" /\ msgs[j].type = "response" /\ msgs[i].of = msgs[j].of => i = j
  /\ Range(out) \cup owing \cup AnsweredBy(msgs) \subseteq handlers

=============================================================================
