---------------------------- MODULE WireSession ----------------------------
(***************************************************************************)
(* RequestTracker on a line-based connection: a sans-IO driver that writes *)
(* what the tracker gives it as lines of JSON, reads lines and queues the  *)
(* messages in them (as ReadStreamer does), and handles these one by one.  *)
(*                                                                         *)
(* The server is any that conforms to JSON-RPC 2.0.  It differs from       *)
(* others in its style: the order in which it writes the keys of a message *)
(* and the keys of its own that it puts between them, whether it answers   *)
(* several requests with an array, and whether it gives its notifications  *)
(* a null id.                                                              *)
(* A connection is lost with its lines and with what the server holds;     *)
(* messages the driver has queued remain.                                  *)
(***************************************************************************)
EXTENDS RequestTracker, SequencesExt

W == INSTANCE WireFormat

CONSTANTS
  MaxTracked,  \* bound: requests tracked in a session
  MaxBatch,    \* bound: requests in a batch
  MaxConn,     \* bound: connections of a session
  Results,     \* the kinds of results the server sends
  Params,      \* the kinds of notifications the server sends
  OwnKeys,     \* keys that servers add to a message
  Styles       \* the styles of servers

ASSUME WireAssumption ==
  /\ MaxTracked \in Nat /\ MaxBatch \in Nat /\ MaxConn \in Nat \ {0}
  /\ Results \subseteq {"ok", "error", "malformed"}
  /\ Params \subseteq {"valid", "malformed"}
  /\ OwnKeys \in Seq(Range(OwnKeys)) /\ IsInjective(OwnKeys)
  /\ Range(OwnKeys) \cap W!MessageKeys = {}
  /\ \A s \in Styles :
       /\ s.keys \in Seq(1 .. 3 + Len(OwnKeys)) /\ IsInjective(s.keys)
       /\ 1 .. 3 \subseteq Range(s.keys)
       /\ s.arrays \in BOOLEAN /\ s.nullId \in BOOLEAN

VARIABLES
  log,       \* the requests in the order they were tracked
  conn,      \* the number of the current (or last) connection
  up,        \* whether it is up
  style,     \* the server's style
  server,    \* the raw requests the server holds
  toClient,  \* lines on their way to the driver
  queue,     \* the messages the driver has read, each with its connection
  refused    \* whether a line was no message to the driver

vars == <<trackerVars, log, conn, up, style, server, toClient, queue, refused>>

Tracked == Range(log)

TypeOK ==
  /\ TrackerTypeOK
  /\ log \in Seq(Req)
  /\ conn \in 1 .. MaxConn /\ up \in BOOLEAN /\ style \in Styles
  /\ server \subseteq RawRequest
  /\ queue \in Seq((1 .. MaxConn) \X RawIncoming)
  /\ refused \in BOOLEAN

Init ==
  /\ TrackerInit
  /\ log = <<>>
  /\ conn = 1 /\ up = TRUE /\ style \in Styles
  /\ server = {} /\ toClient = <<>>
  /\ queue = <<>> /\ refused = FALSE

-----------------------------------------------------------------------------
(***************************************************************************)
(* The server.                                                             *)
(***************************************************************************)

\* An object in the server's style: the three entries, and those with the
\* keys of its own, in its order.
Styled(entries) ==
  LET Entry(n) == IF n <= 3 THEN entries[n] ELSE <<OwnKeys[n - 3], W!Null>> IN
  W!Object([k \in DOMAIN style.keys |-> Entry(style.keys[k])])

\* A result or error carries the request it is for, and what it is.
ResponseObject(q, result) ==
  Styled(<<<<"jsonrpc", "2.0">>, <<"id", q.id>>,
           <<IF result = "error" THEN "error" ELSE "result",
             [of |-> q.req, is |-> result]>>>>)

NotificationObject(params) ==
  LET object == Styled(<<<<"jsonrpc", "2.0">>, <<"method", "subscribe">>, <<"params", params>>>>)
  IN IF style.nullId THEN [object EXCEPT !.entries = Append(@, <<"id", W!Null>>)] ELSE object

\* The objects of a line, and the raw requests.
Objects(line) == IF line.json = "array" THEN Range(line.items) ELSE {line}

RequestsIn(line) ==
  {[id |-> CHOOSE i \in W!Field(object, "id") : TRUE,
    req |-> CHOOSE r \in W!Field(object, "method") : TRUE] :
     object \in Objects(line)}

\* What the server means by an object it sends.
Meaning(object) ==
  LET params == W!Field(object, "params") IN
  IF params # {} THEN {[type |-> "notification", params |-> p] : p \in params}
  ELSE {[type |-> "response", id |-> i, of |-> v.of, result |-> v.is] :
          i \in W!Field(object, "id"),
          v \in W!Field(object, "result") \cup W!Field(object, "error")}

\* The messages on their way to the driver, each with its connection.
OnTheWay ==
  Range(queue)
  \cup {<<conn, msg>> : msg \in UNION {Meaning(object) :
                                object \in UNION {Objects(line) : line \in Range(toClient)}}}

\* A message as the driver understands it: an error is not parsed.
MessageOf(raw) ==
  IF raw.type = "notification" THEN [type |-> "notification", params |-> raw.params]
  ELSE [type |-> "response", id |-> raw.id, of |-> raw.result[2].of,
        result |-> CASE raw.result[1] = "error" -> "error"
                     [] raw.result[2].is = "malformed" -> "malformed"
                     [] OTHER -> "ok"]

\* The server sends each object on a line of its own, or arrays of those
\* the driver has not begun to read.
ServerSends(object) ==
  \/ ~style.arrays /\ toClient' = Append(toClient, object)
  \/ style.arrays /\ toClient = <<>> /\ toClient' = <<W!Array(<<object>>)>>
  \/ style.arrays /\ toClient # <<>> /\ toClient' = <<W!Array(Append(toClient[1].items, object))>>

Answer(q, result) ==
  /\ q \in server
  /\ server' = server \ {q}
  /\ ServerSends(ResponseObject(q, result))
  /\ UNCHANGED <<trackerVars, log, conn, up, style, queue, refused>>

\* Bound: a notification goes out only when nothing else is on its way.
Notify(params) ==
  /\ up /\ OnTheWay = {}
  /\ ServerSends(NotificationObject(params))
  /\ UNCHANGED <<trackerVars, log, conn, up, style, server, queue, refused>>

-----------------------------------------------------------------------------
(***************************************************************************)
(* The driver.                                                             *)
(***************************************************************************)

\* What is written reaches the server while the connection is up.
Write(line) == server' = IF up THEN server \cup RequestsIn(line) ELSE server

\* A batch is built, tracked and written in the shape in which it was built.
Track(requests) ==
  /\ Len(log) + Len(requests) <= MaxTracked
  /\ log' = log \o requests
  /\ \E batch \in W!BatchRequest(requests) :
       /\ TrackRequest(batch.items)
       /\ Write(W!EncodeRequests(W!MapItems(batch, RawRequests(batch.items))))
  /\ UNCHANGED <<conn, up, style, toClient, queue, refused>>

\* Mutant: the buffer is not cleared, so that a line is read again.
ReadLineAgain ==
  /\ queue = <<>> /\ toClient # <<>> /\ ~refused
  /\ \E items \in {x.items : x \in W!DecodeLine(Head(toClient))} :
       queue' = [k \in DOMAIN items |-> <<conn, MessageOf(items[k])>>]
  /\ UNCHANGED <<trackerVars, log, conn, up, style, server, toClient, refused>>

\* A line is read once the messages of the one before are handled.  One
\* that is no message ends the stream.
ReadLine ==
  /\ queue = <<>> /\ toClient # <<>> /\ ~refused
  /\ toClient' = Tail(toClient)
  /\ LET read == {x.items : x \in W!DecodeLine(Head(toClient))} IN
     /\ refused' = (read = {})
     /\ queue' \in {[k \in DOMAIN items |-> <<conn, MessageOf(items[k])>>] :
                      items \in read \cup (IF read = {} THEN {<<>>} ELSE {})}
  /\ UNCHANGED <<trackerVars, log, conn, up, style, server>>

Handle ==
  /\ queue # <<>>
  /\ HandleIncoming(Head(queue)[2])
  /\ queue' = Tail(queue)
  /\ UNCHANGED <<log, conn, up, style, server, toClient, refused>>

Disconnect ==
  /\ up /\ conn < MaxConn
  /\ up' = FALSE
  /\ server' = {} /\ toClient' = <<>>
  /\ UNCHANGED <<trackerVars, log, conn, style, queue, refused>>

\* On a new connection every pending request is written again, as a batch
\* in the order of the map's iterator.
Reconnect ==
  /\ ~up /\ conn < MaxConn
  /\ up' = TRUE /\ conn' = conn + 1
  /\ server' = RequestsIn(W!EncodeRequests(W!Batch(SetToSeq(PendingRequests))))
  /\ UNCHANGED <<trackerVars, log, style, toClient, queue, refused>>

Next ==
  \/ \E requests \in Batches(Req \ Tracked, MaxBatch) : Track(requests)
  \/ ReadLine
  \/ Handle
  \/ Disconnect
  \/ Reconnect
  \/ \E q \in server, result \in Results : Answer(q, result)
  \/ \E params \in Params : Notify(params)

Spec == Init /\ [][Next]_vars

\* The driver reads, handles and comes back after a disconnect; the server
\* answers as long as it holds requests, of which it gets finitely many.
\* Nothing obliges a user to send, a server to notify, nor a connection to
\* be lost.
Fairness ==
  /\ WF_vars(ReadLine) /\ WF_vars(Handle) /\ WF_vars(Reconnect)
  /\ WF_vars(\E q \in server, result \in Results : Answer(q, result))

FairSpec == Spec /\ Fairness

-----------------------------------------------------------------------------
(***************************************************************************)
(* Properties.                                                             *)
(***************************************************************************)

\* Every line of a server that conforms to JSON-RPC is understood, whatever
\* its style: RawOneOrMany and RawIncoming are untagged, and the outcome of
\* a response is found among its other keys (protocol.rs:58-92).
LinesAreUnderstood == ~refused

\* Again and again no tracked request waits, through lost connections and
\* although ids wrap around while requests wait (request_tracker.rs:115): a
\* request under whose id another is tracked is canceled then, at once.
EventuallyResolved == []<>(\A r \in Tracked : reply[r] # "open")

\* What arrives is what was sent: shapes, lines, keys and queues come down to
\* raw requests and messages on their way, as TrackerSession has them.
Session == INSTANCE TrackerSession WITH
  AllowClear <- FALSE,
  replies <- OnTheWay

ImplementsSession == Session!Spec

-----------------------------------------------------------------------------
(***************************************************************************)
(* The inductive invariant behind the first and the last of these.         *)
(***************************************************************************)

\* What the server may send, in its style.
ServerObjects ==
  {ResponseObject(q, result) : q \in RawRequest, result \in Results}
  \cup {NotificationObject(params) : params \in Params}

\* The objects on their way, in their order, whatever the lines they are on.
Pieces == IF style.arrays /\ toClient # <<>> THEN toClient[1].items ELSE toClient

\* What objects mean that are on the connection.
Meanings(objects) ==
  [k \in DOMAIN objects |-> <<conn, CHOOSE msg \in Meaning(objects[k]) : TRUE>>]

\* The messages on their way in the order in which they will be handled.
InFlight == queue \o Meanings(Pieces)

\* A server that answers with arrays has one on its way at most.
LinesAreStyled ==
  /\ Pieces \in Seq(ServerObjects)
  /\ style.arrays /\ toClient # <<>> => Pieces # <<>> /\ toClient = <<W!Array(Pieces)>>

\* A connection that is lost takes with it what was on it, and the next one
\* has a number that no message bears yet.
ConnectionOwns ==
  /\ ~up => server = {} /\ toClient = <<>>
  /\ \A k \in DOMAIN InFlight : InFlight[k][1] <= conn

\* Only what was tracked is held, asked or answered.
OnlyTracked ==
  /\ Held \subseteq Tracked
  /\ \A q \in server : q.req \in Tracked
  /\ \A k \in DOMAIN InFlight : InFlight[k][2].type = "response" => InFlight[k][2].of \in Tracked

\* A request the server still holds was not answered on this connection, so
\* no message is on its way twice.
AnsweredOnce ==
  /\ \A k \in DOMAIN InFlight :
       InFlight[k][1] = conn /\ InFlight[k][2].type = "response" =>
         [id |-> InFlight[k][2].id, req |-> InFlight[k][2].of] \notin server
  /\ IsInjective(InFlight)

\* What every step preserves, for every style and number of ids.
IInv ==
  TypeOK /\ LinesAreUnderstood /\ LinesAreStyled /\ ConnectionOwns /\ OnlyTracked /\ AnsweredOnce

=============================================================================
