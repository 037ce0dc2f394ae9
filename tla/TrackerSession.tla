--------------------------- MODULE TrackerSession ---------------------------
(***************************************************************************)
(* RequestTracker as its own users drive it: a sans-IO driver that tracks  *)
(* batches, feeds it whatever the connection delivers, loses connections   *)
(* and sends the pending requests again on the next one.                   *)
(*                                                                         *)
(* The driver and the server are the environment.  The driver keeps        *)
(* next_id for the whole session.  The server answers every request it     *)
(* holds once, in any order, and labels the answer with the request's id.  *)
(* Of the replies of a lost connection any part may already have been read *)
(* and still be delivered: an answer can race the retry of its request.    *)
(***************************************************************************)
EXTENDS RequestTracker

CONSTANTS
  MaxTracked,  \* bound: requests tracked in a session
  MaxBatch,    \* bound: requests in a batch
  MaxConn,     \* bound: connections of a session
  Results,     \* the kinds of results the server sends
  Params,      \* the kinds of notifications the server sends
  AllowClear   \* whether the driver calls clear

ASSUME SessionAssumption ==
  /\ MaxTracked \in Nat /\ MaxBatch \in Nat /\ MaxConn \in Nat \ {0}
  /\ Results \subseteq {"ok", "error", "malformed"}
  /\ Params \subseteq {"valid", "malformed"}
  /\ AllowClear \in BOOLEAN

VARIABLES
  log,      \* the requests in the order they were tracked
  conn,     \* the number of the current (or last) connection
  up,       \* whether it is up
  server,   \* the raw requests the server holds
  replies   \* the messages on their way, each with its connection

vars == <<trackerVars, log, conn, up, server, replies>>

TypeOK ==
  /\ TrackerTypeOK
  /\ log \in Seq(Req)
  /\ conn \in 1 .. MaxConn
  /\ up \in BOOLEAN
  /\ server \subseteq RawRequest
  /\ replies \subseteq (1 .. MaxConn) \X RawIncoming

Init ==
  /\ TrackerInit
  /\ log = <<>>
  /\ conn = 1 /\ up = TRUE
  /\ server = {} /\ replies = {}

Tracked == Range(log)

-----------------------------------------------------------------------------
(***************************************************************************)
(* The driver.                                                             *)
(***************************************************************************)

\* Tracks a batch of new requests and sends it; while the connection is
\* down the requests only become pending.
Track(batch) ==
  /\ Len(log) + Len(batch) <= MaxTracked
  /\ TrackRequest(batch)
  /\ log' = log \o batch
  /\ server' = IF up THEN server \cup Range(RawRequests(batch)) ELSE server
  /\ UNCHANGED <<conn, up, replies>>

Deliver(m) ==
  /\ m \in replies
  /\ HandleIncoming(m[2])
  /\ replies' = replies \ {m}
  /\ UNCHANGED <<log, conn, up, server>>

\* A connection is lost with what the server held and with every reply the
\* driver had not read.
Disconnect ==
  /\ up /\ conn < MaxConn
  /\ up' = FALSE
  /\ server' = {}
  /\ \E read \in SUBSET replies : replies' = read
  /\ UNCHANGED <<trackerVars, log, conn>>

\* A new connection, on which every pending request is sent again.
Reconnect ==
  /\ ~up /\ conn < MaxConn
  /\ up' = TRUE /\ conn' = conn + 1
  /\ server' = PendingRequests
  /\ UNCHANGED <<trackerVars, log, replies>>

ClearTracker ==
  /\ AllowClear
  /\ Clear
  /\ UNCHANGED <<log, conn, up, server, replies>>

\* The caller drops the receiver of a request it sent, as a timeout does.
Abandon(r) ==
  /\ r \in Tracked \ EventReq
  /\ reply[r] = "open"
  /\ reply' = [reply EXCEPT ![r] = "abandoned"]
  /\ UNCHANGED <<next_id, pending, answer, log, conn, up, server, replies>>

-----------------------------------------------------------------------------
(***************************************************************************)
(* The server.                                                             *)
(***************************************************************************)

Answer(q, result) ==
  /\ q \in server
  /\ server' = server \ {q}
  /\ replies' = replies \cup
       {<<conn, [type |-> "response", id |-> q.id, of |-> q.req, result |-> result]>>}
  /\ UNCHANGED <<trackerVars, log, conn, up>>

\* Bound: one notification on its way at a time.
Notify(params) ==
  /\ up
  /\ \A m \in replies : m[2].type # "notification"
  /\ replies' = replies \cup {<<conn, [type |-> "notification", params |-> params]>>}
  /\ UNCHANGED <<trackerVars, log, conn, up, server>>

-----------------------------------------------------------------------------
Next ==
  \/ \E batch \in Batches(Req \ Tracked, MaxBatch) : Track(batch)
  \/ \E m \in replies : Deliver(m)
  \/ Disconnect
  \/ Reconnect
  \/ ClearTracker
  \/ \E r \in Req : Abandon(r)
  \/ \E q \in server, result \in Results : Answer(q, result)
  \/ \E params \in Params : Notify(params)

Spec == Init /\ [][Next]_vars

-----------------------------------------------------------------------------
(***************************************************************************)
(* Properties.                                                             *)
(***************************************************************************)

\* The answer to an unresolved request still finds that request's handler,
\* whatever was tracked, resolved, lost or sent again since it was asked.
AnswersFindTheirRequest ==
  \A m \in replies :
    m[2].type = "response" /\ reply[m[2].of] = "open" => pending[m[2].id] = m[2].of

\* An open request that was tracked is pending, and under one id only: no
\* handler is lost while its caller waits (track_request, clear, remove).
NoOrphan ==
  \A r \in Tracked : reply[r] = "open" => \E i \in Ids : \A j \in Ids : pending[j] = r <=> j = i

\* While a connection is up, every pending request is held by its server or
\* answered by a message on its way: pending_requests forgets none.
PendingIsAsked ==
  up => \A i \in Ids : pending[i] # NoReq =>
          \/ [id |-> i, req |-> pending[i]] \in server
          \/ \E m \in replies : m[2].type = "response" /\ m[2].id = i

\* A resolved request stays as it is, also when its retry is answered too.
ResolvedOnce ==
  [][\A r \in Req : reply[r] \in {"ok", "error", "canceled"} =>
       reply'[r] = reply[r] /\ answer'[r] = answer[r]]_vars

-----------------------------------------------------------------------------
(***************************************************************************)
(* The inductive invariants behind these properties.                       *)
(***************************************************************************)

\* The handler of a tracked request is in the map, under one id, until the
\* request is resolved.
HandlersOwned ==
  /\ OneIdEach
  /\ Held \subseteq Tracked
  /\ \A r \in Held : reply[r] \in {"open", "abandoned"}
  /\ \A r \in Tracked \ Held : reply[r] # "open"
  /\ \A r \in Req \ Tracked : reply[r] = "open"

\* What every step preserves, whatever is tracked, lost, sent again, cleared
\* or abandoned, also when ids wrap around: NoOrphan and ResolvedOnce follow.
OwnershipInv == TypeOK /\ HandlersOwned

\* In sessions in which the ids do not wrap around (MaxTracked <= IdCount) the
\* id of a request is its place in the log, wherever the request and its
\* answer are.
IdsFollowLog ==
  /\ Len(log) <= MaxTracked
  /\ next_id = Len(log) % IdCount
  /\ IsInjective(log)

PendingIsLogged ==
  \A i \in Ids : pending[i] # NoReq => i < Len(log) /\ pending[i] = log[i + 1]

WireIsLogged ==
  /\ \A q \in server : q.id < Len(log) /\ q.req = log[q.id + 1]
  /\ \A m \in replies : m[2].type = "response" =>
       m[2].id < Len(log) /\ m[2].of = log[m[2].id + 1]

\* What every step preserves in such sessions: Correlated and
\* AnswersFindTheirRequest follow.
IInv ==
  /\ OwnershipInv
  /\ IdsFollowLog
  /\ PendingIsLogged
  /\ WireIsLogged
  /\ Correlated

=============================================================================
