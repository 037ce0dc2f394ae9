--------------------------- MODULE RequestTracker ---------------------------
(***************************************************************************)
(* The sans-IO heart of the crate: RequestTracker, which gives every       *)
(* outgoing request an id and routes every incoming message by its id, and *)
(* PendingRequest, the one-shot handler that the tracker keeps per id.     *)
(*                                                                         *)
(* A request is a model value.  Its handler lives in exactly one place at  *)
(* a time and is consumed once: it is invoked, or it is dropped, and a     *)
(* dropped handler drops the sender of the caller's reply channel, which   *)
(* the caller sees as Canceled.  reply[r] is that channel:                 *)
(*   "open"      the handler exists and was not invoked,                   *)
(*   "abandoned" as "open", but the caller dropped its receiver,           *)
(*   "ok"        invoked with the server's result,                         *)
(*   "error"     invoked with the server's error,                          *)
(*   "canceled"  dropped without being invoked.                            *)
(* A message carries, besides its id, the request it was made for ("of"):  *)
(* the tracker never reads it, properties do.                              *)
(***************************************************************************)
EXTENDS Naturals, Sequences, FiniteSetsExt, Functions

CONSTANTS
  Req,        \* the requests of a session, each sent at most once
  EventReq,   \* those built by PendingRequest::event, without a callback
  NoReq,      \* "no request"
  IdCount     \* number of distinct ids: 2^32 for the code's u32

ASSUME TrackerAssumption ==
  /\ NoReq \notin Req
  /\ EventReq \subseteq Req
  /\ IdCount \in Nat \ {0}

VARIABLES
  next_id,    \* the id of the next request, owned by the tracker's user
  pending,    \* the tracker's map from id to handler, NoReq where it has none
  reply,      \* the state of each request's reply channel
  answer      \* the request whose answer each request's handler was given

trackerVars == <<next_id, pending, reply, answer>>

Ids == 0 .. IdCount - 1

Outcomes == {"open", "abandoned", "ok", "error", "canceled"}

RawRequest == [id : Ids, req : Req]

Response ==
  [type : {"response"}, id : Ids, of : Req, result : {"ok", "error", "malformed"}]

Notification == [type : {"notification"}, params : {"valid", "malformed"}]

RawIncoming == Response \cup Notification

TrackerTypeOK ==
  /\ next_id \in Ids
  /\ pending \in [Ids -> Req \cup {NoReq}]
  /\ reply \in [Req -> Outcomes]
  /\ answer \in [Req -> Req \cup {NoReq}]

TrackerInit ==
  /\ next_id = 0
  /\ pending = [i \in Ids |-> NoReq]
  /\ reply = [r \in Req |-> "open"]
  /\ answer = [r \in Req |-> NoReq]

-----------------------------------------------------------------------------
(***************************************************************************)
(* Handlers.                                                               *)
(***************************************************************************)

\* A batch in the order in which BatchRequest pushed its requests.  The
\* handler of a request is moved into one batch, so a batch has no repetition.
Batches(unsent, max) ==
  UNION {{b \in [1 .. n -> unsent] : IsInjective(b)} : n \in 1 .. max}

\* The reply channels once the handlers of the requests R are dropped.
Dropped(R) ==
  [r \in Req |-> IF r \in R /\ reply[r] = "open" THEN "canceled" ELSE reply[r]]

Held == Range(pending) \ {NoReq}

\* Mutant: a result that does not parse leaves its caller waiting.
SettledUnlessMalformed(r, result) ==
  IF reply[r] = "abandoned" \/ result = "malformed" THEN reply[r] ELSE result

\* The reply channel of a request once its handler ran on a result.  A
\* result that does not parse as the response type drops the handler; the
\* error of the reply to a caller who has gone is ignored.
Settled(r, result) ==
  IF reply[r] = "abandoned" THEN "abandoned"
  ELSE IF result = "malformed" THEN "canceled" ELSE result

-----------------------------------------------------------------------------
(***************************************************************************)
(* track_request: every request of the batch takes the next id, and its    *)
(* handler replaces whatever the map held under that id.                   *)
(***************************************************************************)

\* The id of the k-th request of a batch: wrapping_add from next_id.
IdAt(k) == (next_id + k - 1) % IdCount

PositionsWithId(batch, i) == {k \in DOMAIN batch : IdAt(k) = i}

\* pending after the inserts: the last request given an id has the slot.
Inserted(batch) ==
  [i \in Ids |-> IF PositionsWithId(batch, i) = {} THEN pending[i]
                 ELSE batch[Max(PositionsWithId(batch, i))]]

\* The handlers an insert replaced, which HashMap::insert gives back and
\* track_request drops.
Displaced(batch) ==
  (Held \cup Range(batch)) \ Range(Inserted(batch))

\* Mutant: the id is read after it was incremented.
RawRequestsOffByOne(batch) ==
  [k \in DOMAIN batch |-> [id |-> IdAt(k + 1), req |-> batch[k]]]

RawRequests(batch) == [k \in DOMAIN batch |-> [id |-> IdAt(k), req |-> batch[k]]]

\* Mutants: the next id does not wrap around; it advances once per batch.
TrackRequestNoWrap(batch) ==
  /\ next_id' = next_id + Len(batch)
  /\ pending' = Inserted(batch)
  /\ reply' = Dropped(Displaced(batch))
  /\ UNCHANGED answer

TrackRequestOneId(batch) ==
  /\ next_id' = (next_id + 1) % IdCount
  /\ pending' = Inserted(batch)
  /\ reply' = Dropped(Displaced(batch))
  /\ UNCHANGED answer

TrackRequest(batch) ==
  /\ next_id' = (next_id + Len(batch)) % IdCount
  /\ pending' = Inserted(batch)
  /\ reply' = Dropped(Displaced(batch))
  /\ UNCHANGED answer

-----------------------------------------------------------------------------
(***************************************************************************)
(* handle_incoming: the handler is removed before it runs, whatever the    *)
(* result; a message that is not the response to a held request changes    *)
(* nothing.                                                                *)
(***************************************************************************)

IsKnownResponse(msg) == msg.type = "response" /\ pending[msg.id] # NoReq

\* Mutant: the handler is looked up instead of removed.
ResolveKeepsHandler(msg) ==
  LET r == pending[msg.id] IN
  /\ reply' = [reply EXCEPT ![r] = Settled(r, msg.result)]
  /\ answer' = [answer EXCEPT ![r] = IF msg.result = "malformed" THEN @ ELSE msg.of]
  /\ UNCHANGED <<next_id, pending>>

Resolve(msg) ==
  LET r == pending[msg.id] IN
  /\ pending' = [pending EXCEPT ![msg.id] = NoReq]
  /\ reply' = [reply EXCEPT ![r] = Settled(r, msg.result)]
  /\ answer' = [answer EXCEPT ![r] = IF msg.result = "malformed" THEN @ ELSE msg.of]
  /\ UNCHANGED next_id

HandleIncoming(msg) ==
  \/ IsKnownResponse(msg) /\ Resolve(msg)
  \/ ~IsKnownResponse(msg) /\ UNCHANGED trackerVars

\* ProcessError: a response to no held request, or data that does not parse.
IsProcessError(msg) ==
  \/ msg.type = "response" /\ (~IsKnownResponse(msg) \/ msg.result = "malformed")
  \/ msg.type = "notification" /\ msg.params = "malformed"

\* Whether handling the message gives an Event: a notification, or the
\* response to a request that has no callback.
GivesEvent(msg) ==
  /\ ~IsProcessError(msg)
  /\ msg.type = "response" => pending[msg.id] \in EventReq

\* Mutants: requests without a callback are not sent again; the others are
\* numbered from zero.
PendingCallbacks ==
  {[id |-> i, req |-> pending[i]] : i \in {j \in Ids : pending[j] \notin EventReq \cup {NoReq}}}

PendingRenumbered ==
  {[id |-> Cardinality({j \in 0 .. i - 1 : pending[j] # NoReq}), req |-> pending[i]] :
     i \in {j \in Ids : pending[j] # NoReq}}

\* pending_requests: the raw form of every held request, to be sent again.
PendingRequests == {[id |-> i, req |-> pending[i]] : i \in {j \in Ids : pending[j] # NoReq}}

\* Mutant: ids start again after a clear.
ClearRestartsIds ==
  /\ pending' = [i \in Ids |-> NoReq]
  /\ reply' = Dropped(Held)
  /\ next_id' = 0
  /\ UNCHANGED answer

\* clear: every held handler is dropped; next_id is not the tracker's.
Clear ==
  /\ pending' = [i \in Ids |-> NoReq]
  /\ reply' = Dropped(Held)
  /\ UNCHANGED <<next_id, answer>>

-----------------------------------------------------------------------------
\* A handler is moved into the map, so it is under one id of it.
OneIdEach == \A i, j \in Ids : pending[i] = pending[j] /\ pending[i] # NoReq => i = j

\* No request is ever handed the answer the server made for another one
\* (handle_incoming routes by id alone, request_tracker.rs:154-161).
Correlated == \A r \in Req : answer[r] \in {NoReq, r}

=============================================================================
