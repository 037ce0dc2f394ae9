------------------------ MODULE TrackerSessionProofs ------------------------
(***************************************************************************)
(* Theorems about TrackerSession, for any requests and any bounds.         *)
(***************************************************************************)
EXTENDS TrackerSession, SharedLemmas

-----------------------------------------------------------------------------
(***************************************************************************)
(* Type correctness.                                                       *)
(***************************************************************************)

\* A new session is well typed.
LEMMA InitType == Init => TypeOK
BY TrackerAssumption, SessionAssumption
   DEF Init, TypeOK, TrackerInit, TrackerTypeOK, Ids, Outcomes

\* Every step keeps every variable within its type.
LEMMA TypeStep == TypeOK /\ [Next]_vars => TypeOK'
<1> SUFFICES ASSUME TypeOK, [Next]_vars PROVE TypeOK'
  OBVIOUS
<1> USE DEF TypeOK
<1>1. ASSUME NEW b \in Batches(Req \ Tracked, MaxBatch), Track(b) PROVE TypeOK'
  <2>1. b \in Seq(Req)
    BY BatchIsSequence, SessionAssumption
  <2>2. TrackerTypeOK' /\ Range(RawRequests(b)) \subseteq RawRequest
    BY <1>1, <2>1, TrackRequestType DEF Track
  <2>3. log' \in Seq(Req)
    BY <1>1, <2>1 DEF Track
  <2>4. server' \subseteq RawRequest
    BY <1>1, <2>2 DEF Track
  <2>5. QED
    BY <1>1, <2>2, <2>3, <2>4 DEF Track
<1>2. ASSUME NEW m \in replies, Deliver(m) PROVE TypeOK'
  <2>1. m[2] \in RawIncoming
    OBVIOUS
  <2>2. TrackerTypeOK'
    BY <1>2, <2>1, HandleIncomingType DEF Deliver
  <2>3. QED
    BY <1>2, <2>2 DEF Deliver
<1>3. CASE Disconnect
  BY <1>3 DEF Disconnect, trackerVars, TrackerTypeOK
<1>4. CASE Reconnect
  <2>1. PendingRequests \subseteq RawRequest
    BY DEF PendingRequests, RawRequest, TrackerTypeOK
  <2>2. conn' \in 1 .. MaxConn
    BY <1>4, SessionAssumption DEF Reconnect
  <2>3. QED
    BY <1>4, <2>1, <2>2 DEF Reconnect, trackerVars, TrackerTypeOK
<1>5. CASE ClearTracker
  BY <1>5, DroppedType DEF ClearTracker, Clear, TrackerTypeOK
<1>6. ASSUME NEW r \in Req, Abandon(r) PROVE TypeOK'
  BY <1>6 DEF Abandon, TrackerTypeOK, Outcomes
<1>7. ASSUME NEW q \in server, NEW result \in Results, Answer(q, result) PROVE TypeOK'
  <2>1. [type |-> "response", id |-> q.id, of |-> q.req, result |-> result] \in RawIncoming
    BY SessionAssumption DEF RawIncoming, Response, RawRequest
  <2>2. QED
    BY <1>7, <2>1 DEF Answer, trackerVars, TrackerTypeOK
<1>8. ASSUME NEW params \in Params, Notify(params) PROVE TypeOK'
  <2>1. [type |-> "notification", params |-> params] \in RawIncoming
    BY SessionAssumption DEF RawIncoming, Notification
  <2>2. QED
    BY <1>8, <2>1 DEF Notify, trackerVars, TrackerTypeOK
<1>9. CASE UNCHANGED vars
  BY <1>9 DEF vars, trackerVars, TrackerTypeOK
<1>10. QED
  BY <1>1, <1>2, <1>3, <1>4, <1>5, <1>6, <1>7, <1>8, <1>9 DEF Next

\* The tracker and its session are well typed in every reachable state, also
\* when ids wrap around and displace pending requests.
THEOREM TypeCorrect == Spec => []TypeOK
BY InitType, TypeStep, PTL DEF Spec

-----------------------------------------------------------------------------
(***************************************************************************)
(* Where the handlers are, also when ids wrap around.                      *)
(***************************************************************************)

\* The log after a batch of new requests.
LEMMA LogGrows ==
  ASSUME TypeOK, NEW b \in Batches(Req \ Tracked, MaxBatch), log' = log \o b
  PROVE  /\ b \in Seq(Req) /\ IsInjective(b) /\ Range(b) \subseteq Req \ Tracked
         /\ Len(b) \in Nat /\ Len(b) > 0
         /\ Tracked' = Tracked \cup Range(b)
         /\ IsInjective(log) => IsInjective(log')
<1>1. b \in Seq(Req \ Tracked) /\ IsInjective(b) /\ Len(b) > 0
  BY BatchIsSequence, SessionAssumption
<1>2. b \in Seq(Req) /\ Range(b) \subseteq Req \ Tracked /\ log \in Seq(Req)
  BY <1>1 DEF Range, TypeOK
<1>3. Tracked' = Tracked \cup Range(b)
  BY <1>2, RangeConcatenation DEF Tracked
<1>4. IsInjective(log) => IsInjective(log')
  BY <1>1, <1>2, LogOfOthers DEF Tracked
<1>5. QED
  BY <1>1, <1>2, <1>3, <1>4

\* Every step moves handlers only into the map and, as their requests are
\* resolved, out of it.
LEMMA OwnershipStep == OwnershipInv /\ [Next]_vars => OwnershipInv'
<1> SUFFICES ASSUME OwnershipInv, [Next]_vars PROVE OwnershipInv'
  OBVIOUS
<1>1. TypeOK' /\ TypeOK /\ TrackerTypeOK /\ HandlersOwned
  BY TypeStep DEF OwnershipInv, TypeOK
<1>2. Held \subseteq Req /\ Tracked \subseteq Req
  BY <1>1, HeldUnderId DEF TypeOK, Tracked, Range
<1>3. ASSUME UNCHANGED <<pending, reply, log>> PROVE OwnershipInv'
  BY <1>1, <1>3 DEF OwnershipInv, HandlersOwned, OneIdEach, Held, Tracked
<1>4. ASSUME NEW b \in Batches(Req \ Tracked, MaxBatch), Track(b) PROVE OwnershipInv'
  <2>1. /\ TrackRequest(b) /\ b \in Seq(Req) /\ IsInjective(b)
        /\ Range(b) \subseteq Req \ Tracked /\ Tracked' = Tracked \cup Range(b)
    BY <1>1, <1>4, LogGrows DEF Track
  <2>2. Range(b) \cap Held = {}
    BY <1>1, <2>1 DEF HandlersOwned
  <2>3. /\ OneIdEach' /\ Held' \subseteq Held \cup Range(b)
        /\ \A r \in Req : reply'[r] =
             IF r \in (Held \cup Range(b)) \ Held' /\ reply[r] = "open" THEN "canceled" ELSE reply[r]
    BY <1>1, <2>1, <2>2, TrackRequestOwnership DEF HandlersOwned
  <2>4. HandlersOwned'
    BY <1>1, <1>2, <2>1, <2>3 DEF HandlersOwned
  <2>5. QED
    BY <1>1, <2>4 DEF OwnershipInv
<1>5. ASSUME NEW m \in replies, Deliver(m) PROVE OwnershipInv'
  <2>1. m[2] \in RawIncoming /\ HandleIncoming(m[2]) /\ log' = log /\ Tracked' = Tracked
    BY <1>1, <1>5 DEF Deliver, TypeOK, Tracked
  <2>2. PICK msg \in RawIncoming : msg = m[2]
    BY <2>1
  <2>3. HandleIncoming(msg)
    BY <2>1, <2>2
  <2>4. CASE UNCHANGED trackerVars
    BY <1>3, <2>1, <2>4 DEF trackerVars
  <2>5. ASSUME NEW r \in Held, OneIdEach', Held' = Held \ {r}, reply'[r] # "open",
               \A q \in Req \ {r} : reply'[q] = reply[q]
        PROVE  HandlersOwned'
    BY <1>1, <1>2, <2>1, <2>5 DEF HandlersOwned
  <2>6. QED
    BY <1>1, <2>3, <2>4, <2>5, HandleIncomingOwnership DEF OwnershipInv, HandlersOwned
<1>6. CASE ClearTracker
  <2>1. Held' = {} /\ OneIdEach' /\ Tracked' = Tracked
    BY <1>6 DEF ClearTracker, Clear, Held, Range, OneIdEach, Tracked
  <2>2. \A r \in Req : reply'[r] = IF r \in Held /\ reply[r] = "open" THEN "canceled" ELSE reply[r]
    BY <1>6 DEF ClearTracker, Clear, Dropped
  <2>3. QED
    BY <1>1, <1>2, <2>1, <2>2 DEF OwnershipInv, HandlersOwned
<1>7. ASSUME NEW r \in Req, Abandon(r) PROVE OwnershipInv'
  <2>1. Held' = Held /\ Tracked' = Tracked /\ (OneIdEach <=> OneIdEach')
    BY <1>7 DEF Abandon, Held, Tracked, OneIdEach
  <2>2. /\ r \in Tracked /\ reply[r] = "open"
        /\ \A q \in Req : reply'[q] = IF q = r THEN "abandoned" ELSE reply[q]
    BY <1>1, <1>7 DEF Abandon, TrackerTypeOK
  <2>3. HandlersOwned'
    BY <1>1, <1>2, <2>1, <2>2 DEF HandlersOwned
  <2>4. QED
    BY <1>1, <2>3 DEF OwnershipInv
<1>8. QED
  BY <1>3, <1>4, <1>5, <1>6, <1>7 DEF Next, Disconnect, Reconnect, Answer, Notify, vars, trackerVars

\* In a new session nothing is tracked.
LEMMA OwnershipInit == Init => OwnershipInv
<1> SUFFICES ASSUME Init PROVE OwnershipInv
  OBVIOUS
<1>1. Tracked = {} /\ Held = {}
  BY DEF Init, TrackerInit, Tracked, Held, Range
<1>2. HandlersOwned
  BY <1>1 DEF Init, TrackerInit, HandlersOwned, OneIdEach
<1>3. QED
  BY <1>2, InitType DEF OwnershipInv

\* The handler of a tracked request is in the map, under one id, until the
\* request is resolved, also where ids wrap around.
THEOREM HandlersAreOwned == Spec => []OwnershipInv
BY OwnershipInit, OwnershipStep, PTL DEF Spec

\* A request that was tracked and still waits has its handler in the tracker,
\* under exactly one id: where an id comes round again, the request that loses
\* it is canceled.
THEOREM NoHandlerIsLost == Spec => []NoOrphan
<1>1. ASSUME OwnershipInv PROVE NoOrphan
  <2>1. SUFFICES ASSUME NEW r \in Tracked, reply[r] = "open"
                 PROVE  \E i \in Ids : \A j \in Ids : pending[j] = r <=> j = i
    BY DEF NoOrphan
  <2>2. r \in Held /\ TrackerTypeOK /\ OneIdEach
    BY <1>1, <2>1 DEF OwnershipInv, HandlersOwned, TypeOK
  <2>3. PICK i \in Ids : pending[i] = r /\ r # NoReq
    BY <2>2, HeldUnderId, TrackerAssumption
  <2>4. \A j \in Ids : pending[j] = r <=> j = i
    BY <2>2, <2>3 DEF OneIdEach
  <2>5. QED
    BY <2>4
<1>2. QED
  BY <1>1, HandlersAreOwned, PTL

\* A resolved request stays as it is: its handler is gone, so that neither a
\* late answer nor the answer to its retry runs it again, whoever holds its id
\* by then.
THEOREM ResolvedOnlyOnce == Spec => ResolvedOnce
<1>1. ASSUME OwnershipInv, [Next]_vars
      PROVE  \A r \in Req : reply[r] \in {"ok", "error", "canceled"} =>
               reply'[r] = reply[r] /\ answer'[r] = answer[r]
  <2>1. SUFFICES ASSUME NEW r \in Req, reply[r] \in {"ok", "error", "canceled"}
                 PROVE  reply'[r] = reply[r] /\ answer'[r] = answer[r]
    OBVIOUS
  <2>2. TypeOK /\ TrackerTypeOK /\ OneIdEach /\ r \notin Held
    BY <1>1, <2>1 DEF OwnershipInv, HandlersOwned, TypeOK
  <2>3. ASSUME NEW R, reply' = Dropped(R) PROVE reply'[r] = reply[r]
    BY <2>1, <2>3 DEF Dropped
  <2>4. ASSUME NEW b \in Batches(Req \ Tracked, MaxBatch), Track(b)
        PROVE  reply'[r] = reply[r] /\ answer'[r] = answer[r]
    BY <2>3, <2>4 DEF Track, TrackRequest
  <2>5. ASSUME NEW m \in replies, Deliver(m)
        PROVE  reply'[r] = reply[r] /\ answer'[r] = answer[r]
    <3>1. PICK msg \in RawIncoming : msg = m[2]
      BY <2>2, <2>5 DEF TypeOK
    <3>2. HandleIncoming(msg)
      BY <2>5, <3>1 DEF Deliver
    <3>3. \/ UNCHANGED trackerVars
          \/ \E q \in Held : \A p \in Req \ {q} : reply'[p] = reply[p] /\ answer'[p] = answer[p]
      BY <2>2, <3>2, HandleIncomingOwnership
    <3>4. QED
      BY <2>2, <3>3 DEF trackerVars
  <2>6. CASE ClearTracker
    BY <2>3, <2>6 DEF ClearTracker, Clear
  <2>7. ASSUME NEW a \in Req, Abandon(a)
        PROVE  reply'[r] = reply[r] /\ answer'[r] = answer[r]
    BY <2>1, <2>2, <2>7 DEF Abandon, TrackerTypeOK
  <2>8. CASE UNCHANGED trackerVars
    BY <2>8 DEF trackerVars
  <2>9. QED
    BY <1>1, <2>4, <2>5, <2>6, <2>7, <2>8
       DEF Next, Disconnect, Reconnect, Answer, Notify, vars
<1>2. QED
  BY <1>1, HandlersAreOwned, PTL DEF Spec, ResolvedOnce

\* While a connection is up the server holds every pending request, or its
\* answer is on the way: pending_requests forgets none on a reconnect, and
\* track_request none even where ids wrap around.
THEOREM PendingIsAlwaysAsked == Spec => []PendingIsAsked
<1> DEFINE Asked(q) == q \in server \/ \E m \in replies : m[2].type = "response" /\ m[2].id = q.id
<1>1. Init => PendingIsAsked
  BY DEF Init, TrackerInit, PendingIsAsked
<1>2. ASSUME TypeOK, PendingIsAsked, [Next]_vars PROVE PendingIsAsked'
  <2>1. SUFFICES ASSUME up', NEW i \in Ids, pending'[i] # NoReq
                 PROVE  Asked([id |-> i, req |-> pending[i]])'
    BY DEF PendingIsAsked
  <2>2. up /\ pending[i] # NoReq => Asked([id |-> i, req |-> pending[i]])
    BY <1>2 DEF PendingIsAsked
  <2>3. ASSUME NEW b \in Batches(Req \ Tracked, MaxBatch), Track(b)
        PROVE  Asked([id |-> i, req |-> pending[i]])'
    <3> DEFINE P == PositionsWithId(b, i)
    <3>1. b \in Seq(Req) /\ DOMAIN b = 1 .. Len(b) /\ Len(b) \in Nat
      BY BatchIsSequence, SessionAssumption
    <3>2. up /\ server' = server \cup Range(RawRequests(b)) /\ replies' = replies
      BY <2>1, <2>3 DEF Track
    <3>3. pending' = Inserted(b)
      BY <2>3 DEF Track, TrackRequest
    <3>4. CASE P = {}
      <4>1. pending'[i] = pending[i]
        BY <3>3, <3>4 DEF Inserted
      <4>2. QED
        BY <2>1, <2>2, <3>2, <4>1
    <3>5. CASE P # {}
      <4>1. P \in SUBSET (1 .. Len(b))
        BY <3>1 DEF PositionsWithId
      <4>2. Max(P) \in P
        BY <3>1, <3>5, <4>1, MaxOfPositions, Zenon
      <4>3. pending'[i] = b[Max(P)] /\ IdAt(Max(P)) = i /\ Max(P) \in DOMAIN b
        BY <3>3, <3>5, <4>2 DEF Inserted, PositionsWithId
      <4>4. [id |-> i, req |-> pending'[i]] \in Range(RawRequests(b))
        BY <4>3 DEF RawRequests, Range
      <4>5. QED
        BY <3>2, <4>4
    <3>6. QED
      BY <3>4, <3>5
  <2>4. ASSUME NEW m \in replies, Deliver(m)
        PROVE  Asked([id |-> i, req |-> pending[i]])'
    <3>1. up /\ server' = server /\ replies' = replies \ {m}
      BY <2>1, <2>4 DEF Deliver
    <3>2. /\ pending'[i] = pending[i]
          /\ ~(m[2].type = "response" /\ m[2].id = i)
      <4>1. CASE IsKnownResponse(m[2]) /\ Resolve(m[2])
        <5>1. pending' = [pending EXCEPT ![m[2].id] = NoReq]
          BY <4>1 DEF Resolve
        <5>2. QED
          BY <1>2, <2>1, <5>1 DEF TypeOK, TrackerTypeOK
      <4>2. CASE ~IsKnownResponse(m[2]) /\ UNCHANGED trackerVars
        BY <2>1, <4>2 DEF IsKnownResponse, trackerVars
      <4>3. QED
        BY <2>4, <4>1, <4>2 DEF Deliver, HandleIncoming
    <3>3. QED
      BY <2>1, <2>2, <3>1, <3>2
  <2>5. CASE Disconnect
    BY <2>1, <2>5 DEF Disconnect
  <2>6. CASE Reconnect
    BY <2>1, <2>6 DEF Reconnect, PendingRequests, trackerVars
  <2>7. CASE ClearTracker
    BY <2>1, <2>7 DEF ClearTracker, Clear
  <2>8. ASSUME NEW r \in Req, Abandon(r) PROVE Asked([id |-> i, req |-> pending[i]])'
    BY <2>1, <2>2, <2>8 DEF Abandon
  <2>9. ASSUME NEW q \in server, NEW result \in Results, Answer(q, result)
        PROVE  Asked([id |-> i, req |-> pending[i]])'
    <3> DEFINE msg == [type |-> "response", id |-> q.id, of |-> q.req, result |-> result]
    <3>1. /\ up' = up /\ pending' = pending /\ server' = server \ {q}
          /\ replies' = replies \cup {<<conn, msg>>}
      BY <2>9 DEF Answer, trackerVars
    <3>2. CASE q = [id |-> i, req |-> pending[i]]
      <4>1. <<conn, msg>>[2].type = "response" /\ <<conn, msg>>[2].id = i
        BY <3>2
      <4>2. QED
        BY <3>1, <4>1
    <3>3. CASE q # [id |-> i, req |-> pending[i]]
      BY <2>1, <2>2, <3>1, <3>3
    <3>4. QED
      BY <3>2, <3>3
  <2>10. ASSUME NEW params \in Params, Notify(params)
         PROVE  Asked([id |-> i, req |-> pending[i]])'
    BY <2>1, <2>2, <2>10 DEF Notify, trackerVars
  <2>11. CASE UNCHANGED vars
    BY <2>1, <2>2, <2>11 DEF vars, trackerVars
  <2>12. QED
    BY <1>2, <2>3, <2>4, <2>5, <2>6, <2>7, <2>8, <2>9, <2>10, <2>11 DEF Next
<1>3. QED
  BY <1>1, <1>2, TypeCorrect, PTL DEF Spec

-----------------------------------------------------------------------------
(***************************************************************************)
(* Whose answer is whose, in sessions in which ids do not wrap around.     *)
(***************************************************************************)

\* Tracking a batch appends it to the log and fills the slots of its ids.
LEMMA TrackStep ==
  ASSUME MaxTracked <= IdCount, IInv, OwnershipInv',
         NEW b \in Batches(Req \ Tracked, MaxBatch), Track(b)
  PROVE  IInv'
<1> DEFINE n == Len(log)
<1>1. /\ TypeOK /\ log \in Seq(Req) /\ n \in Nat /\ n <= MaxTracked /\ next_id = n % IdCount
      /\ IsInjective(log) /\ MaxTracked \in Nat /\ IdCount \in Nat
  BY TrackerAssumption, SessionAssumption DEF IInv, OwnershipInv, TypeOK, IdsFollowLog
<1>2. /\ b \in Seq(Req) /\ Len(b) \in Nat /\ DOMAIN b = 1 .. Len(b) /\ IsInjective(log')
      /\ log' = log \o b /\ TrackRequest(b)
  <2>1. log' = log \o b /\ TrackRequest(b)
    BY DEF Track
  <2>2. b \in Seq(Req) /\ Len(b) \in Nat /\ IsInjective(log')
    BY <1>1, <2>1, LogGrows
  <2>3. QED
    BY <2>1, <2>2
<1>3. /\ Len(log') = n + Len(b) /\ n + Len(b) <= MaxTracked /\ n + Len(b) <= IdCount
      /\ \A i \in 1 .. n : log'[i] = log[i]
      /\ \A k \in 1 .. Len(b) : log'[n + k] = b[k]
  BY <1>1, <1>2, LogAppended DEF Track
<1>4. IdsFollowLog'
  BY <1>1, <1>2, <1>3, NextIdFollows DEF IdsFollowLog
<1>5. ASSUME NEW i \in Ids, pending'[i] # NoReq
      PROVE  i < Len(log') /\ pending'[i] = log'[i + 1]
  <2>1. i \in Nat
    BY TrackerAssumption DEF Ids
  <2>2. pending'[i] = IF i \in n .. n + Len(b) - 1 THEN b[i - n + 1] ELSE pending[i]
    BY <1>1, <1>2, <1>3, BatchInserted DEF TrackRequest
  <2>3. CASE i \in n .. n + Len(b) - 1
    <3>1. i - n + 1 \in 1 .. Len(b) /\ n + (i - n + 1) = i + 1 /\ i < n + Len(b)
      BY <1>1, <1>2, <2>1, <2>3
    <3>2. log'[n + (i - n + 1)] = b[i - n + 1]
      BY <1>3, <3>1
    <3>3. QED
      BY <1>3, <2>2, <2>3, <3>1, <3>2
  <2>4. CASE i \notin n .. n + Len(b) - 1
    <3>1. i < n /\ pending[i] = log[i + 1] /\ pending'[i] = pending[i]
      BY <1>5, <2>2, <2>4 DEF IInv, PendingIsLogged
    <3>2. QED
      BY <1>1, <1>2, <1>3, <2>1, <3>1
  <2>5. QED
    BY <2>3, <2>4
<1>6. ASSUME NEW i \in Nat, i < n PROVE i < Len(log') /\ log'[i + 1] = log[i + 1]
  BY <1>1, <1>2, <1>3, <1>6
<1>7. WireIsLogged'
  <2>1. ASSUME NEW q \in server PROVE q.id < Len(log') /\ q.req = log'[q.id + 1]
    <3>1. q.id \in Nat /\ q.id < n /\ q.req = log[q.id + 1]
      BY <1>1, TrackerAssumption DEF TypeOK, RawRequest, Ids, IInv, WireIsLogged
    <3>2. QED
      BY <1>6, <3>1
  <2>2. ASSUME NEW q \in Range(RawRequests(b)) PROVE q.id < Len(log') /\ q.req = log'[q.id + 1]
    <3>1. PICK k \in 1 .. Len(b) : q = [id |-> IdAt(k), req |-> b[k]]
      BY <1>2 DEF RawRequests, Range
    <3>2. IdAt(k) = n + k - 1
      BY <1>1, <1>2, <1>3, BatchIds
    <3>3. n + k - 1 < n + Len(b) /\ n + k - 1 + 1 = n + k
      BY <1>1, <1>2
    <3>4. QED
      BY <1>3, <3>1, <3>2, <3>3
  <2>3. ASSUME NEW m \in replies, m[2].type = "response"
        PROVE  m[2].id < Len(log') /\ m[2].of = log'[m[2].id + 1]
    <3>1. m[2].id \in Nat
      BY <1>1, <2>3, TrackerAssumption DEF TypeOK, RawIncoming, Response, Notification, Ids
    <3>2. m[2].id < n /\ m[2].of = log[m[2].id + 1]
      BY <2>3 DEF IInv, WireIsLogged
    <3>3. QED
      BY <1>6, <3>1, <3>2
  <2>4. server' \subseteq server \cup Range(RawRequests(b)) /\ replies' = replies
    BY DEF Track
  <2>5. QED
    BY <2>1, <2>2, <2>3, <2>4 DEF WireIsLogged
<1>8. Correlated'
  BY <1>2 DEF TrackRequest, IInv, Correlated
<1>9. QED
  BY <1>4, <1>5, <1>7, <1>8 DEF IInv, PendingIsLogged

\* A message takes at most the handler of the request it answers.
LEMMA DeliverStep ==
  ASSUME IInv, OwnershipInv', NEW m \in replies, Deliver(m)
  PROVE  IInv'
<1>1. /\ TrackerTypeOK /\ OneIdEach /\ UNCHANGED <<log, server>> /\ replies' \subseteq replies
  BY DEF IInv, OwnershipInv, TypeOK, HandlersOwned, Deliver
<1>2. PICK msg \in RawIncoming : msg = m[2]
  BY DEF IInv, OwnershipInv, TypeOK
<1>3. HandleIncoming(msg)
  BY <1>2 DEF Deliver
<1>4. CASE UNCHANGED trackerVars
  BY <1>1, <1>4 DEF IInv, IdsFollowLog, PendingIsLogged, WireIsLogged, Correlated, trackerVars
<1>5. ASSUME NEW r \in Held, msg \in Response, msg.id \in Ids, pending[msg.id] = r,
             pending' = [pending EXCEPT ![msg.id] = NoReq], UNCHANGED next_id,
             \A q \in Req \ {r} : answer'[q] = answer[q], answer'[r] \in {answer[r], msg.of}
      PROVE  IInv'
  <2>1. r # NoReq /\ r = log[msg.id + 1]
    BY <1>5 DEF IInv, PendingIsLogged, Held
  <2>2. msg.of = log[msg.id + 1]
    BY <1>2, <1>5 DEF IInv, WireIsLogged, Response
  <2>3. Correlated'
    BY <1>5, <2>1, <2>2 DEF IInv, Correlated
  <2>4. PendingIsLogged'
    BY <1>1, <1>5 DEF IInv, PendingIsLogged, TrackerTypeOK
  <2>5. QED
    BY <1>1, <1>5, <2>3, <2>4 DEF IInv, IdsFollowLog, WireIsLogged
<1>6. QED
  BY <1>1, <1>3, <1>4, <1>5, HandleIncomingOwnership

\* Every step preserves the inductive invariant.
LEMMA InvariantStep ==
  ASSUME MaxTracked <= IdCount
  PROVE  IInv /\ [Next]_vars => IInv'
<1> SUFFICES ASSUME IInv, [Next]_vars PROVE IInv'
  OBVIOUS
<1>1. OwnershipInv'
  BY OwnershipStep DEF IInv
<1>2. ASSUME NEW b \in Batches(Req \ Tracked, MaxBatch), Track(b) PROVE IInv'
  BY <1>1, <1>2, TrackStep
<1>3. ASSUME NEW m \in replies, Deliver(m) PROVE IInv'
  BY <1>1, <1>3, DeliverStep
<1>4. ASSUME UNCHANGED <<log, next_id, answer>>, PendingIsLogged', WireIsLogged' PROVE IInv'
  BY <1>1, <1>4 DEF IInv, IdsFollowLog, Correlated
<1>5. CASE Disconnect
  BY <1>4, <1>5 DEF Disconnect, trackerVars, IInv, PendingIsLogged, WireIsLogged
<1>6. CASE Reconnect
  <2>1. \A q \in PendingRequests : q.id < Len(log) /\ q.req = log[q.id + 1]
    BY DEF PendingRequests, IInv, PendingIsLogged
  <2>2. QED
    BY <1>4, <1>6, <2>1 DEF Reconnect, trackerVars, IInv, PendingIsLogged, WireIsLogged
<1>7. CASE ClearTracker
  BY <1>4, <1>7 DEF ClearTracker, Clear, IInv, PendingIsLogged, WireIsLogged
<1>8. ASSUME NEW r \in Req, Abandon(r) PROVE IInv'
  BY <1>4, <1>8 DEF Abandon, IInv, PendingIsLogged, WireIsLogged
<1>9. ASSUME NEW q \in server, NEW result \in Results, Answer(q, result) PROVE IInv'
  BY <1>4, <1>9 DEF Answer, trackerVars, IInv, PendingIsLogged, WireIsLogged
<1>10. ASSUME NEW params \in Params, Notify(params) PROVE IInv'
  BY <1>4, <1>10 DEF Notify, trackerVars, IInv, PendingIsLogged, WireIsLogged
<1>11. CASE UNCHANGED vars
  BY <1>4, <1>11 DEF vars, trackerVars, IInv, PendingIsLogged, WireIsLogged
<1>12. QED
  BY <1>2, <1>3, <1>5, <1>6, <1>7, <1>8, <1>9, <1>10, <1>11 DEF Next

\* In a session that tracks no more requests than there are ids, the id of a
\* request is its place in the log, for every request, answer and handler.
THEOREM SessionInvariant == ASSUME MaxTracked <= IdCount PROVE Spec => []IInv
<1>1. Init => IInv
  <2>1. SUFFICES ASSUME Init PROVE IInv
    OBVIOUS
  <2>2. Len(log) = 0 /\ DOMAIN log = {} /\ OwnershipInv
    BY <2>1, OwnershipInit DEF Init
  <2>3. IdsFollowLog
    BY <2>1, <2>2, TrackerAssumption, SessionAssumption
       DEF Init, TrackerInit, IdsFollowLog, IsInjective
  <2>4. QED
    BY <2>1, <2>2, <2>3 DEF Init, TrackerInit, IInv, PendingIsLogged, WireIsLogged, Correlated
<1>2. QED
  BY <1>1, InvariantStep, PTL DEF Spec

\* In such a session no request is ever handed another one's answer, however
\* batches, lost connections, retries, clears and timeouts interleave.
THEOREM AnswersAreCorrelated == ASSUME MaxTracked <= IdCount PROVE Spec => []Correlated
<1>1. IInv => Correlated
  BY DEF IInv
<1>2. QED
  BY <1>1, SessionInvariant, PTL

\* In such a session the answer to a request that still waits finds the
\* handler of that request.
THEOREM AnswersFindHandlers ==
  ASSUME MaxTracked <= IdCount
  PROVE  Spec => []AnswersFindTheirRequest
<1>1. ASSUME IInv PROVE AnswersFindTheirRequest
  <2>1. SUFFICES ASSUME NEW m \in replies, m[2].type = "response", reply[m[2].of] = "open"
                 PROVE  pending[m[2].id] = m[2].of
    BY DEF AnswersFindTheirRequest
  <2>2. m[2].id \in Ids /\ m[2].id \in Nat /\ TrackerTypeOK /\ DOMAIN log = 1 .. Len(log)
        /\ Len(log) \in Nat
    BY <1>1, <2>1, TrackerAssumption
       DEF IInv, OwnershipInv, TypeOK, RawIncoming, Response, Notification, Ids
  <2>3. m[2].id < Len(log) /\ m[2].of = log[m[2].id + 1]
    BY <1>1, <2>1 DEF IInv, WireIsLogged
  <2>4. m[2].of \in Held
    BY <1>1, <2>1, <2>2, <2>3 DEF IInv, OwnershipInv, HandlersOwned, Tracked, Range
  <2>5. PICK i \in Ids : pending[i] = m[2].of /\ m[2].of # NoReq
    BY <2>2, <2>4, HeldUnderId, TrackerAssumption
  <2>6. i \in Nat /\ i < Len(log) /\ log[i + 1] = log[m[2].id + 1]
    BY <1>1, <2>3, <2>5, TrackerAssumption DEF IInv, PendingIsLogged, Ids
  <2>7. i + 1 = m[2].id + 1
    BY <1>1, <2>2, <2>3, <2>6 DEF IInv, IdsFollowLog, IsInjective
  <2>8. QED
    BY <2>2, <2>5, <2>6, <2>7
<1>2. QED
  BY <1>1, SessionInvariant, PTL

=============================================================================
