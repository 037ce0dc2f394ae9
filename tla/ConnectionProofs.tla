-------------------------- MODULE ConnectionProofs --------------------------
(***************************************************************************)
(* Lemmas about the operators of Connection, which BlockingClient and      *)
(* AsyncClient complete to actions: the types they keep, and what they do  *)
(* to the parts of the clients' inductive invariants.  Then lemmas for the *)
(* refinements of ClientContract: lines and batches put together to its    *)
(* outbox, what steps take out of it, and requests in flight once.         *)
(***************************************************************************)
EXTENDS Connection, SharedLemmas

-----------------------------------------------------------------------------
(***************************************************************************)
(* Sequences of batches.                                                   *)
(***************************************************************************)

\* An empty channel or transport has no requests.
LEMMA RequestsOfNone == Requests(<<>>) = {}
BY DEF Requests

\* A batch added at the end adds its requests.
LEMMA RequestsAppended ==
  ASSUME NEW S, NEW bs \in Seq(Seq(S)), NEW b \in Seq(S)
  PROVE  /\ Append(bs, b) \in Seq(Seq(S))
         /\ Requests(Append(bs, b)) = Requests(bs) \cup Range(b)
<1> DEFINE cs == Append(bs, b)
           n == Len(bs)
<1>1. /\ cs \in Seq(Seq(S)) /\ DOMAIN bs = 1 .. n /\ DOMAIN cs = 1 .. n + 1 /\ n \in Nat
      /\ \A k \in 1 .. n : cs[k] = bs[k]
      /\ cs[n + 1] = b
  OBVIOUS
<1>2. Requests(cs) \subseteq Requests(bs) \cup Range(b)
  BY <1>1 DEF Requests
<1>3. Requests(bs) \subseteq Requests(cs)
  <2>1. SUFFICES ASSUME NEW k \in 1 .. n PROVE Range(bs[k]) \subseteq Requests(cs)
    BY <1>1 DEF Requests
  <2>2. k \in DOMAIN cs /\ cs[k] = bs[k]
    BY <1>1
  <2>3. QED
    BY <2>2, Zenon DEF Requests
<1>4. n + 1 \in DOMAIN cs
  BY <1>1
<1>5. Range(b) \subseteq Requests(cs)
  BY <1>1, <1>4, Zenon DEF Requests
<1>6. QED
  BY <1>1, <1>2, <1>3, <1>5

\* The batch at the head and the batches behind it have all the requests.
LEMMA RequestsTaken ==
  ASSUME NEW S, NEW bs \in Seq(Seq(S)), bs # <<>>
  PROVE  /\ Head(bs) \in Seq(S) /\ Tail(bs) \in Seq(Seq(S))
         /\ Len(Tail(bs)) = Len(bs) - 1
         /\ Requests(bs) = Range(Head(bs)) \cup Requests(Tail(bs))
<1> DEFINE n == Len(bs)
           cs == Tail(bs)
<1>1. /\ n \in Nat \ {0} /\ DOMAIN bs = 1 .. n /\ Head(bs) = bs[1] /\ Head(bs) \in Seq(S)
      /\ cs \in Seq(Seq(S)) /\ Len(cs) = n - 1 /\ DOMAIN cs = 1 .. n - 1
      /\ \A k \in 1 .. n - 1 : cs[k] = bs[k + 1]
  OBVIOUS
<1>2. Requests(cs) \subseteq Requests(bs)
  <2>1. SUFFICES ASSUME NEW k \in 1 .. n - 1 PROVE Range(cs[k]) \subseteq Requests(bs)
    BY <1>1 DEF Requests
  <2>2. k + 1 \in DOMAIN bs /\ cs[k] = bs[k + 1]
    BY <1>1
  <2>3. QED
    BY <2>2, Zenon DEF Requests
<1>3. Range(Head(bs)) \subseteq Requests(bs)
  <2>1. 1 \in DOMAIN bs
    BY <1>1
  <2>2. QED
    BY <1>1, <2>1, Zenon DEF Requests
<1>4. Requests(bs) \subseteq Range(Head(bs)) \cup Requests(cs)
  <2>1. SUFFICES ASSUME NEW k \in 1 .. n, k # 1 PROVE Range(bs[k]) \subseteq Requests(cs)
    BY <1>1 DEF Requests
  <2>2. k - 1 \in DOMAIN cs /\ cs[k - 1] = bs[k]
    BY <1>1, <2>1
  <2>3. QED
    BY <2>2, Zenon DEF Requests
<1>5. QED
  BY <1>1, <1>2, <1>3, <1>4

\* What is appended to a sequence, or left at its tail.
LEMMA RangeAppended ==
  ASSUME NEW S, NEW s \in Seq(S), NEW e \in S
  PROVE  Append(s, e) \in Seq(S) /\ Range(Append(s, e)) = Range(s) \cup {e}
<1> DEFINE n == Len(s)
           t == Append(s, e)
<1>1. /\ t \in Seq(S) /\ DOMAIN s = 1 .. n /\ DOMAIN t = 1 .. n + 1 /\ n \in Nat
      /\ \A k \in 1 .. n : t[k] = s[k]
      /\ t[n + 1] = e
  OBVIOUS
<1>2. n + 1 \in DOMAIN t
  BY <1>1
<1>3. QED
  BY <1>1, <1>2 DEF Range

\* What is taken from the head of a sequence was in it, and so is what is left.
LEMMA RangeTaken ==
  ASSUME NEW S, NEW s \in Seq(S), s # <<>>
  PROVE  /\ Head(s) \in S /\ Tail(s) \in Seq(S) /\ Len(Tail(s)) = Len(s) - 1
         /\ Head(s) \in Range(s) /\ Range(Tail(s)) \subseteq Range(s)
<1> DEFINE n == Len(s)
<1>1. /\ n \in Nat \ {0} /\ DOMAIN s = 1 .. n /\ Head(s) = s[1] /\ Head(s) \in S
      /\ Tail(s) \in Seq(S) /\ Len(Tail(s)) = n - 1 /\ DOMAIN Tail(s) = 1 .. n - 1
      /\ \A k \in 1 .. n - 1 : Tail(s)[k] = s[k + 1]
  OBVIOUS
<1>2. 1 \in DOMAIN s
  BY <1>1
<1>3. ASSUME NEW k \in 1 .. n - 1 PROVE Tail(s)[k] \in Range(s)
  <2>1. k + 1 \in DOMAIN s /\ Tail(s)[k] = s[k + 1]
    BY <1>1
  <2>2. QED
    BY <2>1 DEF Range
<1>4. QED
  BY <1>1, <1>2, <1>3 DEF Range

-----------------------------------------------------------------------------
(***************************************************************************)
(* Types.                                                                  *)
(***************************************************************************)

\* A new connection is well typed.
LEMMA ConnectionInitType == ASSUME ConnectionInit PROVE ConnectionTypeOK
BY TrackerAssumption, ConnectionAssumption
   DEF ConnectionInit, ConnectionTypeOK, ChannelsTypeOK, WireTypeOK, TrackerInit, TrackerTypeOK, Ids, Outcomes

\* A batch that a caller submits is a sequence of requests it has not sent.
LEMMA SubmissionIsBatch ==
  ASSUME NEW b \in Submissions
  PROVE  /\ b \in Seq(Req) /\ b \in Seq(Req \ Sent) /\ IsInjective(b)
         /\ Range(b) \subseteq Req \ Sent
<1>1. b \in Batches(Req \ Sent, MaxBatch) /\ MaxBatch \in Nat
  BY ConnectionAssumption DEF Submissions
<1>2. b \in Seq(Req \ Sent) /\ IsInjective(b)
  BY <1>1, BatchIsSequence
<1>3. QED
  BY <1>2 DEF Range

\* So is the batch that send_request makes of one request.
LEMMA CallIsBatch ==
  ASSUME NEW r \in Req
  PROVE  /\ <<r>> \in Seq(Req) /\ IsInjective(<<r>>)
         /\ Range(<<r>>) = {r}
BY DEF IsInjective, Range

\* The tracker and the channels stay well typed when a caller sends a batch ...
LEMMA SendBatchType ==
  ASSUME ConnectionTypeOK, NEW b \in Seq(Req), SendBatch(b), UNCHANGED eventVars
  PROVE  TrackerTypeOK' /\ ChannelsTypeOK'
<1>1. sent' \in Seq(Req)
  BY DEF SendBatch, ConnectionTypeOK, ChannelsTypeOK
<1>2. chan' \in Seq(Seq(Req))
  <2>1. Append(chan, b) \in Seq(Seq(Req)) /\ chan \in Seq(Seq(Req))
    BY RequestsAppended DEF ConnectionTypeOK, ChannelsTypeOK
  <2>2. QED
    BY <2>1 DEF SendBatch
<1>3. reply' \in [Req -> Outcomes]
  BY DroppedType DEF SendBatch, ConnectionTypeOK, TrackerTypeOK
<1>4. QED
  BY <1>1, <1>2, <1>3 DEF SendBatch, ConnectionTypeOK, TrackerTypeOK, ChannelsTypeOK, eventVars

\* ... when a caller gives up its reply ...
LEMMA AbandonReplyType ==
  ASSUME TrackerTypeOK, NEW r, AbandonReply(r)
  PROVE  TrackerTypeOK'
BY DEF AbandonReply, TrackerTypeOK, Outcomes

\* ... and when handlers are dropped, perhaps with the tracker.
LEMMA DropHandlersType ==
  ASSUME TrackerTypeOK, NEW R, reply' = Dropped(R), UNCHANGED <<next_id, answer>>,
         UNCHANGED pending \/ pending' = [i \in Ids |-> NoReq]
  PROVE  TrackerTypeOK'
BY DroppedType DEF TrackerTypeOK

\* A line that is transmitted, or lost on the way, leaves the transport to the
\* server well typed and brings no requests to it but its own.
LEMMA TransmitType ==
  ASSUME WireTypeOK, NEW line \in Seq(RawRequest), Transmit(line) \/ UNCHANGED c2s
  PROVE  /\ c2s' \in Seq(Seq(RawRequest)) /\ Len(c2s') <= WireCap
         /\ Requests(c2s') \subseteq Requests(c2s) \cup Range(line)
<1>1. CASE c2s' = Append(c2s, line) /\ Len(c2s) < WireCap
  <2>1. c2s' \in Seq(Seq(RawRequest)) /\ Len(c2s') = Len(c2s) + 1 /\ Len(c2s) \in Nat
    BY <1>1 DEF WireTypeOK
  <2>2. QED
    BY <1>1, <2>1, RequestsAppended, ConnectionAssumption DEF WireTypeOK
<1>2. CASE c2s' = c2s
  BY <1>2 DEF WireTypeOK
<1>3. QED
  BY <1>1, <1>2 DEF Transmit

\* A line that is written is held back or transmitted, perhaps in place of
\* one held back before; nothing else comes to the transport.
LEMMA WriteLineType ==
  ASSUME WireTypeOK, NEW line \in Seq(RawRequest), WriteLine(line),
         UNCHANGED <<s2c, serverVars>>
  PROVE  WireTypeOK' /\ RawsInTransit' \subseteq RawsInTransit \cup Range(line)
<1> DEFINE lines == Append(held, line)
<1>1. /\ lines \in Seq(Seq(RawRequest)) /\ lines # <<>> /\ Len(lines) = Len(held) + 1
      /\ Len(held) \in Nat /\ Requests(lines) = Requests(held) \cup Range(line)
  <2>1. held \in Seq(Seq(RawRequest))
    BY DEF WireTypeOK
  <2>2. lines # <<>> /\ Len(lines) = Len(held) + 1 /\ Len(held) \in Nat
    BY <2>1, AppendProperties
  <2>3. QED
    BY <2>1, <2>2, RequestsAppended
<1>2. CASE Len(lines) <= WriterCap /\ held' = lines /\ UNCHANGED c2s
  BY <1>1, <1>2 DEF WireTypeOK, serverVars, RawsInTransit
<1>3. CASE held' = Tail(lines) /\ Transmit(Head(lines))
  <2>1. /\ Head(lines) \in Seq(RawRequest) /\ Tail(lines) \in Seq(Seq(RawRequest))
        /\ Len(Tail(lines)) = Len(lines) - 1
        /\ Requests(lines) = Range(Head(lines)) \cup Requests(Tail(lines))
    BY <1>1, RequestsTaken
  <2>2. /\ c2s' \in Seq(Seq(RawRequest)) /\ Len(c2s') <= WireCap
        /\ Requests(c2s') \subseteq Requests(c2s) \cup Range(Head(lines))
    BY <1>3, <2>1, TransmitType
  <2>3. Len(held') <= WriterCap
    BY <1>1, <1>3, <2>1 DEF WireTypeOK
  <2>4. WireTypeOK'
    BY <1>3, <2>1, <2>2, <2>3 DEF WireTypeOK, serverVars
  <2>5. RawsInTransit' \subseteq RawsInTransit \cup Range(line)
    BY <1>1, <1>3, <2>1, <2>2 DEF RawsInTransit, serverVars
  <2>6. QED
    BY <2>4, <2>5
<1>4. QED
  BY <1>2, <1>3 DEF WriteLine, TransmitOldest

\* A writer that is dropped transmits or loses the lines it held back.
LEMMA DropHeldType ==
  ASSUME WireTypeOK, DropHeld, UNCHANGED serverVars
  PROVE  WireTypeOK' /\ RawsInTransit' \subseteq RawsInTransit
<1>1. /\ Head(held) \in Seq(RawRequest) /\ Tail(held) \in Seq(Seq(RawRequest))
      /\ Len(Tail(held)) = Len(held) - 1 /\ Len(held) \in Nat
      /\ Requests(held) = Range(Head(held)) \cup Requests(Tail(held))
  BY RequestsTaken DEF WireTypeOK, DropHeld
<1>2. /\ c2s' \in Seq(Seq(RawRequest)) /\ Len(c2s') <= WireCap
      /\ Requests(c2s') \subseteq Requests(c2s) \cup Range(Head(held))
  BY <1>1, TransmitType DEF DropHeld
<1>3. Len(held') <= WriterCap
  BY <1>1, ConnectionAssumption DEF WireTypeOK, DropHeld
<1>4. WireTypeOK'
  BY <1>1, <1>2, <1>3 DEF WireTypeOK, DropHeld, serverVars
<1>5. RawsInTransit' \subseteq RawsInTransit
  BY <1>1, <1>2 DEF RawsInTransit, DropHeld, serverVars
<1>6. QED
  BY <1>4, <1>5

\* Whether a message says nothing that the raw requests R do not say: it is
\* no response, or the response to one of them.
IsAnswerTo(msg, R) == msg.type = "response" => \E q \in R : msg.id = q.id /\ msg.of = q.req

\* The server keeps the transport well typed, makes up no raw request, and
\* what it sends is no response or the response to a request it holds.
LEMMA ServerType ==
  ASSUME WireTypeOK, ServerNext
  PROVE  /\ WireTypeOK'
         /\ RawsInTransit' \subseteq RawsInTransit
         /\ \A msg \in Range(s2c') : msg \in Range(s2c) \/ IsAnswerTo(msg, RawsInTransit)
<1>1. ASSUME NEW msg \in Message, SendToClient(msg)
      PROVE  /\ s2c' \in Seq(Message) /\ Len(s2c') <= WireCap
             /\ Range(s2c') = Range(s2c) \cup {msg}
  <2>1. Len(s2c') = Len(s2c) + 1 /\ Len(s2c) \in Nat
    BY <1>1 DEF SendToClient, WireTypeOK
  <2>2. QED
    BY <1>1, <2>1, RangeAppended, ConnectionAssumption DEF SendToClient, WireTypeOK
<1>2. CASE ServerReceives
  <2>1. /\ Head(c2s) \in Seq(RawRequest) /\ Tail(c2s) \in Seq(Seq(RawRequest))
        /\ Len(Tail(c2s)) = Len(c2s) - 1 /\ Len(c2s) \in Nat
        /\ Requests(c2s) = Range(Head(c2s)) \cup Requests(Tail(c2s))
    BY <1>2, RequestsTaken DEF ServerReceives, WireTypeOK
  <2>2. Range(Head(c2s)) \subseteq RawRequest
    BY <2>1 DEF Range
  <2>3. WireTypeOK'
    BY <1>2, <2>1, <2>2, ConnectionAssumption DEF ServerReceives, WireTypeOK
  <2>4. RawsInTransit' \subseteq RawsInTransit
    BY <1>2, <2>1 DEF ServerReceives, RawsInTransit
  <2>5. QED
    BY <1>2, <2>3, <2>4 DEF ServerReceives
<1>3. ASSUME NEW q \in owed, NEW result \in Results, ServerAnswers(q, result)
      PROVE  /\ WireTypeOK'
             /\ RawsInTransit' \subseteq RawsInTransit
             /\ \A msg \in Range(s2c') : msg \in Range(s2c) \/ IsAnswerTo(msg, RawsInTransit)
  <2> DEFINE msg == [type |-> "response", id |-> q.id, of |-> q.req, result |-> result]
  <2>1. msg \in Message
    BY ConnectionAssumption DEF Message, RawIncoming, Response, RawRequest, WireTypeOK
  <2>2. /\ s2c' \in Seq(Message) /\ Len(s2c') <= WireCap
        /\ Range(s2c') = Range(s2c) \cup {msg}
    BY <1>1, <1>3, <2>1 DEF ServerAnswers
  <2>3. IsAnswerTo(msg, RawsInTransit)
    BY DEF IsAnswerTo, RawsInTransit
  <2>4. QED
    BY <1>3, <2>2, <2>3 DEF ServerAnswers, SendToClient, WireTypeOK, RawsInTransit
<1>4. ASSUME NEW msg \in Message, msg.type # "response", SendToClient(msg),
             UNCHANGED <<held, c2s, owed, peer>>, notes' \in 0 .. MaxNotes
      PROVE  /\ WireTypeOK'
             /\ RawsInTransit' \subseteq RawsInTransit
             /\ \A m \in Range(s2c') : m \in Range(s2c) \/ IsAnswerTo(m, RawsInTransit)
  BY <1>1, <1>4 DEF WireTypeOK, RawsInTransit, IsAnswerTo
<1>5. CASE ServerNotifies
  <2>1. [type |-> "notification", params |-> "valid"] \in Message
    BY DEF Message, RawIncoming, Notification
  <2>2. notes' \in 0 .. MaxNotes
    BY <1>5, ConnectionAssumption DEF ServerNotifies, WireTypeOK
  <2>3. QED
    BY <1>4, <1>5, <2>1, <2>2 DEF ServerNotifies
<1>6. CASE ServerSendsGarbage
  <2>1. /\ Garbage \in Message /\ Garbage.type # "response"
        /\ [type |-> "notification", params |-> "malformed"] \in Message
    BY DEF Garbage, Message, RawIncoming, Notification
  <2>2. notes' \in 0 .. MaxNotes
    BY <1>6 DEF ServerSendsGarbage, WireTypeOK, serverVars
  <2>3. QED
    BY <1>4, <1>6, <2>1, <2>2 DEF ServerSendsGarbage, serverVars
<1>7. CASE ServerCloses
  BY <1>7, RequestsOfNone, ConnectionAssumption DEF ServerCloses, WireTypeOK, RawsInTransit
<1>8. QED
  BY <1>2, <1>3, <1>5, <1>6, <1>7 DEF ServerNext

-----------------------------------------------------------------------------
(***************************************************************************)
(* The channel.                                                            *)
(***************************************************************************)

\* The requests sent are those of before and of the batch.
LEMMA SentGrows ==
  ASSUME ConnectionTypeOK, NEW b \in Seq(Req), sent' = sent \o b
  PROVE  Sent' = Sent \cup Range(b)
BY RangeConcatenation DEF ConnectionTypeOK, ChannelsTypeOK, Sent

\* A batch of requests that are not in the channel can be added to it.
LEMMA ChannelSent ==
  ASSUME ConnectionTypeOK, ChannelHoldsOnce,
         NEW b \in Seq(Req), IsInjective(b), Range(b) \cap Requests(chan) = {}, SendBatch(b)
  PROVE  /\ ChannelHoldsOnce'
         /\ Requests(chan') = IF chanState = "open" THEN Requests(chan) \cup Range(b)
                             ELSE Requests(chan)
<1> DEFINE n == Len(chan)
<1>1. CASE chanState # "open"
  BY <1>1 DEF SendBatch, ChannelHoldsOnce
<1>2. CASE chanState = "open"
  <2>1. /\ chan' = Append(chan, b) /\ DOMAIN chan = 1 .. n /\ DOMAIN chan' = 1 .. n + 1
        /\ n \in Nat /\ \A k \in 1 .. n : chan'[k] = chan[k]
        /\ chan'[n + 1] = b
    <3>1. chan \in Seq(Seq(Req)) /\ chan' = Append(chan, b)
      BY <1>2 DEF SendBatch, ConnectionTypeOK, ChannelsTypeOK
    <3>2. QED
      BY <3>1, AppendProperties
  <2>2. Requests(chan') = Requests(chan) \cup Range(b)
    BY <2>1, RequestsAppended DEF ConnectionTypeOK, ChannelsTypeOK
  <2>3. \A k \in 1 .. n : \A i \in DOMAIN chan[k], j \in DOMAIN b : chan[k][i] # b[j]
    <3>1. SUFFICES ASSUME NEW k \in 1 .. n, NEW i \in DOMAIN chan[k], NEW j \in DOMAIN b
                   PROVE  chan[k][i] \in Requests(chan) /\ b[j] \in Range(b)
      OBVIOUS
    <3>2. QED
      BY <2>1 DEF Requests, Range
  <2>4. SUFFICES ASSUME NEW k \in 1 .. n + 1, NEW l \in 1 .. n + 1,
                        NEW i \in DOMAIN chan'[k], NEW j \in DOMAIN chan'[l],
                        chan'[k][i] = chan'[l][j]
                 PROVE  k = l /\ i = j
    BY <1>2, <2>1, <2>2 DEF ChannelHoldsOnce
  <2>5. CASE k \in 1 .. n /\ l \in 1 .. n
    BY <2>1, <2>4, <2>5 DEF ChannelHoldsOnce
  <2>6. CASE k = n + 1 /\ l = n + 1
    BY <2>1, <2>4, <2>6 DEF IsInjective
  <2>7. CASE k \in 1 .. n /\ l = n + 1
    BY <2>1, <2>3, <2>4, <2>7
  <2>8. CASE k = n + 1 /\ l \in 1 .. n
    BY <2>1, <2>3, <2>4, <2>8
  <2>9. QED
    BY <2>1, <2>5, <2>6, <2>7, <2>8
<1>3. QED
  BY <1>1, <1>2

\* The batch taken from the channel has none of the requests left in it.
LEMMA ChannelTaken ==
  ASSUME ConnectionTypeOK, ChannelHoldsOnce, chan # <<>>, chan' = Tail(chan)
  PROVE  /\ ChannelHoldsOnce'
         /\ Head(chan) \in Seq(Req) /\ IsInjective(Head(chan))
         /\ Requests(chan) = Range(Head(chan)) \cup Requests(chan')
         /\ Range(Head(chan)) \cap Requests(chan') = {}
         /\ chan' \in Seq(Seq(Req))
<1> DEFINE n == Len(chan)
<1>1. /\ n \in Nat \ {0} /\ DOMAIN chan = 1 .. n /\ Head(chan) = chan[1]
      /\ DOMAIN chan' = 1 .. n - 1 /\ \A k \in 1 .. n - 1 : chan'[k] = chan[k + 1]
  BY DEF ConnectionTypeOK, ChannelsTypeOK
<1>2. /\ Head(chan) \in Seq(Req) /\ chan' \in Seq(Seq(Req))
      /\ Requests(chan) = Range(Head(chan)) \cup Requests(chan')
  BY RequestsTaken DEF ConnectionTypeOK, ChannelsTypeOK
<1>3. 1 \in DOMAIN chan /\ \A k \in 1 .. n - 1 : k + 1 \in DOMAIN chan /\ k + 1 # 1
  BY <1>1
<1>4. IsInjective(Head(chan))
  BY <1>1, <1>3 DEF IsInjective, ChannelHoldsOnce
<1>5. Range(Head(chan)) \cap Requests(chan') = {}
  <2>1. SUFFICES ASSUME NEW i \in DOMAIN chan[1], NEW k \in 1 .. n - 1, NEW j \in DOMAIN chan'[k],
                        chan[1][i] = chan'[k][j]
                 PROVE  FALSE
    BY <1>1 DEF Range, Requests
  <2>2. QED
    BY <1>1, <1>3, <2>1 DEF ChannelHoldsOnce
<1>6. ChannelHoldsOnce'
  <2>1. SUFFICES ASSUME NEW k \in 1 .. n - 1, NEW l \in 1 .. n - 1,
                        NEW i \in DOMAIN chan'[k], NEW j \in DOMAIN chan'[l],
                        chan'[k][i] = chan'[l][j]
                 PROVE  k = l /\ i = j
    BY <1>1 DEF ChannelHoldsOnce
  <2>2. k + 1 = l + 1 /\ i = j
    BY <1>1, <1>3, <2>1 DEF ChannelHoldsOnce
  <2>3. QED
    BY <1>1, <2>2
<1>7. QED
  BY <1>2, <1>4, <1>5, <1>6

-----------------------------------------------------------------------------
(***************************************************************************)
(* Where the handlers are, also when ids wrap around.                      *)
(***************************************************************************)

\* Nothing is sent or tracked in a new connection.
LEMMA OwnedInit == ASSUME ConnectionInit PROVE HandlersOwned({}) /\ ChannelHoldsOnce
<1>1. Sent = {} /\ DOMAIN chan = {}
  BY DEF ConnectionInit, Sent, Range
<1>2. Held = {}
  BY DEF ConnectionInit, TrackerInit, Held, Range
<1>3. QED
  BY <1>1, <1>2 DEF ConnectionInit, TrackerInit, HandlersOwned, OneIdEach, ChannelHoldsOnce

\* Steps that move no handler.
LEMMA OwnedStays ==
  ASSUME NEW W, HandlersOwned(W), UNCHANGED <<pending, reply, sent>>
  PROVE  HandlersOwned(W)'
BY DEF HandlersOwned, OneIdEach, Held, Sent

\* A batch that is sent waits, or is canceled where nobody takes it.
LEMMA OwnedSend ==
  ASSUME ConnectionTypeOK, NEW W, HandlersOwned(W),
         NEW b \in Seq(Req), Range(b) \cap Sent = {}, SendBatch(b),
         NEW V, V = IF chanState = "open" THEN W \cup Range(b) ELSE W
  PROVE  HandlersOwned(V)'
<1>1. Sent' = Sent \cup Range(b) /\ Held' = Held /\ (OneIdEach <=> OneIdEach')
  BY SentGrows DEF SendBatch, Held, OneIdEach
<1>2. Range(b) \subseteq Req /\ Held \subseteq Req /\ Sent \subseteq Req
  BY HeldUnderId DEF ConnectionTypeOK, ChannelsTypeOK, Sent, Range
<1>3. CASE chanState = "open"
  BY <1>1, <1>2, <1>3 DEF SendBatch, HandlersOwned
<1>4. CASE chanState # "open"
  <2>1. reply' = Dropped(Range(b))
    BY <1>4 DEF SendBatch
  <2>2. \A r \in Req : reply'[r] = IF r \in Range(b) /\ reply[r] = "open" THEN "canceled" ELSE reply[r]
    BY <2>1 DEF Dropped
  <2>3. QED
    BY <1>1, <1>2, <1>4, <2>2 DEF HandlersOwned
<1>5. QED
  BY <1>3, <1>4

\* A batch that waited is tracked; what it displaces is canceled.
LEMMA OwnedTrack ==
  ASSUME ConnectionTypeOK, NEW W, HandlersOwned(W),
         NEW b \in Seq(Req), IsInjective(b), Range(b) \subseteq W, TrackRequest(b), UNCHANGED sent
  PROVE  HandlersOwned(W \ Range(b))'
<1>1. /\ OneIdEach' /\ Held' \subseteq Held \cup Range(b)
      /\ \A r \in Req : reply'[r] =
           IF r \in (Held \cup Range(b)) \ Held' /\ reply[r] = "open" THEN "canceled" ELSE reply[r]
  <2>1. Range(b) \cap Held = {}
    BY DEF HandlersOwned
  <2>2. QED
    BY <2>1, TrackRequestOwnership DEF HandlersOwned, ConnectionTypeOK
<1>2. Sent' = Sent /\ Sent \subseteq Req
  BY DEF ConnectionTypeOK, ChannelsTypeOK, Sent, Range
<1>3. QED
  BY <1>1, <1>2 DEF HandlersOwned

\* A message settles at most one request of the tracker.
LEMMA OwnedHandle ==
  ASSUME ConnectionTypeOK, NEW W, HandlersOwned(W),
         NEW msg \in RawIncoming, HandleIncoming(msg), UNCHANGED sent
  PROVE  HandlersOwned(W)'
<1>1. CASE UNCHANGED trackerVars
  BY <1>1, OwnedStays DEF trackerVars
<1>2. ASSUME NEW r \in Held, OneIdEach', Held' = Held \ {r}, reply'[r] # "open",
             \A q \in Req \ {r} : reply'[q] = reply[q]
      PROVE  HandlersOwned(W)'
  <2>1. Sent' = Sent /\ Sent \subseteq Req
    BY DEF ConnectionTypeOK, ChannelsTypeOK, Sent, Range
  <2>2. QED
    BY <1>2, <2>1 DEF HandlersOwned
<1>3. QED
  BY <1>1, <1>2, HandleIncomingOwnership DEF HandlersOwned, ConnectionTypeOK

\* A caller that gives up leaves the handler where it is.
LEMMA OwnedAbandon ==
  ASSUME ConnectionTypeOK, NEW W, HandlersOwned(W), NEW r, AbandonReply(r), UNCHANGED sent
  PROVE  HandlersOwned(W)'
<1>1. /\ Held' = Held /\ Sent' = Sent /\ (OneIdEach <=> OneIdEach')
      /\ r \in Sent /\ Sent \subseteq Req
  BY DEF AbandonReply, Held, Sent, OneIdEach, ConnectionTypeOK, ChannelsTypeOK, Range
<1>2. \A q \in Req : reply'[q] = IF q = r THEN "abandoned" ELSE reply[q]
  BY <1>1 DEF AbandonReply, ConnectionTypeOK, TrackerTypeOK
<1>3. reply[r] = "open"
  BY DEF AbandonReply
<1>4. QED
  BY <1>1, <1>2, <1>3 DEF HandlersOwned

\* Requests that wait are canceled where their handlers are dropped; with the
\* tracker, those it holds are.
LEMMA OwnedDrop ==
  ASSUME ConnectionTypeOK, NEW W, HandlersOwned(W), NEW R, R \subseteq W, UNCHANGED sent,
         \/ reply' = Dropped(R) /\ UNCHANGED pending
         \/ reply' = Dropped(Held \cup R) /\ pending' = [i \in Ids |-> NoReq]
  PROVE  HandlersOwned(W \ R)'
<1>1. Sent' = Sent /\ Sent \subseteq Req
  BY DEF ConnectionTypeOK, ChannelsTypeOK, Sent, Range
<1>2. CASE reply' = Dropped(R) /\ UNCHANGED pending
  <2>1. Held' = Held /\ (OneIdEach <=> OneIdEach')
    BY <1>2 DEF Held, OneIdEach
  <2>2. \A r \in Req : reply'[r] = IF r \in R /\ reply[r] = "open" THEN "canceled" ELSE reply[r]
    BY <1>2 DEF Dropped
  <2>3. QED
    BY <1>1, <2>1, <2>2 DEF HandlersOwned
<1>3. CASE reply' = Dropped(Held \cup R) /\ pending' = [i \in Ids |-> NoReq]
  <2>1. Held' = {} /\ OneIdEach'
    BY <1>3 DEF Held, Range, OneIdEach
  <2>2. \A r \in Req : reply'[r] =
          IF r \in Held \cup R /\ reply[r] = "open" THEN "canceled" ELSE reply[r]
    BY <1>3 DEF Dropped
  <2>3. QED
    BY <1>1, <2>1, <2>2 DEF HandlersOwned
<1>4. QED
  BY <1>2, <1>3

\* The number of ids a request is under: one if the tracker holds it.
LEMMA UnderOneId ==
  ASSUME TrackerTypeOK, OneIdEach, NEW r \in Req
  PROVE  Cardinality({i \in Ids : pending[i] = r}) = IF r \in Held THEN 1 ELSE 0
<1> DEFINE Under == {i \in Ids : pending[i] = r}
<1>1. CASE r \in Held
  <2>1. PICK i \in Ids : pending[i] = r
    BY <1>1, HeldUnderId
  <2>2. Under = {i}
    BY <2>1, TrackerAssumption DEF OneIdEach
  <2>3. QED
    BY <1>1, <2>2, FS_Singleton
<1>2. CASE r \notin Held
  <2>1. Under = {}
    BY <1>2, HeldUnderId
  <2>2. QED
    BY <1>2, <2>1, FS_EmptySet
<1>3. QED
  BY <1>1, <1>2

-----------------------------------------------------------------------------
(***************************************************************************)
(* Ids, as long as there is one for each request.                          *)
(***************************************************************************)

\* A log is a sequence of requests that has each of them once.
LEMMA LogIsSequence ==
  /\ \A log \in Logs : log \in Seq(Req) /\ IsInjective(log) /\ Len(log) <= IdCount
  /\ \A log \in Seq(Req) : IsInjective(log) /\ Len(log) <= IdCount => log \in Logs
<1>1. IdCount \in Nat
  BY TrackerAssumption
<1>2. ASSUME NEW log \in Logs
      PROVE  log \in Seq(Req) /\ IsInjective(log) /\ Len(log) <= IdCount
  <2>1. CASE log = <<>>
    BY <1>1, <2>1 DEF IsInjective
  <2>2. CASE log \in Batches(Req, IdCount)
    BY <1>1, <2>2, BatchIsSequence
  <2>3. QED
    BY <2>1, <2>2 DEF Logs
<1>3. ASSUME NEW log \in Seq(Req), IsInjective(log), Len(log) <= IdCount
      PROVE  log \in Logs
  <2>1. CASE Len(log) = 0
    BY <2>1 DEF Logs
  <2>2. CASE Len(log) # 0
    <3>1. Len(log) \in 1 .. IdCount /\ log \in [1 .. Len(log) -> Req]
      BY <1>1, <1>3, <2>2
    <3>2. QED
      BY <1>3, <3>1 DEF Logs, Batches
  <2>3. QED
    BY <2>1, <2>2
<1>4. QED
  BY <1>2, <1>3

\* Nothing is numbered in a new connection.
LEMMA NumberedInit ==
  ASSUME ConnectionInit
  PROVE  /\ RawsInTransit = {} /\ Range(s2c) = {}
         /\ <<>> \in Logs /\ Numbered(<<>>, {}, {}, {})
<1>1. RawsInTransit = {} /\ Range(s2c) = {}
  BY RequestsOfNone DEF ConnectionInit, RawsInTransit, Range
<1>2. Len(<<>>) = 0 /\ Range(<<>>) = {}
  BY DEF Range
<1>3. 0 % IdCount = 0
  BY TrackerAssumption
<1>4. QED
  BY <1>1, <1>2, <1>3 DEF ConnectionInit, TrackerInit, Numbered, Logs

\* Steps that track nothing keep the log: handlers are only removed, requests
\* that come to wait are new, and raw requests and messages come from others.
LEMMA NumberedStays ==
  ASSUME NEW log, NEW W, NEW R, NEW M, Numbered(log, W, R, M),
         next_id' = next_id, Sent \subseteq Sent',
         \A i \in Ids : pending'[i] \in {pending[i], NoReq},
         NEW V, V \subseteq W \cup (Req \ Sent),
         NEW S, S \subseteq R,
         NEW N, \A msg \in N : msg \in M \/ IsAnswerTo(msg, R)
  PROVE  Numbered(log, V, S, N)'
BY DEF Numbered, IsAnswerTo

\* A batch that waited is appended to the log, with the next ids.
LEMMA NumberedTrack ==
  ASSUME EnoughIds, ConnectionTypeOK, NEW log \in Logs, NEW W, NEW R, NEW M,
         Numbered(log, W, R, M), R \subseteq RawRequest, M \subseteq Message,
         NEW b \in Seq(Req), IsInjective(b), Range(b) \subseteq W, W \subseteq Sent,
         TrackRequest(b), UNCHANGED sent,
         NEW V, V \subseteq W \ Range(b),
         NEW S, S \subseteq R \cup Range(RawRequests(b)),
         NEW N, N \subseteq M
  PROVE  log \o b \in Logs /\ Numbered(log \o b, V, S, N)'
<1> DEFINE n == Len(log)
           t == log \o b
<1>1. /\ log \in Seq(Req) /\ IsInjective(log) /\ n <= IdCount /\ n \in Nat
      /\ Len(b) \in Nat /\ DOMAIN b = 1 .. Len(b)
  BY LogIsSequence
<1>2. /\ t \in Seq(Req) /\ IsInjective(t) /\ Range(t) = Range(log) \cup Range(b)
      /\ Len(t) = n + Len(b)
      /\ \A i \in 1 .. n : t[i] = log[i]
      /\ \A k \in 1 .. Len(b) : t[n + k] = b[k]
  BY <1>1, LogAppended, LogOfOthers DEF Numbered
<1>3. n + Len(b) <= IdCount
  <2>1. Len(t) <= Cardinality(Req) /\ Cardinality(Req) <= IdCount
    BY <1>2, InjectiveLength DEF EnoughIds
  <2>2. Cardinality(Req) \in Nat
    BY FS_CardinalityType DEF EnoughIds
  <2>3. QED
    BY <1>1, <1>2, <2>1, <2>2, TrackerAssumption
<1>4. t \in Logs
  BY <1>2, <1>3, LogIsSequence
<1>5. next_id = n % IdCount
  BY DEF Numbered
<1>6. next_id' = Len(t) % IdCount
  BY <1>1, <1>2, <1>3, <1>5, NextIdFollows
<1>7. Range(t) \subseteq Sent' /\ Range(t) \cap V = {}
  BY <1>2 DEF Numbered, Sent
<1>8. ASSUME NEW i \in Ids, pending'[i] # NoReq
      PROVE  i < Len(t) /\ pending'[i] = t[i + 1]
  <2>1. i \in Nat
    BY TrackerAssumption DEF Ids
  <2>2. pending'[i] = IF i \in n .. n + Len(b) - 1 THEN b[i - n + 1] ELSE pending[i]
    BY <1>1, <1>3, <1>5, BatchInserted DEF TrackRequest
  <2>3. CASE i \in n .. n + Len(b) - 1
    <3>1. i - n + 1 \in 1 .. Len(b) /\ n + (i - n + 1) = i + 1 /\ i < n + Len(b)
      BY <1>1, <2>1, <2>3
    <3>2. t[n + (i - n + 1)] = b[i - n + 1]
      BY <1>2, <3>1
    <3>3. QED
      BY <1>2, <2>2, <2>3, <3>1, <3>2
  <2>4. CASE i \notin n .. n + Len(b) - 1
    <3>1. i < n /\ pending[i] = log[i + 1] /\ pending'[i] = pending[i]
      BY <1>8, <2>2, <2>4 DEF Numbered
    <3>2. QED
      BY <1>1, <1>2, <2>1, <3>1
  <2>5. QED
    BY <2>3, <2>4
<1>9. ASSUME NEW q \in R PROVE q.id < Len(t) /\ q.req = t[q.id + 1]
  <2>1. q.id \in Nat /\ q.id < n /\ q.req = log[q.id + 1]
    BY TrackerAssumption DEF Numbered, RawRequest, Ids
  <2>2. QED
    BY <1>1, <1>2, <2>1
<1>10. ASSUME NEW q \in Range(RawRequests(b)) PROVE q.id < Len(t) /\ q.req = t[q.id + 1]
  <2>1. PICK k \in 1 .. Len(b) : q = [id |-> IdAt(k), req |-> b[k]]
    BY <1>1 DEF RawRequests, Range
  <2>2. IdAt(k) = n + k - 1
    BY <1>1, <1>3, <1>5, BatchIds
  <2>3. n + k - 1 < n + Len(b) /\ n + k - 1 + 1 = n + k
    BY <1>1
  <2>4. QED
    BY <1>2, <2>1, <2>2, <2>3
<1>11. ASSUME NEW msg \in M, msg.type = "response"
       PROVE  msg.id < Len(t) /\ msg.of = t[msg.id + 1]
  <2>1. msg \in Response
    BY <1>11 DEF Message, RawIncoming, Notification, Garbage
  <2>2. msg.id \in Nat /\ msg.id < n /\ msg.of = log[msg.id + 1]
    BY <1>11, <2>1, TrackerAssumption DEF Numbered, Response, Ids
  <2>3. QED
    BY <1>1, <1>2, <2>2
<1>12. QED
  BY <1>4, <1>6, <1>7, <1>8, <1>9, <1>10, <1>11 DEF Numbered

\* A request that waits for its answer is under the id of that answer.
LEMMA AnswerFindsRequest ==
  ASSUME ConnectionTypeOK, NEW W, HandlersOwned(W), NEW log \in Logs, NEW R, NEW M,
         Numbered(log, W, R, M),
         NEW msg \in M, msg \in Message, msg.type = "response", reply[msg.of] = "open"
  PROVE  pending[msg.id] = msg.of
<1>1. msg \in Response
  BY DEF Message, RawIncoming, Notification, Garbage
<1>2. log \in Seq(Req) /\ IsInjective(log) /\ DOMAIN log = 1 .. Len(log) /\ Len(log) \in Nat
  BY LogIsSequence
<1>3. msg.id \in Nat /\ msg.id < Len(log) /\ msg.of = log[msg.id + 1]
  BY <1>1, TrackerAssumption DEF Numbered, Response, Ids
<1>4. msg.of \in Range(log) /\ msg.of \in Req
  BY <1>1, <1>2, <1>3 DEF Range, Response
<1>5. msg.of \in Held
  BY <1>4 DEF HandlersOwned, Numbered
<1>6. PICK i \in Ids : pending[i] = msg.of
  BY <1>5, HeldUnderId DEF ConnectionTypeOK
<1>7. i < Len(log) /\ log[i + 1] = msg.of /\ i \in Nat
  BY <1>4, <1>6, TrackerAssumption DEF Numbered, Ids
<1>8. i + 1 = msg.id + 1
  BY <1>2, <1>3, <1>7 DEF IsInjective
<1>9. QED
  BY <1>3, <1>6, <1>7, <1>8

\* A message takes handlers out of the tracker, and the one it resolves, if
\* any, is that of the request it answers.
LEMMA NumberedHandle ==
  ASSUME ConnectionTypeOK, OneIdEach, NEW log, NEW W, NEW R, NEW M, Numbered(log, W, R, M),
         NEW msg \in M, msg \in RawIncoming, HandleIncoming(msg), Correlated
  PROVE  /\ next_id' = next_id /\ \A i \in Ids : pending'[i] \in {pending[i], NoReq}
         /\ Correlated'
<1>1. CASE UNCHANGED trackerVars
  BY <1>1 DEF trackerVars, Correlated
<1>2. ASSUME NEW r \in Held, msg \in Response, msg.id \in Ids, pending[msg.id] = r,
             pending' = [pending EXCEPT ![msg.id] = NoReq], UNCHANGED next_id,
             \A q \in Req \ {r} : answer'[q] = answer[q], answer'[r] \in {answer[r], msg.of}
      PROVE  /\ next_id' = next_id /\ \A i \in Ids : pending'[i] \in {pending[i], NoReq}
             /\ Correlated'
  <2>1. \A i \in Ids : pending'[i] \in {pending[i], NoReq}
    BY <1>2 DEF ConnectionTypeOK, TrackerTypeOK
  <2>2. r # NoReq /\ r = log[msg.id + 1] /\ msg.of = log[msg.id + 1]
    BY <1>2 DEF Numbered, Response, Held
  <2>3. QED
    BY <1>2, <2>1, <2>2 DEF Correlated
<1>3. QED
  BY <1>1, <1>2, HandleIncomingOwnership DEF ConnectionTypeOK

-----------------------------------------------------------------------------
(***************************************************************************)
(* The batches of the channel.                                             *)
(***************************************************************************)

\* What comes out is what was in the sequences.
LEMMA FlattenRange ==
  ASSUME NEW S, NEW s \in Seq(Seq(S))
  PROVE  Range(FlattenSeq(s)) = Requests(s)
<1> DEFINE Good(u) == Range(FlattenSeq(u)) = Requests(u)
           C == {n \in Nat : \E u \in Seq(Seq(S)) : Len(u) = n /\ ~Good(u)}
<1>1. SUFFICES ASSUME C # {} PROVE FALSE
  <2>1. Len(s) \in Nat
    OBVIOUS
  <2>2. QED
    BY <2>1
<1>2. PICK n \in C : \A m \in C : n <= m
  <2>1. C \in SUBSET Nat
    OBVIOUS
  <2>2. QED
    BY <1>1, <2>1, LeastNatural, Zenon
<1>3. PICK u \in Seq(Seq(S)) : Len(u) = n /\ ~Good(u)
  OBVIOUS
<1>4. CASE u = <<>>
  <2>1. Range(<<>>) = {}
    BY DEF Range
  <2>2. FlattenSeq(u) = <<>> /\ Requests(u) = {}
    BY <1>4, FlattenEmpty, RequestsOfNone, Zenon
  <2>3. QED
    BY <1>3, <2>1, <2>2
<1>5. CASE u # <<>>
  <2>1. PICK v \in Seq(Seq(S)), e \in Seq(S) : u = Append(v, e)
    BY <1>5, SequenceEmptyOrAppend
  <2>2. Len(u) = Len(v) + 1 /\ Len(v) \in Nat
    BY <2>1
  <2>3. Good(v)
    <3>1. Len(v) \notin C
      <4>1. ~(n <= Len(v))
        BY <1>3, <2>2
      <4>2. QED
        BY <1>2, <4>1, Zenon
    <3>2. QED
      BY <2>2, <3>1, Zenon
  <2>4. Good(Append(v, e))
    <3>1. FlattenSeq(Append(v, e)) = FlattenSeq(v) \o e /\ FlattenSeq(v) \in Seq(S)
      BY FlattenAppended, FlattenType
    <3>2. Range(FlattenSeq(v) \o e) = Range(FlattenSeq(v)) \cup Range(e)
      BY <3>1, RangeConcatenation
    <3>3. Requests(Append(v, e)) = Requests(v) \cup Range(e)
      BY RequestsAppended
    <3>4. QED
      BY <2>3, <3>1, <3>2, <3>3
  <2>5. QED
    BY <1>3, <2>1, <2>4
<1>6. QED
  BY <1>4, <1>5

-----------------------------------------------------------------------------
(***************************************************************************)
(* What is taken out of a sequence.                                        *)
(***************************************************************************)

\* How a concatenation of three is grouped does not matter.
LEMMA Regrouped == \A a, b, c \in Seq(Req) : a \o (b \o c) = (a \o b) \o c
BY ConcatAssociative, SMTT(30)

\* The front and the back of a concatenation.
LEMMA CutFront ==
  ASSUME NEW S, NEW a \in Seq(S), NEW b \in Seq(S)
  PROVE  /\ Len(a) \in 0 .. Len(a \o b)
         /\ SubSeq(a \o b, 1, Len(a)) = a
         /\ SubSeq(a \o b, Len(a) + 1, Len(a \o b)) = b
OBVIOUS

\* A sequence without what is in it from one place to another.
Cut(s, from, to) == SubSeq(s, 1, from) \o SubSeq(s, to + 1, Len(s))

\* Where the middle of a concatenation begins and ends.
LEMMA MiddleCut ==
  \A a, b, c \in Seq(Req) : \E from, to \in 0 .. Len(a \o b \o c) :
    from <= to /\ Cut(a \o b \o c, from, to) = a \o c
<1>1. SUFFICES ASSUME NEW a \in Seq(Req), NEW b \in Seq(Req), NEW c \in Seq(Req)
               PROVE  \E from, to \in 0 .. Len(a \o b \o c) :
                        from <= to /\ Cut(a \o b \o c, from, to) = a \o c
  OBVIOUS
<1>2. PICK out : out = a \o b \o c
  OBVIOUS
<1> DEFINE ab == a \o b
<1>3. /\ ab \in Seq(Req) /\ Len(ab) = Len(a) + Len(b) /\ out = ab \o c
      /\ Len(out) = Len(ab) + Len(c) /\ Len(a) \in Nat /\ Len(b) \in Nat /\ Len(c) \in Nat
  BY <1>2, ConcatProperties
<1>4. SubSeq(out, Len(ab) + 1, Len(out)) = c
  <2> HIDE DEF ab
  <2>1. SubSeq(ab \o c, Len(ab) + 1, Len(ab \o c)) = c
    BY <1>3, CutFront, SMTT(30)
  <2>2. QED
    BY <1>3, <2>1, Zenon
<1>5. out = a \o (b \o c) /\ b \o c \in Seq(Req)
  BY <1>2, ConcatAssociative, ConcatProperties
<1>6. SubSeq(out, 1, Len(a)) = a
  <2> DEFINE bc == b \o c
  <2> HIDE DEF bc
  <2>1. out = a \o bc /\ bc \in Seq(Req)
    BY <1>5 DEF bc
  <2>2. SubSeq(a \o bc, 1, Len(a)) = a
    BY <2>1, CutFront, SMTT(30)
  <2>3. QED
    BY <2>1, <2>2, Zenon
<1>7. /\ Len(a) \in 0 .. Len(out) /\ Len(a) + Len(b) \in 0 .. Len(out)
      /\ Len(a) <= Len(a) + Len(b)
  <2> HIDE DEF ab
  <2>1. QED
    BY <1>3
<1>8. Cut(out, Len(a), Len(a) + Len(b)) = a \o c
  <2> HIDE DEF ab
  <2>1. SubSeq(out, Len(a) + Len(b) + 1, Len(out)) = c
    BY <1>3, <1>4
  <2>2. QED
    BY <1>6, <1>7, <2>1 DEF Cut
<1>9. \E from, to \in 0 .. Len(out) : from <= to /\ Cut(out, from, to) = a \o c
  BY <1>7, <1>8, Zenon
<1>10. QED
  BY <1>2, <1>9, Zenon

\* Where a front ends.
Upto(s, n) == SubSeq(s, 1, n)
After(s, n) == SubSeq(s, n + 1, Len(s))

\* A concatenation can be cut where its first part ends ...
LEMMA FrontCut ==
  \A a, b \in Seq(Req) :
    \E n \in 0 .. Len(a \o b) : Upto(a \o b, n) = a /\ After(a \o b, n) = b
<1>1. SUFFICES ASSUME NEW a \in Seq(Req), NEW b \in Seq(Req)
               PROVE  \E n \in 0 .. Len(a \o b) : Upto(a \o b, n) = a /\ After(a \o b, n) = b
  OBVIOUS
<1>2. /\ Len(a) \in 0 .. Len(a \o b)
      /\ Upto(a \o b, Len(a)) = a /\ After(a \o b, Len(a)) = b
  BY CutFront DEF Upto, After
<1>3. QED
  BY <1>2, Zenon

\* What is behind a concatenation that loses its middle stays behind it.
LosesOnly(a, b, out, rest) == \E d \in Seq(Req) : out = a \o b \o d /\ rest = a \o d

\* ... and what it loses in the middle it loses before what follows.
LEMMA CutBefore ==
  \A a, b, c, z \in Seq(Req) : LosesOnly(a, b, (a \o b \o c) \o z, (a \o c) \o z)
<1>1. SUFFICES ASSUME NEW a \in Seq(Req), NEW b \in Seq(Req), NEW c \in Seq(Req),
                      NEW z \in Seq(Req)
               PROVE  LosesOnly(a, b, (a \o b \o c) \o z, (a \o c) \o z)
  BY Zenon
<1>2. a \o (c \o z) = (a \o c) \o z
  BY Regrouped, ZenonT(30)
<1>3. PICK ab \in Seq(Req) : ab = a \o b
  BY ConcatProperties
<1>4. ab \o (c \o z) = (ab \o c) \o z
  BY Regrouped, ZenonT(30)
<1>5. c \o z \in Seq(Req)
  BY ConcatProperties
<1>6. a \o b \o (c \o z) = (a \o b \o c) \o z
  BY <1>3, <1>4, Zenon
<1>7. QED
  BY <1>2, <1>5, <1>6, Zenon DEF LosesOnly

\* Parts of a sequence that has everything once have it once, and not the same.
LEMMA InjectiveParts ==
  ASSUME NEW S, NEW a \in Seq(S), NEW b \in Seq(S)
  PROVE  IsInjective(a \o b) <=>
           IsInjective(a) /\ IsInjective(b) /\ Range(a) \cap Range(b) = {}
<1> DEFINE m == Len(a)
           n == Len(b)
           ab == a \o b
<1>1. /\ m \in Nat /\ n \in Nat /\ DOMAIN a = 1 .. m /\ DOMAIN b = 1 .. n /\ DOMAIN ab = 1 .. m + n
      /\ \A i \in 1 .. m : ab[i] = a[i]
      /\ \A i \in 1 .. n : ab[m + i] = b[i]
  OBVIOUS
<1> HIDE DEF m, n, ab
<1>2. ASSUME IsInjective(ab)
      PROVE  IsInjective(a) /\ IsInjective(b) /\ Range(a) \cap Range(b) = {}
  <2>1. ASSUME NEW i \in 1 .. m, NEW j \in 1 .. m, a[i] = a[j] PROVE i = j
    BY <1>1, <1>2, <2>1, SMTT(30) DEF IsInjective
  <2>2. ASSUME NEW i \in 1 .. n, NEW j \in 1 .. n, b[i] = b[j] PROVE i = j
    <3>1. m + i \in 1 .. m + n /\ m + j \in 1 .. m + n
      BY <1>1
    <3>2. m + i = m + j
      BY <1>1, <1>2, <2>2, <3>1 DEF IsInjective
    <3>3. QED
      BY <1>1, <3>2
  <2>3. ASSUME NEW i \in 1 .. m, NEW j \in 1 .. n PROVE a[i] # b[j]
    <3>1. m + j \in 1 .. m + n /\ i \in 1 .. m + n /\ i # m + j
      BY <1>1
    <3>2. QED
      BY <1>1, <1>2, <3>1 DEF IsInjective
  <2>4. QED
    BY <1>1, <2>1, <2>2, <2>3 DEF IsInjective, Range
<1>3. ASSUME IsInjective(a), IsInjective(b), Range(a) \cap Range(b) = {}
      PROVE  IsInjective(ab)
  <2>1. ASSUME NEW i \in 1 .. m, NEW j \in 1 .. n PROVE a[i] # b[j]
    BY <1>1, <1>3 DEF Range
  <2>2. ASSUME NEW i \in 1 .. m + n
        PROVE  \/ i \in 1 .. m /\ ab[i] = a[i]
               \/ \E k \in 1 .. n : i = m + k /\ ab[i] = b[k]
    <3>1. i \in 1 .. m \/ (i - m \in 1 .. n /\ i = m + (i - m))
      BY <1>1
    <3>2. QED
      BY <1>1, <3>1
  <2>3. ASSUME NEW i \in 1 .. m + n, NEW j \in 1 .. m + n, ab[i] = ab[j] PROVE i = j
    <3>1. CASE i \in 1 .. m /\ ab[i] = a[i]
      <4>1. j \in 1 .. m /\ ab[j] = a[j]
        BY <2>1, <2>2, <2>3, <3>1
      <4>2. QED
        BY <1>1, <1>3, <2>3, <3>1, <4>1 DEF IsInjective
    <3>2. ASSUME NEW k \in 1 .. n, i = m + k, ab[i] = b[k] PROVE i = j
      <4>1. PICK l \in 1 .. n : j = m + l /\ ab[j] = b[l]
        BY <2>1, <2>2, <2>3, <3>2
      <4>2. k = l
        BY <1>1, <1>3, <2>3, <3>2, <4>1 DEF IsInjective
      <4>3. QED
        BY <3>2, <4>1, <4>2
    <3>3. QED
      BY <2>2, <3>1, <3>2
  <2>4. QED
    BY <1>1, <2>3 DEF IsInjective
<1>4. QED
  BY <1>2, <1>3 DEF ab

-----------------------------------------------------------------------------
(***************************************************************************)
(* Lines without their ids.                                                *)
(***************************************************************************)

\* A line of raw requests is one of requests, those of its batch.
LEMMA LineType ==
  ASSUME NEW line \in Seq(RawRequest)
  PROVE  /\ RequestsOf(line) \in Seq(Req) /\ Len(RequestsOf(line)) = Len(line)
         /\ Range(RequestsOf(line)) = {q.req : q \in Range(line)}
<1> DEFINE n == Len(line)
           R == RequestsOf(line)
<1>1. /\ n \in Nat /\ DOMAIN line = 1 .. n
      /\ \A k \in 1 .. n : line[k] \in RawRequest /\ line[k].req \in Req
  <2>1. /\ n \in Nat /\ DOMAIN line = 1 .. n
        /\ \A k \in 1 .. n : line[k] \in RawRequest
    OBVIOUS
  <2>2. \A q \in RawRequest : q.req \in Req
    BY DEF RawRequest
  <2>3. QED
    BY <2>1, <2>2
<1>2. R = [k \in 1 .. n |-> line[k].req]
  BY <1>1 DEF RequestsOf
<1>3. R \in [1 .. n -> Req] /\ R \in Seq(Req) /\ Len(R) = n
  BY <1>1, <1>2
<1>4. DOMAIN R = 1 .. n /\ \A k \in 1 .. n : R[k] = line[k].req
  BY <1>2
<1>5. Range(R) = {q.req : q \in Range(line)}
  <2> HIDE DEF R, n
  <2>1. QED
    BY <1>1, <1>4 DEF Range
<1>6. QED
  BY <1>3, <1>5

\* The ids that track_request gives a batch can be taken away again.
LEMMA TrackedLine ==
  ASSUME NEW b \in Seq(Req)
  PROVE  RequestsOf(RawRequests(b)) = b
BY DEF RequestsOf, RawRequests

\* No line, no requests.
LEMMA LinesOfNone == RequestsOfLines(<<>>) = <<>> /\ RequestsOf(<<>>) = <<>>
<1>1. DOMAIN <<>> = {}
  OBVIOUS
<1>2. [k \in DOMAIN <<>> |-> RequestsOf(<<>>[k])] = <<>> /\ RequestsOf(<<>>) = <<>>
  BY <1>1 DEF RequestsOf
<1>3. QED
  BY <1>2, FlattenEmpty, Zenon DEF RequestsOfLines

\* How to tell a concatenation.
LEMMA IsConcatenation ==
  ASSUME NEW S, NEW f \in Seq(S), NEW g \in Seq(S), NEW h \in Seq(S),
         Len(h) = Len(f) + Len(g),
         \A k \in 1 .. Len(f) : h[k] = f[k],
         \A k \in 1 .. Len(g) : h[Len(f) + k] = g[k]
  PROVE  h = f \o g
<1>1. f \o g \in Seq(S) /\ Len(f \o g) = Len(h)
  OBVIOUS
<1>2. ASSUME NEW k \in 1 .. Len(h) PROVE h[k] = (f \o g)[k]
  <2>1. CASE k \in 1 .. Len(f)
    BY <2>1
  <2>2. CASE k - Len(f) \in 1 .. Len(g)
    <3>1. Len(f) + (k - Len(f)) = k
      BY <2>2
    <3>2. h[k] = g[k - Len(f)]
      BY <2>2, <3>1
    <3>3. QED
      BY <2>2, <3>2
  <2>3. QED
    BY <2>1, <2>2
<1>3. QED
  BY <1>1, <1>2, SeqEqual

\* The requests of each line.
LinesWithoutIds(lines) == [k \in DOMAIN lines |-> RequestsOf(lines[k])]

\* The requests of the lines are as many sequences as there are lines.
LEMMA LinesWithoutIdsType ==
  ASSUME NEW lines \in Seq(Seq(RawRequest))
  PROVE  /\ LinesWithoutIds(lines) \in Seq(Seq(Req))
         /\ Len(LinesWithoutIds(lines)) = Len(lines)
         /\ \A k \in 1 .. Len(lines) : LinesWithoutIds(lines)[k] = RequestsOf(lines[k])
<1>1. \A k \in 1 .. Len(lines) : lines[k] \in Seq(RawRequest)
  OBVIOUS
<1>2. \A k \in 1 .. Len(lines) : RequestsOf(lines[k]) \in Seq(Req)
  BY <1>1, LineType
<1>3. LinesWithoutIds(lines) = [k \in 1 .. Len(lines) |-> RequestsOf(lines[k])]
  BY DEF LinesWithoutIds
<1> DEFINE n == Len(lines)
           L == LinesWithoutIds(lines)
<1>4. n \in Nat /\ L \in [1 .. n -> Seq(Req)] /\ \A k \in 1 .. n : L[k] = RequestsOf(lines[k])
  BY <1>2, <1>3
<1>5. L \in Seq(Seq(Req)) /\ Len(L) = n
  <2> HIDE DEF L, n
  <2>1. QED
    BY <1>4
<1>6. QED
  BY <1>4, <1>5

\* The requests of lines are those of the first ones and then of the others.
LEMMA LinesJoined ==
  ASSUME NEW a \in Seq(Seq(RawRequest)), NEW b \in Seq(Seq(RawRequest))
  PROVE  /\ RequestsOfLines(a) \in Seq(Req)
         /\ RequestsOfLines(a \o b) = RequestsOfLines(a) \o RequestsOfLines(b)
<1> DEFINE f == LinesWithoutIds(a)
           g == LinesWithoutIds(b)
           h == LinesWithoutIds(a \o b)
<1>1. /\ a \o b \in Seq(Seq(RawRequest)) /\ Len(a \o b) = Len(a) + Len(b)
      /\ Len(a) \in Nat /\ Len(b) \in Nat
      /\ \A k \in 1 .. Len(a) : (a \o b)[k] = a[k]
      /\ \A k \in 1 .. Len(b) : (a \o b)[Len(a) + k] = b[k]
  OBVIOUS
<1>2. f \in Seq(Seq(Req)) /\ g \in Seq(Seq(Req)) /\ h \in Seq(Seq(Req))
  BY <1>1, LinesWithoutIdsType
<1>3. Len(f) = Len(a) /\ Len(g) = Len(b) /\ Len(h) = Len(a) + Len(b)
  BY <1>1, LinesWithoutIdsType
<1>4. /\ \A k \in 1 .. Len(a) : f[k] = RequestsOf(a[k])
      /\ \A k \in 1 .. Len(b) : g[k] = RequestsOf(b[k])
      /\ \A k \in 1 .. Len(a) + Len(b) : h[k] = RequestsOf((a \o b)[k])
  BY <1>1, LinesWithoutIdsType
<1> HIDE DEF f, g, h
<1>5. \A k \in 1 .. Len(f) : h[k] = f[k]
  BY <1>1, <1>3, <1>4
<1>6. \A k \in 1 .. Len(g) : h[Len(f) + k] = g[k]
  <2>1. SUFFICES ASSUME NEW k \in 1 .. Len(b) PROVE h[Len(a) + k] = g[k]
    BY <1>3
  <2>2. Len(a) + k \in 1 .. Len(a) + Len(b)
    BY <1>1
  <2>3. QED
    BY <1>1, <1>4, <2>2
<1>7. h = f \o g
  <2>1. Len(h) = Len(f) + Len(g)
    BY <1>3
  <2>2. QED
    BY <1>2, <1>5, <1>6, <2>1, IsConcatenation
<1>8. FlattenSeq(f \o g) = FlattenSeq(f) \o FlattenSeq(g) /\ FlattenSeq(f) \in Seq(Req)
  BY <1>2, FlattenConcatenated, FlattenType
<1>9. QED
  BY <1>7, <1>8, Zenon DEF RequestsOfLines, LinesWithoutIds, f, g, h

\* One line has its own.
LEMMA LineAlone ==
  ASSUME NEW line \in Seq(RawRequest)
  PROVE  RequestsOfLines(<<line>>) = RequestsOf(line)
<1>1. [k \in DOMAIN <<line>> |-> RequestsOf(<<line>>[k])] = <<RequestsOf(line)>>
  OBVIOUS
<1>2. FlattenSeq(<<RequestsOf(line)>>) = RequestsOf(line)
  BY LineType, FlattenOne
<1>3. QED
  BY <1>1, <1>2, Zenon DEF RequestsOfLines

\* A line added at the end, and the line at the head.
LEMMA LinesAppended ==
  ASSUME NEW a \in Seq(Seq(RawRequest)), NEW line \in Seq(RawRequest)
  PROVE  RequestsOfLines(Append(a, line)) = RequestsOfLines(a) \o RequestsOf(line)
<1>1. Append(a, line) = a \o <<line>> /\ <<line>> \in Seq(Seq(RawRequest))
  BY AppendIsConcat
<1>2. QED
  BY <1>1, LinesJoined, LineAlone

\* The requests of the first line come first.
LEMMA LinesTaken ==
  ASSUME NEW a \in Seq(Seq(RawRequest)), a # <<>>
  PROVE  RequestsOfLines(a) = RequestsOf(Head(a)) \o RequestsOfLines(Tail(a))
<1>1. /\ a = <<Head(a)>> \o Tail(a) /\ <<Head(a)>> \in Seq(Seq(RawRequest))
      /\ Tail(a) \in Seq(Seq(RawRequest)) /\ Head(a) \in Seq(RawRequest)
  OBVIOUS
<1>2. QED
  BY <1>1, LinesJoined, LineAlone

-----------------------------------------------------------------------------
(***************************************************************************)
(* Messages without their ids.                                             *)
(***************************************************************************)

\* A message goes to the end, with or without ids ...
LEMMA WithoutIdsAppended ==
  ASSUME NEW M, NEW msgs \in Seq(M), NEW msg \in M
  PROVE  WithoutIds(Append(msgs, msg)) = Append(WithoutIds(msgs), WithoutId(msg))
<1> DEFINE W == {WithoutId(m) : m \in M}
           f == WithoutIds(msgs)
           g == <<WithoutId(msg)>>
           h == WithoutIds(Append(msgs, msg))
           n == Len(msgs)
<1>1. /\ n \in Nat /\ DOMAIN msgs = 1 .. n /\ DOMAIN Append(msgs, msg) = 1 .. n + 1
      /\ \A k \in 1 .. n : msgs[k] \in M /\ Append(msgs, msg)[k] = msgs[k]
      /\ Append(msgs, msg)[n + 1] = msg
  OBVIOUS
<1>2. f = [k \in 1 .. n |-> WithoutId(msgs[k])] /\ h = [k \in 1 .. n + 1 |-> WithoutId(Append(msgs, msg)[k])]
  BY <1>1 DEF WithoutIds
<1>3. f \in [1 .. n -> W] /\ h \in [1 .. n + 1 -> W]
  <2>1. \A k \in 1 .. n + 1 : Append(msgs, msg)[k] \in M
    OBVIOUS
  <2>2. QED
    BY <1>1, <1>2, <2>1
<1>4. WithoutId(msg) \in W /\ \A k \in 1 .. n : h[k] = f[k]
  BY <1>1, <1>2
<1>5. h[n + 1] = WithoutId(msg)
  <2>1. n + 1 \in 1 .. n + 1
    BY <1>1
  <2>2. QED
    BY <1>1, <1>2, <2>1
<1> HIDE DEF f, h, n, W
<1>6. f \in Seq(W) /\ h \in Seq(W) /\ Len(f) = n /\ Len(h) = n + 1
  BY <1>1, <1>3
<1>7. g \in Seq(W) /\ Len(g) = 1 /\ g[1] = WithoutId(msg)
  BY <1>4
<1>8. h = f \o g
  <2> HIDE DEF g
  <2>1. Len(h) = Len(f) + Len(g) /\ \A k \in 1 .. Len(f) : h[k] = f[k]
    BY <1>4, <1>6, <1>7
  <2>2. \A k \in 1 .. Len(g) : h[Len(f) + k] = g[k]
    BY <1>5, <1>6, <1>7
  <2>3. QED
    BY <1>6, <1>7, <2>1, <2>2, IsConcatenation
<1>9. QED
  BY <1>4, <1>6, <1>8, AppendIsConcat DEF f, h

\* ... and the first comes first.
LEMMA WithoutIdsTaken ==
  ASSUME NEW M, NEW msgs \in Seq(M), msgs # <<>>
  PROVE  /\ WithoutIds(msgs) # <<>>
         /\ Head(WithoutIds(msgs)) = WithoutId(Head(msgs))
         /\ Tail(WithoutIds(msgs)) = WithoutIds(Tail(msgs))
<1> DEFINE W == {WithoutId(m) : m \in M}
           f == WithoutIds(msgs)
           g == WithoutIds(Tail(msgs))
           n == Len(msgs)
<1>1. /\ n \in Nat \ {0} /\ DOMAIN msgs = 1 .. n /\ DOMAIN Tail(msgs) = 1 .. n - 1
      /\ \A k \in 1 .. n : msgs[k] \in M
      /\ \A k \in 1 .. n - 1 : Tail(msgs)[k] = msgs[k + 1]
      /\ Head(msgs) = msgs[1]
  OBVIOUS
<1>2. f = [k \in 1 .. n |-> WithoutId(msgs[k])] /\ g = [k \in 1 .. n - 1 |-> WithoutId(Tail(msgs)[k])]
  BY <1>1 DEF WithoutIds
<1>3. f \in [1 .. n -> W] /\ g \in [1 .. n - 1 -> W]
  <2>1. \A k \in 1 .. n - 1 : Tail(msgs)[k] \in M
    OBVIOUS
  <2>2. QED
    BY <1>1, <1>2, <2>1
<1>4. \A k \in 1 .. n - 1 : g[k] = f[k + 1]
  <2>1. SUFFICES ASSUME NEW k \in 1 .. n - 1 PROVE g[k] = f[k + 1]
    OBVIOUS
  <2>2. k + 1 \in 1 .. n
    BY <1>1
  <2>3. QED
    BY <1>1, <1>2, <2>2
<1>5. f[1] = WithoutId(Head(msgs))
  BY <1>1, <1>2
<1> HIDE DEF f, g, n, W
<1>6. f \in Seq(W) /\ g \in Seq(W) /\ Len(f) = n /\ Len(g) = n - 1
  BY <1>1, <1>3
<1>7. f # <<>> /\ Head(f) = f[1]
  BY <1>1, <1>6
<1>8. Tail(f) = g
  <2>1. Tail(f) \in Seq(W) /\ Len(Tail(f)) = Len(f) - 1 /\ \A k \in 1 .. Len(Tail(f)) : Tail(f)[k] = f[k + 1]
    BY <1>6, <1>7, HeadTailProperties
  <2>2. QED
    BY <1>4, <1>6, <2>1, SeqEqual
<1>9. QED
  BY <1>5, <1>7, <1>8 DEF f, g

-----------------------------------------------------------------------------
(***************************************************************************)
(* Requests that are in flight once.                                       *)
(***************************************************************************)

\* What is lost on the way, or taken by the server, is not at two places.
LEMMA InFlightLess ==
  ASSUME NEW S, NEW a \in Seq(S), NEW b \in Seq(S), NEW c \in Seq(S),
         NEW owing, NEW msgs, NEW handlers, InFlightOnce(a \o b \o c, owing, msgs, handlers),
         NEW o, o \subseteq owing \cup Range(b), AnsweredBy(msgs) \cap o = {}
  PROVE  InFlightOnce(a \o c, o, msgs, handlers)
<1>1. /\ Range(a \o b \o c) = Range(a) \cup Range(b) \cup Range(c)
      /\ Range(a \o c) = Range(a) \cup Range(c)
  <2> DEFINE ab == a \o b
  <2>1. ab \in Seq(S) /\ Range(ab) = Range(a) \cup Range(b)
    BY ConcatProperties, RangeConcatenation
  <2> HIDE DEF ab
  <2>2. Range(ab \o c) = Range(ab) \cup Range(c)
    BY <2>1, RangeConcatenation
  <2>3. Range(a \o c) = Range(a) \cup Range(c)
    BY RangeConcatenation
  <2>4. QED
    BY <2>1, <2>2, <2>3 DEF ab
<1>2. IsInjective(a \o b \o c)
  BY DEF InFlightOnce
<1>3. /\ IsInjective(a) /\ IsInjective(c) /\ Range(a) \cap Range(b) = {}
      /\ (Range(a) \cup Range(b)) \cap Range(c) = {}
  <2>1. a \o b \in Seq(S) /\ Range(a \o b) = Range(a) \cup Range(b)
    BY ConcatProperties, RangeConcatenation
  <2>2. IsInjective(a \o b) /\ IsInjective(c) /\ Range(a \o b) \cap Range(c) = {}
    BY <1>2, <2>1, InjectiveParts
  <2>3. QED
    BY <2>1, <2>2, InjectiveParts
<1>4. IsInjective(a \o c)
  BY <1>3, InjectiveParts
<1>5. QED
  BY <1>1, <1>3, <1>4 DEF InFlightOnce

\* An answer is made of what the server was asked.
LEMMA InFlightAnswered ==
  ASSUME NEW M, NEW msgs \in Seq(M), NEW msg \in M,
         NEW out, NEW owing, NEW handlers, InFlightOnce(out, owing, msgs, handlers),
         NEW o, IF msg.type = "response" THEN msg.of \in owing /\ o = owing \ {msg.of} ELSE o = owing
  PROVE  InFlightOnce(out, o, Append(msgs, msg), handlers)
<1> DEFINE n == Len(msgs)
           t == Append(msgs, msg)
<1>1. /\ n \in Nat /\ DOMAIN msgs = 1 .. n /\ DOMAIN t = 1 .. n + 1
      /\ \A k \in 1 .. n : t[k] = msgs[k]
      /\ t[n + 1] = msg /\ Range(t) = Range(msgs) \cup {msg}
  BY RangeAppended
<1>2. AnsweredBy(t) = AnsweredBy(msgs) \cup (IF msg.type = "response" THEN {msg.of} ELSE {})
  BY <1>1 DEF AnsweredBy
<1>3. ASSUME NEW i \in 1 .. n, msgs[i].type = "response" PROVE msgs[i].of \in AnsweredBy(msgs)
  BY <1>1, <1>3 DEF AnsweredBy, Range
<1>4. ASSUME NEW i \in 1 .. n + 1, NEW j \in 1 .. n + 1,
             t[i].type = "response", t[j].type = "response", t[i].of = t[j].of
      PROVE  i = j
  <2>1. CASE i \in 1 .. n /\ j \in 1 .. n
    BY <1>1, <1>4, <2>1 DEF InFlightOnce
  <2>2. CASE i = n + 1 /\ j \in 1 .. n
    BY <1>1, <1>3, <1>4, <2>2 DEF InFlightOnce
  <2>3. CASE i \in 1 .. n /\ j = n + 1
    BY <1>1, <1>3, <1>4, <2>3 DEF InFlightOnce
  <2>4. QED
    BY <1>1, <2>1, <2>2, <2>3
<1>5. QED
  BY <1>1, <1>2, <1>4 DEF InFlightOnce

\* A batch that is tracked is in flight from then on.
LEMMA InFlightTracked ==
  ASSUME NEW S, NEW out \in Seq(S), NEW b \in Seq(S), IsInjective(b),
         NEW owing, NEW msgs, NEW handlers, InFlightOnce(out, owing, msgs, handlers),
         Range(b) \cap handlers = {}
  PROVE  InFlightOnce(out \o b, owing, msgs, handlers \cup Range(b))
<1>1. Range(out \o b) = Range(out) \cup Range(b)
  BY RangeConcatenation
<1>2. IsInjective(out \o b)
  BY InjectiveParts DEF InFlightOnce
<1>3. QED
  BY <1>1, <1>2 DEF InFlightOnce

\* A message that is handled is the only one for its handler.
LEMMA InFlightHandled ==
  ASSUME NEW M, NEW msgs \in Seq(M), msgs # <<>>,
         NEW out, NEW owing, NEW handlers, InFlightOnce(out, owing, msgs, handlers),
         NEW h, handlers \ (IF Head(msgs).type = "response" THEN {Head(msgs).of} ELSE {}) \subseteq h
  PROVE  InFlightOnce(out, owing, Tail(msgs), h)
<1> DEFINE n == Len(msgs)
           t == Tail(msgs)
<1>1. /\ n \in Nat \ {0} /\ DOMAIN msgs = 1 .. n /\ DOMAIN t = 1 .. n - 1
      /\ \A k \in 1 .. n - 1 : t[k] = msgs[k + 1]
      /\ Head(msgs) = msgs[1]
  OBVIOUS
<1>2. ASSUME NEW r \in AnsweredBy(t)
      PROVE  r \in AnsweredBy(msgs) /\ (Head(msgs).type = "response" => r # Head(msgs).of)
  <2>1. PICK i \in 1 .. n - 1 : t[i].type = "response" /\ t[i].of = r
    BY <1>1 DEF AnsweredBy, Range
  <2>2. i + 1 \in 1 .. n /\ i + 1 # 1 /\ msgs[i + 1] = t[i] /\ 1 \in 1 .. n
    BY <1>1
  <2>3. QED
    BY <1>1, <2>1, <2>2 DEF AnsweredBy, Range, InFlightOnce
<1>3. Head(msgs).type = "response" => Head(msgs).of \in AnsweredBy(msgs)
  <2>1. 1 \in 1 .. n
    BY <1>1
  <2>2. QED
    BY <1>1, <2>1 DEF AnsweredBy, Range
<1>4. ASSUME NEW i \in 1 .. n - 1, NEW j \in 1 .. n - 1,
             t[i].type = "response", t[j].type = "response", t[i].of = t[j].of
      PROVE  i = j
  <2>1. i + 1 \in 1 .. n /\ j + 1 \in 1 .. n /\ msgs[i + 1] = t[i] /\ msgs[j + 1] = t[j]
    BY <1>1
  <2>2. i + 1 = j + 1
    BY <1>1, <1>4, <2>1 DEF InFlightOnce
  <2>3. QED
    BY <2>2
<1>5. QED
  BY <1>1, <1>2, <1>3, <1>4 DEF InFlightOnce

-----------------------------------------------------------------------------
(***************************************************************************)
(* What the worker's and the server's steps do to the requests and the     *)
(* messages on their way.                                                  *)
(***************************************************************************)

\* The requests on the wire are those in the transport, then those the writer
\* holds back.
LEMMA WireIs ==
  ASSUME WireTypeOK
  PROVE  /\ RequestsOfLines(c2s) \in Seq(Req) /\ RequestsOfLines(held) \in Seq(Req)
         /\ RequestsOnWire = RequestsOfLines(c2s) \o RequestsOfLines(held)
         /\ RequestsOnWire \in Seq(Req)
<1>1. c2s \in Seq(Seq(RawRequest)) /\ held \in Seq(Seq(RawRequest))
  BY DEF WireTypeOK
<1>2. /\ RequestsOfLines(c2s) \in Seq(Req) /\ RequestsOfLines(held) \in Seq(Req)
      /\ RequestsOfLines(c2s \o held) = RequestsOfLines(c2s) \o RequestsOfLines(held)
  BY <1>1, LinesJoined
<1>3. QED
  BY <1>2, ConcatProperties DEF RequestsOnWire

\* So they are after a step.
LEMMA WireBecomes ==
  ASSUME WireTypeOK'
  PROVE  /\ RequestsOfLines(c2s') \in Seq(Req) /\ RequestsOfLines(held') \in Seq(Req)
         /\ RequestsOnWire' = RequestsOfLines(c2s') \o RequestsOfLines(held')
         /\ RequestsOnWire' \in Seq(Req)
<1>1. c2s' \in Seq(Seq(RawRequest)) /\ held' \in Seq(Seq(RawRequest))
  BY DEF WireTypeOK
<1>2. /\ RequestsOfLines(c2s') \in Seq(Req) /\ RequestsOfLines(held') \in Seq(Req)
      /\ RequestsOfLines(c2s' \o held') = RequestsOfLines(c2s') \o RequestsOfLines(held')
  BY <1>1, LinesJoined
<1>3. QED
  BY <1>2, ConcatProperties DEF RequestsOnWire

\* The oldest of the lines held back goes into the transport, or is lost.
LEMMA HeadMoves ==
  ASSUME WireTypeOK, WireTypeOK', NEW lines \in Seq(Seq(RawRequest)), lines # <<>>,
         held' = Tail(lines), Transmit(Head(lines)) \/ UNCHANGED c2s
  PROVE  \E a, b, c \in Seq(Req) :
           /\ RequestsOfLines(c2s) \o RequestsOfLines(lines) = a \o b \o c
           /\ RequestsOnWire' = a \o c
           /\ Transmit(Head(lines)) => b = <<>> \/ peer = "closed"
<1> DEFINE a == RequestsOfLines(c2s)
           h == RequestsOf(Head(lines))
           c == RequestsOfLines(Tail(lines))
<1>1. /\ Head(lines) \in Seq(RawRequest) /\ Tail(lines) \in Seq(Seq(RawRequest))
      /\ c2s \in Seq(Seq(RawRequest))
  BY DEF WireTypeOK
<1>2. a \in Seq(Req) /\ h \in Seq(Req) /\ c \in Seq(Req) /\ RequestsOfLines(lines) = h \o c
  BY <1>1, LinesJoined, LinesTaken, LineType
<1>3. a \o (h \o c) = a \o h \o c /\ a \o h \in Seq(Req)
  <2>1. a \in Seq(Req) /\ h \in Seq(Req) /\ c \in Seq(Req)
    BY <1>2
  <2> HIDE DEF a, h, c
  <2>2. a \o h \in Seq(Req)
    BY <2>1, ConcatProperties
  <2>3. \A x, y, z \in Seq(Req) : x \o (y \o z) = (x \o y) \o z
    BY Regrouped
  <2>4. QED
    BY <2>1, <2>2, <2>3, ZenonT(30)
<1>4. RequestsOnWire' = RequestsOfLines(c2s') \o c
  BY WireBecomes
<1>5. CASE peer = "open" /\ c2s' = Append(c2s, Head(lines))
  <2>1. RequestsOfLines(c2s') = a \o h
    BY <1>1, <1>5, LinesAppended
  <2>2. a \o h = (a \o h) \o <<>> /\ <<>> \in Seq(Req)
    <3> HIDE DEF a, h
    <3>1. QED
      BY <1>3, ConcatEmptySeq
  <2>3. /\ RequestsOfLines(c2s) \o RequestsOfLines(lines) = (a \o h) \o <<>> \o c
        /\ RequestsOnWire' = (a \o h) \o c
    BY <1>2, <1>3, <1>4, <2>1, <2>2
  <2>4. QED
    BY <1>2, <1>3, <2>2, <2>3
<1>6. CASE c2s' = c2s
  <2>1. RequestsOnWire' = a \o c
    BY <1>4, <1>6
  <2>2. Transmit(Head(lines)) => peer = "closed"
    <3>1. c2s # Append(c2s, Head(lines))
      BY <1>1
    <3>2. QED
      BY <1>6, <3>1 DEF Transmit
  <2>3. QED
    BY <1>2, <1>3, <2>1, <2>2
<1>7. QED
  BY <1>5, <1>6 DEF Transmit

\* A line that is written comes behind the others, unless a server that has
\* closed loses one.
LEMMA WriteLineMoves ==
  ASSUME WireTypeOK, WireTypeOK', NEW line \in Seq(RawRequest), WriteLine(line)
  PROVE  \E a, b, c \in Seq(Req) :
           /\ RequestsOnWire \o RequestsOf(line) = a \o b \o c
           /\ RequestsOnWire' = a \o c
           /\ b = <<>> \/ peer = "closed"
<1> DEFINE lines == Append(held, line)
           out == RequestsOnWire \o RequestsOf(line)
<1>1. lines \in Seq(Seq(RawRequest)) /\ lines # <<>> /\ held \in Seq(Seq(RawRequest))
  <2>1. held \in Seq(Seq(RawRequest))
    BY DEF WireTypeOK
  <2>2. QED
    BY <2>1, AppendProperties
<1>2. /\ RequestsOfLines(lines) = RequestsOfLines(held) \o RequestsOf(line)
      /\ RequestsOf(line) \in Seq(Req)
  BY <1>1, LinesAppended, LineType
<1>3. RequestsOnWire \o RequestsOf(line) = RequestsOfLines(c2s) \o RequestsOfLines(lines)
  <2> DEFINE x == RequestsOfLines(c2s)
             y == RequestsOfLines(held)
             z == RequestsOf(line)
  <2>1. x \in Seq(Req) /\ y \in Seq(Req) /\ z \in Seq(Req) /\ RequestsOnWire = x \o y
    BY <1>2, WireIs
  <2>2. x \o (y \o z) = (x \o y) \o z
    <3> HIDE DEF x, y, z
    <3>1. QED
      BY <2>1, Regrouped, Zenon
  <2>3. QED
    BY <1>2, <2>1, <2>2
<1>4. CASE held' = lines /\ UNCHANGED c2s
  <2>1. RequestsOnWire' = out /\ out \in Seq(Req)
    <3>1. RequestsOnWire' = RequestsOfLines(c2s) \o RequestsOfLines(lines) /\ RequestsOnWire' \in Seq(Req)
      BY <1>4, WireBecomes
    <3>2. QED
      BY <1>3, <3>1
  <2>2. out = out \o <<>> /\ out = out \o <<>> \o <<>> /\ <<>> \in Seq(Req)
    <3> HIDE DEF out
    <3>1. QED
      BY <2>1, ConcatEmptySeq
  <2>3. QED
    BY <2>1, <2>2
<1>5. CASE held' = Tail(lines) /\ Transmit(Head(lines))
  BY <1>1, <1>3, <1>5, HeadMoves
<1>6. QED
  BY <1>4, <1>5 DEF WriteLine, TransmitOldest

\* A writer that is dropped transmits its oldest line or loses it.
LEMMA DropHeldMoves ==
  ASSUME WireTypeOK, WireTypeOK', DropHeld
  PROVE  \E a, b, c \in Seq(Req) : RequestsOnWire = a \o b \o c /\ RequestsOnWire' = a \o c
<1>1. /\ held \in Seq(Seq(RawRequest)) /\ held # <<>> /\ held' = Tail(held)
      /\ Transmit(Head(held)) \/ UNCHANGED c2s
  BY DEF WireTypeOK, DropHeld
<1>2. QED
  BY <1>1, WireIs, HeadMoves

\* No two raw requests at the server are for one request.
OwedOnce == \A p, q \in owed : p.req = q.req => p = q

\* A raw request is at the server once, since its id is the place of its request.
LEMMA NumberedOnce ==
  ASSUME WireTypeOK, NEW log \in Logs, NEW W, NEW R, NEW M, Numbered(log, W, R, M), owed \subseteq R
  PROVE  OwedOnce
<1>1. SUFFICES ASSUME NEW p \in owed, NEW q \in owed, p.req = q.req PROVE p = q
  BY DEF OwedOnce
<1>2. log \in Seq(Req) /\ IsInjective(log)
  BY LogIsSequence
<1>3. p \in RawRequest /\ q \in RawRequest
  BY DEF WireTypeOK
<1>4. /\ p.id \in Nat /\ q.id \in Nat
      /\ p = [id |-> p.id, req |-> p.req] /\ q = [id |-> q.id, req |-> q.req]
  BY <1>3, TrackerAssumption DEF RawRequest, Ids
<1>5. /\ p.id < Len(log) /\ p.req = log[p.id + 1]
      /\ q.id < Len(log) /\ q.req = log[q.id + 1]
  BY DEF Numbered
<1>6. p.id + 1 \in DOMAIN log /\ q.id + 1 \in DOMAIN log
  BY <1>2, <1>4, <1>5
<1>7. p.id + 1 = q.id + 1
  BY <1>1, <1>2, <1>5, <1>6 DEF IsInjective
<1>8. p.id = q.id
  BY <1>4, <1>7
<1>9. QED
  BY <1>1, <1>4, <1>8

\* The server takes the oldest line ...
LEMMA ServerReceivesMoves ==
  ASSUME WireTypeOK, WireTypeOK', ServerReceives
  PROVE  \E h \in Seq(Req) :
           /\ RequestsOnWire = h \o RequestsOnWire'
           /\ OwedRequests' = OwedRequests \cup Range(h)
<1> DEFINE h == RequestsOf(Head(c2s))
<1>1. /\ c2s \in Seq(Seq(RawRequest)) /\ c2s # <<>> /\ c2s' = Tail(c2s) /\ held' = held
      /\ owed' = owed \cup Range(Head(c2s)) /\ Head(c2s) \in Seq(RawRequest)
  BY DEF WireTypeOK, ServerReceives
<1>2. h \in Seq(Req) /\ Range(h) = {q.req : q \in Range(Head(c2s))}
  BY <1>1, LineType
<1>3. RequestsOfLines(c2s) = h \o RequestsOfLines(c2s')
  BY <1>1, LinesTaken
<1>4. /\ RequestsOnWire = RequestsOfLines(c2s) \o RequestsOfLines(held)
      /\ RequestsOnWire' = RequestsOfLines(c2s') \o RequestsOfLines(held)
      /\ RequestsOfLines(c2s') \in Seq(Req) /\ RequestsOfLines(held) \in Seq(Req)
  BY <1>1, WireIs, WireBecomes
<1>5. RequestsOnWire = h \o RequestsOnWire'
  <2> HIDE DEF h
  <2>1. QED
    BY <1>2, <1>3, <1>4, ConcatAssociative
<1>6. OwedRequests' = OwedRequests \cup Range(h)
  BY <1>1, <1>2 DEF OwedRequests
<1>7. QED
  BY <1>2, <1>5, <1>6

\* ... loses all in the transport when it closes ...
LEMMA ServerClosesMoves ==
  ASSUME WireTypeOK, WireTypeOK', ServerCloses
  PROVE  /\ \E h \in Seq(Req) : RequestsOnWire = h \o RequestsOnWire'
         /\ OwedRequests' = {}
<1>1. c2s' = <<>> /\ held' = held /\ owed' = {}
  BY DEF ServerCloses
<1>2. RequestsOnWire' = <<>> \o RequestsOfLines(held)
  BY <1>1, WireBecomes, LinesOfNone
<1>3. RequestsOnWire' = RequestsOfLines(held)
  BY <1>2, WireIs, ConcatEmptySeq
<1>4. QED
  BY <1>1, <1>3, WireIs DEF OwedRequests

\* ... and adds a message, to an answer of which it had been asked.
LEMMA ServerSendsMoves ==
  ASSUME WireTypeOK, OwedOnce, ServerNext, ~ServerReceives, ~ServerCloses
  PROVE  \E msg \in Message :
           /\ peer = "open" /\ s2c' = Append(s2c, msg)
           /\ IF msg.type = "response"
              THEN msg.of \in OwedRequests /\ OwedRequests' = OwedRequests \ {msg.of}
              ELSE OwedRequests' = OwedRequests
           /\ UNCHANGED <<RequestsOnWire, peer>>
<1>1. ASSUME NEW q \in owed, NEW result \in Results, ServerAnswers(q, result)
      PROVE  \E msg \in Message :
               /\ peer = "open" /\ s2c' = Append(s2c, msg)
               /\ msg.type = "response"
               /\ msg.of \in OwedRequests /\ OwedRequests' = OwedRequests \ {msg.of}
               /\ UNCHANGED <<RequestsOnWire, peer>>
  <2> DEFINE msg == [type |-> "response", id |-> q.id, of |-> q.req, result |-> result]
  <2>1. q \in RawRequest /\ q.id \in Ids /\ q.req \in Req
    BY DEF WireTypeOK, RawRequest
  <2>2. msg \in Message
    BY <2>1, ConnectionAssumption DEF Message, RawIncoming, Response
  <2>3. owed' = owed \ {q} /\ s2c' = Append(s2c, msg) /\ peer = "open"
    BY <1>1 DEF ServerAnswers, SendToClient
  <2>4. OwedRequests' = OwedRequests \ {q.req} /\ q.req \in OwedRequests
    BY <2>3 DEF OwedRequests, OwedOnce
  <2>5. UNCHANGED <<RequestsOnWire, peer>>
    BY <1>1 DEF ServerAnswers, RequestsOnWire
  <2>6. QED
    BY <2>2, <2>3, <2>4, <2>5
<1>2. ASSUME NEW msg \in Message, SendToClient(msg), msg.type # "response",
             UNCHANGED <<held, c2s, owed, peer>>
      PROVE  /\ peer = "open" /\ s2c' = Append(s2c, msg)
             /\ OwedRequests' = OwedRequests
             /\ UNCHANGED <<RequestsOnWire, peer>>
  BY <1>2 DEF SendToClient, OwedRequests, RequestsOnWire
<1>3. CASE ServerNotifies
  <2>1. [type |-> "notification", params |-> "valid"] \in Message
    BY DEF Message, RawIncoming, Notification
  <2>2. QED
    BY <1>2, <1>3, <2>1 DEF ServerNotifies
<1>4. CASE ServerSendsGarbage
  <2>1. /\ [type |-> "notification", params |-> "malformed"] \in Message
        /\ Garbage \in Message /\ Garbage.type = "garbage"
    BY DEF Message, RawIncoming, Notification, Garbage
  <2>2. QED
    BY <1>2, <1>4, <2>1 DEF ServerSendsGarbage, serverVars
<1>5. QED
  BY <1>1, <1>3, <1>4 DEF ServerNext

-----------------------------------------------------------------------------
(***************************************************************************)
(* How the steps of the tracker and of the server keep requests in flight  *)
(* once.                                                                   *)
(***************************************************************************)

\* While there is an id for each request, a batch that is tracked displaces no
\* handler.
LEMMA TrackedIsHeld ==
  ASSUME EnoughIds, ConnectionTypeOK, NEW log \in Logs, NEW W, NEW R, NEW M,
         Numbered(log, W, R, M),
         NEW b \in Seq(Req), IsInjective(b), Range(b) \subseteq W, TrackRequest(b)
  PROVE  Held' = Held \cup Range(b) /\ UNCHANGED reply
<1> DEFINE n == Len(log)
           t == log \o b
<1>1. /\ log \in Seq(Req) /\ IsInjective(log) /\ n \in Nat /\ Len(b) \in Nat
  BY LogIsSequence
<1>2. t \in Seq(Req) /\ IsInjective(t) /\ Len(t) = n + Len(b)
  BY <1>1, LogAppended, LogOfOthers DEF Numbered
<1>3. n + Len(b) <= IdCount
  <2>1. Len(t) <= Cardinality(Req) /\ Cardinality(Req) <= IdCount
    BY <1>2, InjectiveLength DEF EnoughIds
  <2>2. Cardinality(Req) \in Nat
    BY FS_CardinalityType DEF EnoughIds
  <2>3. QED
    BY <1>1, <1>2, <2>1, <2>2, TrackerAssumption
<1>4. Displaced(b) = {}
  <2>1. next_id = n % IdCount /\ \A i \in Ids : pending[i] # NoReq => i < n
    BY DEF Numbered
  <2>2. QED
    BY <1>1, <1>3, <2>1, NothingDisplaced DEF ConnectionTypeOK
<1>5. Held \cup Range(b) \subseteq Held'
  <2>1. Held \cup Range(b) \subseteq Range(pending')
    BY <1>4 DEF TrackRequest, Displaced
  <2>2. NoReq \notin Held \cup Range(b)
    BY TrackerAssumption DEF Held, Range
  <2>3. QED
    BY <2>1, <2>2 DEF Held
<1>6. Held' \subseteq Held \cup Range(b)
  <2>1. \A i \in Ids : pending'[i] = IF i \in n .. n + Len(b) - 1 THEN b[i - n + 1] ELSE pending[i]
    BY <1>1, <1>3, BatchInserted DEF TrackRequest, Numbered
  <2>2. ASSUME NEW i \in Ids, pending'[i] # NoReq PROVE pending'[i] \in Held \cup Range(b)
    <3>1. CASE i \in n .. n + Len(b) - 1
      <4>1. i - n + 1 \in DOMAIN b
        BY <1>1, <3>1
      <4>2. QED
        BY <2>1, <3>1, <4>1 DEF Range
    <3>2. CASE i \notin n .. n + Len(b) - 1
      BY <2>1, <2>2, <3>2, HeldUnderId DEF ConnectionTypeOK
    <3>3. QED
      BY <3>1, <3>2
  <2>3. pending' = Inserted(b) /\ DOMAIN pending' = Ids
    BY DEF TrackRequest, Inserted
  <2>4. QED
    BY <2>2, <2>3 DEF Held, Range
<1>7. UNCHANGED reply
  <2>1. reply \in [Req -> Outcomes]
    BY DEF ConnectionTypeOK, TrackerTypeOK
  <2>2. QED
    BY <1>4, <2>1 DEF TrackRequest, Dropped
<1>8. QED
  BY <1>5, <1>6, <1>7

\* A response meets its own request's handler: that of a request the tracker
\* holds finds it, and that which finds one is for its request.
LEMMA ResponseMeetsHandler ==
  ASSUME ConnectionTypeOK, NEW log \in Logs, NEW W, NEW R, NEW M, Numbered(log, W, R, M),
         NEW msg \in M, msg \in Message, msg.type = "response",
         msg.of \in Held \/ pending[msg.id] # NoReq
  PROVE  pending[msg.id] = msg.of /\ msg.id \in Ids /\ msg.of \in Req
<1>1. msg \in Response
  BY DEF Message, RawIncoming, Notification, Garbage
<1>2. log \in Seq(Req) /\ IsInjective(log) /\ DOMAIN log = 1 .. Len(log) /\ Len(log) \in Nat
  BY LogIsSequence
<1>3. /\ msg.id \in Nat /\ msg.id \in Ids /\ msg.id < Len(log) /\ msg.of = log[msg.id + 1]
      /\ msg.of \in Req
  BY <1>1, TrackerAssumption DEF Numbered, Response, Ids
<1>4. CASE msg.of \in Held
  <2>1. PICK i \in Ids : pending[i] = msg.of
    BY <1>4, HeldUnderId DEF ConnectionTypeOK
  <2>2. i < Len(log) /\ log[i + 1] = msg.of /\ i \in Nat
    BY <1>3, <2>1, TrackerAssumption DEF Numbered, Ids
  <2>3. i + 1 = msg.id + 1
    BY <1>2, <1>3, <2>2 DEF IsInjective
  <2>4. QED
    BY <1>3, <2>1, <2>2, <2>3
<1>5. CASE pending[msg.id] # NoReq
  BY <1>3, <1>5 DEF Numbered
<1>6. QED
  BY <1>4, <1>5

\* Handling a message takes no handler but that of the request it answers.
LEMMA HandledIsHeld ==
  ASSUME ConnectionTypeOK, OneIdEach, NEW log \in Logs, NEW W, NEW R, NEW M,
         Numbered(log, W, R, M), NEW msg \in M, msg \in RawIncoming, HandleIncoming(msg)
  PROVE  Held \ (IF msg.type = "response" THEN {msg.of} ELSE {}) \subseteq Held'
<1>1. CASE UNCHANGED trackerVars
  BY <1>1 DEF trackerVars, Held
<1>2. ASSUME NEW r \in Held, msg \in Response, pending[msg.id] = r, Held' = Held \ {r}
      PROVE  Held \ (IF msg.type = "response" THEN {msg.of} ELSE {}) \subseteq Held'
  <2>1. msg.type = "response" /\ pending[msg.id] # NoReq /\ msg \in Message
    BY <1>2, TrackerAssumption DEF Response, Held, Message
  <2>2. pending[msg.id] = msg.of
    BY <2>1, ResponseMeetsHandler
  <2>3. QED
    BY <1>2, <2>1, <2>2
<1>3. QED
  BY <1>1, <1>2, HandleIncomingOwnership DEF ConnectionTypeOK

\* Whatever the server does, in front of the requests that are not on the wire
\* yet and behind the messages that the client has in its hand.
LEMMA ServerFlight ==
  ASSUME WireTypeOK, WireTypeOK', OwedOnce, ServerNext, NEW X \in Seq(Req), NEW handlers,
         NEW P \in Seq(Message), InFlightOnce(RequestsOnWire \o X, OwedRequests, P \o s2c, handlers)
  PROVE  InFlightOnce(RequestsOnWire' \o X, OwedRequests', P \o s2c', handlers)
<1> DEFINE msgs == P \o s2c
<1>1. RequestsOnWire \in Seq(Req) /\ RequestsOnWire' \in Seq(Req) /\ s2c \in Seq(Message)
  BY WireIs, WireBecomes DEF WireTypeOK
<1>2. ASSUME NEW h \in Seq(Req), RequestsOnWire = h \o RequestsOnWire',
             OwedRequests' \subseteq OwedRequests \cup Range(h), UNCHANGED s2c
      PROVE  InFlightOnce(RequestsOnWire' \o X, OwedRequests', msgs, handlers)
  <2> DEFINE a == <<>>
             c == RequestsOnWire' \o X
             o == OwedRequests'
  <2>1. a \in Seq(Req) /\ c \in Seq(Req)
    BY <1>1, ConcatProperties
  <2>2. RequestsOnWire \o X = a \o h \o c /\ c = a \o c
    <3> DEFINE w == RequestsOnWire'
    <3>1. w \in Seq(Req) /\ RequestsOnWire \o X = (h \o w) \o X
      BY <1>1, <1>2
    <3>2. h \o (w \o X) = (h \o w) \o X
      <4> HIDE DEF w
      <4>1. QED
        BY <3>1, Regrouped
    <3>3. <<>> \o h = h /\ <<>> \o c = c
      <4> HIDE DEF c
      <4>1. QED
        BY <2>1, ConcatEmptySeq
    <3>4. QED
      BY <3>1, <3>2, <3>3
  <2>3. InFlightOnce(a \o h \o c, OwedRequests, msgs, handlers)
    BY <2>2
  <2>4. o \subseteq OwedRequests \cup Range(h) /\ AnsweredBy(msgs) \cap o = {}
    <3>1. Range(RequestsOnWire \o X) = Range(RequestsOnWire) \cup Range(X)
      BY <1>1, RangeConcatenation
    <3>2. Range(RequestsOnWire) = Range(h) \cup Range(RequestsOnWire')
      BY <1>1, <1>2, RangeConcatenation
    <3>3. AnsweredBy(msgs) \cap (Range(RequestsOnWire \o X) \cup OwedRequests) = {}
      BY DEF InFlightOnce
    <3> HIDE DEF msgs
    <3>4. QED
      BY <1>2, <3>1, <3>2, <3>3
  <2> HIDE DEF a, c, o, msgs
  <2>5. InFlightOnce(a \o c, o, msgs, handlers)
    BY <2>1, <2>3, <2>4, InFlightLess
  <2>6. QED
    BY <2>2, <2>5 DEF a, c, o
<1>3. CASE ServerReceives
  <2>1. PICK h \in Seq(Req) : /\ RequestsOnWire = h \o RequestsOnWire'
                              /\ OwedRequests' = OwedRequests \cup Range(h)
    BY <1>3, ServerReceivesMoves
  <2>2. UNCHANGED s2c
    BY <1>3 DEF ServerReceives
  <2>3. QED
    BY <1>2, <2>1, <2>2
<1>4. CASE ServerCloses
  <2>1. PICK h \in Seq(Req) : RequestsOnWire = h \o RequestsOnWire'
    BY <1>4, ServerClosesMoves
  <2>2. UNCHANGED s2c /\ OwedRequests' = {}
    BY <1>4, ServerClosesMoves DEF ServerCloses
  <2>3. QED
    BY <1>2, <2>1, <2>2
<1>5. CASE ~ServerReceives /\ ~ServerCloses
  <2>1. PICK msg \in Message :
          /\ s2c' = Append(s2c, msg) /\ RequestsOnWire' = RequestsOnWire
          /\ IF msg.type = "response"
             THEN msg.of \in OwedRequests /\ OwedRequests' = OwedRequests \ {msg.of}
             ELSE OwedRequests' = OwedRequests
    BY <1>5, ServerSendsMoves
  <2>2. msgs \in Seq(Message) /\ P \o s2c' = Append(msgs, msg)
    BY <1>1, <2>1
  <2>3. InFlightOnce(RequestsOnWire \o X, OwedRequests', Append(msgs, msg), handlers)
    <3> DEFINE out == RequestsOnWire \o X
               o == OwedRequests'
    <3>1. /\ InFlightOnce(out, OwedRequests, msgs, handlers)
          /\ IF msg.type = "response"
             THEN msg.of \in OwedRequests /\ o = OwedRequests \ {msg.of}
             ELSE o = OwedRequests
      BY <2>1
    <3> HIDE DEF out, o, msgs
    <3>2. InFlightOnce(out, o, Append(msgs, msg), handlers)
      BY <2>2, <3>1, InFlightAnswered
    <3>3. QED
      BY <3>2 DEF out, o
  <2>4. QED
    BY <2>1, <2>2, <2>3
<1>6. QED
  BY <1>3, <1>4, <1>5

\* In the beginning nothing is on its way.
LEMMA ContractInit ==
  ASSUME ConnectionInit
  PROVE  /\ RequestsOnWire = <<>> /\ FlattenSeq(chan) = <<>> /\ Sent = {}
         /\ OwedRequests = {} /\ WithoutIds(s2c) = <<>> /\ WithoutIds(events) = <<>>
         /\ InFlightOnce(RequestsOnWire, OwedRequests, s2c, Held)
<1>1. /\ sent = <<>> /\ chan = <<>> /\ events = <<>> /\ held = <<>> /\ c2s = <<>> /\ s2c = <<>>
      /\ owed = {}
  BY DEF ConnectionInit
<1>2. RequestsOnWire = <<>>
  <2>1. c2s \o held = <<>>
    BY <1>1
  <2>2. QED
    BY <2>1, LinesOfNone, Zenon DEF RequestsOnWire
<1>3. FlattenSeq(chan) = <<>>
  BY <1>1, FlattenEmpty, Zenon
<1>4. Sent = {} /\ OwedRequests = {} /\ WithoutIds(s2c) = <<>> /\ WithoutIds(events) = <<>>
  BY <1>1 DEF Sent, Range, OwedRequests, WithoutIds
<1>5. AnsweredBy(s2c) = {} /\ Range(RequestsOnWire) = {} /\ IsInjective(RequestsOnWire)
  BY <1>1, <1>2 DEF AnsweredBy, Range, IsInjective
<1>6. InFlightOnce(RequestsOnWire, OwedRequests, s2c, Held)
  BY <1>1, <1>4, <1>5 DEF InFlightOnce
<1>7. QED
  BY <1>2, <1>3, <1>4, <1>6

=============================================================================
