--------------------------- MODULE ClientContract ---------------------------
(***************************************************************************)
(* What either client promises its callers, with no ids, no threads and no *)
(* tracker: requests reach the server in the order they were sent, what    *)
(* the server sends takes effect in the order it was sent, each answer     *)
(* settles the request it answers, and a request is canceled only if its   *)
(* answer is malformed or the client is stopping.                          *)
(*                                                                         *)
(* A client stops reading and stops writing, together or one after the     *)
(* other; nothing is answered or emitted after the first, and nobody waits *)
(* any more when both are over.                                            *)
(***************************************************************************)
EXTENDS Naturals, SequencesExt

CONSTANTS
  Req,      \* the requests of a session
  EventReq  \* those whose response is an event

VARIABLES
  sent,       \* the requests given to the client
  reply,      \* how each was settled, "open" before, "abandoned" by its caller
  accepting,  \* whether the client takes requests
  outbox,     \* the requests on their way to the server
  owed,       \* the requests the server has still to answer
  inbox,      \* what the server sent and has not taken effect
  events,     \* the events emitted
  listening,  \* whether there is a receiver of events
  reading, writing,  \* what the client still does
  peer        \* whether the server keeps the connection "open"

vars == <<sent, reply, accepting, outbox, owed, inbox, events, listening,
          reading, writing, peer>>

Response == [type : {"response"}, of : Req, result : {"ok", "error", "malformed"}]

Other == {[type |-> "notification", params |-> p] : p \in {"valid", "malformed"}}
         \cup {[type |-> "garbage"]}

Init ==
  /\ sent = {} /\ reply = [r \in Req |-> "open"] /\ accepting = TRUE
  /\ outbox = <<>> /\ owed = {} /\ inbox = <<>>
  /\ events = <<>> /\ listening = TRUE
  /\ reading = TRUE /\ writing = TRUE /\ peer = "open"

Canceled(R) ==
  [r \in Req |-> IF r \in R /\ reply[r] = "open" THEN "canceled" ELSE reply[r]]

-----------------------------------------------------------------------------
\* The callers.
Send(batch) ==
  /\ sent' = sent \cup Range(batch)
  /\ \/ accepting /\ outbox' = outbox \o batch /\ UNCHANGED reply
     \/ ~accepting /\ reply' = Canceled(Range(batch)) /\ UNCHANGED outbox
  /\ UNCHANGED <<accepting, owed, inbox, events, listening, reading, writing, peer>>

Abandon(r) ==
  /\ r \in sent /\ reply[r] = "open"
  /\ reply' = [reply EXCEPT ![r] = "abandoned"]
  /\ UNCHANGED <<sent, accepting, outbox, owed, inbox, events, listening, reading, writing, peer>>

StopAccepting ==
  /\ accepting' = FALSE
  /\ UNCHANGED <<sent, reply, outbox, owed, inbox, events, listening, reading, writing, peer>>

StopListening ==
  /\ listening' = FALSE
  /\ UNCHANGED <<sent, reply, accepting, outbox, owed, inbox, events, reading, writing, peer>>

-----------------------------------------------------------------------------
\* The server.
ServerTakes(n) ==
  /\ peer = "open"
  /\ owed' = owed \cup Range(SubSeq(outbox, 1, n))
  /\ outbox' = SubSeq(outbox, n + 1, Len(outbox))
  /\ UNCHANGED <<sent, reply, accepting, inbox, events, listening, reading, writing, peer>>

ServerSends(msg) ==
  /\ peer = "open"
  /\ \/ msg.type = "response" /\ msg.of \in owed /\ owed' = owed \ {msg.of}
     \/ msg \in Other /\ UNCHANGED owed
  /\ inbox' = Append(inbox, msg)
  /\ UNCHANGED <<sent, reply, accepting, outbox, events, listening, reading, writing, peer>>

\* What is on its way to the server when it closes is lost with it.
ServerCloses(n) ==
  /\ peer' = "closed" /\ owed' = {}
  /\ outbox' = SubSeq(outbox, n + 1, Len(outbox))
  /\ UNCHANGED <<sent, reply, accepting, inbox, events, listening, reading, writing>>

-----------------------------------------------------------------------------
\* The client.  MayStop: reading and writing may end with the step.
MayStop == (reading' => reading) /\ (writing' => writing)

Deliver ==
  /\ reading /\ inbox # <<>>
  /\ inbox' = Tail(inbox)
  /\ LET msg == Head(inbox)
         Settle == /\ msg.type = "response"
                   /\ reply' = [reply EXCEPT ![msg.of] =
                        IF @ = "abandoned" THEN @
                        ELSE IF msg.result = "malformed" THEN "canceled" ELSE msg.result]
         Usable == \/ msg.type = "response" /\ msg.result # "malformed"
                   \/ msg.type = "notification" /\ msg.params # "malformed"
         IsEvent == Usable /\ (msg.type = "response" => msg.of \in EventReq)
     IN /\ Settle \/ (msg.type # "response" /\ UNCHANGED reply)
        /\ IF IsEvent /\ listening THEN events' = Append(events, msg) ELSE UNCHANGED events
        /\ ~Usable \/ (IsEvent /\ ~listening) => ~reading'
  /\ MayStop
  /\ UNCHANGED <<sent, accepting, outbox, owed, listening, peer>>

\* The client stops writing, and what it was about to write is lost; or a
\* closed server loses it.
Lose(from, to) ==
  /\ MayStop
  /\ ~writing' \/ peer = "closed"
  /\ outbox' = SubSeq(outbox, 1, from) \o SubSeq(outbox, to + 1, Len(outbox))
  /\ UNCHANGED <<sent, reply, accepting, owed, inbox, events, listening, peer>>

Stop ==
  /\ MayStop
  /\ UNCHANGED <<sent, reply, accepting, outbox, owed, inbox, events, listening, peer>>

\* Once the client has stopped writing it takes no more requests, and those
\* it has not begun to write are canceled: all of them, and with them every
\* other request that waits once it has stopped reading as well.
Cancel(n) ==
  /\ ~writing
  /\ accepting' = FALSE
  /\ outbox' = SubSeq(outbox, 1, n)
  /\ reply' \in {Canceled(Range(SubSeq(outbox, n + 1, Len(outbox))))}
               \cup (IF reading THEN {} ELSE {Canceled(sent)})
  /\ UNCHANGED <<sent, owed, inbox, events, listening, reading, writing, peer>>

-----------------------------------------------------------------------------
Next ==
  \/ \E batch \in SeqOf(Req \ sent, Cardinality(Req)) : Send(batch)
  \/ \E r \in Req : Abandon(r)
  \/ StopAccepting
  \/ StopListening
  \/ \E n \in 0 .. Len(outbox) : ServerTakes(n) \/ ServerCloses(n) \/ Cancel(n)
  \/ \E msg \in Response \cup Other : ServerSends(msg)
  \/ Deliver
  \/ \E from, to \in 0 .. Len(outbox) : from <= to /\ Lose(from, to)
  \/ Stop

Spec == Init /\ [][Next]_vars

=============================================================================
