---------------------------- MODULE ReadStreamer ----------------------------
(***************************************************************************)
(* ReadStreamer, which turns a byte stream into messages (io.rs): bytes    *)
(* are gathered in buf up to a newline, a line is parsed into one message  *)
(* or a batch of them, and the messages are handed out one by one.         *)
(*                                                                         *)
(* The Iterator and the Stream take the same steps; where the Iterator     *)
(* blocks, the Stream puts its reader back and returns Pending, and its    *)
(* caller may drop the call and make another.  The loop in next and in     *)
(* poll_next is modelled one iteration at a time.                          *)
(*                                                                         *)
(* A byte is a pair of the line it is of and its place there; what a line  *)
(* contains is its kind: a message, a batch of two, an empty batch, or     *)
(* something that does not parse, like a batch with one bad element.       *)
(***************************************************************************)
EXTENDS Naturals, SequencesExt

CONSTANT
  MaxLines  \* bound: lines of a stream

ASSUME StreamerAssumption == MaxLines \in Nat

VARIABLES
  script,    \* the kinds of the lines of the stream
  whole,     \* how many of them have their newline
  wire,      \* the bytes still to be read
  ready,     \* how many of them have arrived
  failed,    \* whether a read has failed
  reader,    \* whether the reader is still there
  buf,       \* the bytes of the line that is being read
  queue,     \* parsed messages to hand out
  err,       \* whether an error is to be handed out
  out,       \* what was handed out
  panicked,  \* whether an assertion failed
  ended      \* whether the end was handed out

streamVars == <<script, whole, wire, ready, failed>>
selfVars == <<reader, buf, queue, err>>
vars == <<streamVars, selfVars, out, panicked, ended>>

Kinds == {"single", "batch", "empty", "bad"}

\* Two bytes of text and the newline.
Newline(k) == <<k, 3>>
BytesOf(k) == <<<<k, 1>>, <<k, 2>>, Newline(k)>>
IsNewline(byte) == byte[2] = 3

\* The place of a byte in the stream.
Place(byte) == 3 * (byte[1] - 1) + byte[2]

Bytes == (1 .. MaxLines) \X (1 .. 3)

\* The messages of the k-th line, as pairs of the line and the place in it.
MessagesOf(k) ==
  CASE script[k] = "single" -> <<<<k, 1>>>>
    [] script[k] = "batch" -> <<<<k, 1>>, <<k, 2>>>>
    [] OTHER -> <<>>

Messages == (1 .. MaxLines) \X (1 .. 2)

Error == <<"error">>

TypeOK ==
  /\ script \in SeqOf(Kinds, MaxLines)
  /\ whole \in 0 .. Len(script)
  /\ wire \in Seq(Bytes) /\ ready \in 0 .. Len(wire)
  /\ failed \in BOOLEAN
  /\ reader \in BOOLEAN /\ err \in BOOLEAN
  /\ buf \in Seq(Bytes)
  /\ queue \in Seq(Messages)
  /\ out \in Seq(Messages \cup {Error})
  /\ panicked \in BOOLEAN /\ ended \in BOOLEAN

\* The stream may be cut anywhere.
Init ==
  /\ script \in SeqOf(Kinds, MaxLines)
  /\ wire \in Prefixes(FlattenSeq([k \in DOMAIN script |-> BytesOf(k)]))
  /\ whole = Len(wire) \div 3
  /\ ready = 0 /\ failed = FALSE
  /\ reader = TRUE /\ buf = <<>> /\ queue = <<>> /\ err = FALSE
  /\ out = <<>> /\ panicked = FALSE /\ ended = FALSE

-----------------------------------------------------------------------------
\* The transport: more bytes arrive.
Arrive ==
  /\ ready' \in ready + 1 .. Len(wire)
  /\ UNCHANGED <<script, whole, wire, failed, selfVars, out, panicked, ended>>

\* The line that a text is, if it is the whole text of one that parses.
Parsed(text) ==
  {k \in DOMAIN script : script[k] # "bad" /\ text = SubSeq(BytesOf(k), 1, 2)}

\* Mutants: the reader is put back after a line that does not parse; it is
\* put back at the end of the stream; buf is not cleared after a line.
EnqueueAfterError(bytes) ==
  LET text == Front(bytes) IN
  \/ bytes = <<>> /\ reader' = FALSE /\ UNCHANGED <<buf, queue, err, panicked>>
  \/ /\ bytes # <<>> /\ Parsed(text) # {}
     /\ \E k \in Parsed(text) : queue' = queue \o MessagesOf(k)
     /\ buf' = <<>>
     /\ UNCHANGED <<reader, err, panicked>>
  \/ /\ bytes # <<>> /\ Parsed(text) = {}
     /\ err' = TRUE /\ buf' = <<>>
     /\ UNCHANGED <<reader, queue, panicked>>

EnqueueAtEnd(bytes) ==
  LET text == Front(bytes) IN
  \/ bytes = <<>> /\ UNCHANGED <<reader, buf, queue, err, panicked>>
  \/ /\ bytes # <<>> /\ Parsed(text) # {}
     /\ \E k \in Parsed(text) : queue' = queue \o MessagesOf(k)
     /\ buf' = <<>>
     /\ UNCHANGED <<reader, err, panicked>>
  \/ /\ bytes # <<>> /\ Parsed(text) = {}
     /\ err' = TRUE /\ buf' = text /\ reader' = FALSE
     /\ UNCHANGED <<queue, panicked>>

EnqueueKeepsBuf(bytes) ==
  LET text == Front(bytes) IN
  \/ bytes = <<>> /\ reader' = FALSE /\ UNCHANGED <<buf, queue, err, panicked>>
  \/ /\ bytes # <<>> /\ Parsed(text) # {}
     /\ \E k \in Parsed(text) : queue' = queue \o MessagesOf(k)
     /\ buf' = text
     /\ UNCHANGED <<reader, err, panicked>>
  \/ /\ bytes # <<>> /\ Parsed(text) = {}
     /\ err' = TRUE /\ buf' = text /\ reader' = FALSE
     /\ UNCHANGED <<queue, panicked>>

\* _enqueue_from_buf, once the reader has added bytes to buf.  The newline
\* is dropped; a line that parses is queued and buf cleared, and the reader
\* is kept only then.
EnqueueFromBuf(bytes) ==
  LET text == Front(bytes) IN
  \/ /\ bytes = <<>>
     /\ reader' = FALSE
     /\ UNCHANGED <<buf, queue, err, panicked>>
  \/ /\ bytes # <<>> /\ ~IsNewline(Last(bytes))
     /\ panicked' = TRUE
     /\ buf' = text /\ reader' = FALSE
     /\ UNCHANGED <<queue, err>>
  \/ /\ bytes # <<>> /\ IsNewline(Last(bytes)) /\ Parsed(text) # {}
     /\ \E k \in Parsed(text) : queue' = queue \o MessagesOf(k)
     /\ buf' = <<>>
     /\ UNCHANGED <<reader, err, panicked>>
  \/ /\ bytes # <<>> /\ IsNewline(Last(bytes)) /\ Parsed(text) = {}
     /\ err' = TRUE /\ buf' = text /\ reader' = FALSE
     /\ UNCHANGED <<queue, panicked>>

\* What read_until takes from the buffered reader.
Consume(n) ==
  /\ wire' = SubSeq(wire, n + 1, Len(wire))
  /\ ready' = ready - n
  /\ UNCHANGED <<script, whole, failed>>

NewlinesReady == {n \in 1 .. ready : IsNewline(wire[n])}

Reads == queue = <<>> /\ ~err /\ reader /\ ~panicked

-----------------------------------------------------------------------------
\* next and poll_next: the queue first, then the error, then the reader.
HandOut ==
  /\ queue # <<>>
  /\ out' = Append(out, Head(queue)) /\ queue' = Tail(queue)
  /\ UNCHANGED <<streamVars, reader, buf, err, panicked, ended>>

HandOutError ==
  /\ queue = <<>> /\ err
  /\ out' = Append(out, Error) /\ err' = FALSE
  /\ UNCHANGED <<streamVars, reader, buf, queue, panicked, ended>>

HandOutEnd ==
  /\ queue = <<>> /\ ~err /\ ~reader /\ ~panicked
  /\ ended' = TRUE
  /\ UNCHANGED <<streamVars, selfVars, out, panicked>>

\* A newline has arrived: read_until reads through the first of them.
ReadLine ==
  /\ Reads /\ NewlinesReady # {}
  /\ LET n == Min(NewlinesReady) IN
     /\ Consume(n)
     /\ EnqueueFromBuf(buf \o SubSeq(wire, 1, n))
  /\ UNCHANGED <<out, ended>>

\* Mutant: the part of the line that was read goes with the dropped call.
ReadPartLost ==
  /\ Reads /\ NewlinesReady = {} /\ ready > 0
  /\ Consume(ready)
  /\ UNCHANGED <<buf, reader, queue, err, out, panicked, ended>>

\* None has: read_until takes what is there and waits, or returns Pending.
ReadPart ==
  /\ Reads /\ NewlinesReady = {} /\ ready > 0
  /\ Consume(ready)
  /\ buf' = buf \o SubSeq(wire, 1, ready)
  /\ UNCHANGED <<reader, queue, err, out, panicked, ended>>

\* The stream is at its end.
ReadEnd ==
  /\ Reads /\ wire = <<>>
  /\ EnqueueFromBuf(buf)
  /\ UNCHANGED <<streamVars, out, ended>>

\* A read fails, perhaps with bytes taken before: the reader is not put back.
ReadFails ==
  /\ Reads /\ NewlinesReady = {}
  /\ failed' = TRUE
  /\ err' = TRUE /\ reader' = FALSE
  /\ UNCHANGED <<script, whole, wire, ready, buf, queue, out, panicked, ended>>

-----------------------------------------------------------------------------
Step ==
  \/ HandOut
  \/ HandOutError
  \/ HandOutEnd
  \/ ReadLine
  \/ ReadPart
  \/ ReadEnd

Next == Arrive \/ Step \/ ReadFails

Spec == Init /\ [][Next]_vars

\* The bytes arrive, and the user keeps asking for the next message.
FairSpec == Spec /\ WF_vars(Arrive) /\ WF_vars(Step)

-----------------------------------------------------------------------------
(***************************************************************************)
(* Properties.                                                             *)
(***************************************************************************)

\* The messages of a line, unless it is or comes after a bad one.
GoodLine(k) == IF \A j \in 1 .. k : script[j] # "bad" THEN MessagesOf(k) ELSE <<>>

GoodMessages(lines) ==
  FlattenSeq([k \in DOMAIN script |-> IF k \in lines THEN GoodLine(k) ELSE <<>>])

HandedOut == FlattenSeq([n \in DOMAIN out |-> IF out[n] = Error THEN <<>> ELSE <<out[n]>>])
Taken == HandedOut \o queue

\* However the bytes of a line are scattered over reads, and calls dropped in
\* between, the messages of all whole lines up to a bad one are handed out
\* once each and in order: what was handed out, what is queued and what is
\* on the wire are always all of them, unless a read has failed.
MessagesConserved ==
  LET left == IF reader THEN {wire[n][1] : n \in {n \in DOMAIN wire : IsNewline(wire[n])}} ELSE {}
  IN /\ IsPrefix(Taken, GoodMessages(1 .. whole))
     /\ ~failed => Taken \o GoodMessages(left) = GoodMessages(1 .. whole)

\* Nothing is handed out after an error but the end, and nothing after that.
NothingAfterError ==
  [][(Error \in Range(out) \/ ended) => (out' = out)]_vars

\* The bytes that are not parsed are those of the stream from the beginning of
\* a line on, and what was taken from the lines before are all their messages.
UnparsedFrom(line) ==
  LET unparsed == buf \o wire IN
  /\ 3 * line + Len(unparsed) \in 3 * whole .. 3 * whole + 2
  /\ \A n \in DOMAIN unparsed : Place(unparsed[n]) = 3 * line + n
  /\ Len(buf) <= 2
  /\ \A k \in 1 .. line : script[k] # "bad"
  /\ Taken = GoodMessages(1 .. line)

\* Without the reader all messages up to some line were taken, and if no read has
\* failed those of all lines.
InOrder ==
  /\ reader => \E line \in 0 .. whole : UnparsedFrom(line)
  /\ ~reader => \E line \in 0 .. whole : Taken = GoodMessages(1 .. line)
  /\ ~reader /\ ~failed => Taken = GoodMessages(1 .. whole)

\* The reader goes before the error, and the queue and the error before the end.
InTurn ==
  /\ err \/ panicked => ~reader
  /\ Error \in Range(out) \/ ended => ~reader /\ ~err /\ queue = <<>>

\* What every step preserves: MessagesConserved and NothingAfterError follow.
IInv == TypeOK /\ InOrder /\ InTurn

\* Every stream ends, unless the reader panics: no call of next or poll_next
\* loops for good on an empty batch, an error or the end of the stream.
EventuallyEnds == <>(ended \/ panicked)

\* What the assertion in _enqueue_from_buf says (io.rs:86): the bytes that
\* were read end with a newline.
BufEndsWithNewline == ~panicked

=============================================================================
