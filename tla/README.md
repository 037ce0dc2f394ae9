# A verification of electrum_streaming_client

TLA+ models of the crate, TLC configurations that check them on small
instances, and TLAPS proofs about the tracker, the wire format, both clients,
the streamer and the typed data.
The crate is a client of the Electrum protocol (JSON-RPC, one message or batch per line): a sans-IO core, a
blocking client of two threads, an async client of one future, and typed
requests, responses and notifications. `PROJECT.json` maps each definition to
the source lines it stands for.

## 1. The system

| Component | State | Operations | Interacts through | Hard behaviours |
|---|---|---|---|---|
| `RequestTracker` (request_tracker.rs) | map from id to handler; `next_id` is its user's | `track_request`, `handle_incoming`, `pending_requests`, `clear` | called by the clients, or by a sans-IO user | ids that wrap, answers that are late or come twice after a retry, `clear` |
| `PendingRequest`, `BatchRequest` (pending_request.rs) | a one-shot handler; the caller's reply channel | `handle`, `request_async`, `request_blocking`, `event_request` | consumed by the tracker | a dropped handler is the caller's `Canceled` |
| `BlockingClient` (client.rs) | two threads, one mutex around the tracker, two channels | `send_request`, `send_event_request`, `send_batch`, both thread bodies | channels, the mutex, the transport | interleavings, one thread ending before the other, callbacks under the mutex, poisoning |
| `AsyncClient` (client.rs) | one future that owns tracker and channel ends | the same, `close`, the select loop | channels, the transport | reads nothing while it writes; can be dropped at any await |
| `ReadStreamer`, writers (io.rs) | reader, line buffer, queue, error | `next`, `poll_next`, `blocking_write`, `async_write` | transport below, clients above | partial lines, errors, truncated streams, writers that buffer |
| JSON-RPC types (protocol.rs, custom_serde.rs) | none | encoding and decoding of objects and one-or-many | `ReadStreamer`, the writers | untagged variants, keys in any order |
| Typed data (request.rs, response.rs, notification.rs, hash_types.rs) | none | parameters, decoders, `try_to_headers`, `from_history`, `expected_merkle_root` | handlers and events | agreement with what the server computes |

What makes each correct:

- *Tracker*: an answer goes to the request it was made for; no handler is lost
  while a caller waits; a resolved request stays resolved; a retry forgets
  none; every tracked request is resolved in the end.
- *Clients*: the handler of an open request is in exactly one place; an answer
  always finds it; requests reach the server, and events the user, in order;
  nobody waits for a client that has ended; parts do not wait on each other.
- *Streamer*: each message is handed out once and in order, however the bytes
  arrive; nothing follows an error; a stream ends.
- *JSON-RPC types*: every line of a server that conforms is understood as it
  was meant, and a batch reaches the server whole and in its order.
- *Typed data*: what the crate derives is what the server meant.

The hazards, each at its line, are in `PROJECT.json`, with the properties that
catch them.

## 2. The modules

```
RequestTracker ──► TrackerSession ──► MCTrackerSession
      │                  └ INSTANCE ┐
      ├─► WireSession ──────────────┴─► MCWireSession
      │         └ INSTANCE ─► WireFormat
      └─► Connection ─► BlockingClient ─► MCBlockingClient
                    │         └─ INSTANCE ──► ClientContract
                    └─► AsyncClient ────► MCAsyncClient
                              └─ INSTANCE ──► ClientContract
ReadStreamer
FeeRates ─► ServerData ─► WalletSession ─► MCWalletSession
```

The proofs are in modules of their own, one beside each of the modules they
are about; each extends that module and the proofs named before it.
`SharedLemmas` has what is said of sequences and of the operators of
`RequestTracker`, `ConnectionProofs` what the clients' invariants and refinements
need of `Connection`:

```
SharedLemmas ─┬─► TrackerSessionProofs ── INSTANCE ──┐
              ├─► WireSessionProofs ◄────────────────┘
              ├─► ConnectionProofs ─┬─► BlockingClientProofs
              │                     └─► AsyncClientProofs
              ├─► ReadStreamerProofs
              └─► WalletSessionProofs
```

`ReadStreamerProofs` and `WalletSessionProofs` use the first part only, which says
nothing of a tracker.

**RequestTracker.** A request is a model value whose handler is in one place.
`reply[r]` is the caller's reply channel: `open`, `abandoned` (the receiver is
gone), `ok`, `error` or `canceled` (the handler was dropped). `TrackRequest`
gives out ids modulo `IdCount` (2^32 in the code) and replaces, and so drops,
what the map held under them. `HandleIncoming` removes the handler before it
runs it; a result that does not parse drops it. `PendingRequests` and `Clear`
are the other two methods. A message carries the request it was made for, in a
field the tracker never reads: properties compare it with what was resolved.

**TrackerSession.** The tracker and a sans-IO user: batches, lost connections
on which part of the answers was already read, `pending_requests` sent again,
`clear`, callers that give up, a server that answers in any order. Requests and
answers are loose messages here; `WireSession` shows that this is right.

**WireFormat** and **WireSession.** A JSON object is the sequence of its entries,
in the order in which they were written, since decoders go through them in that
order. `PushOpt` builds single items and batches, `DecodeIncoming` tries the
variants of the untagged enum one by one, `DecodeResult` takes the first key of
the flattened one. The session is a driver that writes lines and queues what it
reads, as `ReadStreamer` does, and a server of any style that conforms to
JSON-RPC: the keys of a message in any order, among them any of the server's
own (`OwnKeys`) at any place, arrays of answers, a null id in notifications. What the server means by an object is stated apart from
how the client decodes it. `ImplementsSession`: with lines, arrays and the queue
taken apart into what was meant, each step is one of `TrackerSession` or none,
so that decoding a line changes nothing.

**Connection.** What the clients share: the request channel (open, closed, or
without a receiver), the event channel, the two directions of the transport,
each with room for `WireCap` items, and the server. A line is written whole, or
the write fails or waits; a partial write is a failed one. The writer may hold
`WriterCap` lines back (`held`), since nothing flushes it: it transmits the
oldest when it is full, and when it is dropped transmits or loses the rest.

**BlockingClient.** One program counter per thread. The read thread reads, takes
the mutex, handles the message with callbacks, releases it, sends the event.
The write thread takes a batch, tracks it under the mutex, writes it without.
The mutex is held across steps only in a callback, which may panic (the mutex
is poisoned and the write thread panics at its next batch) or call
`send_request` itself. Handlers are dropped with the tracker, by whichever
thread ends last.

**AsyncClient.** What runs between two awaits is one step: select a request and
track it, await its write, or select a message and handle it. The worker ends
by any error, the end of the stream, `close`, a dropped event receiver, a panic
or an abort, and drops everything it owns.

**ClientContract.** What either client promises, without ids, threads, mutex or
tracker: requests and messages in order, to each its own answer, no
cancellation but of a malformed answer or by a client that stops. Both clients
refine it, which is checked and proved: their in-flight data, put together in
order, is its `outbox` and `inbox`. In the blocking client a message is in the inbox until its event has
been sent.

**ReadStreamer.** A byte is the pair of its line and its place in it; a line is
a message, a batch, an empty batch, or does not parse. `poll_next` that returns
`Pending` is `ReadPart`: the bytes are in `buf` and the reader is put back.

**ServerData** and **WalletSession.** The typed layer: methods and parameters of
the requests, decoders of results and notifications, and the three computations
on them. A hash is the term it is the hash of. **FeeRates** is the arithmetic of
fee rates: an f32 is its 24 bits and their exponent, and the three steps of the
code are operators on them, the f32 nearest to a decimal number (`Nearest`), the
product rounded to an f32 (`Times`) with the code's own factors, and the cast
(`Truncated`). The session has a
truthful server whose chain grows and whose tip is replaced, a wallet with two
transactions or more, each spending the one before, which it or somebody else
broadcasts, and both protocol versions. An answer is made at the moment the request is sent: the
delay before the server reads it is that of a wallet that asks later. With the
answers about coins goes the history that they are of, for the properties only.
Ids and threads are the other modules' subject.

## 3. The runs

| Run | Question | Properties |
|---|---|---|
| `session_reconnect` | Does every answer find its request over batches, two connections, retries, clears, abandoned calls? | `Correlated`, `AnswersFindTheirRequest`, `NoOrphan`, `PendingIsAsked`, `ResolvedOnce`, `IInv` (of which `TypeOK` is a part) |
| `wire` | Do lines, arrays, shapes and keys come down to the messages that `TrackerSession` has, and is every request resolved through a lost connection and ids that wrap? | `IInv` (of which `TypeOK` is a part), `LinesAreUnderstood`, `ImplementsSession`, `EventuallyResolved` |
| `blocking_safety` | Do two threads keep what one tracker promises, and implement the contract? | `TypeOK`, `Correlated`, `HandlerHeldOnce`, `NoWaiterWithoutThreads`, `AnswersFindTheirRequest`, `IInv`, `ImplementsContract` |
| `blocking_live` | Do threads, mutex and transport make progress, with callbacks that panic or call back? | `EventuallySettled`, `NestedCallIsNeverAnswered`, `PoisonCancelsOnNextRequest` |
| `blocking_shutdown` | Violated: does a waiting call return when the client has shut down? | `CallsReturnAfterShutdown` |
| `blocking_flush` | Violated: does what is sent with a writer that buffers reach the transport? | `SentIsTransmitted` |
| `async` | The same for the select loop, with panics, aborts and a writer that may buffer; is every request settled, and does `close` end the worker? | `TypeOK`, `Correlated`, `HandlerHeldOnce`, `AnswersFindTheirRequest`, `IInv`, `ImplementsContract`, `EventuallySettled`, `CloseEndsWorker` |
| `streamer` | Are messages conserved over fragments, bad lines, failed reads and cut streams? | `MessagesConserved`, `IInv` (of which `TypeOK` is a part), `NothingAfterError`, `EventuallyEnds` |
| `streamer_cut` | Violated: does the buffer always end with a newline? | `BufEndsWithNewline` |
| `wallet_data` | Does what the crate decodes and computes agree with the server's chain and mempool? | `MessagesDecode`, `GivenHeadersAreTrue`, `StatusTellsHistory`, `ProofsFitHeaders`, `CoinsAddUp`, `RatesAreClose`, `ScansAreAsked`, `IInv` (of which `TypeOK` is a part) |
| `wallet_history` | Violated: is a history of confirmed transactions only? | `HistoryIsConfirmed` |
| `wallet_fee` | Violated: does a transaction that pays the decoded minimum fee rate pay the server's? | `FloorSuffices` |

**What the violated ones show.**
`blocking_shutdown`: when the server closes, the read thread ends, but the write
thread keeps the tracker with the handlers, and the caller inside
`send_request` keeps the request channel open: the call never returns, where
its comment promises `Canceled`. `blocking_flush`: `write_all` is followed by no
flush, so a `BufWriter` keeps the request, and its caller waits; the README of
the crate allows any writer. `streamer_cut`: a connection
that ends in the middle of a line makes `_enqueue_from_buf` panic.
`wallet_history`: the comments of `GetHistory` say that it returns confirmed
transactions and no others, but its response decodes entries at the heights 0
and -1 to `MempoolTx`, servers send them, and `from_history` needs them: without
them it would not give the server's status (`StatusTellsHistory`). `wallet_fee`: 0.00001556
BTC/kvB is 389 sat/kwu, and becomes 388 in f32, below the server's minimum.
One more disagreement, too plain for a run: `try_to_headers` gives `None` for the
response to `HeadersSubscribe` (request_tracker.rs:46), the very example in its
comment (lines 29 to 33).

**Escapes in the liveness properties.** `EventuallySettled` of the async client
holds but for `MutualWait`: the worker awaits a write, for which there is no
room, and the server, which has stopped reading, waits for room for its
messages; and but for a request in a line that the writer holds back
(`HeldBack`), the subject of `blocking_flush`. `MutualWait` is reached within the
bounds of `async`, is final unless a fault or the user ends it, and is real, as
the worker reads nothing while it writes: without the escape both
`EventuallySettled` and `CloseEndsWorker` are violated, also after `close`, which
the worker does not see before the write ends. That of the blocking client, whose
threads read and write separately, has no such escape; it excludes a read thread
that has ended (the subject of `blocking_shutdown`) and a callback that waits for
a call of its own, which `NestedCallIsNeverAnswered` shows can only be canceled.
`PoisonCancelsOnNextRequest` starts from a write thread that is not in a write:
once the read thread has panicked nobody reads, a server that is full stops
reading too, and a write for which there is no room then keeps the thread from
its channel for good, with every batch that is sent from then on. The case needs
more requests than `blocking_live` has.

**Bounds, and why they are enough.** Three requests, so that a batch of two
meets a third, of the three kinds (awaited, abandonable, event) in the runs
where kinds matter; ids are exactly as many, so that a bound on ids hides
nothing but the wrap, for which `wire` has two ids for three requests (a wrapped
id cancels the request that still waits under it). Two connections give a retry
that races a late answer. `wire` runs two styles, which differ in every point, one
with two keys of the server's own among the three of the protocol; each further
style multiplies the states, and the theorems hold for all orders and any keys.
`Notify` waits until nothing else is on its way, as the order of notifications
among answers is the other runs' subject. `WriterCap` 1 makes every line be held
once; 0 is an unbuffered writer, in the runs about waiting. `WireCap` 1 and, in the live runs, `ServerCap` 1, are
the least room, where waiting on each other happens first; two notifications
fill the transport and a thread's hand besides. The streamer has three lines of
four kinds cut at every byte: a line before, at and after a bad or empty one.
The wallet has three blocks, of which one may replace another, of up to five
transactions (three levels of hashes, with a repeated one), and two requests,
enough to subscribe and to fetch what the subscription is about, or a balance
and the unspent outputs. Requests that leave nothing for a later one
(`LoneRequests`) are made alone. `Fillers` gives blocks of three, four and five
transactions, besides the first block, of one. `Counts`, the lengths of
the lists of headers that are asked for, has one above what some servers give
(`MaxCount`), and above what some chains have. `Rates` has rates that are exact
in f32 and ones that are not, in sat/vB or in BTC/kvB, none, less than one
sat/kwu, and ones on both sides of 2^23 sat/kvB, where the f32 has no bits left for
fractions; those of a histogram, of estimates, of floors and of the relay fee
are all among them. `MaxWeight` bounds a weight, 2^64 - 1 in the code.
`IdCount`, `MaxTracked`, `MaxBatch`, `MaxConn`, `MaxNotes`, `WireCap`,
`WriterCap`, `ServerCap`, `MaxLines`, `MaxBlocks`, `Fillers`, `Rates`, `MaxRequests`,
`Counts`, `MaxCount`, `MaxWeight` and `MaxHeights` are all the bounds. Requests that are not told apart are a
symmetry set in `session_reconnect`.

Deadlock checking is off: sessions end, threads and workers stop, and bounded
environments run out of steps.

**Fairness.** Threads and the worker are weakly fair, as the operating system
and the executor schedule them; a `select!` among ready futures picks at
random, and with finitely many messages starves neither. The server takes and
answers what it is sent, each answer separately weakly fair, unless it closes.
The sans-IO user of `WireSession` reads, handles and reconnects, and its server
answers while it holds requests; with finitely many of them one weakly fair
answer at a time is enough. That nobody waits for good is stated as: again and
again nobody waits (`[]<>`), which with finitely many requests is the same as
each being resolved, since a resolved one stays so. Bytes arrive and the
user of a streamer asks again. No user is obliged to send, close, drop or
abandon anything, and no fault is obliged to happen: in particular a write for
which there is no room may wait for good, as no transport owes it to fail, and no
writer owes it to hold the line back. A write goes on only if its line can be
transmitted (`WriteGoesOn`), which is fair; `WriteFails` and holding back are not.

## 4. What is proved

TLAPS proves the following for any sets of requests, streams of any number of
lines and all bounds. S stands for `TrackerSessionProofs`, A for
`AsyncClientProofs`, B for `BlockingClientProofs`, R for `ReadStreamerProofs`, W
for `WireSessionProofs`, D for `WalletSessionProofs`.

| Theorem | In | States | For |
|---|---|---|---|
| `TypeCorrect` | S A B R | `[]TypeOK`; no buffer exceeds its capacity | all ids |
| `HandlersAreOwned` | S A B | `[]OwnershipInv`, the first inductive invariant | all ids |
| `WireInvariant` | W | `[]IInv` of the wire session | all ids |
| `LinesUnderstood` | W | `LinesAreUnderstood`: a line decodes to what the server meant, in any order of its keys and with any keys besides | all ids |
| `ImplementsTheSession` | W | `ImplementsSession`: lines come down to the messages of `TrackerSession` | all ids |
| `HandlersAreKept` | W | over lines too: `NoOrphan`, `PendingIsAsked`, `ResolvedOnce` | all ids |
| `NoHandlerIsLost`, `ResolvedOnlyOnce`, `PendingIsAlwaysAsked` | S | `NoOrphan`, the action property `ResolvedOnce`, `PendingIsAsked` | all ids |
| `HandlersAreHeldOnce` | A B | `HandlerHeldOnce` | all ids |
| `NobodyWaitsInVain`, `NestedCallsAreNeverAnswered` | B | `NoWaiterWithoutThreads`, `NestedCallIsNeverAnswered` | all ids |
| `SessionInvariant` | S | `[]IInv`, the second inductive invariant | enough ids |
| `ClientInvariant` | A B | `[]NumberingInv`, the second inductive invariant | enough ids |
| `AnswersAreCorrelated` | W | over lines too: `Correlated`, `AnswersFindTheirRequest` | enough ids |
| `AnswersAreCorrelated`, `AnswersFindHandlers` | S A B | `Correlated`, `AnswersFindTheirRequest` | enough ids |
| `FlightInvariant` | A B | `[]IInv`, the third inductive invariant | enough ids |
| `ImplementsTheContract` | A B | `ImplementsContract`: the client implements `ClientContract` | enough ids |
| `StreamInvariant` | R | `[]IInv` of the streamer | any stream |
| `MessagesAreConserved`, `NothingComesAfterError` | R | `MessagesConserved`, the action property `NothingAfterError` | any stream |
| `WalletInvariant` | D | `[]IInv` of the wallet's session | any wallet, any chain |
| `AllMessagesDecode`, `HeadersAreTrue` | D | `MessagesDecode`, `GivenHeadersAreTrue` | any wallet, any chain |
| `StatusesTell` | D | `StatusTellsHistory`: a status tells whether a history is still the server's | any wallet, any chain |
| `BalancesAddUp`, `ScansStayAsked` | D | `CoinsAddUp`, `ScansAreAsked` | any amounts |

**Assumptions.** `TrackerAssumption`, `SessionAssumption`, `WireAssumption`,
`ConnectionAssumption`, `StreamerAssumption` and `WalletAssumption` say what the constants are, and TLC evaluates them on
each run. `WalletAssumption` has the wallet's transactions all different, none of
them a number, which in the model are the transactions of others, and no more
blocks than there are valid heights. "All ids" is without any other assumption, ids that wrap around
included. "Enough ids" is `MaxTracked <= IdCount` for a session and
`EnoughIds` for a client, no more requests than ids: it is a hypothesis of the
theorems that need it, and the code comes to it with 2^32 ids. Without it the
statements are false of the code, as an answer that is late by 2^32 requests
would find the handler of another one.

**Ownership.** `HandlerHeldOnce` counts the places of a handler, but does not
say that they are disjoint, nor anything about what the channel or a batch
holds twice; it does not survive a step by itself. `OwnershipInv` does:

- the tracker has each request under one id (`OneIdEach`), and the channel, or
  the write thread, has each once (`ChannelHoldsOnce`, `WaitsOnce`);
- those that wait to be tracked and those in the tracker are disjoint, they
  were sent, they are open or abandoned, and every other request that was sent
  is not open (`HandlersOwned`);
- for the blocking client, a thread that has stopped holds nothing
  (`StoppedThreadsHoldNothing`), and a call from a callback is not in the
  tracker (`NestedCallIsNeverAnswered`).

Where ids wrap, `track_request` replaces handlers. `TrackRequestOwnership`
shows that each of these is dropped, and so canceled, and that of those that
remain none is under two ids; `HandleIncomingOwnership` shows that a message
settles the one request whose handler it removes. Each invariant step goes
through these two and through lemmas on the channel (`OwnedSend`, `OwnedTrack`,
`OwnedDrop`, ...), which both clients share.

**Numbering.** `Correlated` says nothing of requests on their way, whose
answers are still to be made. `IInv` of a session and `NumberingInv` of a client
add where an id comes from: it is the
place of its request among the tracked ones. A session keeps that order (`log`);
for a client, there is a log (`IdsInOrder`) such that the ids in the tracker,
in lines that are written, held back or under way, at the server and in answers
are places in it, and `next_id` is its length (`Numbered`). A batch that is
tracked extends the log (`NumberedTrack`); with enough ids nothing is displaced
(`NothingDisplaced`). Since a log has each request once, an answer and a handler
with the same id are of the same request, also after a retry, a clear or a lost
connection, and the answer to an open request finds its handler
(`AnswerFindsRequest`).

**In flight once.** For the refinement numbering is not enough. The contract
moves requests from one place to the next, `outbox`, `owed` and `inbox`, and each
can be at one of them only. In the client that is so because ids are given once
and a batch is written once; but the lines are what the server reads, and
nothing in `NumberingInv` keeps a line from being there twice. `IInv` of a client
adds `InFlightOnce`: while the client reads, the requests on the wire or about to
be written, those the server owes an answer, and those its messages answer are
all different, and have a handler. Once it stops reading the contract promises
no more than cancellation, and neither does `IInv`. The blocking client's read
thread handles a message in one step and sends its event in a later one, between
which callers and the write thread take theirs: `EventIsDue` says that such an
event is of a request that is resolved already, so that the later step is the
contract's `Deliver` and the earlier one changes what the contract sees only
if there is no event to send.

`FlightStep` preserves it, and `StepRefines` maps each step: a caller's to the
step of the same name (`SendStep`, `CallerStep`), a batch that is tracked or
written to none, a message that takes effect to `Deliver`, one that fails, and a
thread or worker that ends, to `Lose` or `Stop` with the cancellations it makes,
the server's to `ServerTakes`, `ServerSends` and `ServerCloses`. The part of them
that both clients share, the movements of lines and messages, is in
`ConnectionProofs` (`WriteLineMoves`, `ServerReceivesMoves`, `DropHeldMoves`, ...).
A step of the wire is seen by the contract as a cut of a concatenation, so these
rest on `SharedLemmas`: what `FlattenSeq` gives for one line more or less. The
library's induction over sequences has an operator for a parameter and cannot be
used; there, induction is over a set of numbers (`Induction`), or by the least
counterexample (`LeastNatural`).

**Lines.** `ImplementsSession` sees on the way the *set* of what queue and lines
mean. It is a step of `TrackerSession` only if `Handle` takes exactly one message
from that set, so that no message may be there twice; and only if what decoding
gives is what the server meant. `IInv` of the wire session says why both are so.
The lines are objects of a server in its style, and an array is alone
(`LinesAreStyled`); what was sent on a connection that is lost is gone, and the
next one has a number of its own (`ConnectionOwns`); a request that the server
still holds was not answered on this connection, and each message in flight is
another (`AnsweredOnce`, with `OnlyTracked`). `ObjectsUnderstood` is the lemma on
decoding: for each order of the keys, with or without keys of the server's own
or a null id, the untagged enums pick the variant that was meant, the flattened
one its outcome. `ReadLineMoves` and `ServerSendsMoves` say that reading a line
changes nothing of what is in flight, `BatchRequestIs` and `BatchIsNew` that a
batch of any length, single or not, is on its line whole and in its order. The
theorems of `TrackerSession` are then instantiated for the session of lines
(`SameSession`), and hold of it as well.

**Streams.** `MessagesConserved` counts newlines on the wire, and says nothing of
the bytes in the buffer, which a later read completes. `IInv` of the streamer
does: while the reader is there, the buffer and the wire together are the bytes
of the stream from the beginning of some line on (`UnparsedFrom`, with a number
for the place of each byte), the lines before it are good, what was taken is all
their messages, and less than a line is in the buffer, however it was scattered
(`InOrder`); and the error is handed out after the reader is gone, the end after
the error (`InTurn`). `NextLine` shows that the bytes through the first newline
make exactly the next line, `ParsedLine` that it is parsed as itself,
`GoodSplit` that the messages of lines are those of the first and then of the
others. That `_enqueue_from_buf` panics at the end of a stream that is cut in the
middle of a line (`streamer_cut`) is part of the model, and loses no message of a
whole line.

**Typed data.** What the wallet has says nothing of the messages on their way,
nor of the server that will make the next ones. `IInv` of the wallet's session
adds both. Of the server: the blocks of the chain have the first of the wallet's
transactions, every block is on blocks that have the first of them, the mempool
has the next ones (`TransactionsInOrder`), and the chain's headers are among those
that were ever true (`ChainIsKept`), also while the tip is replaced
(`ExtendIs`). Of each message: it decodes, and the event it becomes is right
(`MessageOK`): its headers were true at their heights, its history has the status
that the sent one has, its balance or unspent outputs add up to what the history
is worth, its scan is the one asked for. `AllAnswered` shows
that for each kind of request the server's answer is such a message, with a lemma
for each kind (`HeadersAnswered`, `HistoryAnswered`, `UnspentAnswered`, ...), the
method and the parameters that request.rs gives included; `HeadersDecode` cuts one
string of hex into the headers of a list of any length, `EntryDecodes` has an
entry of a history keep the height it was sent with, -1 and 0 included.
`MoreIsTrue`: what was true at some time stays so. Of the order of
messages: the last one on its way that tells a status tells the server's, and if
there is none, the wallet has it (`StatusIsTold`); so a subscription answered
between two changes, or a change between two answers, leaves no subscriber with
an old status. Two histories with one status are the same (`StatusIsOne`), which
makes it `StatusTellsHistory`.

`SharedLemmas` and `ConnectionProofs` have the lemmas about the operators of
`RequestTracker` and `Connection`, `TypeStep`, `OwnershipStep`, `InvariantStep`,
`FlightStep` and `StepRefines` of a client, `TypeStep`, `OrderStep` and
`TurnStep` of the streamer, and `StepIsRight` of the wallet the preservation, with a
step per action.

**Only model-checked**: liveness, which is beyond the prover, as is what is
computed by recursion or by a fold, the Merkle tree (`ProofsFitHeaders`) and the
arithmetic of an f32 (`RatesAreClose`, which says that what is decoded is within
the unit of what was sent).

## 5. Not modelled

- `Custom` requests, which pass their method and parameters through.
- The fields of plain data. A server version, a banner, features, a txid from a
  position, the result of a package and the tweaks of silent payments (feature
  `frigate`) are passed as they are, where serde decodes field after field: that
  these decoders take what a server sends is not checked. Nor is it for opaque
  parts of the others, as the hashes of a Merkle proof. A scan is notified once,
  when it is complete.
- A checkpoint at height 0, with which a server gives no proof.
- The text of messages below keys and values. Objects with both a result and an
  error, or without a version, are not sent: they do not conform to JSON-RPC.
- Fee rates of 2^24 sat/vB or BTC/kvB and more, and subnormal ones, for which
  `Nearest` is not defined. `RatesAreClose` speaks of rates below 2^23 sat/kvB
  (8 388 sat/vB): above, a rate in BTC/kvB has fewer than the bits of its
  satoshis, and what is decoded may be off by more than one.
- `Zipped` at the height 2^32 - 1, where the range of heights overflows; valid
  heights end far below.
- Script hashes, which are opaque; TLS and sockets; the examples.

## 6. Plan

Open: a statement about the Merkle tree that needs no induction over its levels,
so that `ProofsFitHeaders` can be proved for blocks of any size; silent payments
scans that are notified in parts.
