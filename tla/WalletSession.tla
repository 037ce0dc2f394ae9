--------------------------- MODULE WalletSession ---------------------------
(***************************************************************************)
(* A wallet that uses the crate's typed requests and events against a      *)
(* truthful server, while the server's chain grows and its tip is          *)
(* replaced.  The wallet watches one script, which the transactions in     *)
(* WalletTx touch: the first pays to it, and each of the others spends     *)
(* what the one before it paid.  All requests are event requests.          *)
(*                                                                         *)
(* The server is the environment, and answers as the Electrum protocol     *)
(* says: requests in the order it reads them, notifications in between.    *)
(* Ids, threads and faults are left to TrackerSession and the clients.     *)
(***************************************************************************)
EXTENDS ServerData

CONSTANTS
  WalletTx,     \* the transactions of the watched script, in mempool order
  MaxBlocks,    \* bound: blocks ever made, the first included
  Fillers,      \* the numbers of transactions of others in a block
  MaxRequests,  \* bound: requests of a session
  MaxCount,     \* the most headers the server sends at once
  Counts,       \* the numbers of headers that the wallet asks for
  Paid,         \* the amounts that the wallet's transactions pay to the script
  Rates,        \* the fee rates of the server, in sat/kvB, one per block made or more
  Protocols     \* the protocol versions of the server, of "1.4" and "1.6"

ASSUME WalletAssumption ==
  /\ WalletTx \in Seq(Range(WalletTx)) /\ IsInjective(WalletTx)
  /\ Range(WalletTx) \cap Nat = {}
  /\ Paid \in [DOMAIN WalletTx -> Nat]
  /\ Rates \in Seq(Nat) /\ MaxBlocks <= Len(Rates)
  /\ MaxWeight \in Nat /\ 4 * Len(Rates) <= MaxWeight
  /\ MaxBlocks \in Nat \ {0} /\ Fillers \subseteq Nat /\ MaxRequests \in Nat
  /\ MaxCount \in Nat \ {0} /\ Counts \subseteq Nat /\ MaxHeights \in Nat /\ MaxBlocks <= MaxHeights
  /\ Protocols \subseteq {"1.4", "1.6"}

VARIABLES
  protocol,   \* the protocol version agreed on
  chain,      \* the server's blocks, the one at height h at place h + 1
  made,       \* the number of blocks ever made
  mempool,    \* the wallet's transactions in the server's mempool
  headerSub, scriptSub,  \* whether the session is subscribed to headers, to the script
  asked,      \* the number of requests sent
  wire,       \* messages on their way to the wallet
  broken,     \* whether a message did not decode
  given,      \* the pairs of height and header that try_to_headers gave
  history,    \* the last history received, as sent and as decoded
  coins,      \* the last balance and unspent outputs received, with the history they are of
  scans,      \* the scans for silent payments notified, with their requests
  rates,      \* the fee rates received, as sent and as decoded
  status,     \* the last status of the script, once there is one
  proofs,     \* the Merkle proofs received, with the request
  ever        \* the pairs of height and header that were true at some time

chainVars == <<protocol, chain, made, mempool, ever>>
subVars == <<headerSub, scriptSub, asked>>
walletVars == <<broken, given, history, coins, scans, rates, status, proofs>>
vars == <<chainVars, subVars, wire, walletVars>>

-----------------------------------------------------------------------------
(***************************************************************************)
(* The server's data.                                                      *)
(***************************************************************************)
Txid(t) == [tx |-> t]

\* The levels of the Merkle tree: a node without a right sibling is its own.
Parents(nodes) ==
  [k \in 1 .. (Len(nodes) + 1) \div 2 |->
     HashOf(nodes[2 * k - 1], IF 2 * k <= Len(nodes) THEN nodes[2 * k] ELSE nodes[2 * k - 1])]

Levels(txids) ==
  LET level[n \in Nat] == IF n = 0 THEN txids ELSE Parents(level[n - 1])
      height == CHOOSE n \in 0 .. Len(txids) :
                  Len(level[n]) = 1 /\ \A m \in 0 .. n - 1 : Len(level[m]) # 1
  IN [n \in 1 .. height + 1 |-> level[n - 1]]

MerkleRoot(txids) == Last(Levels(txids))[1]

\* The siblings on the way from the transaction at a position to the root.
MerkleBranch(txids, pos) ==
  LET levels == Levels(txids)
      Sibling(nodes, i) ==
        IF i % 2 = 1 THEN nodes[i] ELSE IF i + 2 <= Len(nodes) THEN nodes[i + 2] ELSE nodes[i + 1]
  IN [n \in 1 .. Len(levels) - 1 |-> Sibling(levels[n], pos \div 2 ^ (n - 1))]

HeaderOf(block) == [block |-> block.id, merkle_root |-> MerkleRoot(block.txids)]

Tip == Len(chain) - 1
TipOf(c) == [height |-> Len(c) - 1, hex |-> HexOf(HeaderOf(Last(c)))]

HeaderAt(height) == HeaderOf(chain[height + 1])

\* The wallet's transactions in the chain and the mempool, by their places:
\* always the first ones, and the ones in the chain before those in the mempool.
Entered(c, pool) ==
  {k \in DOMAIN WalletTx :
     WalletTx[k] \in pool \/ \E b \in Range(c) : Txid(WalletTx[k]) \in Range(b.txids)}

Count(c, pool) == Cardinality(Entered(c, pool))

HeightIn(c, t) == (CHOOSE k \in DOMAIN c : Txid(t) \in Range(c[k].txids)) - 1

\* The history of the script: a transaction in the mempool has a fee, and
\* height 0, or -1 if an input is not confirmed.
ServerHistory(c, pool) ==
  [k \in 1 .. Count(c, pool) |->
     LET t == WalletTx[k] IN
     IF t \notin pool THEN [tx_hash |-> Txid(t), height |-> HeightIn(c, t)]
     ELSE [tx_hash |-> Txid(t), fee |-> 1,
           height |-> IF k > 1 /\ WalletTx[k - 1] \in pool THEN -1 ELSE 0]]

\* No status without transactions, or the hash of their ids and heights.
StatusOf(entries) ==
  IF entries = <<>> THEN {}
  ELSE {[k \in DOMAIN entries |-> <<entries[k].tx_hash, entries[k].height>>]}

ServerStatus(c, pool) == StatusOf(ServerHistory(c, pool))

\* The output of the last of the first n transactions is unspent.
Worth(n) == IF n = 0 THEN 0 ELSE Paid[n]

ServerBalance(c, pool) ==
  LET confirmed == Worth(Count(c, {})) IN
  [confirmed |-> confirmed, unconfirmed |-> Worth(Count(c, pool)) - confirmed]

ServerUnspent(c, pool) ==
  LET entries == ServerHistory(c, pool) IN
  IF entries = <<>> THEN <<>>
  ELSE <<[tx_hash |-> Last(entries).tx_hash, tx_pos |-> 0, value |-> Worth(Count(c, pool)),
          height |-> Max({0, Last(entries).height})]>>

\* The transactions that a request adds to the server's mempool: those the
\* server does not have yet, if it has the ones before.
Wanted(req) ==
  CASE req.kind = "BroadcastTx" -> <<req.tx>>
    [] req.kind \in {"BroadcastPackage", "BroadcastPackageVerbose"} /\ protocol = "1.6" -> req.txs
    [] OTHER -> <<>>

Accepted(txs) ==
  LET n == Count(chain, mempool) IN
  IF n + Len(txs) <= Len(WalletTx) /\ txs = SubSeq(WalletTx, n + 1, n + Len(txs))
  THEN Range(txs) ELSE {}

Known(t) == \E k \in Entered(chain, mempool) : WalletTx[k] = t

Rate == Rates[made]

\* The server dispatches on the method and the number of parameters.
Answer(method, params) ==
  LET hexes(start, n) == [k \in 1 .. n |-> HexOf(HeaderAt(start + k - 1))]
      list(start, n) ==
        IF protocol = "1.4" THEN [count |-> n, hex |-> FlattenSeq(hexes(start, n)), max |-> MaxCount]
        ELSE [count |-> n, headers |-> hexes(start, n), max |-> MaxCount]
      Proven(value) ==
        [f \in DOMAIN value \cup {"root", "branch"} |->
           IF f = "root" THEN [tx |-> 0] ELSE IF f = "branch" THEN <<>> ELSE value[f]]
      Number(start, count) == Min({count, MaxCount, Max({0, Tip + 1 - start})})
      Value(value) == [type |-> "result", value |-> value]
      Fail == [type |-> "error", value |-> {}]
      Since16(answer) == IF protocol = "1.6" THEN answer ELSE Fail
      Until16(answer) == IF protocol = "1.6" THEN Fail ELSE answer
      Decoded(hex) == CHOOSE tx \in FromConsensusHex(hex) : TRUE
  IN CASE method = "blockchain.block.header" ->
            IF params[1] > Tip THEN Fail
            ELSE IF Len(params) = 1 THEN Value(HexOf(HeaderAt(params[1])))
            ELSE IF params[2] \notin params[1] .. Tip THEN Fail
            ELSE Value(Proven([header |-> HexOf(HeaderAt(params[1]))]))
       [] method = "blockchain.block.headers" ->
            LET n == Number(params[1], params[2]) IN
            IF Len(params) = 2 THEN Value(list(params[1], n))
            ELSE IF params[3] \notin params[1] + params[2] - 1 .. Tip THEN Fail
            ELSE Value(Proven(list(params[1], n)))
       [] method = "blockchain.headers.subscribe" -> Value(TipOf(chain))
       [] method = "blockchain.scripthash.subscribe" -> Value(ServerStatus(chain, mempool))
       [] method = "blockchain.scripthash.get_history" -> Value(ServerHistory(chain, mempool))
       [] method = "blockchain.transaction.get_merkle" ->
            IF params[2] > Tip \/ params[1] \notin Range(chain[params[2] + 1].txids) THEN Fail
            ELSE LET txids == chain[params[2] + 1].txids
                     pos == CHOOSE i \in 0 .. Len(txids) - 1 : txids[i + 1] = params[1]
                 IN Value([block_height |-> params[2], merkle |-> MerkleBranch(txids, pos),
                           pos |-> pos])
       [] method = "blockchain.transaction.id_from_pos" ->
            IF params[1] > Tip \/ params[2] >= Len(chain[params[1] + 1].txids) THEN Fail
            ELSE Value(chain[params[1] + 1].txids[params[2] + 1])
       [] method = "blockchain.transaction.get" ->
            IF Known(params[1].tx) THEN Value(HexOf(params[1].tx)) ELSE Fail
       [] method = "blockchain.transaction.broadcast" ->
            LET tx == Decoded(params[1]) IN
            IF Accepted(<<tx>>) = {} THEN Fail ELSE Value(Txid(tx))
       [] method = "blockchain.transaction.broadcast_package" ->
            LET txs == [k \in DOMAIN params[1] |-> Decoded(params[1][k])] IN
            Since16(Value([success |-> Accepted(txs) # {}, verbose |-> Len(params) = 2]))
       [] method = "blockchain.scripthash.unsubscribe" -> Value(scriptSub)
       [] method = "blockchain.scripthash.get_balance" -> Value(ServerBalance(chain, mempool))
       [] method = "blockchain.scripthash.listunspent" -> Value(ServerUnspent(chain, mempool))
       [] method = "blockchain.scripthash.get_mempool" ->
            Value(SubSeq(ServerHistory(chain, mempool), Count(chain, {}) + 1, Count(chain, mempool)))
       [] method = "blockchain.estimatefee" ->
            LET estimate == Value(IF made = 1 THEN -1 ELSE Rates[params[1]]) IN
            IF Len(params) = 1 THEN estimate ELSE Since16(estimate)
       [] method = "blockchain.relayfee" -> Until16(Value(Rate))
       [] method = "mempool.get_fee_histogram" -> Value([k \in DOMAIN Rates |-> <<Rates[k], k>>])
       [] method = "mempool.get_info" ->
            Since16(Value([mempoolminfee |-> Rate, minrelaytxfee |-> Rates[1],
                           incrementalrelayfee |-> Rates[1]]))
       [] method = "server.version" -> Value(<<"software", protocol>>)
       [] method \in {"blockchain.silentpayments.subscribe",
                      "blockchain.silentpayments.unsubscribe"} -> Value("address")
       [] method = "server.banner" -> Value("welcome")
       [] method = "server.features" -> Value([pruning |-> "null"])
       [] method = "server.ping" -> Value("null")

\* What a silent payments server tells of a scan: where it starts, the labels,
\* of which 0 is one, and the wallet's transactions in the chain since.
ScanNotice(req, params) ==
  LET start == IF Len(params) >= 3 THEN Max({0} \cup params[3]) ELSE 0
      found == SelectSeq(ServerHistory(chain, {}), LAMBDA entry : entry.height >= start)
  IN [type |-> "notification", method |-> "blockchain.silentpayments.subscribe", of |-> req,
      params |->
        [subscription |-> [address |-> "address", start_height |-> start,
                           labels |-> {0} \cup (IF Len(params) = 4 THEN params[4] ELSE {})],
         progress |-> 1, history |-> found]]

-----------------------------------------------------------------------------
\* Blocks: the coinbase, transactions of others, and the wallet's.
BlockWith(own, filler) ==
  [id |-> made,
   txids |-> [k \in 1 .. filler + 1 |-> Txid(10 * made + k)]
             \o [k \in DOMAIN own |-> Txid(own[k])]]

Genesis == [id |-> 0, txids |-> <<Txid(0)>>]

Init ==
  /\ protocol \in Protocols
  /\ chain = <<Genesis>> /\ made = 1 /\ mempool = {}
  /\ ever = {<<0, HeaderOf(Genesis)>>}
  /\ headerSub = FALSE /\ scriptSub = FALSE /\ asked = 0
  /\ wire = <<>> /\ broken = FALSE
  /\ given = {} /\ history = [sent |-> {}, txs |-> {}] /\ status = [known |-> FALSE]
  /\ coins = [balance |-> {}, unspent |-> {}] /\ rates = {} /\ scans = {}
  /\ proofs = {}

\* What subscribers are told of a change of the server's chain and mempool.
Notices(c, pool) ==
  (IF headerSub /\ c # chain
   THEN <<[type |-> "notification", method |-> "blockchain.headers.subscribe",
           params |-> <<TipOf(c)>>]>>
   ELSE <<>>)
  \o (IF scriptSub /\ ServerStatus(c, pool) # ServerStatus(chain, mempool)
      THEN <<[type |-> "notification", method |-> "blockchain.scripthash.subscribe",
              params |-> <<"script", ServerStatus(c, pool)>>]>>
      ELSE <<>>)

\* The server's chain and mempool change.
Changes(c, pool) ==
  /\ chain' = c /\ mempool' = pool
  /\ ever' = ever \cup {<<Len(c) - 1, HeaderOf(Last(c))>>}
  /\ wire' = wire \o Notices(c, pool)
  /\ UNCHANGED <<protocol, subVars, walletVars>>

\* A block on the first n blocks of the chain, with the first of the
\* unconfirmed transactions.
Extend(n, filler) ==
  /\ made < MaxBlocks /\ n \in {Len(chain), Len(chain) - 1} \ {0}
  /\ made' = made + 1
  /\ LET kept == SubSeq(chain, 1, n)
         first == Count(kept, {}) + 1
         last == Count(chain, mempool)
     IN \E k \in first - 1 .. last :
          Changes(Append(kept, BlockWith(SubSeq(WalletTx, first, k), filler)),
                  Range(SubSeq(WalletTx, k + 1, last)))

\* The next of the wallet's transactions reaches the mempool from elsewhere.
Broadcast ==
  /\ \E t \in Range(WalletTx) :
       Accepted(<<t>>) # {} /\ Changes(chain, mempool \cup {t})
  /\ UNCHANGED made

-----------------------------------------------------------------------------
(***************************************************************************)
(* The wallet.                                                             *)
(***************************************************************************)
Heights == 0 .. MaxBlocks - 1

Requests ==
  [kind : {"Header"}, height : Heights]
  \cup [kind : {"Headers"}, start_height : Heights, count : Counts]
  \cup [kind : {"HeadersSubscribe"}]
  \cup [kind : {"ScriptHashSubscribe", "ScriptHashUnsubscribe", "GetHistory", "GetBalance",
                "ListUnspent"}, script_hash : {"script"}]
  \cup [kind : {"GetTxMerkle"}, txid : {Txid(t) : t \in Range(WalletTx)}, height : Heights \ {0}]
  \cup [kind : {"BroadcastTx"}, tx : Range(WalletTx)]
  \cup [kind : {"BroadcastPackage", "BroadcastPackageVerbose"}, txs : {WalletTx}]

\* Requests that have nothing to do with another one: a session that makes one
\* of them makes no other.  A checkpoint of height 0 is none to the server.
LoneRequests ==
  [kind : {"HeaderWithProof"}, height : Heights, cp_height : Heights \ {0}]
  \cup [kind : {"HeadersWithCheckpoint"}, start_height : Heights, count : Counts,
        cp_height : Heights \ {0}]
  \cup [kind : {"GetMempool"}, script_hash : {"script"}]
  \cup [kind : {"GetTx"}, txid : {Txid(t) : t \in Range(WalletTx)}]
  \cup [kind : {"GetTxidFromPos"}, height : Heights, tx_pos : {0, 1}]
  \cup [kind : {"EstimateFee"}, number : DOMAIN Rates, mode : {{}, {"ECONOMICAL"}}]
  \cup [kind : {"ServerVersion"}, client_name : {"client"}, protocol_version : {"1.4"}]
  \cup [kind : {"RelayFee", "GetFeeHistogram", "GetMempoolInfo", "Banner", "Features", "Ping"}]
  \cup [kind : {"SpSubscribe"}, scan_priv_key : {"scan"}, spend_pub_key : {"spend"},
        start_height : {{}, {1}}, labels : {{}, {{2}}}]
  \cup [kind : {"SpUnsubscribe"}, scan_priv_key : {"scan"}, spend_pub_key : {"spend"}]

Cost(req) == IF req \in LoneRequests THEN MaxRequests ELSE 1

\* The wallet sends a request, and the server answers it.  With the answer
\* about the wallet's coins goes the history that they are of.
Ask(req) ==
  /\ asked + Cost(req) <= MaxRequests /\ asked' = asked + Cost(req)
  /\ LET call == MethodAndParams(req)
         answer == Answer(call[1], call[2])
         pool == mempool \cup Accepted(Wanted(req))
         of == IF req.kind \in {"GetBalance", "ListUnspent"}
               THEN ServerHistory(chain, mempool) ELSE <<>>
     IN /\ wire' = Append(wire, [type |-> answer.type, req |-> req, of |-> of,
                                 value |-> answer.value])
                   \o Notices(chain, pool)
                   \o IF req.kind = "SpSubscribe" THEN <<ScanNotice(req, call[2])>> ELSE <<>>
        /\ mempool' = pool
  /\ headerSub' = (headerSub \/ req.kind = "HeadersSubscribe")
  /\ scriptSub' = ((scriptSub \/ req.kind = "ScriptHashSubscribe")
                   /\ req.kind # "ScriptHashUnsubscribe")
  /\ UNCHANGED <<protocol, chain, made, ever, walletVars>>

\* The fee rates of a response, with the rates they were decoded from.
RatesOf(req, resp, value) ==
  CASE req.kind = "EstimateFee" ->
         {[of |-> "estimate", sent |-> value, rate |-> r] : r \in resp.fee_rate}
    [] req.kind = "GetFeeHistogram" ->
         {[of |-> "histogram", sent |-> value[k][1], rate |-> resp[k].fee_rate] : k \in DOMAIN resp}
    [] req.kind = "GetMempoolInfo" ->
         {[of |-> "floor", sent |-> value[f], rate |-> resp[f]] : f \in DOMAIN resp}
    [] OTHER -> {}

\* What a wallet keeps of an event.
Keep(event, msg) ==
  /\ given' = given \cup UNION {Range(pairs) : pairs \in TryToHeaders(event)}
  /\ history' = IF event.type = "Response" /\ event.req.kind = "GetHistory"
                THEN [sent |-> {msg.value}, txs |-> {event.resp.history}] ELSE history
  /\ coins' = IF event.type # "Response" THEN coins
              ELSE CASE event.req.kind = "GetBalance" ->
                          [coins EXCEPT !.balance = {[of |-> msg.of, is |-> event.resp]}]
                     [] event.req.kind = "ListUnspent" ->
                          [coins EXCEPT !.unspent = {[of |-> msg.of, is |-> event.resp]}]
                     [] OTHER -> coins
  /\ rates' = IF event.type = "Response"
              THEN rates \cup RatesOf(event.req, event.resp, msg.value) ELSE rates
  /\ scans' = IF event.type = "Notification" /\ event.of.type = "SpSubscribe"
              THEN scans \cup {[req |-> msg.of, got |-> event.of]} ELSE scans
  /\ status' =
       CASE event.type = "Response" /\ event.req.kind = "ScriptHashSubscribe" ->
              [known |-> TRUE, value |-> event.resp.status]
         [] event.type = "Notification" /\ event.of.type = "ScriptHash" ->
              [known |-> TRUE, value |-> event.of.status]
         [] OTHER -> status
  /\ proofs' = IF event.type = "Response" /\ event.req.kind = "GetTxMerkle"
               THEN proofs \cup {[txid |-> event.req.txid, proof |-> event.resp]} ELSE proofs
  /\ UNCHANGED broken

\* A message becomes an event, or ends the connection.
Receive ==
  /\ wire # <<>> /\ ~broken
  /\ wire' = Tail(wire)
  /\ \/ \E event \in EventOf(Head(wire)) : Keep(event, Head(wire))
     \/ EventOf(Head(wire)) = {} /\ broken' = TRUE
        /\ UNCHANGED <<given, history, coins, scans, rates, status, proofs>>
  /\ UNCHANGED <<chainVars, subVars>>

Next ==
  \/ \E n \in 1 .. MaxBlocks, filler \in Fillers : Extend(n, filler)
  \/ Broadcast
  \/ \E req \in Requests \cup LoneRequests : Ask(req)
  \/ Receive

Spec == Init /\ [][Next]_vars

-----------------------------------------------------------------------------
(***************************************************************************)
(* Properties.                                                             *)
(***************************************************************************)

\* Every answer of a truthful server to a typed request, and every one of
\* its notifications, decodes: with lists of headers of either protocol
\* version, entries of histories of every kind, and errors.
MessagesDecode == ~broken

\* try_to_headers gives every header the height it has on the server's chain,
\* also from lists that are shorter than what was asked for.
GivenHeadersAreTrue == given \subseteq ever

\* When the wallet has read everything, the status of the last history, as
\* from_history computes it, is the status last notified exactly if that
\* history is still the server's: so a wallet knows when to ask again.  A
\* history has the mempool's entries too, as the decoders of Tx expect and as
\* a status is defined over them; the comment of GetHistory says otherwise,
\* which is HistoryIsConfirmed.
StatusTellsHistory ==
  scriptSub /\ wire = <<>> /\ ~broken /\ status.known =>
    \A sent \in history.sent, txs \in history.txs :
      FromHistory(txs) = status.value <=> sent = ServerHistory(chain, mempool)

\* expected_merkle_root leads from a transaction to the header of the block
\* that has it, whatever its position and the size of the block, and from no
\* other of the wallet's transactions to any header.
ProofsFitHeaders ==
  \A p \in proofs :
    /\ \E pair \in ever :
         /\ pair[1] = p.proof.block_height
         /\ ExpectedMerkleRoot(p.proof, p.txid) = pair[2].merkle_root
    /\ \A t \in Range(WalletTx), pair \in ever :
         ExpectedMerkleRoot(p.proof, Txid(t)) = pair[2].merkle_root => Txid(t) = p.txid

\* A balance and a list of unspent outputs that are of the same history add
\* up, also while a confirmed output is being spent in the mempool and the
\* unconfirmed part of the balance is negative.
CoinsAddUp ==
  \A b \in coins.balance, u \in coins.unspent :
    b.of = u.of =>
      b.is.confirmed + b.is.unconfirmed
        = FoldLeft(LAMBDA sum, utxo : sum + utxo.value, 0, u.is)

\* Every fee rate below 2^23 sat/kvB, in BTC/kvB or in sat/vB, becomes the
\* rate in sat/kwu, a fourth of it, and neither the f32 arithmetic nor the
\* cast makes it higher, nor lower than the integer below by more than one.
\* (The f32 of 0.12500047 BTC/kvB is the first that becomes too high a rate.)
RatesAreClose ==
  \A r \in rates : r.sent < 2 ^ 23 => 4 * r.rate <= r.sent /\ r.sent < 4 * r.rate + 8

\* A scan for silent payments is the one asked for, whichever of its optional
\* parameters were given: they are told apart by their places alone.
ScansAreAsked ==
  \A s \in scans :
    /\ s.got.subscription.start_height = Max({0} \cup s.req.start_height)
    /\ s.got.subscription.labels = {0} \cup UNION s.req.labels

\* What the comment of mempoolminfee says (response.rs:349): it is the minimum
\* fee rate for a transaction to be accepted into the mempool.  Here: a
\* transaction that pays the decoded rate pays no less than the rate the
\* server sent, where that rate is an integer in sat/kwu.
FloorSuffices == \A r \in rates : r.of = "floor" /\ r.sent % 4 = 0 => 4 * r.rate >= r.sent

\* What the comment of GetHistory says (request.rs:363-365): it returns a list
\* of confirmed transactions and does not include unconfirmed ones.
HistoryIsConfirmed ==
  \A txs \in history.txs : \A k \in DOMAIN txs : "height" \in DOMAIN txs[k]

-----------------------------------------------------------------------------
(***************************************************************************)
(* The inductive invariant behind these, but for ProofsFitHeaders and      *)
(* RatesAreClose.                                                          *)
(***************************************************************************)
TypeOK ==
  /\ made \in 1 .. MaxBlocks
  /\ chain \in Seq(Range(chain)) /\ Len(chain) \in 1 .. made
  /\ mempool \subseteq Range(WalletTx)
  /\ wire = [k \in 1 .. Len(wire) |-> wire[k]] /\ Len(wire) \in Nat
  /\ headerSub \in BOOLEAN /\ scriptSub \in BOOLEAN

\* Every block is on blocks that have the first of the wallet's transactions,
\* and the mempool has the next ones.
TransactionsInOrder ==
  /\ \A n \in DOMAIN chain :
       \E m \in 0 .. Len(WalletTx) : Entered(SubSeq(chain, 1, n), {}) = 1 .. m
  /\ \E m, n \in 0 .. Len(WalletTx) :
       /\ m <= n /\ Entered(chain, {}) = 1 .. m
       /\ mempool = {WalletTx[k] : k \in m + 1 .. n}
  /\ \A t \in Range(WalletTx) : Txid(t) \notin Range(chain[1].txids)

\* No block of the chain is forgotten.
ChainIsKept == \A k \in DOMAIN chain : <<k - 1, HeaderAt(k - 1)>> \in ever

\* An entry of a history says by its height whether it is in the mempool.
EntryOK(entry) ==
  \E h \in -1 .. MaxHeights - 1 :
    entry = IF h > 0 THEN [tx_hash |-> entry.tx_hash, height |-> h]
            ELSE [tx_hash |-> entry.tx_hash, fee |-> 1, height |-> h]

HistoryOK(entries) ==
  /\ entries \in Seq(Range(entries))
  /\ \A k \in DOMAIN entries : EntryOK(entries[k])

BalanceOK(b) == b.is.confirmed + b.is.unconfirmed = Worth(Len(b.of))
UnspentOK(u) == FoldLeft(LAMBDA sum, utxo : sum + utxo.value, 0, u.is) = Worth(Len(u.of))
ScanOK(s) ==
  /\ s.got.subscription.start_height = Max({0} \cup s.req.start_height)
  /\ s.got.subscription.labels = {0} \cup UNION s.req.labels

\* A history that was received is the one that was sent.
DecodedAs(sent, txs) == HistoryOK(sent) /\ FromHistory(txs) = StatusOf(sent)

\* What a response does to the wallet is right.
ResponseOK(req, resp, msg) ==
  /\ req.kind = "GetBalance" => BalanceOK([of |-> msg.of, is |-> resp])
  /\ req.kind = "ListUnspent" => UnspentOK([of |-> msg.of, is |-> resp])
  /\ req.kind = "GetHistory" => DecodedAs(msg.value, resp.history)

\* What a message does to the wallet is right.
MessageOK(msg) ==
  /\ msg.type \in {"notification", "result", "error"} /\ EventOf(msg) # {}
  /\ \A event \in EventOf(msg) :
       /\ \A pairs \in TryToHeaders(event) : Range(pairs) \subseteq ever
       /\ event.type = "Response" => ResponseOK(event.req, event.resp, msg)
       /\ event.type = "Notification" /\ event.of.type = "SpSubscribe" =>
            ScanOK([req |-> msg.of, got |-> event.of])

WalletOK ==
  /\ ~broken
  /\ given \subseteq ever
  /\ \A b \in coins.balance : BalanceOK(b)
  /\ \A u \in coins.unspent : UnspentOK(u)
  /\ \A sent \in history.sent, txs \in history.txs : DecodedAs(sent, txs)
  /\ \A s \in scans : ScanOK(s)

\* The statuses that a message tells: one or none.
StatusesIn(msg) ==
  CASE msg.type = "result" ->
         IF msg.req.kind = "ScriptHashSubscribe" THEN {msg.value} ELSE {}
    [] msg.type = "notification" ->
         IF msg.method = "blockchain.scripthash.subscribe" THEN {msg.params[2]} ELSE {}
    [] msg.type = "error" -> {}

\* The last status that a subscriber was or will be told is the server's.
StatusIsTold ==
  LET told == {k \in DOMAIN wire : StatusesIn(wire[k]) # {}}
      current == ServerStatus(chain, mempool)
  IN scriptSub =>
       \/ told = {} /\ status.known /\ status.value = current
       \/ \E k \in told : StatusesIn(wire[k]) = {current} /\ \A j \in told : j <= k

\* What every step preserves.
IInv ==
  /\ TypeOK /\ TransactionsInOrder /\ ChainIsKept /\ WalletOK
  /\ \A k \in DOMAIN wire : MessageOK(wire[k])
  /\ StatusIsTold

=============================================================================
