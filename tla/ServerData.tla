----------------------------- MODULE ServerData -----------------------------
(***************************************************************************)
(* What the crate makes of a server's data: the method and parameters of a *)
(* typed request (request.rs), the decoding of its result (response.rs,    *)
(* custom_serde.rs) and of notifications (notification.rs), the events     *)
(* made of both, and what events and responses are used for: block headers *)
(* with their heights (Event::try_to_headers), the status of a script      *)
(* (ElectrumScriptStatus::from_history) and the Merkle root of a proof     *)
(* (TxMerkle::expected_merkle_root).                                       *)
(*                                                                         *)
(* An optional value, and the result of a decoder that may fail, is a set: *)
(* {} for None or an error, {x} for x.  A hash is the term it is the hash  *)
(* of, so that two hashes are equal only if their contents are.  The hex   *)
(* of a header or a transaction is two pieces; a header has no other size. *)
(***************************************************************************)
EXTENDS FeeRates

CONSTANTS
  MaxHeights,  \* the number of valid block heights
  MaxWeight    \* the largest weight, that of a u64

-----------------------------------------------------------------------------
\* The consensus encoding of a header or a transaction, and what is decoded
\* from one.
HexOf(header) == <<<<header, 1>>, <<header, 2>>>>

FromConsensusHex(hex) ==
  IF Len(hex) = 2 /\ hex = HexOf(hex[1][1]) THEN {hex[1][1]} ELSE {}

(***************************************************************************)
(* Requests: the method and parameters of each kind, in the order of       *)
(* request.rs.  An optional parameter that is not given is not sent.       *)
(***************************************************************************)
HeaderCall(req) ==
  CASE req.kind = "Header" -> <<"blockchain.block.header", <<req.height>>>>
    [] req.kind = "HeaderWithProof" ->
         <<"blockchain.block.header", <<req.height, req.cp_height>>>>
    [] req.kind = "Headers" ->
         <<"blockchain.block.headers", <<req.start_height, req.count>>>>
    [] req.kind = "HeadersWithCheckpoint" ->
         <<"blockchain.block.headers", <<req.start_height, req.count, req.cp_height>>>>

FeeCall(req) ==
  CASE req.kind = "EstimateFee" ->
         <<"blockchain.estimatefee", <<req.number>> \o SetToSeq(req.mode)>>
    [] req.kind = "HeadersSubscribe" -> <<"blockchain.headers.subscribe", <<>>>>
    [] req.kind = "RelayFee" -> <<"blockchain.relayfee", <<>>>>

CoinCall(req) ==
  CASE req.kind = "GetBalance" -> <<"blockchain.scripthash.get_balance", <<req.script_hash>>>>
    [] req.kind = "GetHistory" -> <<"blockchain.scripthash.get_history", <<req.script_hash>>>>
    [] req.kind = "GetMempool" -> <<"blockchain.scripthash.get_mempool", <<req.script_hash>>>>
    [] req.kind = "ListUnspent" -> <<"blockchain.scripthash.listunspent", <<req.script_hash>>>>

SubscribeCall(req) ==
  CASE req.kind = "ScriptHashSubscribe" ->
         <<"blockchain.scripthash.subscribe", <<req.script_hash>>>>
    [] req.kind = "ScriptHashUnsubscribe" ->
         <<"blockchain.scripthash.unsubscribe", <<req.script_hash>>>>

TxCall(req) ==
  CASE req.kind = "BroadcastTx" -> <<"blockchain.transaction.broadcast", <<HexOf(req.tx)>>>>
    [] req.kind = "GetTx" -> <<"blockchain.transaction.get", <<req.txid>>>>
    [] req.kind = "GetTxMerkle" ->
         <<"blockchain.transaction.get_merkle", <<req.txid, req.height>>>>
    [] req.kind = "GetTxidFromPos" ->
         <<"blockchain.transaction.id_from_pos", <<req.height, req.tx_pos>>>>

PoolCall(req) ==
  CASE req.kind = "BroadcastPackage" ->
         <<"blockchain.transaction.broadcast_package",
           <<[k \in DOMAIN req.txs |-> HexOf(req.txs[k])]>>>>
    [] req.kind = "BroadcastPackageVerbose" ->
         <<"blockchain.transaction.broadcast_package",
           <<[k \in DOMAIN req.txs |-> HexOf(req.txs[k])], TRUE>>>>
    [] req.kind = "GetFeeHistogram" -> <<"mempool.get_fee_histogram", <<>>>>

ServerCall(req) ==
  CASE req.kind = "ServerVersion" ->
         <<"server.version", <<req.client_name, req.protocol_version>>>>
    [] req.kind = "GetMempoolInfo" -> <<"mempool.get_info", <<>>>>
    [] req.kind = "Banner" -> <<"server.banner", <<>>>>
    [] req.kind = "Features" -> <<"server.features", <<>>>>
    [] req.kind = "Ping" -> <<"server.ping", <<>>>>

\* Mutant: labels move up when there is no height to start from.
SpParamsDense(start, labels) ==
  (IF start = {} THEN <<>> ELSE <<start>>) \o SetToSeq(labels)

\* The optional parameters of a silent payments subscription: a null, which
\* is {}, stands for the start if there are only labels.
SpParams(start, labels) ==
  IF labels = {} /\ start = {} THEN <<>> ELSE <<start>> \o SetToSeq(labels)

SpCall(req) ==
  CASE req.kind = "SpSubscribe" ->
         <<"blockchain.silentpayments.subscribe",
           <<req.scan_priv_key, req.spend_pub_key>> \o SpParams(req.start_height, req.labels)>>
    [] req.kind = "SpUnsubscribe" ->
         <<"blockchain.silentpayments.unsubscribe", <<req.scan_priv_key, req.spend_pub_key>>>>

HeaderKinds == {"Header", "HeaderWithProof", "Headers", "HeadersWithCheckpoint"}
FeeKinds == {"EstimateFee", "HeadersSubscribe", "RelayFee"}
CoinKinds == {"GetBalance", "GetHistory", "GetMempool", "ListUnspent"}
SubscribeKinds == {"ScriptHashSubscribe", "ScriptHashUnsubscribe"}
TxKinds == {"BroadcastTx", "GetTx", "GetTxMerkle", "GetTxidFromPos"}
PoolKinds == {"BroadcastPackage", "BroadcastPackageVerbose", "GetFeeHistogram"}
SpKinds == {"SpSubscribe", "SpUnsubscribe"}

MethodAndParams(req) ==
  CASE req.kind \in HeaderKinds -> HeaderCall(req)
    [] req.kind \in FeeKinds -> FeeCall(req)
    [] req.kind \in CoinKinds -> CoinCall(req)
    [] req.kind \in SubscribeKinds -> SubscribeCall(req)
    [] req.kind \in TxKinds -> TxCall(req)
    [] req.kind \in PoolKinds -> PoolCall(req)
    [] req.kind \in SpKinds -> SpCall(req)
    [] OTHER -> ServerCall(req)

-----------------------------------------------------------------------------
(***************************************************************************)
(* Decoders.                                                               *)
(***************************************************************************)

\* The decoded items if all of them decode.
AllOf(options) ==
  IF \A k \in DOMAIN options : options[k] # {}
  THEN {[k \in DOMAIN options |-> CHOOSE x \in options[k] : TRUE]}
  ELSE {}

\* Before protocol 1.6 one string with the hex of all headers, since then a
\* list of strings.
HeadersFromHexOrList(value) ==
  IF "hex" \in DOMAIN value
  THEN AllOf([k \in 1 .. (Len(value.hex) + 1) \div 2 |->
                FromConsensusHex(SubSeq(value.hex, 2 * k - 1, 2 * k))])
  ELSE AllOf([k \in DOMAIN value.headers |-> FromConsensusHex(value.headers[k])])

\* Mutant: -1 is not a height.
AllInputsConfirmedOnlyZero(height) == IF height = 0 THEN {TRUE} ELSE {}

AllInputsConfirmed(height) ==
  CASE height = 0 -> {TRUE} [] height = -1 -> {FALSE} [] OTHER -> {}

DecodeMempoolTx(entry) ==
  {[txid |-> entry.tx_hash, fee |-> entry.fee, confirmed_inputs |-> c] :
     c \in AllInputsConfirmed(entry.height)}

\* A block height, which must be below 500 000 000.
BlockHeight(height) == {height} \cap 0 .. MaxHeights - 1

\* An entry of a history: a MempoolTx if it decodes as one, for which it
\* needs a fee, otherwise a ConfirmedTx.
DecodeTx(entry) ==
  LET inMempool == IF "fee" \in DOMAIN entry THEN DecodeMempoolTx(entry) ELSE {}
  IN IF inMempool # {} THEN inMempool
     ELSE {[txid |-> entry.tx_hash, height |-> h] : h \in BlockHeight(entry.height)}

\* An unspent output: of a transaction in the mempool it has height 0.
DecodeUtxo(entry) ==
  {[height |-> h, tx_pos |-> entry.tx_pos, txid |-> entry.tx_hash, value |-> entry.value] :
     h \in BlockHeight(entry.height)}

\* Mutant: an amount is unsigned, and a negative one taken for what it owes.
UnsignedAmount(sat) == {IF sat < 0 THEN -sat ELSE sat}

\* An Amount is not negative, a SignedAmount may be.
UnsignedSat(sat) == IF sat < 0 THEN {} ELSE {sat}
SignedSat(sat) == {sat}

DecodeBalance(value) ==
  {[confirmed |-> c, unconfirmed |-> u] :
     c \in UnsignedSat(value.confirmed), u \in SignedSat(value.unconfirmed)}

\* A negative rate is an error, or, for an estimate, no rate.
DecodeFeeRate(n) == IF n < 0 THEN {} ELSE {SatPerKwuFromBtc(n)}

DecodeEstimate(n) == {[fee_rate |-> DecodeFeeRate(n)]}

DecodeMempoolInfo(value) ==
  {[mempoolminfee |-> a, minrelaytxfee |-> b, incrementalrelayfee |-> c] :
     a \in DecodeFeeRate(value.mempoolminfee), b \in DecodeFeeRate(value.minrelaytxfee),
     c \in DecodeFeeRate(value.incrementalrelayfee)}

\* A size becomes a weight, unless that overflows.
WeightFromVb(vb) == {4 * vb} \cap 0 .. MaxWeight

\* A pair of rate and size: the rate is in sat/vB.
DecodeFeePair(pair) ==
  {[fee_rate |-> SatPerKwuFromByte(pair[1]), weight |-> w] : w \in WeightFromVb(pair[2])}

DecodeTxMerkle(value) ==
  {[block_height |-> h, merkle |-> value.merkle, pos |-> value.pos] :
     h \in BlockHeight(value.block_height)}

Each(Decoded(_), entries) == AllOf([k \in DOMAIN entries |-> Decoded(entries[k])])

\* The headers of a list with its counts.
DecodeHeaders(value) ==
  {[count |-> value.count, headers |-> hs, max |-> value.max] : hs \in HeadersFromHexOrList(value)}

\* The response type of a request, decoded from a result.  The others' fields
\* are taken as they are: a txid, a version, features, the result of a package.
DecodeResponse(req, value) ==
  CASE req.kind = "Header" -> {[header |-> h] : h \in FromConsensusHex(value)}
    [] req.kind = "HeaderWithProof" ->
         {[header |-> h, branch |-> value.branch, root |-> value.root] :
            h \in FromConsensusHex(value.header)}
    [] req.kind = "Headers" -> DecodeHeaders(value)
    [] req.kind = "HeadersWithCheckpoint" ->
         {[count |-> hs.count, headers |-> hs.headers, max |-> hs.max,
           root |-> value.root, branch |-> value.branch] : hs \in DecodeHeaders(value)}
    [] req.kind = "HeadersSubscribe" ->
         {[header |-> h, height |-> value.height] : h \in FromConsensusHex(value.hex)}
    [] req.kind = "EstimateFee" -> DecodeEstimate(value)
    [] req.kind = "RelayFee" -> {[fee |-> fee] : fee \in UnsignedSat(value)}
    [] req.kind = "GetBalance" -> DecodeBalance(value)
    [] req.kind = "GetHistory" -> {[history |-> txs] : txs \in Each(DecodeTx, value)}
    [] req.kind = "GetMempool" -> Each(DecodeMempoolTx, value)
    [] req.kind = "ListUnspent" -> Each(DecodeUtxo, value)
    [] req.kind = "ScriptHashSubscribe" -> {[status |-> value]}
    [] req.kind = "GetTx" -> {[tx |-> tx] : tx \in FromConsensusHex(value)}
    [] req.kind = "GetTxMerkle" -> DecodeTxMerkle(value)
    [] req.kind = "GetFeeHistogram" -> Each(DecodeFeePair, value)
    [] req.kind = "GetMempoolInfo" -> DecodeMempoolInfo(value)
    [] OTHER -> {value}

\* The notification of a method: its parameters are an array, or an object
\* for silent payments.
DecodeNotification(raw) ==
  CASE raw.method = "blockchain.headers.subscribe" ->
         {[type |-> "Header", height |-> raw.params[1].height, header |-> h] :
            h \in FromConsensusHex(raw.params[1].hex)}
    [] raw.method = "blockchain.scripthash.subscribe" ->
         {[type |-> "ScriptHash", status |-> raw.params[2]]}
    [] raw.method = "blockchain.silentpayments.subscribe" ->
         {[type |-> "SpSubscribe", subscription |-> raw.params.subscription,
           progress |-> raw.params.progress, history |-> raw.params.history]}
    [] OTHER -> {[type |-> "Unknown", raw |-> raw]}

\* The event of a message about a request without a callback, or an error.
EventOf(msg) ==
  CASE msg.type = "notification" ->
         {[type |-> "Notification", of |-> n] : n \in DecodeNotification(msg)}
    [] msg.type = "result" ->
         {[type |-> "Response", req |-> msg.req, resp |-> r] :
            r \in DecodeResponse(msg.req, msg.value)}
    [] msg.type = "error" -> {[type |-> "ResponseError", req |-> msg.req]}

-----------------------------------------------------------------------------
(***************************************************************************)
(* Uses.                                                                   *)
(***************************************************************************)

\* Mutant: heights count from the one after the first.
ZippedFromNext(start, headers) == [k \in DOMAIN headers |-> <<start + k, headers[k]>>]

\* Heights count up from the first one asked for.
Zipped(start, headers) == [k \in DOMAIN headers |-> <<start + k - 1, headers[k]>>]

\* try_to_headers: the headers of an event with their heights.
TryToHeaders(event) ==
  CASE event.type = "Response" ->
         CASE event.req.kind = "Header" -> {<<<<event.req.height, event.resp.header>>>>}
           [] event.req.kind \in {"Headers", "HeadersWithCheckpoint"} ->
                {Zipped(event.req.start_height, event.resp.headers)}
           [] OTHER -> {}
    [] event.type = "Notification" ->
         IF event.of.type = "Header" THEN {<<<<event.of.height, event.of.header>>>>} ELSE {}
    [] event.type = "ResponseError" -> {}

\* Mutant: every transaction in the mempool has height zero.
ElectrumHeightZero(tx) == IF "height" \in DOMAIN tx THEN tx.height ELSE 0

ElectrumHeight(tx) ==
  IF "height" \in DOMAIN tx THEN tx.height ELSE IF tx.confirmed_inputs THEN 0 ELSE -1

\* Mutant: only transactions in blocks count.
FromHistoryConfirmed(txs) ==
  LET confirmed == SelectSeq(txs, LAMBDA tx : "height" \in DOMAIN tx)
  IN IF txs = <<>> THEN {} ELSE {[k \in DOMAIN confirmed |-> <<confirmed[k].txid, confirmed[k].height>>]}

\* from_history: no status without transactions, or the hash of their ids
\* and heights in order.
FromHistory(txs) ==
  IF txs = <<>> THEN {} ELSE {[k \in DOMAIN txs |-> <<txs[k].txid, ElectrumHeight(txs[k])>>]}

HashOf(left, right) == [left |-> left, right |-> right]

\* Mutant: the side of a hash is that of the transaction on every level.
ExpectedMerkleRootOneSide(proof, txid) ==
  FoldLeft(LAMBDA cur, next : IF proof.pos % 2 = 0 THEN HashOf(cur, next) ELSE HashOf(next, cur),
           txid, proof.merkle)

\* expected_merkle_root: from the transaction up, to the side that the
\* parity of the index says, which is halved on every level.
ExpectedMerkleRoot(proof, txid) ==
  FoldLeft(LAMBDA at, next :
             [cur |-> IF at.index % 2 = 0 THEN HashOf(at.cur, next) ELSE HashOf(next, at.cur),
              index |-> at.index \div 2],
           [cur |-> txid, index |-> proof.pos], proof.merkle).cur

=============================================================================
