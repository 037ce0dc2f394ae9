----------------------------- MODULE WireFormat -----------------------------
(***************************************************************************)
(* The JSON-RPC texts of a connection (protocol.rs, custom_serde.rs): how  *)
(* requests are written, alone or in batches, and how a line from the      *)
(* server is understood.                                                   *)
(*                                                                         *)
(* A JSON object is the sequence of its entries, pairs of key and value:   *)
(* decoders go through them in the order the server wrote them.  No key    *)
(* comes twice.  What may fail to decode is a set: {} or {x}.              *)
(***************************************************************************)
EXTENDS SequencesExt

Object(entries) == [json |-> "object", entries |-> entries]

Array(items) == [json |-> "array", items |-> items]

Null == [json |-> "null"]

\* The keys that requests, responses and notifications have.
MessageKeys == {"jsonrpc", "id", "method", "params", "result", "error"}

-----------------------------------------------------------------------------
(***************************************************************************)
(* RawOneOrMany: a single item, or a batch of any number of them.          *)
(***************************************************************************)
Single(item) == [many |-> FALSE, items |-> <<item>>]

Batch(items) == [many |-> TRUE, items |-> items]

\* Mutant: the item takes the place of a single one.
PushOptReplaces(opt, item) ==
  IF \E x \in opt : x.many THEN {Batch(Append(x.items, item)) : x \in opt}
  ELSE {Single(item)}

\* push_opt: the first item is single, a second makes a batch.
PushOpt(opt, item) ==
  IF opt = {} THEN {Single(item)} ELSE {Batch(Append(x.items, item)) : x \in opt}

\* BatchRequest: the requests pushed one after the other; nothing is left of
\* a batch without any (into_inner).
BatchRequest(items) ==
  LET pushed[n \in 0 .. Len(items)] ==
        IF n = 0 THEN {} ELSE PushOpt(pushed[n - 1], items[n])
  IN pushed[Len(items)]

\* map: as many items in the same shape.
MapItems(x, items) == [x EXCEPT !.items = items]

-----------------------------------------------------------------------------
(***************************************************************************)
(* What the client writes.                                                 *)
(***************************************************************************)
EncodeRequest(q) ==
  Object(<<<<"jsonrpc", "2.0">>, <<"id", q.id>>, <<"method", q.req>>, <<"params", <<>>>>>>)

EncodeRequests(x) ==
  LET texts == [k \in DOMAIN x.items |-> EncodeRequest(x.items[k])] IN
  IF x.many THEN Array(texts) ELSE texts[1]

-----------------------------------------------------------------------------
(***************************************************************************)
(* What the client reads.                                                  *)
(***************************************************************************)

\* The value of a key, if the object has it.
Field(object, key) == {e[2] : e \in {f \in Range(object.entries) : f[1] = key}}

HasVersion(object) == Field(object, "jsonrpc") = {"2.0"}

\* A notification has a method and parameters; other keys do not matter.
DecodeNotification(object) ==
  IF ~HasVersion(object) THEN {}
  ELSE {[type |-> "notification", method |-> m, params |-> p] :
          m \in Field(object, "method"), p \in Field(object, "params")}

\* Mutant: an error is taken for a result.
DecodeResultAny(object) ==
  {<<"result", v>> : v \in Field(object, "result") \cup Field(object, "error")}

\* result: of the keys result and error the first one counts.
DecodeResult(object) ==
  LET outcomes == {k \in DOMAIN object.entries : object.entries[k][1] \in {"result", "error"}} IN
  IF outcomes = {} THEN {} ELSE {object.entries[Min(outcomes)]}

\* Mutant: a response has no keys but its own.
DecodeResponseStrict(object) ==
  IF ~HasVersion(object) \/ Len(object.entries) # 3 THEN {}
  ELSE {[type |-> "response", id |-> i, result |-> r] :
          i \in Field(object, "id"), r \in DecodeResult(object)}

\* A response has an id of the client's and a result or an error.
DecodeResponse(object) ==
  IF ~HasVersion(object) THEN {}
  ELSE {[type |-> "response", id |-> i, result |-> r] :
          i \in Field(object, "id"), r \in DecodeResult(object)}

\* RawIncoming is untagged: an object is a notification if it can be one.
DecodeIncoming(object) ==
  LET notification == DecodeNotification(object) IN
  IF notification # {} THEN notification ELSE DecodeResponse(object)

\* A line is one message, or an array of which each item is one.  An array
\* of objects cannot be taken for one message.
DecodeLine(text) ==
  IF text.json = "object" THEN {Single(msg) : msg \in DecodeIncoming(text)}
  ELSE LET options == [k \in DOMAIN text.items |-> DecodeIncoming(text.items[k])] IN
       IF \E k \in DOMAIN options : options[k] = {} THEN {}
       ELSE {Batch([k \in DOMAIN options |-> CHOOSE msg \in options[k] : TRUE])}

=============================================================================
