-------------------------- MODULE WireSessionProofs --------------------------
(***************************************************************************)
(* Every line of a server that conforms is understood, whatever its style, *)
(* and the connection of lines implements TrackerSession, in which raw     *)
(* requests and messages travel without a text.                            *)
(***************************************************************************)
EXTENDS WireSession, SharedLemmas

-----------------------------------------------------------------------------
(***************************************************************************)
(* How batches are built and written.                                      *)
(***************************************************************************)

\* The first n requests as push_opt leaves them.
PushedUpto(requests, n) ==
  IF n = 0 THEN {}
  ELSE IF n = 1 THEN {W!Single(requests[1])} ELSE {W!Batch(SubSeq(requests, 1, n))}

\* push_opt onto what is there makes a batch.
LEMMA PushedOnto ==
  ASSUME NEW x, NEW item
  PROVE  W!PushOpt({x}, item) = {W!Batch(Append(x.items, item))}
BY Zenon DEF W!PushOpt

\* One request more.
LEMMA PushedNext ==
  ASSUME NEW S, NEW requests \in Seq(S), NEW n \in 1 .. Len(requests)
  PROVE  PushedUpto(requests, n) = W!PushOpt(PushedUpto(requests, n - 1), requests[n])
<1>1. n \in Nat \ {0} /\ Len(requests) \in Nat /\ n <= Len(requests)
  OBVIOUS
<1>2. CASE n = 1
  BY <1>2 DEF PushedUpto, W!PushOpt
<1>3. CASE n > 1
  <2> DEFINE before == SubSeq(requests, 1, n - 1)
  <2>1. SubSeq(requests, 1, n) = Append(before, requests[n])
    BY <1>1, <1>3
  <2>2. n - 1 = 1 => before = <<requests[1]>>
    <3>1. SUFFICES ASSUME n = 2 PROVE before = <<requests[1]>>
      BY <1>1
    <3>2. before = SubSeq(requests, 1, 1)
      BY <3>1
    <3>3. /\ before \in Seq(S) /\ Len(before) = 1 /\ before[1] = requests[1]
          /\ requests[1] \in S
      BY <1>1, <3>1
    <3> DEFINE e == requests[1]
    <3>4. <<e>> \in Seq(S) /\ Len(<<e>>) = 1 /\ <<e>>[1] = e
      BY <3>3
    <3> HIDE DEF before, e
    <3>5. \A i \in 1 .. 1 : before[i] = <<e>>[i]
      BY <3>3, <3>4 DEF e
    <3>6. before = <<e>>
      BY <3>3, <3>4, <3>5, SeqEqual
    <3>7. QED
      BY <3>6 DEF e
  <2> HIDE DEF before
  <2>3. \E many \in BOOLEAN : PushedUpto(requests, n - 1) = {[many |-> many, items |-> before]}
    <3>1. CASE n - 1 = 1
      <4>1. PushedUpto(requests, n - 1) = {[many |-> FALSE, items |-> before]}
        BY <2>2, <3>1 DEF PushedUpto, W!Single
      <4>2. QED
        BY <4>1, Zenon
    <3>2. CASE n - 1 # 1
      <4>1. n - 1 # 0
        BY <1>1, <1>3
      <4>2. PushedUpto(requests, n - 1) = {[many |-> TRUE, items |-> before]}
        BY <3>2, <4>1, Zenon DEF PushedUpto, W!Batch, before
      <4>3. QED
        BY <4>2, Zenon
    <3>3. QED
      BY <3>1, <3>2
  <2>4. PushedUpto(requests, n) = {W!Batch(SubSeq(requests, 1, n))}
    <3>1. n # 0 /\ n # 1
      BY <1>1, <1>3
    <3>2. QED
      BY <3>1, Zenon DEF PushedUpto
  <2>5. PICK x : PushedUpto(requests, n - 1) = {x} /\ x.items = before
    <3>1. PICK many : PushedUpto(requests, n - 1) = {[many |-> many, items |-> before]}
      BY <2>3, Zenon
    <3>2. [many |-> many, items |-> before].items = before
      OBVIOUS
    <3>3. QED
      BY <3>1, <3>2
  <2>6. W!PushOpt({x}, requests[n]) = {W!Batch(Append(x.items, requests[n]))}
    BY PushedOnto, Zenon
  <2>7. QED
    BY <2>1, <2>4, <2>5, <2>6, Zenon
<1>4. QED
  BY <1>1, <1>2, <1>3

\* A batch has the requests that were pushed, in their order; one alone is
\* no batch.
LEMMA BatchRequestIs ==
  ASSUME NEW S, NEW requests \in Seq(S), requests # <<>>
  PROVE  W!BatchRequest(requests) =
           {[many |-> Len(requests) # 1, items |-> requests]}
<1> DEFINE n == Len(requests)
           D == 0 .. n
           Rec(f, k) == IF k = 0 THEN {} ELSE W!PushOpt(f[k - 1], requests[k])
           g == [k \in D |-> PushedUpto(requests, k)]
           p == CHOOSE f : f = [k \in D |-> Rec(f, k)]
<1>1. n \in Nat /\ n # 0
  OBVIOUS
<1>2. g = [k \in D |-> Rec(g, k)]
  <2>1. ASSUME NEW k \in D PROVE g[k] = Rec(g, k)
    <3>1. CASE k = 0
      BY <3>1 DEF PushedUpto
    <3>2. CASE k # 0
      <4>1. k \in 1 .. n /\ k - 1 \in D
        BY <1>1, <3>2
      <4>2. PushedUpto(requests, k) = W!PushOpt(PushedUpto(requests, k - 1), requests[k])
        BY <4>1, PushedNext
      <4>3. QED
        BY <3>2, <4>1, <4>2
    <3>3. QED
      BY <3>1, <3>2
  <2>2. DOMAIN g = D
    OBVIOUS
  <2> HIDE DEF D, Rec
  <2>3. QED
    BY <2>1 DEF g
<1>3. p = [k \in D |-> Rec(p, k)]
  <2> HIDE DEF g, D, Rec
  <2>1. QED
    BY <1>2, Zenon DEF p
<1>4. p[n] = g[n]
  <2> HIDE DEF g, p
  <2> DEFINE G == {k \in Nat : k <= n => p[k] = g[k]}
  <2>1. \A k \in D : p[k] = Rec(p, k) /\ g[k] = Rec(g, k)
    <3> HIDE DEF D, Rec
    <3>1. QED
      BY <1>2, <1>3, Zenon
  <2>2. 0 \in G
    <3>1. 0 \in D
      BY <1>1
    <3>2. QED
      BY <2>1, <3>1
  <2>3. ASSUME NEW k \in Nat, k \in G PROVE k + 1 \in G
    <3>1. SUFFICES ASSUME k + 1 <= n PROVE p[k + 1] = g[k + 1]
      OBVIOUS
    <3>2. k + 1 \in D /\ k + 1 # 0 /\ k + 1 - 1 = k /\ p[k] = g[k]
      BY <1>1, <2>3, <3>1
    <3>3. QED
      BY <2>1, <3>2
  <2>4. n \in G
    <3> HIDE DEF G
    <3>1. QED
      BY <1>1, <2>2, <2>3, Induction
  <2>5. QED
    BY <1>1, <2>4
<1>5. W!BatchRequest(requests) = p[n]
  BY Zenon DEF W!BatchRequest
<1>6. g[n] = PushedUpto(requests, n)
  BY <1>1
<1>7. PushedUpto(requests, n) = {[many |-> Len(requests) # 1, items |-> requests]}
  <2>1. CASE n = 1
    <3>1. requests = <<requests[1]>>
      BY <2>1
    <3>2. PushedUpto(requests, n) = {[many |-> FALSE, items |-> <<requests[1]>>]}
      BY <2>1 DEF PushedUpto, W!Single
    <3>3. QED
      BY <2>1, <3>1, <3>2
  <2>2. CASE n # 1
    <3>1. SubSeq(requests, 1, n) = requests
      OBVIOUS
    <3>2. QED
      BY <1>1, <2>2, <3>1 DEF PushedUpto, W!Batch
  <2>3. QED
    BY <2>1, <2>2
<1>8. QED
  BY <1>4, <1>5, <1>6, <1>7, Zenon

\* A key that comes once has its value ...
LEMMA OneField ==
  ASSUME NEW object, NEW key, NEW e \in Range(object.entries), e[1] = key,
         \A f \in Range(object.entries) : f[1] = key => f = e
  PROVE  W!Field(object, key) = {e[2]}
<1>1. W!Range(object.entries) = Range(object.entries)
  BY DEF W!Range, Range
<1>2. {f \in Range(object.entries) : f[1] = key} = {e}
  OBVIOUS
<1>3. QED
  BY <1>1, <1>2, Zenon DEF W!Field

\* ... and one that does not come has none.
LEMMA NoField ==
  ASSUME NEW object, NEW key, \A f \in Range(object.entries) : f[1] # key
  PROVE  W!Field(object, key) = {}
<1>1. W!Range(object.entries) = Range(object.entries)
  BY DEF W!Range, Range
<1>2. {f \in Range(object.entries) : f[1] = key} = {}
  OBVIOUS
<1>3. QED
  BY <1>1, <1>2, Zenon DEF W!Field

\* What a request says of itself when it is written.
LEMMA WrittenFields ==
  ASSUME NEW q
  PROVE  /\ W!EncodeRequest(q).json = "object"
         /\ W!Field(W!EncodeRequest(q), "id") = {q.id}
         /\ W!Field(W!EncodeRequest(q), "method") = {q.req}
<1>1. PICK a, b, c, d : /\ a = <<"jsonrpc", "2.0">> /\ b = <<"id", q.id>>
                        /\ c = <<"method", q.req>> /\ d = <<"params", <<>>>>
  OBVIOUS
<1>2. /\ a[1] = "jsonrpc" /\ b[1] = "id" /\ c[1] = "method" /\ d[1] = "params"
      /\ b[2] = q.id /\ c[2] = q.req
  BY <1>1
<1>3. W!EncodeRequest(q) = [json |-> "object", entries |-> <<a, b, c, d>>]
  BY <1>1, Zenon DEF W!EncodeRequest, W!Object
<1>4. PICK object : object = W!EncodeRequest(q)
  OBVIOUS
<1>5. object.json = "object" /\ object.entries = <<a, b, c, d>>
  BY <1>3, <1>4
<1>6. Range(object.entries) = {a, b, c, d}
  BY <1>5 DEF Range
<1>7. W!Field(object, "id") = {b[2]}
  <2>1. b \in Range(object.entries) /\ \A f \in Range(object.entries) : f[1] = "id" => f = b
    BY <1>2, <1>6
  <2>2. b[1] = "id"
    BY <1>2
  <2>3. W!Field(object, "id") = {b[2]}
    BY <2>1, <2>2, OneField, Zenon
  <2>4. QED
    BY <1>2, <2>3
<1>8. W!Field(object, "method") = {c[2]}
  <2>1. c \in Range(object.entries) /\ \A f \in Range(object.entries) : f[1] = "method" => f = c
    BY <1>2, <1>6
  <2>2. c[1] = "method"
    BY <1>2
  <2>3. W!Field(object, "method") = {c[2]}
    BY <2>1, <2>2, OneField, Zenon
  <2>4. QED
    BY <1>2, <2>3
<1>9. QED
  BY <1>2, <1>4, <1>5, <1>7, <1>8

\* What is written of a batch, in either shape, is its raw requests.
LEMMA WrittenRequests ==
  ASSUME NEW raw \in Seq(RawRequest), NEW many \in BOOLEAN, ~many => Len(raw) = 1
  PROVE  RequestsIn(W!EncodeRequests([many |-> many, items |-> raw])) = Range(raw)
<1> DEFINE texts == [k \in DOMAIN raw |-> W!EncodeRequest(raw[k])]
           line == W!EncodeRequests([many |-> many, items |-> raw])
           Read(object) == [id |-> CHOOSE i \in W!Field(object, "id") : TRUE,
                            req |-> CHOOSE r \in W!Field(object, "method") : TRUE]
<1>1. \A q \in RawRequest : Read(W!EncodeRequest(q)) = q
  <2>1. SUFFICES ASSUME NEW q \in RawRequest PROVE Read(W!EncodeRequest(q)) = q
    OBVIOUS
  <2>2. q = [id |-> q.id, req |-> q.req]
    BY DEF RawRequest
  <2>3. /\ W!Field(W!EncodeRequest(q), "id") = {q.id}
        /\ W!Field(W!EncodeRequest(q), "method") = {q.req}
    BY WrittenFields
  <2>4. (CHOOSE i \in {q.id} : TRUE) = q.id /\ (CHOOSE r \in {q.req} : TRUE) = q.req
    OBVIOUS
  <2>5. QED
    BY <2>2, <2>3, <2>4
<1>2. Objects(line) = {W!EncodeRequest(raw[k]) : k \in DOMAIN raw}
  <2>1. CASE many
    <3>1. line = [json |-> "array", items |-> texts]
      BY <2>1 DEF W!EncodeRequests, W!Array
    <3>2. Objects(line) = Range(texts)
      BY <3>1 DEF Objects
    <3>3. QED
      BY <3>2 DEF Range
  <2>2. CASE ~many
    <3>1. DOMAIN raw = {1} /\ line = W!EncodeRequest(raw[1])
      BY <2>2 DEF W!EncodeRequests
    <3>2. line.json = "object"
      BY <3>1, WrittenFields
    <3>3. Objects(line) = {line}
      BY <3>2 DEF Objects
    <3>4. QED
      BY <3>1, <3>3
  <2>3. QED
    BY <2>1, <2>2
<1>3. RequestsIn(line) = {Read(object) : object \in Objects(line)}
  BY Zenon DEF RequestsIn
<1>4. \A k \in DOMAIN raw : raw[k] \in RawRequest
  OBVIOUS
<1> HIDE DEF Read, line
<1>5. RequestsIn(line) = {raw[k] : k \in DOMAIN raw}
  BY <1>1, <1>2, <1>3, <1>4
<1>6. QED
  BY <1>5 DEF Range, line

-----------------------------------------------------------------------------
(***************************************************************************)
(* What the server writes and how it is understood.                        *)
(***************************************************************************)

\* Of the keys result and error, the one that comes.
LEMMA OneOutcome ==
  ASSUME NEW S, NEW object, object.entries \in Seq(S),
         NEW e \in Range(object.entries), e[1] \in {"result", "error"},
         \A f \in Range(object.entries) : f[1] \in {"result", "error"} => f = e
  PROVE  W!DecodeResult(object) = {e}
<1> DEFINE t == object.entries
           outcomes == {k \in DOMAIN t : t[k][1] \in {"result", "error"}}
<1>1. DOMAIN t = 1 .. Len(t) /\ Len(t) \in Nat /\ \A k \in DOMAIN t : t[k] \in Range(t)
  BY DEF Range
<1>2. outcomes # {} /\ outcomes \in SUBSET Nat
  BY <1>1 DEF Range
<1>3. W!Min(outcomes) \in outcomes
  <2>1. \E n \in outcomes : \A m \in outcomes : n <= m
    <3> HIDE DEF outcomes
    <3>1. QED
      BY <1>2, LeastNatural
  <2> HIDE DEF outcomes
  <2>2. QED
    BY <2>1, Zenon DEF W!Min
<1>4. t[W!Min(outcomes)] = e
  BY <1>1, <1>3
<1>5. W!DecodeResult(object) = {t[W!Min(outcomes)]}
  <2>1. W!DecodeResult(object) = IF outcomes = {} THEN {} ELSE {t[W!Min(outcomes)]}
    BY Zenon DEF W!DecodeResult
  <2> HIDE DEF outcomes, t
  <2>2. QED
    BY <1>2, <2>1, Zenon
<1>6. QED
  BY <1>4, <1>5, Zenon

\* The entries with keys of its own that the server adds.
Extra == {<<OwnKeys[n - 3], W!Null>> : n \in Range(style.keys) \ 1 .. 3}

\* An object in the server's style has its three entries, and no other but
\* what the server adds, wherever it puts them.
LEMMA StyledEntries ==
  ASSUME style \in Styles, NEW a, NEW b, NEW c
  PROVE  \E S : \E t \in Seq(S) :
           /\ Styled(<<a, b, c>>) = [json |-> "object", entries |-> t]
           /\ Range(t) = {a, b, c} \cup Extra
<1> DEFINE abc == <<a, b, c>>
           Entry(n) == IF n <= 3 THEN abc[n] ELSE <<OwnKeys[n - 3], W!Null>>
<1>1. PICK keys : keys = style.keys
  OBVIOUS
<1>2. /\ keys \in Seq(1 .. 3 + Len(OwnKeys)) /\ 1 .. 3 \subseteq Range(keys)
      /\ Len(OwnKeys) \in Nat
  BY <1>1, WireAssumption
<1>3. DOMAIN keys = 1 .. Len(keys) /\ Len(keys) \in Nat /\ \A k \in DOMAIN keys : keys[k] \in Nat \ {0}
  BY <1>2
<1>4. PICK t : t = [k \in 1 .. Len(keys) |-> Entry(keys[k])]
  OBVIOUS
<1>5. Styled(abc) = [json |-> "object", entries |-> t]
  BY <1>1, <1>3, <1>4, Zenon DEF Styled, W!Object
<1>6. abc[1] = a /\ abc[2] = b /\ abc[3] = c
  OBVIOUS
<1>7. Extra = {<<OwnKeys[n - 3], W!Null>> : n \in Range(keys) \ 1 .. 3}
  BY <1>1 DEF Extra
<1>8. \A k \in 1 .. Len(keys) : t[k] = Entry(keys[k])
  BY <1>4, Zenon
<1>9. \A k \in 1 .. Len(keys) : t[k] \in {a, b, c} \cup Extra
  <2>1. TAKE k \in 1 .. Len(keys)
  <2>2. keys[k] \in Range(keys) /\ keys[k] \in Nat \ {0}
    BY <1>3 DEF Range
  <2> HIDE DEF abc
  <2>3. CASE keys[k] <= 3
    <3>1. keys[k] = 1 \/ keys[k] = 2 \/ keys[k] = 3
      BY <2>2, <2>3
    <3>2. QED
      BY <1>6, <1>8, <2>3, <3>1
  <2>4. CASE ~(keys[k] <= 3)
    <3>1. keys[k] \in Range(keys) \ 1 .. 3
      BY <2>2, <2>4
    <3>2. t[k] = <<OwnKeys[keys[k] - 3], W!Null>>
      BY <1>8, <2>4, Zenon
    <3>3. QED
      BY <1>7, <3>1, <3>2, Zenon
  <2>5. QED
    BY <2>3, <2>4
<1>10. \A n \in Range(keys) : Entry(n) \in Range(t)
  <2>1. DOMAIN t = 1 .. Len(keys)
    BY <1>4
  <2>2. TAKE n \in Range(keys)
  <2>3. PICK k \in 1 .. Len(keys) : keys[k] = n
    BY <1>3 DEF Range
  <2> HIDE DEF Entry
  <2>4. QED
    BY <1>8, <2>1, <2>3, Zenon DEF Range
<1>11. Range(t) = {a, b, c} \cup Extra
  <2>1. Range(t) \subseteq {a, b, c} \cup Extra
    BY <1>4, <1>9 DEF Range
  <2>2. {a, b, c} \subseteq Range(t)
    <3> HIDE DEF abc
    <3>1. Entry(1) = a /\ Entry(2) = b /\ Entry(3) = c /\ {1, 2, 3} \subseteq Range(keys)
      BY <1>2, <1>6
    <3> HIDE DEF Entry
    <3>2. QED
      BY <1>10, <3>1
  <2>3. Extra \subseteq Range(t)
    <3>1. \A n \in Range(keys) \ 1 .. 3 : Entry(n) = <<OwnKeys[n - 3], W!Null>>
      <4>1. Range(keys) \subseteq Nat \ {0}
        BY <1>3 DEF Range
      <4>2. QED
        BY <4>1
    <3> HIDE DEF Entry
    <3>2. QED
      BY <1>7, <1>10, <3>1
  <2>4. QED
    BY <2>1, <2>2, <2>3, Zenon
<1>12. t \in Seq({a, b, c} \cup Extra)
  <2>1. PICK S : S = {a, b, c} \cup Extra
    OBVIOUS
  <2>2. \A k \in 1 .. Len(keys) : t[k] \in S
    BY <1>9, <2>1
  <2> HIDE DEF abc, Entry
  <2>3. t \in [1 .. Len(keys) -> S]
    BY <1>4, <1>8, <2>2, Zenon
  <2>4. t \in Seq(S)
    BY <1>3, <2>3
  <2>5. QED
    BY <2>1, <2>4
<1>13. QED
  BY <1>5, <1>11, <1>12, Zenon

\* An entry of its own does not look like one of a message.
LEMMA ExtraEntries ==
  ASSUME style \in Styles
  PROVE  \A e \in Extra : e[1] \notin W!MessageKeys
<1>1. TAKE e \in Extra
<1>2. PICK n \in Range(style.keys) \ 1 .. 3 : e = <<OwnKeys[n - 3], W!Null>>
  BY DEF Extra
<1>3. style.keys \in Seq(1 .. 3 + Len(OwnKeys)) /\ Len(OwnKeys) \in Nat
  BY WireAssumption
<1>4. n - 3 \in 1 .. Len(OwnKeys)
  <2>1. n \in 1 .. 3 + Len(OwnKeys)
    BY <1>3 DEF Range
  <2>2. QED
    BY <1>2, <1>3, <2>1
<1>5. OwnKeys[n - 3] \in Range(OwnKeys)
  <2>1. PICK i : i = n - 3
    OBVIOUS
  <2>2. DOMAIN OwnKeys = 1 .. Len(OwnKeys)
    BY WireAssumption
  <2>3. i \in DOMAIN OwnKeys
    BY <1>4, <2>1, <2>2
  <2>4. OwnKeys[i] \in Range(OwnKeys)
    BY <2>3, Zenon DEF Range
  <2>5. QED
    BY <2>1, <2>4
<1>6. e[1] = OwnKeys[n - 3]
  BY <1>2
<1>7. QED
  BY <1>5, <1>6, WireAssumption

\* The driver makes of an object what the server means by it.
Understood(object, msg) ==
  /\ object.json = "object"
  /\ Meaning(object) = {msg}
  /\ \E raw : W!DecodeIncoming(object) = {raw} /\ MessageOf(raw) = msg

\* A response is understood, with its keys in any order.
LEMMA ResponseUnderstood ==
  ASSUME style \in Styles, NEW q \in RawRequest, NEW result \in Results
  PROVE  Understood(ResponseObject(q, result),
                    [type |-> "response", id |-> q.id, of |-> q.req, result |-> result])
<1> DEFINE tag == IF result = "error" THEN "error" ELSE "result"
           msg == [type |-> "response", id |-> q.id, of |-> q.req, result |-> result]
<1>1. PICK v : v = [of |-> q.req, is |-> result]
  OBVIOUS
<1>2. PICK a, b, c : a = <<"jsonrpc", "2.0">> /\ b = <<"id", q.id>> /\ c = <<tag, v>>
  OBVIOUS
<1>3. /\ a[1] = "jsonrpc" /\ a[2] = "2.0" /\ b[1] = "id" /\ b[2] = q.id
      /\ c[1] = tag /\ c[2] = v /\ v.of = q.req /\ v.is = result
  BY <1>1, <1>2
<1>4. tag \in {"result", "error"}
  OBVIOUS
<1>5. PICK object : object = ResponseObject(q, result)
  OBVIOUS
<1>6. object = Styled(<<a, b, c>>)
  BY <1>1, <1>2, <1>5, Zenon DEF ResponseObject
<1>7. PICK S, t : /\ t \in Seq(S)
                  /\ Styled(<<a, b, c>>) = [json |-> "object", entries |-> t]
                  /\ Range(t) = {a, b, c} \cup Extra
  BY StyledEntries, Zenon
<1>8. object.json = "object" /\ object.entries = t
  BY <1>6, <1>7
<1>9. /\ \A e \in Range(object.entries) : e \in {a, b, c} \/ e[1] \notin {"jsonrpc", "id", "method", "params", "result", "error"}
      /\ a \in Range(object.entries) /\ b \in Range(object.entries) /\ c \in Range(object.entries)
  BY <1>7, <1>8, ExtraEntries DEF W!MessageKeys
<1> HIDE DEF tag
<1>10. W!Field(object, "jsonrpc") = {"2.0"}
  <2>1. a \in Range(object.entries) /\ \A f \in Range(object.entries) : f[1] = "jsonrpc" => f = a
    BY <1>3, <1>4, <1>9
  <2>2. a[1] = "jsonrpc"
    BY <1>3
  <2>3. W!Field(object, "jsonrpc") = {a[2]}
    BY <2>1, <2>2, OneField, Zenon
  <2>4. QED
    BY <1>3, <2>3
<1>11. W!Field(object, "id") = {q.id}
  <2>1. b \in Range(object.entries) /\ \A f \in Range(object.entries) : f[1] = "id" => f = b
    BY <1>3, <1>4, <1>9
  <2>2. b[1] = "id"
    BY <1>3
  <2>3. W!Field(object, "id") = {b[2]}
    BY <2>1, <2>2, OneField, Zenon
  <2>4. QED
    BY <1>3, <2>3
<1>12. W!Field(object, "method") = {} /\ W!Field(object, "params") = {}
  BY <1>3, <1>4, <1>9, NoField
<1>13. W!Field(object, "result") \cup W!Field(object, "error") = {v}
  <2>1. CASE tag = "result"
    <3>1. c \in Range(object.entries) /\ \A f \in Range(object.entries) : f[1] = "result" => f = c
      BY <1>3, <1>9, <2>1
    <3>2. \A f \in Range(object.entries) : f[1] # "error"
      BY <1>3, <1>9, <2>1
    <3>3. W!Field(object, "result") = {c[2]}
      <4>1. c[1] = "result"
        BY <1>3, <2>1
      <4>2. QED
        BY <3>1, <4>1, OneField, Zenon
    <3>4. W!Field(object, "error") = {}
      BY <3>2, NoField
    <3>5. QED
      BY <1>3, <3>3, <3>4
  <2>2. CASE tag = "error"
    <3>1. c \in Range(object.entries) /\ \A f \in Range(object.entries) : f[1] = "error" => f = c
      BY <1>3, <1>9, <2>2
    <3>2. \A f \in Range(object.entries) : f[1] # "result"
      BY <1>3, <1>9, <2>2
    <3>3. W!Field(object, "error") = {c[2]}
      <4>1. c[1] = "error"
        BY <1>3, <2>2
      <4>2. QED
        BY <3>1, <4>1, OneField, Zenon
    <3>4. W!Field(object, "result") = {}
      BY <3>2, NoField
    <3>5. QED
      BY <1>3, <3>3, <3>4
  <2>3. QED
    BY <1>4, <2>1, <2>2
<1>14. W!DecodeResult(object) = {c}
  <2>1. object.entries \in Seq(S)
    BY <1>7, <1>8
  <2>2. \A f \in Range(object.entries) : f[1] \in {"result", "error"} => f = c
    BY <1>3, <1>4, <1>9
  <2>3. QED
    BY <1>3, <1>4, <1>9, <2>1, <2>2, OneOutcome
<1>15. Meaning(object) = {msg}
  <2>1. Meaning(object) = {[type |-> "response", id |-> i, of |-> w.of, result |-> w.is] :
                             i \in {q.id}, w \in {v}}
    <3>1. Meaning(object) =
            {[type |-> "response", id |-> i, of |-> w.of, result |-> w.is] :
               i \in W!Field(object, "id"),
               w \in W!Field(object, "result") \cup W!Field(object, "error")}
      BY <1>12 DEF Meaning
    <3>2. QED
      BY <1>11, <1>13, <3>1
  <2>2. QED
    BY <1>3, <2>1
<1>16. PICK raw : raw = [type |-> "response", id |-> q.id, result |-> c]
  OBVIOUS
<1>17. W!DecodeIncoming(object) = {raw}
  <2>1. W!DecodeNotification(object) = {}
    BY <1>12 DEF W!DecodeNotification
  <2>2. W!DecodeResponse(object) =
          {[type |-> "response", id |-> i, result |-> r] : i \in {q.id}, r \in {c}}
    <3>1. W!DecodeResponse(object) =
            {[type |-> "response", id |-> i, result |-> r] :
               i \in W!Field(object, "id"), r \in W!DecodeResult(object)}
      BY <1>10 DEF W!DecodeResponse, W!HasVersion
    <3>2. QED
      BY <1>11, <1>14, <3>1
  <2>3. W!DecodeResponse(object) = {raw}
    BY <1>16, <2>2
  <2>4. QED
    BY <2>1, <2>3, Zenon DEF W!DecodeIncoming
<1>18. MessageOf(raw) = msg
  <2>1. raw.type = "response" /\ raw.id = q.id /\ raw.result = c
    BY <1>16
  <2>2. result \in {"ok", "error", "malformed"}
    BY WireAssumption
  <2>3. c[1] = "error" <=> result = "error"
    BY <1>3 DEF tag
  <2>4. c[2].is = result /\ c[2].of = q.req
    BY <1>3
  <2>5. raw.type # "notification"
    BY <2>1
  <2>6. CASE result = "error"
    <3>1. c[1] = "error"
      BY <2>3, <2>6
    <3>2. QED
      BY <2>1, <2>4, <2>6, <3>1 DEF MessageOf
  <2>7. CASE result = "malformed"
    <3>1. c[1] # "error" /\ c[2].is = "malformed"
      BY <2>3, <2>4, <2>7
    <3>2. QED
      BY <2>1, <2>4, <2>7, <3>1 DEF MessageOf
  <2>8. CASE result = "ok"
    <3>1. c[1] # "error" /\ c[2].is # "malformed"
      BY <2>3, <2>4, <2>8
    <3>2. QED
      BY <2>1, <2>4, <2>8, <3>1 DEF MessageOf
  <2>9. QED
    BY <2>2, <2>6, <2>7, <2>8
<1>19. QED
  BY <1>5, <1>8, <1>15, <1>17, <1>18, Zenon DEF Understood

\* A notification is understood, also one with a null id.
LEMMA NotificationUnderstood ==
  ASSUME style \in Styles, NEW params \in Params
  PROVE  Understood(NotificationObject(params), [type |-> "notification", params |-> params])
<1> DEFINE msg == [type |-> "notification", params |-> params]
<1>1. PICK a, b, c, d : /\ a = <<"jsonrpc", "2.0">> /\ b = <<"method", "subscribe">>
                        /\ c = <<"params", params>> /\ d = <<"id", W!Null>>
  OBVIOUS
<1>2. /\ a[1] = "jsonrpc" /\ a[2] = "2.0" /\ b[1] = "method" /\ b[2] = "subscribe"
      /\ c[1] = "params" /\ c[2] = params /\ d[1] = "id"
  BY <1>1
<1>3. PICK object : object = NotificationObject(params)
  OBVIOUS
<1>4. PICK plain : plain = Styled(<<a, b, c>>)
  OBVIOUS
<1>5. PICK S, t : /\ t \in Seq(S)
                  /\ Styled(<<a, b, c>>) = [json |-> "object", entries |-> t]
                  /\ Range(t) = {a, b, c} \cup Extra
  BY StyledEntries, Zenon
<1>6. object = IF style.nullId THEN [plain EXCEPT !.entries = Append(@, d)] ELSE plain
  BY <1>1, <1>3, <1>4, Zenon DEF NotificationObject
<1>7. object.json = "object" /\ object.entries \in {t, Append(t, d)}
  <2>1. plain = [json |-> "object", entries |-> t]
    BY <1>4, <1>5
  <2>2. CASE style.nullId
    BY <1>6, <2>1, <2>2
  <2>3. CASE ~style.nullId
    BY <1>6, <2>1, <2>3
  <2>4. QED
    BY <2>2, <2>3
<1>8. Range(Append(t, d)) = Range(t) \cup {d}
  <2>1. /\ DOMAIN t = 1 .. Len(t) /\ Len(t) \in Nat
        /\ DOMAIN Append(t, d) = 1 .. Len(t) + 1
        /\ \A k \in 1 .. Len(t) : Append(t, d)[k] = t[k]
        /\ Append(t, d)[Len(t) + 1] = d
    BY <1>5
  <2>2. 1 .. Len(t) + 1 = (1 .. Len(t)) \cup {Len(t) + 1}
    BY <2>1
  <2>3. QED
    BY <2>1, <2>2 DEF Range
<1>9. /\ \A e \in Range(object.entries) : e \in {a, b, c, d} \/ e[1] \notin {"jsonrpc", "id", "method", "params", "result", "error"}
      /\ a \in Range(object.entries) /\ b \in Range(object.entries) /\ c \in Range(object.entries)
  BY <1>5, <1>7, <1>8, ExtraEntries DEF W!MessageKeys
<1>10. W!Field(object, "jsonrpc") = {"2.0"}
  <2>1. a \in Range(object.entries) /\ \A f \in Range(object.entries) : f[1] = "jsonrpc" => f = a
    BY <1>2, <1>9
  <2>2. a[1] = "jsonrpc"
    BY <1>2
  <2>3. W!Field(object, "jsonrpc") = {a[2]}
    BY <2>1, <2>2, OneField, Zenon
  <2>4. QED
    BY <1>2, <2>3
<1>11. W!Field(object, "method") = {"subscribe"}
  <2>1. b \in Range(object.entries) /\ \A f \in Range(object.entries) : f[1] = "method" => f = b
    BY <1>2, <1>9
  <2>2. b[1] = "method"
    BY <1>2
  <2>3. W!Field(object, "method") = {b[2]}
    BY <2>1, <2>2, OneField, Zenon
  <2>4. QED
    BY <1>2, <2>3
<1>12. W!Field(object, "params") = {params}
  <2>1. c \in Range(object.entries) /\ \A f \in Range(object.entries) : f[1] = "params" => f = c
    BY <1>2, <1>9
  <2>2. c[1] = "params"
    BY <1>2
  <2>3. W!Field(object, "params") = {c[2]}
    BY <2>1, <2>2, OneField, Zenon
  <2>4. QED
    BY <1>2, <2>3
<1>13. Meaning(object) = {msg}
  <2>1. Meaning(object) = {[type |-> "notification", params |-> p] : p \in {params}}
    BY <1>12 DEF Meaning
  <2>2. QED
    BY <2>1
<1>14. PICK raw : raw = [type |-> "notification", method |-> "subscribe", params |-> params]
  OBVIOUS
<1>15. W!DecodeIncoming(object) = {raw}
  <2>1. W!DecodeNotification(object) =
          {[type |-> "notification", method |-> m, params |-> p] : m \in {"subscribe"}, p \in {params}}
    <3>1. W!DecodeNotification(object) =
            {[type |-> "notification", method |-> m, params |-> p] :
               m \in W!Field(object, "method"), p \in W!Field(object, "params")}
      BY <1>10 DEF W!DecodeNotification, W!HasVersion
    <3>2. QED
      BY <1>11, <1>12, <3>1
  <2>2. W!DecodeNotification(object) = {raw}
    BY <1>14, <2>1
  <2>3. QED
    BY <2>2 DEF W!DecodeIncoming
<1>16. MessageOf(raw) = msg
  <2>1. raw.type = "notification" /\ raw.params = params
    BY <1>14
  <2>2. QED
    BY <2>1, Zenon DEF MessageOf
<1>17. QED
  BY <1>3, <1>7, <1>13, <1>15, <1>16, Zenon DEF Understood

\* Whatever the server sends is understood.
LEMMA ObjectsUnderstood ==
  ASSUME style \in Styles, NEW object \in ServerObjects
  PROVE  \E msg \in RawIncoming : Understood(object, msg)
<1>1. ASSUME NEW q \in RawRequest, NEW result \in Results, object = ResponseObject(q, result)
      PROVE  \E msg \in RawIncoming : Understood(object, msg)
  <2> DEFINE msg == [type |-> "response", id |-> q.id, of |-> q.req, result |-> result]
  <2>1. msg \in RawIncoming
    BY WireAssumption DEF RawRequest, RawIncoming, Response
  <2>2. Understood(ResponseObject(q, result), msg)
    BY ResponseUnderstood
  <2>3. QED
    BY <1>1, <2>1, <2>2, Zenon
<1>2. ASSUME NEW params \in Params, object = NotificationObject(params)
      PROVE  \E msg \in RawIncoming : Understood(object, msg)
  <2> DEFINE msg == [type |-> "notification", params |-> params]
  <2>1. msg \in RawIncoming
    BY WireAssumption DEF RawIncoming, Notification
  <2>2. Understood(NotificationObject(params), msg)
    BY NotificationUnderstood
  <2>3. QED
    BY <1>2, <2>1, <2>2, Zenon
<1>3. \/ \E q \in RawRequest, result \in Results : object = ResponseObject(q, result)
      \/ \E params \in Params : object = NotificationObject(params)
  BY DEF ServerObjects
<1>4. QED
  BY <1>1, <1>2, <1>3, Zenon

-----------------------------------------------------------------------------
(***************************************************************************)
(* The messages in flight.                                                 *)
(***************************************************************************)

\* A server keeps its style.
LEMMA SameObjects == style' = style => ServerObjects' = ServerObjects
BY DEF ServerObjects, ResponseObject, NotificationObject, Styled

Messages == (1 .. MaxConn) \X RawIncoming

\* Objects mean a message each.
LEMMA MeaningsAre ==
  ASSUME style \in Styles, conn \in 1 .. MaxConn, NEW s \in Seq(ServerObjects)
  PROVE  /\ Meanings(s) \in Seq(Messages) /\ Len(Meanings(s)) = Len(s)
         /\ \A k \in 1 .. Len(s) : \E msg \in RawIncoming :
              Understood(s[k], msg) /\ Meanings(s)[k] = <<conn, msg>>
<1> DEFINE n == Len(s)
           M(object) == CHOOSE msg \in Meaning(object) : TRUE
<1>1. n \in Nat /\ DOMAIN s = 1 .. n /\ \A k \in 1 .. n : s[k] \in ServerObjects
  OBVIOUS
<1>2. ASSUME NEW k \in 1 .. n
      PROVE  M(s[k]) \in RawIncoming /\ Understood(s[k], M(s[k]))
  <2>1. PICK msg \in RawIncoming : Understood(s[k], msg)
    BY <1>1, ObjectsUnderstood
  <2>2. Meaning(s[k]) = {msg}
    BY <2>1, Zenon DEF Understood
  <2>3. M(s[k]) = msg
    BY <2>2
  <2>4. QED
    BY <2>1, <2>3
<1>3. Meanings(s) = [k \in 1 .. n |-> <<conn, M(s[k])>>]
  BY <1>1, Zenon DEF Meanings
<1> HIDE DEF M, n
<1>4. \A k \in 1 .. n : <<conn, M(s[k])>> \in Messages
  BY <1>2 DEF Messages
<1>5. PICK t : t = Meanings(s)
  OBVIOUS
<1>6. t \in [1 .. n -> Messages]
  BY <1>3, <1>4, <1>5
<1>7. t \in Seq(Messages) /\ Len(t) = n
  <2>1. t \in Seq(Messages)
    BY <1>1, <1>6
  <2>2. QED
    BY <1>1, <1>6, <2>1
<1>8. ASSUME NEW k \in 1 .. n
      PROVE  \E msg \in RawIncoming : Understood(s[k], msg) /\ Meanings(s)[k] = <<conn, msg>>
  <2>1. Meanings(s)[k] = <<conn, M(s[k])>>
    BY <1>3
  <2>2. QED
    BY <1>2, <2>1, Zenon
<1>9. QED
  BY <1>5, <1>7, <1>8 DEF n

\* What the objects behind the first mean.
LEMMA MeaningsOfTail ==
  ASSUME style \in Styles, conn \in 1 .. MaxConn, NEW s \in Seq(ServerObjects), s # <<>>
  PROVE  Meanings(Tail(s)) = Tail(Meanings(s))
<1> DEFINE n == Len(s)
           t == Tail(s)
           M(object) == CHOOSE msg \in Meaning(object) : TRUE
<1>1. /\ n \in Nat /\ n # 0 /\ t \in Seq(ServerObjects) /\ Len(t) = n - 1
      /\ DOMAIN s = 1 .. n /\ DOMAIN t = 1 .. n - 1
      /\ \A k \in 1 .. n - 1 : t[k] = s[k + 1]
  OBVIOUS
<1>2. PICK m, u : m = Meanings(s) /\ u = Meanings(t)
  OBVIOUS
<1>3. m \in Seq(Messages) /\ Len(m) = n /\ u \in Seq(Messages) /\ Len(u) = n - 1
  BY <1>1, <1>2, MeaningsAre
<1>4. m = [k \in 1 .. n |-> <<conn, M(s[k])>>] /\ u = [k \in 1 .. n - 1 |-> <<conn, M(t[k])>>]
  BY <1>1, <1>2, Zenon DEF Meanings
<1> HIDE DEF M, n, t
<1>5. ASSUME NEW k \in 1 .. n - 1 PROVE u[k] = m[k + 1]
  <2>1. k + 1 \in 1 .. n
    BY <1>1
  <2>2. u[k] = <<conn, M(t[k])>> /\ m[k + 1] = <<conn, M(s[k + 1])>>
    BY <1>4, <2>1
  <2>3. QED
    BY <1>1, <2>2
<1>6. /\ Tail(m) \in Seq(Messages) /\ Len(Tail(m)) = n - 1
      /\ \A k \in 1 .. n - 1 : Tail(m)[k] = m[k + 1]
  BY <1>1, <1>3
<1>7. u = Tail(m)
  <2> DEFINE v == Tail(m)
  <2> HIDE DEF v
  <2>1. /\ u \in Seq(Messages) /\ v \in Seq(Messages) /\ Len(u) = Len(v)
        /\ \A k \in 1 .. Len(u) : u[k] = v[k]
    BY <1>3, <1>5, <1>6 DEF v
  <2>2. u = v
    BY <2>1, SeqEqual
  <2>3. QED
    BY <2>2 DEF v
<1>8. QED
  BY <1>2, <1>7 DEF t

\* What one object more means.
LEMMA MeaningsAppended ==
  ASSUME style \in Styles, conn \in 1 .. MaxConn, NEW s \in Seq(ServerObjects),
         NEW object \in ServerObjects, NEW msg, Understood(object, msg)
  PROVE  Meanings(Append(s, object)) = Append(Meanings(s), <<conn, msg>>)
<1> DEFINE n == Len(s)
           t == Append(s, object)
           M(o) == CHOOSE x \in Meaning(o) : TRUE
<1>1. /\ n \in Nat /\ t \in Seq(ServerObjects) /\ Len(t) = n + 1
      /\ DOMAIN s = 1 .. n /\ DOMAIN t = 1 .. n + 1
      /\ \A k \in 1 .. n : t[k] = s[k]
      /\ t[n + 1] = object
  OBVIOUS
<1>2. PICK m, u : m = Meanings(s) /\ u = Meanings(t)
  OBVIOUS
<1>3. m \in Seq(Messages) /\ Len(m) = n /\ u \in Seq(Messages) /\ Len(u) = n + 1
  BY <1>1, <1>2, MeaningsAre
<1>4. m = [k \in 1 .. n |-> <<conn, M(s[k])>>] /\ u = [k \in 1 .. n + 1 |-> <<conn, M(t[k])>>]
  BY <1>1, <1>2, Zenon DEF Meanings
<1>5. M(object) = msg
  <2>1. Meaning(object) = {msg}
    BY Zenon DEF Understood
  <2>2. QED
    BY <2>1
<1> HIDE DEF M, n, t
<1>6. ASSUME NEW k \in 1 .. n PROVE u[k] = m[k]
  <2>1. k \in 1 .. n + 1
    BY <1>1
  <2>2. u[k] = <<conn, M(t[k])>> /\ m[k] = <<conn, M(s[k])>>
    BY <1>4, <2>1
  <2>3. QED
    BY <1>1, <2>2
<1>7. u[n + 1] = <<conn, msg>> /\ u[n + 1] \in Messages
  <2>1. n + 1 \in 1 .. n + 1
    BY <1>1
  <2>2. QED
    BY <1>1, <1>3, <1>4, <1>5, <2>1
<1> DEFINE v == Append(m, <<conn, msg>>)
<1>8. /\ v \in Seq(Messages) /\ Len(v) = n + 1
      /\ \A k \in 1 .. n : v[k] = m[k]
      /\ v[n + 1] = <<conn, msg>>
  <2>1. PICK e \in Messages : e = <<conn, msg>>
    BY <1>7
  <2>2. /\ Append(m, e) \in Seq(Messages) /\ Len(Append(m, e)) = n + 1
        /\ \A k \in 1 .. n : Append(m, e)[k] = m[k]
        /\ Append(m, e)[n + 1] = e
    BY <1>1, <1>3
  <2>3. QED
    BY <2>1, <2>2
<1> HIDE DEF v
<1>9. u = v
  <2>1. ASSUME NEW k \in 1 .. n + 1 PROVE u[k] = v[k]
    <3>1. k \in 1 .. n \/ k = n + 1
      BY <1>1
    <3>2. QED
      BY <1>6, <1>7, <1>8, <3>1
  <2>2. QED
    BY <1>3, <1>8, <2>1, SeqEqual
<1>10. QED
  BY <1>2, <1>9 DEF v, t

\* What is in flight is a sequence of messages.
LEMMA InFlightType == TypeOK /\ LinesAreStyled =>
  /\ InFlight \in Seq(Messages) /\ Pieces \in Seq(ServerObjects)
  /\ queue \in Seq(Messages) /\ Meanings(Pieces) \in Seq(Messages)
<1> SUFFICES ASSUME TypeOK, LinesAreStyled
             PROVE  /\ InFlight \in Seq(Messages) /\ Pieces \in Seq(ServerObjects)
                    /\ queue \in Seq(Messages) /\ Meanings(Pieces) \in Seq(Messages)
  OBVIOUS
<1>1. Pieces \in Seq(ServerObjects) /\ style \in Styles /\ conn \in 1 .. MaxConn
  BY DEF TypeOK, LinesAreStyled
<1>2. Meanings(Pieces) \in Seq(Messages)
  BY <1>1, MeaningsAre
<1>3. queue \in Seq(Messages)
  BY DEF TypeOK, Messages
<1>4. InFlight \in Seq(Messages)
  BY <1>2, <1>3 DEF InFlight
<1>5. QED
  BY <1>1, <1>2, <1>3, <1>4

\* Whatever lines they are on, the objects on their way are the pieces.
LEMMA ObjectsArePieces ==
  ASSUME TypeOK, LinesAreStyled
  PROVE  UNION {Objects(line) : line \in Range(toClient)} = Range(Pieces)
<1>1. Pieces \in Seq(ServerObjects) /\ style \in Styles
  BY DEF TypeOK, LinesAreStyled
<1>2. CASE style.arrays /\ toClient # <<>>
  <2>1. toClient = <<W!Array(Pieces)>>
    BY <1>2 DEF LinesAreStyled
  <2>2. PICK line : line = W!Array(Pieces)
    OBVIOUS
  <2>3. line.json = "array" /\ line.items = Pieces
    BY <2>2 DEF W!Array
  <2>4. Objects(line) = Range(Pieces)
    BY <2>3 DEF Objects
  <2>5. Range(toClient) = {line}
    BY <2>1, <2>2 DEF Range
  <2>6. QED
    BY <2>4, <2>5
<1>3. CASE ~(style.arrays /\ toClient # <<>>)
  <2>1. Pieces = toClient
    BY <1>3 DEF Pieces
  <2>2. ASSUME NEW line \in Range(toClient) PROVE Objects(line) = {line}
    <3>1. line \in ServerObjects
      BY <1>1, <2>1 DEF Range
    <3>2. line.json = "object"
      BY <1>1, <3>1, ObjectsUnderstood DEF Understood
    <3>3. QED
      BY <3>2 DEF Objects
  <2>3. QED
    BY <2>1, <2>2
<1>4. QED
  BY <1>2, <1>3

\* The messages on their way are those in flight.
LEMMA OnTheWayIs == TypeOK /\ LinesAreStyled => OnTheWay = Range(InFlight)
<1> SUFFICES ASSUME TypeOK, LinesAreStyled PROVE OnTheWay = Range(InFlight)
  OBVIOUS
<1>1. /\ queue \in Seq(Messages) /\ Meanings(Pieces) \in Seq(Messages)
      /\ Pieces \in Seq(ServerObjects) /\ style \in Styles /\ conn \in 1 .. MaxConn
  BY InFlightType DEF TypeOK
<1> DEFINE ms == {<<conn, msg>> : msg \in UNION {Meaning(object) : object \in Range(Pieces)}}
           n == Len(Pieces)
<1>2. OnTheWay = Range(queue) \cup ms
  BY ObjectsArePieces, Zenon DEF OnTheWay
<1>3. /\ Len(Meanings(Pieces)) = n /\ n \in Nat
      /\ \A k \in 1 .. n : \E msg \in RawIncoming :
           Understood(Pieces[k], msg) /\ Meanings(Pieces)[k] = <<conn, msg>>
  BY <1>1, MeaningsAre
<1>4. \A k \in 1 .. n : \E msg :
        Meaning(Pieces[k]) = {msg} /\ Meanings(Pieces)[k] = <<conn, msg>>
  BY <1>3, Zenon DEF Understood
<1>5. /\ Range(Meanings(Pieces)) = {Meanings(Pieces)[k] : k \in 1 .. n}
      /\ Range(Pieces) = {Pieces[k] : k \in 1 .. n}
  <2> DEFINE m == Meanings(Pieces)
  <2>1. m \in Seq(Messages) /\ Len(m) = n /\ Pieces \in Seq(ServerObjects) /\ Len(Pieces) = n
    BY <1>1, <1>3
  <2> HIDE DEF m, n
  <2>2. DOMAIN m = 1 .. n /\ DOMAIN Pieces = 1 .. n
    BY <2>1
  <2>3. QED
    BY <2>2 DEF Range, m
<1> HIDE DEF n
<1>6. ms = Range(Meanings(Pieces))
  <2>1. ms = {<<conn, msg>> : msg \in UNION {Meaning(Pieces[k]) : k \in 1 .. n}}
    BY <1>5
  <2>2. ms \subseteq Range(Meanings(Pieces))
    BY <1>4, <1>5, <2>1
  <2>3. Range(Meanings(Pieces)) \subseteq ms
    <3>1. SUFFICES ASSUME NEW k \in 1 .. n PROVE Meanings(Pieces)[k] \in ms
      BY <1>5
    <3>2. PICK msg : Meaning(Pieces[k]) = {msg} /\ Meanings(Pieces)[k] = <<conn, msg>>
      BY <1>4
    <3>3. QED
      BY <2>1, <3>2
  <2>4. QED
    BY <2>2, <2>3
<1>7. Range(InFlight) = Range(queue) \cup Range(Meanings(Pieces))
  BY <1>1, RangeConcatenation DEF InFlight
<1>8. QED
  BY <1>2, <1>6, <1>7

\* So they are after a step.
LEMMA OnTheWayBecomes == (TypeOK /\ LinesAreStyled => OnTheWay = Range(InFlight))'
BY OnTheWayIs, PTL

\* What the types say.
LEMMA TypeTells == TypeOK =>
  /\ TrackerTypeOK /\ log \in Seq(Req) /\ conn \in 1 .. MaxConn /\ up \in BOOLEAN
  /\ style \in Styles /\ server \subseteq RawRequest /\ queue \in Seq(Messages)
  /\ refused \in BOOLEAN
BY Zenon DEF TypeOK, Messages

\* A sequence in which every item is what is read of the object at its place.
LEMMA ReadItem ==
  ASSUME style \in Styles, NEW object \in ServerObjects
  PROVE  \E raw : /\ W!DecodeIncoming(object) = {raw}
                  /\ MessageOf(raw) = CHOOSE msg \in Meaning(object) : TRUE
<1>1. PICK msg \in RawIncoming : Understood(object, msg)
  BY ObjectsUnderstood
<1>2. PICK raw : W!DecodeIncoming(object) = {raw} /\ MessageOf(raw) = msg
  BY <1>1, Zenon DEF Understood
<1>3. Meaning(object) = {msg}
  BY <1>1, Zenon DEF Understood
<1>4. (CHOOSE m \in Meaning(object) : TRUE) = msg
  BY <1>3
<1>5. QED
  BY <1>2, <1>4, Zenon

\* A line of one object is read as its message ...
LEMMA ObjectIsRead ==
  ASSUME style \in Styles, NEW object \in ServerObjects
  PROVE  \E raw : /\ W!DecodeLine(object) = {[many |-> FALSE, items |-> <<raw>>]}
                  /\ MessageOf(raw) = CHOOSE msg \in Meaning(object) : TRUE
<1>1. PICK raw : /\ W!DecodeIncoming(object) = {raw}
                 /\ MessageOf(raw) = CHOOSE msg \in Meaning(object) : TRUE
  BY ReadItem
<1>2. object.json = "object"
  BY ObjectsUnderstood, Zenon DEF Understood
<1>3. W!DecodeLine(object) = {W!Single(msg) : msg \in {raw}}
  BY <1>1, <1>2, Zenon DEF W!DecodeLine
<1>4. W!DecodeLine(object) = {[many |-> FALSE, items |-> <<raw>>]}
  BY <1>3 DEF W!Single
<1>5. QED
  BY <1>1, <1>4, Zenon

\* ... and one of several objects as theirs, in the same order.
LEMMA ArrayIsRead ==
  ASSUME style \in Styles, NEW s \in Seq(ServerObjects)
  PROVE  \E raws : /\ W!DecodeLine(W!Array(s)) = {[many |-> TRUE, items |-> raws]}
                   /\ DOMAIN raws = DOMAIN s
                   /\ \A k \in DOMAIN s : MessageOf(raws[k]) = CHOOSE msg \in Meaning(s[k]) : TRUE
<1>1. PICK line : line = W!Array(s)
  OBVIOUS
<1> DEFINE options == [k \in DOMAIN line.items |-> W!DecodeIncoming(line.items[k])]
           raws == [k \in DOMAIN options |-> CHOOSE msg \in options[k] : TRUE]
<1>2. line.json # "object" /\ line.items = s
  BY <1>1 DEF W!Array
<1>3. ASSUME NEW k \in DOMAIN s
      PROVE  /\ options[k] # {}
             /\ MessageOf(raws[k]) = CHOOSE msg \in Meaning(s[k]) : TRUE
  <2>1. s[k] \in ServerObjects
    OBVIOUS
  <2>2. PICK raw : /\ W!DecodeIncoming(s[k]) = {raw}
                   /\ MessageOf(raw) = CHOOSE msg \in Meaning(s[k]) : TRUE
    BY <2>1, ReadItem
  <2>3. options[k] = {raw}
    BY <1>2, <2>2
  <2>4. raws[k] = CHOOSE msg \in options[k] : TRUE
    BY <1>2
  <2>5. (CHOOSE msg \in {raw} : TRUE) = raw
    OBVIOUS
  <2>6. raws[k] = raw
    BY <2>3, <2>4, <2>5, Zenon
  <2>7. QED
    BY <2>2, <2>3, <2>6
<1>4. W!DecodeLine(line) =
        IF \E k \in DOMAIN options : options[k] = {} THEN {} ELSE {W!Batch(raws)}
  BY <1>2, Zenon DEF W!DecodeLine
<1>5. DOMAIN options = DOMAIN s /\ DOMAIN raws = DOMAIN s
  BY <1>2
<1> HIDE DEF options, raws
<1>6. W!DecodeLine(line) = {W!Batch(raws)}
  <2>1. ~\E k \in DOMAIN options : options[k] = {}
    BY <1>3, <1>5
  <2>2. QED
    BY <1>4, <2>1
<1>7. QED
  BY <1>1, <1>3, <1>5, <1>6, Zenon DEF W!Batch

\* A line that is read is understood, and its messages stay in flight.
LEMMA ReadLineMoves ==
  ASSUME TypeOK, LinesAreStyled, ReadLine
  PROVE  /\ refused' = FALSE /\ queue' \in Seq(Messages)
         /\ LinesAreStyled' /\ InFlight' = InFlight
<1> USE TypeTells
<1>1. /\ queue = <<>> /\ toClient # <<>> /\ toClient' = Tail(toClient)
      /\ UNCHANGED <<conn, style>> /\ style \in Styles /\ conn \in 1 .. MaxConn
  BY DEF ReadLine
<1>2. ServerObjects' = ServerObjects
  BY <1>1, SameObjects
<1>3. Pieces \in Seq(ServerObjects)
  BY DEF LinesAreStyled
<1>4. ASSUME NEW x, W!DecodeLine(Head(toClient)) = {x}
      PROVE  refused' = FALSE /\ queue' = [k \in DOMAIN x.items |-> <<conn, MessageOf(x.items[k])>>]
  <2> DEFINE read == {y.items : y \in W!DecodeLine(Head(toClient))}
  <2>1. /\ refused' = (read = {})
        /\ queue' \in {[k \in DOMAIN items |-> <<conn, MessageOf(items[k])>>] :
                         items \in read \cup (IF read = {} THEN {<<>>} ELSE {})}
    BY Zenon DEF ReadLine
  <2>2. read = {x.items}
    BY <1>4
  <2> HIDE DEF read
  <2>3. refused' = FALSE
    BY <2>1, <2>2
  <2>4. queue' \in {[k \in DOMAIN items |-> <<conn, MessageOf(items[k])>>] : items \in {x.items}}
    BY <2>1, <2>2
  <2>5. QED
    BY <2>3, <2>4
<1>5. CASE style.arrays
  <2>1. toClient = <<W!Array(Pieces)>> /\ Pieces # <<>>
    BY <1>1, <1>5 DEF LinesAreStyled
  <2>2. Head(toClient) = W!Array(Pieces) /\ toClient' = <<>>
    BY <1>1, <2>1
  <2>3. PICK raws : /\ W!DecodeLine(W!Array(Pieces)) = {[many |-> TRUE, items |-> raws]}
                    /\ DOMAIN raws = DOMAIN Pieces
                    /\ \A k \in DOMAIN Pieces :
                         MessageOf(raws[k]) = CHOOSE msg \in Meaning(Pieces[k]) : TRUE
    BY <1>1, <1>3, ArrayIsRead
  <2>4. PICK x : x = [many |-> TRUE, items |-> raws]
    OBVIOUS
  <2>5. x.items = raws
    BY <2>4
  <2>6. refused' = FALSE /\ queue' = [k \in DOMAIN raws |-> <<conn, MessageOf(raws[k])>>]
    BY <1>4, <2>2, <2>3, <2>4, <2>5
  <2>7. queue' = Meanings(Pieces)
    BY <2>3, <2>6 DEF Meanings
  <2>8. Pieces' = <<>>
    BY <2>2 DEF Pieces
  <2>9. LinesAreStyled'
    BY <1>2, <2>2, <2>8 DEF LinesAreStyled
  <2>10. Meanings(Pieces)' = <<>>
    BY <2>8 DEF Meanings
  <2>11. Meanings(Pieces) \in Seq(Messages)
    BY InFlightType
  <2>12. InFlight = Meanings(Pieces) /\ InFlight' = Meanings(Pieces)
    <3> DEFINE m == Meanings(Pieces)
    <3> HIDE DEF m
    <3>1. m \in Seq(Messages) /\ InFlight = <<>> \o m /\ InFlight' = m \o <<>>
      BY <1>1, <2>7, <2>10, <2>11 DEF InFlight, m
    <3>2. InFlight = m /\ InFlight' = m
      BY <3>1, ConcatEmptySeq
    <3>3. QED
      BY <3>2 DEF m
  <2>13. QED
    BY <2>6, <2>7, <2>9, <2>11, <2>12
<1>6. CASE ~style.arrays
  <2>1. Pieces = toClient /\ Pieces' = toClient'
    BY <1>1, <1>6 DEF Pieces
  <2>2. /\ toClient \in Seq(ServerObjects) /\ Head(toClient) \in ServerObjects
        /\ Tail(toClient) \in Seq(ServerObjects)
    BY <1>1, <1>3, <2>1
  <2>3. PICK raw : /\ W!DecodeLine(Head(toClient)) = {[many |-> FALSE, items |-> <<raw>>]}
                   /\ MessageOf(raw) = CHOOSE msg \in Meaning(Head(toClient)) : TRUE
    BY <1>1, <2>2, ObjectIsRead
  <2>4. PICK x : x = [many |-> FALSE, items |-> <<raw>>]
    OBVIOUS
  <2>5. x.items = <<raw>>
    BY <2>4
  <2>6. refused' = FALSE /\ queue' = [k \in DOMAIN <<raw>> |-> <<conn, MessageOf(<<raw>>[k])>>]
    BY <1>4, <2>3, <2>4, <2>5
  <2>7. queue' = <<<<conn, MessageOf(raw)>>>>
    BY <2>6
  <2>8. LinesAreStyled'
    BY <1>1, <1>2, <1>6, <2>1, <2>2 DEF LinesAreStyled
  <2>9. InFlight = Meanings(toClient) /\ Meanings(toClient) \in Seq(Messages)
    <3> DEFINE m == Meanings(Pieces)
    <3> HIDE DEF m
    <3>1. m \in Seq(Messages) /\ InFlight = <<>> \o m
      BY <1>1, InFlightType DEF InFlight, m
    <3>2. InFlight = m
      BY <3>1, ConcatEmptySeq
    <3>3. QED
      BY <2>1, <3>1, <3>2 DEF m
  <2>10. Meanings(Pieces)' = Meanings(Tail(toClient))
    BY <1>1, <2>1 DEF Meanings
  <2>11. Meanings(Tail(toClient)) = Tail(Meanings(toClient))
    BY <1>1, <2>2, MeaningsOfTail
  <2>12. Head(Meanings(toClient)) = <<conn, MessageOf(raw)>>
    BY <1>1, <2>2, <2>3 DEF Meanings
  <2>13. Meanings(toClient) # <<>>
    BY <1>1, <2>2 DEF Meanings
  <2>14. InFlight' = <<Head(Meanings(toClient))>> \o Tail(Meanings(toClient))
    BY <2>7, <2>10, <2>11, <2>12 DEF InFlight
  <2>15. InFlight' = InFlight
    <3> DEFINE m == Meanings(toClient)
    <3> HIDE DEF m
    <3>1. m \in Seq(Messages) /\ m # <<>>
      BY <2>9, <2>13 DEF m
    <3>2. m = <<Head(m)>> \o Tail(m)
      BY <3>1
    <3>3. QED
      BY <2>9, <2>14, <3>2 DEF m
  <2>16. queue' \in Seq(Messages)
    <3>1. Head(Meanings(toClient)) \in Messages
      BY <2>9, <2>13
    <3>2. QED
      BY <2>7, <2>12, <3>1
  <2>17. QED
    BY <2>6, <2>8, <2>15, <2>16
<1>7. QED
  BY <1>5, <1>6

\* What the server sends is in flight behind the rest.
LEMMA ServerSendsMoves ==
  ASSUME TypeOK, LinesAreStyled, NEW object \in ServerObjects, NEW msg \in RawIncoming,
         Understood(object, msg), ServerSends(object), UNCHANGED <<conn, style, queue>>
  PROVE  LinesAreStyled' /\ InFlight' = Append(InFlight, <<conn, msg>>)
<1>1. /\ style \in Styles /\ conn \in 1 .. MaxConn /\ queue \in Seq(Messages)
      /\ Pieces \in Seq(ServerObjects) /\ Meanings(Pieces) \in Seq(Messages)
  BY TypeTells, InFlightType
<1>2. ServerObjects' = ServerObjects
  <2>1. style' = style
    OBVIOUS
  <2>2. QED
    BY <2>1, SameObjects
<1>3. Pieces' = Append(Pieces, object) /\ Pieces' # <<>>
      /\ (style.arrays => toClient' = <<W!Array(Pieces')>>)
  <2>1. CASE ~style.arrays
    <3>1. Pieces = toClient /\ Pieces' = toClient' /\ toClient' = Append(toClient, object)
      BY <2>1 DEF Pieces, ServerSends
    <3>2. QED
      BY <1>1, <2>1, <3>1
  <2>2. CASE style.arrays
    <3>1. toClient' = <<W!Array(Append(Pieces, object))>>
      <4>1. CASE toClient = <<>>
        <5>1. Pieces = <<>> /\ toClient' = <<W!Array(<<object>>)>>
          BY <2>2, <4>1 DEF Pieces, ServerSends
        <5>2. QED
          BY <5>1
      <4>2. CASE toClient # <<>>
        <5>1. Pieces = toClient[1].items
          BY <2>2, <4>2 DEF Pieces
        <5>2. toClient' = <<W!Array(Append(toClient[1].items, object))>>
          BY <2>2, <4>2 DEF ServerSends
        <5>3. QED
          BY <5>1, <5>2
      <4>3. QED
        BY <4>1, <4>2
    <3>2. PICK line : line = W!Array(Append(Pieces, object))
      OBVIOUS
    <3>3. line.items = Append(Pieces, object)
      BY <3>2 DEF W!Array
    <3>4. toClient' = <<line>> /\ toClient' # <<>> /\ toClient'[1] = line
      BY <3>1, <3>2
    <3>5. Pieces' = Append(Pieces, object)
      BY <2>2, <3>3, <3>4 DEF Pieces
    <3>6. QED
      BY <1>1, <3>1, <3>5
  <2>3. QED
    BY <2>1, <2>2
<1>4. LinesAreStyled'
  <2>1. Pieces' \in Seq(ServerObjects')
    BY <1>1, <1>2, <1>3
  <2>2. QED
    BY <1>3, <2>1 DEF LinesAreStyled
<1>5. Meanings(Pieces)' = Meanings(Append(Pieces, object))
  BY <1>3 DEF Meanings
<1>6. Meanings(Append(Pieces, object)) = Append(Meanings(Pieces), <<conn, msg>>)
  BY <1>1, MeaningsAppended
<1>7. InFlight' = Append(InFlight, <<conn, msg>>)
  <2> DEFINE m == Meanings(Pieces)
             e == <<conn, msg>>
  <2>1. e \in Messages
    BY <1>1 DEF Messages
  <2>2. InFlight = queue \o m /\ InFlight' = queue \o Append(m, e)
    BY <1>5, <1>6 DEF InFlight
  <2> HIDE DEF m, e
  <2>3. m \in Seq(Messages) /\ queue \in Seq(Messages)
    BY <1>1 DEF m
  <2>4. queue \o Append(m, e) = Append(queue \o m, e)
    BY <2>1, <2>3
  <2>5. QED
    BY <2>2, <2>4 DEF e
<1>8. QED
  BY <1>4, <1>7

-----------------------------------------------------------------------------
(***************************************************************************)
(* What each step does to the requests and to the messages in flight.      *)
(***************************************************************************)

\* A batch is new requests, in order.
LEMMA BatchIsNew ==
  ASSUME TypeOK, NEW requests \in Batches(Req \ Tracked, MaxBatch), log' = log \o requests
  PROVE  /\ requests \in Seq(Req) /\ requests # <<>> /\ Range(requests) \cap Tracked = {}
         /\ log' \in Seq(Req) /\ Tracked' = Tracked \cup Range(requests)
<1>1. requests \in Seq(Req \ Tracked) /\ Len(requests) \in 1 .. MaxBatch
  BY BatchIsSequence, WireAssumption
<1>2. requests # <<>> /\ \A k \in DOMAIN requests : requests[k] \in Req \ Tracked
  BY <1>1
<1>3. requests \in Seq(Req) /\ log \in Seq(Req)
  BY <1>1, TypeTells
<1>4. log \o requests \in Seq(Req) /\ Range(log \o requests) = Range(log) \cup Range(requests)
  BY <1>3, RangeConcatenation
<1>5. QED
  BY <1>2, <1>3, <1>4 DEF Tracked, Range

\* Whatever its shape, a batch reaches the tracker and the server as it is.
LEMMA TrackSends ==
  ASSUME TypeOK, NEW requests \in Seq(Req), requests # <<>>, Track(requests)
  PROVE  /\ TrackRequest(requests)
         /\ server' = IF up THEN server \cup Range(RawRequests(requests)) ELSE server
<1> DEFINE raw == RawRequests(requests)
           many == Len(requests) # 1
<1>1. PICK batch \in W!BatchRequest(requests) :
        /\ TrackRequest(batch.items)
        /\ Write(W!EncodeRequests(W!MapItems(batch, RawRequests(batch.items))))
  BY Zenon DEF Track
<1>2. batch = [many |-> many, items |-> requests]
  BY BatchRequestIs
<1>3. batch.items = requests
  BY <1>2
<1>4. W!MapItems(batch, raw) = [many |-> many, items |-> raw]
  BY <1>2 DEF W!MapItems
<1>5. raw \in Seq(RawRequest) /\ Len(raw) = Len(requests)
  BY TypeTells, RawRequestsType
<1>6. RequestsIn(W!EncodeRequests([many |-> many, items |-> raw])) = Range(raw)
  BY <1>5, WrittenRequests
<1> HIDE DEF raw, many
<1>7. Write(W!EncodeRequests([many |-> many, items |-> raw]))
  BY <1>1, <1>3, <1>4 DEF raw
<1>8. server' = IF up THEN server \cup Range(raw) ELSE server
  BY <1>6, <1>7, Zenon DEF Write
<1>9. QED
  BY <1>1, <1>3, <1>8 DEF raw

\* The handlers that a batch puts into the tracker are its own.
LEMMA TrackedHandlers ==
  ASSUME TrackerTypeOK, NEW b \in Seq(Req), TrackRequest(b)
  PROVE  Held' \subseteq Held \cup Range(b)
<1>1. pending' = [i \in Ids |-> IF PositionsWithId(b, i) = {} THEN pending[i]
                                ELSE b[Max(PositionsWithId(b, i))]]
  BY Zenon DEF TrackRequest, Inserted
<1>2. ASSUME NEW i \in Ids PROVE pending'[i] \in {pending[i]} \cup Range(b)
  <2>1. CASE PositionsWithId(b, i) = {}
    BY <1>1, <2>1
  <2>2. CASE PositionsWithId(b, i) # {}
    <3>1. PositionsWithId(b, i) \in SUBSET (1 .. Len(b)) /\ Len(b) \in Nat
      BY DEF PositionsWithId
    <3>2. Max(PositionsWithId(b, i)) \in PositionsWithId(b, i)
      BY <2>2, <3>1, MaxOfPositions, Zenon
    <3>3. Max(PositionsWithId(b, i)) \in DOMAIN b
      BY <3>2 DEF PositionsWithId
    <3>4. QED
      BY <1>1, <2>2, <3>3 DEF Range
  <2>3. QED
    BY <2>1, <2>2
<1>3. DOMAIN pending' = Ids /\ DOMAIN pending = Ids
  BY <1>1 DEF TrackerTypeOK
<1>4. QED
  BY <1>2, <1>3 DEF Held, Range

\* A message adds no handler.
LEMMA HandledHandlers ==
  ASSUME TrackerTypeOK, NEW msg, HandleIncoming(msg)
  PROVE  Held' \subseteq Held
<1>1. CASE Resolve(msg)
  <2>1. pending' = [pending EXCEPT ![msg.id] = NoReq]
    BY <1>1, Zenon DEF Resolve
  <2>2. \A i \in DOMAIN pending' : i \in DOMAIN pending /\ pending'[i] \in {pending[i], NoReq}
    BY <2>1
  <2>3. QED
    BY <2>2 DEF Held, Range
<1>2. CASE UNCHANGED trackerVars
  BY <1>2 DEF trackerVars, Held
<1>3. QED
  BY <1>1, <1>2 DEF HandleIncoming

\* Without a connection nothing is on its way but what was read.
LEMMA InFlightAlone ==
  TypeOK /\ toClient = <<>> => Pieces = <<>> /\ InFlight = queue
<1> SUFFICES ASSUME TypeOK, toClient = <<>> PROVE Pieces = <<>> /\ InFlight = queue
  OBVIOUS
<1>1. Pieces = <<>>
  BY DEF Pieces
<1>2. Meanings(Pieces) = <<>>
  BY <1>1 DEF Meanings
<1>3. queue \in Seq(Messages)
  BY TypeTells
<1>4. InFlight = queue \o <<>>
  BY <1>2 DEF InFlight
<1>5. QED
  BY <1>1, <1>3, <1>4, ConcatEmptySeq

\* The message that is handled leaves the flight.
LEMMA HandleMoves ==
  ASSUME TypeOK, LinesAreStyled, Handle
  PROVE  /\ queue # <<>> /\ Head(queue) \in Messages /\ queue' \in Seq(Messages)
         /\ HandleIncoming(Head(queue)[2])
         /\ LinesAreStyled' /\ InFlight # <<>>
         /\ Head(InFlight) = Head(queue) /\ InFlight' = Tail(InFlight)
<1>1. /\ queue # <<>> /\ queue' = Tail(queue) /\ HandleIncoming(Head(queue)[2])
      /\ UNCHANGED <<log, conn, up, style, server, toClient, refused>>
  BY DEF Handle
<1>2. queue \in Seq(Messages) /\ Meanings(Pieces) \in Seq(Messages)
  BY InFlightType
<1>3. Pieces' = Pieces /\ LinesAreStyled'
  BY <1>1, SameObjects DEF LinesAreStyled, Pieces
<1>4. Meanings(Pieces)' = Meanings(Pieces)
  BY <1>1, <1>3 DEF Meanings
<1>5. InFlight # <<>> /\ Head(InFlight) = Head(queue) /\ InFlight' = Tail(InFlight)
  <2> DEFINE m == Meanings(Pieces)
  <2>1. InFlight = queue \o m /\ InFlight' = Tail(queue) \o m
    BY <1>1, <1>4 DEF InFlight
  <2> HIDE DEF m
  <2>2. m \in Seq(Messages)
    BY <1>2 DEF m
  <2>3. queue \o m # <<>> /\ Head(queue \o m) = Head(queue) /\ Tail(queue \o m) = Tail(queue) \o m
    BY <1>1, <1>2, <2>2
  <2>4. QED
    BY <2>1, <2>3
<1>6. QED
  BY <1>1, <1>2, <1>3, <1>5

\* Every pending request is written again when the connection is back.
LEMMA ReconnectSends ==
  ASSUME TypeOK, Reconnect
  PROVE  server' = PendingRequests /\ PendingRequests \subseteq RawRequest
<1> DEFINE s == SetToSeq(PendingRequests)
           I == {j \in Ids : pending[j] # NoReq}
           f == [i \in I |-> [id |-> i, req |-> pending[i]]]
<1>1. PendingRequests \subseteq RawRequest
  BY TypeTells DEF PendingRequests, RawRequest, TrackerTypeOK
<1>2. IsFiniteSet(PendingRequests)
  <2>1. IsFiniteSet(Ids)
    BY TrackerAssumption, FS_Interval DEF Ids
  <2>2. IsFiniteSet(I)
    BY <2>1, FS_Subset
  <2>3. f \in Surjection(I, PendingRequests)
    BY DEF Surjection, PendingRequests
  <2>4. QED
    BY <2>2, <2>3, FS_Surjection
<1>3. s \in Seq(PendingRequests) /\ Range(s) = PendingRequests
  BY <1>2, SetToSeqIs
<1>4. s \in Seq(RawRequest)
  BY <1>1, <1>3, SeqMonotonic
<1> HIDE DEF s
<1>5. RequestsIn(W!EncodeRequests([many |-> TRUE, items |-> s])) = Range(s)
  BY <1>4, WrittenRequests
<1>6. server' = RequestsIn(W!EncodeRequests([many |-> TRUE, items |-> s]))
  BY Zenon DEF Reconnect, W!Batch, s
<1>7. QED
  BY <1>1, <1>3, <1>5, <1>6

-----------------------------------------------------------------------------
(***************************************************************************)
(* What the invariant asks of the messages in flight, and how it is kept   *)
(* when some are taken, others are added, or the connection is a new one.  *)
(***************************************************************************)

\* The messages F bear a number up to c, answer requests among T, none that
\* the server still holds in S on connection c, and are there once each.
Orderly(F, c, T, S) ==
  /\ \A k \in DOMAIN F : F[k][1] <= c
  /\ \A k \in DOMAIN F : F[k][2].type = "response" => F[k][2].of \in T
  /\ \A k \in DOMAIN F : F[k][1] = c /\ F[k][2].type = "response" =>
       [id |-> F[k][2].id, req |-> F[k][2].of] \notin S
  /\ IsInjective(F)

\* Requests not asked before do not matter to the messages in flight.
LEMMA OrderlyAsked ==
  ASSUME NEW F, NEW c, NEW T, NEW S, NEW T2, NEW S2, Orderly(F, c, T, S), T \subseteq T2,
         \A q \in S2 : q \in S \/ q.req \notin T
  PROVE  Orderly(F, c, T2, S2)
<1>1. ASSUME NEW k \in DOMAIN F, F[k][1] = c, F[k][2].type = "response"
      PROVE  [id |-> F[k][2].id, req |-> F[k][2].of] \notin S2
  <2>1. F[k][2].of \in T /\ [id |-> F[k][2].id, req |-> F[k][2].of] \notin S
    BY <1>1, Zenon DEF Orderly
  <2>2. PICK q : q = [id |-> F[k][2].id, req |-> F[k][2].of]
    OBVIOUS
  <2>3. q.req = F[k][2].of
    BY <2>2
  <2>4. QED
    BY <2>1, <2>2, <2>3
<1>2. /\ \A k \in DOMAIN F : F[k][1] <= c
      /\ \A k \in DOMAIN F : F[k][2].type = "response" => F[k][2].of \in T2
      /\ IsInjective(F)
  BY DEF Orderly
<1>3. QED
  BY <1>1, <1>2, Zenon DEF Orderly

\* Some of the messages, each from one place, are as orderly.
LEMMA OrderlyPart ==
  ASSUME NEW F, NEW G, NEW h, NEW c, NEW T, NEW S, Orderly(F, c, T, S),
         \A k \in DOMAIN G : h[k] \in DOMAIN F /\ G[k] = F[h[k]],
         \A j, k \in DOMAIN G : h[j] = h[k] => j = k
  PROVE  Orderly(G, c, T, S)
<1>1. IsInjective(G)
  <2>1. SUFFICES ASSUME NEW j \in DOMAIN G, NEW k \in DOMAIN G, G[j] = G[k] PROVE j = k
    BY DEF IsInjective
  <2>2. h[j] \in DOMAIN F /\ h[k] \in DOMAIN F /\ F[h[j]] = F[h[k]]
    BY <2>1
  <2>3. h[j] = h[k]
    BY <2>2 DEF Orderly, IsInjective
  <2>4. QED
    BY <2>3
<1>2. ASSUME NEW k \in DOMAIN G
      PROVE  /\ G[k][1] <= c
             /\ G[k][2].type = "response" => G[k][2].of \in T
             /\ G[k][1] = c /\ G[k][2].type = "response" =>
                  [id |-> G[k][2].id, req |-> G[k][2].of] \notin S
  <2>1. PICK i \in DOMAIN F : G[k] = F[i]
    OBVIOUS
  <2>2. /\ F[i][1] <= c
        /\ F[i][2].type = "response" => F[i][2].of \in T
        /\ F[i][1] = c /\ F[i][2].type = "response" =>
             [id |-> F[i][2].id, req |-> F[i][2].of] \notin S
    BY Zenon DEF Orderly
  <2>3. QED
    BY <2>1, <2>2, Zenon
<1>3. QED
  BY <1>1, <1>2, Zenon DEF Orderly

\* One message less.
LEMMA OrderlyTail ==
  ASSUME NEW F \in Seq(Messages), F # <<>>, NEW c, NEW T, NEW S, Orderly(F, c, T, S)
  PROVE  Orderly(Tail(F), c, T, S)
<1> DEFINE h == [k \in Nat |-> k + 1]
<1>1. PICK G : G = Tail(F)
  OBVIOUS
<1>2. Len(F) \in Nat /\ DOMAIN F = 1 .. Len(F) /\ DOMAIN G = 1 .. Len(F) - 1
  BY <1>1
<1>3. \A k \in 1 .. Len(F) - 1 : G[k] = F[k + 1]
  BY <1>1
<1>4. ASSUME NEW k \in DOMAIN G
      PROVE  k \in Nat /\ h[k] = k + 1 /\ h[k] \in DOMAIN F /\ G[k] = F[h[k]]
  <2>1. k \in Nat /\ k + 1 \in DOMAIN F /\ k \in 1 .. Len(F) - 1
    BY <1>2
  <2>2. h[k] = k + 1
    BY <2>1
  <2>3. QED
    BY <1>3, <2>1, <2>2
<1> HIDE DEF h
<1>5. \A j, k \in DOMAIN G : h[j] = h[k] => j = k
  <2>1. SUFFICES ASSUME NEW j \in DOMAIN G, NEW k \in DOMAIN G, h[j] = h[k] PROVE j = k
    OBVIOUS
  <2>2. j \in Nat /\ k \in Nat /\ j + 1 = k + 1
    BY <1>4, <2>1
  <2>3. QED
    BY <2>2
<1>6. Orderly(G, c, T, S)
  BY <1>4, <1>5, OrderlyPart
<1>7. QED
  BY <1>1, <1>6

\* The messages in front.
LEMMA OrderlyFront ==
  ASSUME NEW F \in Seq(Messages), NEW G \in Seq(Messages), NEW c, NEW T, NEW S,
         Orderly(F \o G, c, T, S)
  PROVE  Orderly(F, c, T, S)
<1> DEFINE h == [k \in Nat |-> k]
<1>1. PICK H : H = F \o G
  OBVIOUS
<1>2. /\ Len(F) \in Nat /\ Len(G) \in Nat /\ DOMAIN F = 1 .. Len(F)
      /\ DOMAIN H = 1 .. Len(F) + Len(G)
      /\ \A k \in 1 .. Len(F) : H[k] = F[k]
  BY <1>1
<1>3. \A k \in DOMAIN F : k \in Nat /\ h[k] = k /\ h[k] \in DOMAIN H /\ F[k] = H[h[k]]
  BY <1>2
<1>4. \A j, k \in DOMAIN F : h[j] = h[k] => j = k
  BY <1>3
<1>5. Orderly(H, c, T, S)
  BY <1>1
<1> HIDE DEF h
<1>6. QED
  BY <1>3, <1>4, <1>5, OrderlyPart

\* A new connection asks again what it likes.
LEMMA OrderlyAgain ==
  ASSUME NEW F \in Seq(Messages), NEW c \in Nat, NEW T, NEW S, NEW S2, Orderly(F, c, T, S)
  PROVE  Orderly(F, c + 1, T, S2)
<1>1. ASSUME NEW k \in DOMAIN F PROVE F[k][1] <= c + 1 /\ F[k][1] # c + 1
  <2>1. F[k] \in Messages
    OBVIOUS
  <2>2. F[k][1] \in Nat /\ F[k][1] <= c
    BY <2>1 DEF Orderly, Messages
  <2>3. QED
    BY <2>2
<1>2. /\ \A k \in DOMAIN F : F[k][2].type = "response" => F[k][2].of \in T
      /\ IsInjective(F)
  BY DEF Orderly
<1>3. QED
  BY <1>1, <1>2, Zenon DEF Orderly

\* The answer to a request that the server holds, which it lets go with it.
LEMMA OrderlyAnswered ==
  ASSUME NEW F \in Seq(Messages), NEW c \in Nat, NEW T, NEW S, Orderly(F, c, T, S),
         NEW msg, <<c, msg>> \in Messages, msg.type = "response", msg.of \in T,
         NEW q \in S, q = [id |-> msg.id, req |-> msg.of]
  PROVE  Orderly(Append(F, <<c, msg>>), c, T, S \ {q})
<1> DEFINE n == Len(F)
<1>1. PICK e \in Messages : e = <<c, msg>>
  OBVIOUS
<1>2. e[1] = c /\ e[2] = msg
  BY <1>1
<1>3. PICK G : G = Append(F, e)
  OBVIOUS
<1>4. /\ n \in Nat /\ DOMAIN F = 1 .. n /\ DOMAIN G = 1 .. n + 1
      /\ \A k \in 1 .. n : G[k] = F[k]
      /\ G[n + 1] = e
  BY <1>3
<1> HIDE DEF n
<1>5. \A k \in DOMAIN G : (k \in DOMAIN F /\ G[k] = F[k]) \/ (k = n + 1 /\ G[k] = e)
  <2>1. \A k \in DOMAIN G : k \in 1 .. n \/ k = n + 1
    BY <1>4
  <2>2. QED
    BY <1>4, <2>1
<1>6. ASSUME NEW k \in DOMAIN F PROVE F[k] # e
  <2>1. F[k][1] = c /\ F[k][2].type = "response" =>
          [id |-> F[k][2].id, req |-> F[k][2].of] \notin S
    BY Zenon DEF Orderly
  <2>2. QED
    BY <1>2, <2>1
<1>7. \A k \in DOMAIN G : G[k][1] <= c /\ (G[k][2].type = "response" => G[k][2].of \in T)
  <2>1. \A k \in DOMAIN F : F[k][1] <= c /\ (F[k][2].type = "response" => F[k][2].of \in T)
    BY DEF Orderly
  <2>2. e[1] <= c /\ e[2].of \in T
    BY <1>2
  <2>3. QED
    BY <1>5, <2>1, <2>2
<1>8. \A k \in DOMAIN G : G[k][1] = c /\ G[k][2].type = "response" =>
        [id |-> G[k][2].id, req |-> G[k][2].of] \notin S \ {q}
  <2>1. \A k \in DOMAIN F : F[k][1] = c /\ F[k][2].type = "response" =>
          [id |-> F[k][2].id, req |-> F[k][2].of] \notin S
    BY DEF Orderly
  <2>2. [id |-> e[2].id, req |-> e[2].of] = q
    BY <1>2
  <2>3. QED
    BY <1>5, <2>1, <2>2
<1>9. IsInjective(G)
  <2>1. SUFFICES ASSUME NEW j \in DOMAIN G, NEW k \in DOMAIN G, G[j] = G[k] PROVE j = k
    BY DEF IsInjective
  <2>2. \A i, l \in DOMAIN F : F[i] = F[l] => i = l
    BY DEF Orderly, IsInjective
  <2>3. QED
    BY <1>5, <1>6, <2>1, <2>2
<1>10. Orderly(G, c, T, S \ {q})
  BY <1>7, <1>8, <1>9 DEF Orderly
<1>11. QED
  BY <1>1, <1>3, <1>10

\* A message that is alone, and answers nothing.
LEMMA OrderlyAlone ==
  ASSUME NEW c \in Nat, NEW T, NEW S, NEW msg, msg.type # "response"
  PROVE  Orderly(<<<<c, msg>>>>, c, T, S)
<1>1. PICK e : e = <<c, msg>>
  OBVIOUS
<1>2. e[1] = c /\ e[2] = msg
  BY <1>1
<1>3. PICK G : G = <<e>>
  OBVIOUS
<1>4. DOMAIN G = {1} /\ G[1] = e
  BY <1>3
<1>5. \A k \in DOMAIN G : k = 1 /\ G[k][1] = c /\ G[k][2] = msg
  BY <1>2, <1>4
<1>6. c <= c
  OBVIOUS
<1>7. Orderly(G, c, T, S)
  BY <1>5, <1>6 DEF Orderly, IsInjective
<1>8. QED
  BY <1>1, <1>3, <1>7

-----------------------------------------------------------------------------
(***************************************************************************)
(* The inductive invariant.                                                *)
(***************************************************************************)

\* The invariant in the terms of the lemmas above ...
LEMMA InvariantIs ==
  IInv <=> /\ TypeOK /\ refused = FALSE /\ LinesAreStyled
           /\ ~up => server = {} /\ toClient = <<>>
           /\ Held \subseteq Tracked /\ \A q \in server : q.req \in Tracked
           /\ Orderly(InFlight, conn, Tracked, server)
<1>1. TypeOK => (LinesAreUnderstood <=> refused = FALSE)
  BY TypeTells DEF LinesAreUnderstood
<1>2. ConnectionOwns /\ OnlyTracked /\ AnsweredOnce <=>
        /\ ~up => server = {} /\ toClient = <<>>
        /\ Held \subseteq Tracked /\ \A q \in server : q.req \in Tracked
        /\ Orderly(InFlight, conn, Tracked, server)
  BY Zenon DEF ConnectionOwns, OnlyTracked, AnsweredOnce, Orderly
<1>3. QED
  BY <1>1, <1>2, Zenon DEF IInv

\* ... before and after a step.
LEMMA InvariantBecomes ==
  (IInv <=> /\ TypeOK /\ refused = FALSE /\ LinesAreStyled
            /\ ~up => server = {} /\ toClient = <<>>
            /\ Held \subseteq Tracked /\ \A q \in server : q.req \in Tracked
            /\ Orderly(InFlight, conn, Tracked, server))'
BY InvariantIs, PTL

\* In the beginning nothing is tracked and nothing on its way.
LEMMA InvariantInit == Init => IInv
<1> SUFFICES ASSUME Init PROVE IInv
  OBVIOUS
<1>1. /\ TrackerInit /\ log = <<>> /\ conn = 1 /\ up = TRUE /\ style \in Styles
      /\ server = {} /\ toClient = <<>> /\ queue = <<>> /\ refused = FALSE
  BY DEF Init
<1>2. TrackerTypeOK
  BY <1>1, TrackerAssumption DEF TrackerInit, TrackerTypeOK, Ids, Outcomes
<1>3. TypeOK
  <2>1. 1 \in 1 .. MaxConn
    BY WireAssumption
  <2>2. log \in Seq(Req) /\ queue \in Seq((1 .. MaxConn) \X RawIncoming)
    BY <1>1
  <2>3. conn \in 1 .. MaxConn /\ up \in BOOLEAN /\ refused \in BOOLEAN /\ server \subseteq RawRequest
    BY <1>1, <2>1
  <2>4. QED
    BY <1>1, <1>2, <2>2, <2>3, Zenon DEF TypeOK
<1>4. Pieces = <<>> /\ InFlight = <<>>
  BY <1>1, <1>3, InFlightAlone
<1>5. LinesAreStyled
  BY <1>1, <1>4 DEF LinesAreStyled
<1>6. Held = {}
  BY <1>1 DEF TrackerInit, Held, Range
<1>7. Orderly(InFlight, conn, Tracked, server)
  BY <1>4 DEF Orderly, IsInjective
<1>8. QED
  BY <1>1, <1>3, <1>5, <1>6, <1>7, InvariantIs

\* A batch is tracked and written.
LEMMA TrackKeeps ==
  ASSUME IInv, NEW requests \in Batches(Req \ Tracked, MaxBatch), Track(requests)
  PROVE  IInv'
<1>1. /\ TypeOK /\ refused = FALSE /\ LinesAreStyled
      /\ ~up => server = {} /\ toClient = <<>>
      /\ Held \subseteq Tracked /\ \A q \in server : q.req \in Tracked
      /\ Orderly(InFlight, conn, Tracked, server)
  BY InvariantIs
<1>2. log' = log \o requests /\ UNCHANGED <<conn, up, style, toClient, queue, refused>>
  BY DEF Track
<1>3. /\ requests \in Seq(Req) /\ requests # <<>> /\ Range(requests) \cap Tracked = {}
      /\ log' \in Seq(Req) /\ Tracked' = Tracked \cup Range(requests)
  BY <1>1, <1>2, BatchIsNew
<1>4. /\ TrackRequest(requests)
      /\ server' = IF up THEN server \cup Range(RawRequests(requests)) ELSE server
  BY <1>1, <1>3, TrackSends
<1>5. TrackerTypeOK' /\ Range(RawRequests(requests)) \subseteq RawRequest
  BY <1>1, <1>3, <1>4, TypeTells, TrackRequestType
<1>6. TypeOK'
  <2>1. server' \subseteq RawRequest
    BY <1>1, <1>4, <1>5, TypeTells
  <2>2. QED
    BY <1>1, <1>2, <1>3, <1>5, <2>1 DEF TypeOK
<1>7. Held' \subseteq Tracked'
  BY <1>1, <1>3, <1>4, TypeTells, TrackedHandlers
<1>8. \A q \in Range(RawRequests(requests)) : q.req \in Range(requests)
  BY DEF RawRequests, Range
<1>9. InFlight' = InFlight /\ LinesAreStyled'
  BY <1>1, <1>2, SameObjects DEF InFlight, Meanings, Pieces, LinesAreStyled
<1>10. Orderly(InFlight, conn, Tracked', server')
  <2>1. \A q \in server' : q \in server \/ q.req \notin Tracked
    BY <1>3, <1>4, <1>8
  <2>2. Tracked \subseteq Tracked'
    BY <1>3
  <2>3. QED
    BY <1>1, <2>1, <2>2, OrderlyAsked
<1>11. (\A q \in server : q.req \in Tracked)'
  BY <1>1, <1>3, <1>4, <1>8
<1>12. ~up' => server' = {} /\ toClient' = <<>>
  BY <1>1, <1>2, <1>4
<1>13. QED
  BY <1>1, <1>2, <1>6, <1>7, <1>9, <1>10, <1>11, <1>12, InvariantBecomes

\* A line is read.
LEMMA ReadLineKeeps ==
  ASSUME IInv, ReadLine
  PROVE  IInv'
<1>1. /\ TypeOK /\ refused = FALSE /\ LinesAreStyled
      /\ ~up => server = {} /\ toClient = <<>>
      /\ Held \subseteq Tracked /\ \A q \in server : q.req \in Tracked
      /\ Orderly(InFlight, conn, Tracked, server)
  BY InvariantIs
<1>2. toClient # <<>> /\ UNCHANGED <<trackerVars, log, conn, up, style, server>>
  BY DEF ReadLine
<1>3. /\ refused' = FALSE /\ queue' \in Seq(Messages)
      /\ LinesAreStyled' /\ InFlight' = InFlight
  BY <1>1, ReadLineMoves
<1>4. TypeOK'
  BY <1>1, <1>2, <1>3 DEF TypeOK, TrackerTypeOK, trackerVars, Messages
<1>5. Held' = Held /\ Tracked' = Tracked
  BY <1>2 DEF Held, Tracked, trackerVars
<1>6. QED
  BY <1>1, <1>2, <1>3, <1>4, <1>5, InvariantBecomes

\* A message is handled.
LEMMA HandleKeeps ==
  ASSUME IInv, Handle
  PROVE  IInv'
<1>1. /\ TypeOK /\ refused = FALSE /\ LinesAreStyled
      /\ ~up => server = {} /\ toClient = <<>>
      /\ Held \subseteq Tracked /\ \A q \in server : q.req \in Tracked
      /\ Orderly(InFlight, conn, Tracked, server)
  BY InvariantIs
<1>2. UNCHANGED <<log, conn, up, style, server, toClient, refused>>
  BY DEF Handle
<1>3. /\ Head(queue) \in Messages /\ queue' \in Seq(Messages)
      /\ HandleIncoming(Head(queue)[2])
      /\ LinesAreStyled' /\ InFlight # <<>> /\ InFlight' = Tail(InFlight)
  BY <1>1, HandleMoves
<1>4. Head(queue)[2] \in RawIncoming
  BY <1>3 DEF Messages
<1>5. TrackerTypeOK' /\ Held' \subseteq Held
  BY <1>1, <1>3, <1>4, TypeTells, HandleIncomingType, HandledHandlers
<1>6. TypeOK'
  BY <1>1, <1>2, <1>3, <1>5 DEF TypeOK, Messages
<1>7. Orderly(InFlight', conn, Tracked, server)
  <2>1. InFlight \in Seq(Messages)
    BY <1>1, InFlightType
  <2>2. QED
    BY <1>1, <1>3, <2>1, OrderlyTail
<1>8. Tracked' = Tracked
  BY <1>2 DEF Tracked
<1>9. QED
  BY <1>1, <1>2, <1>3, <1>5, <1>6, <1>7, <1>8, InvariantBecomes

\* A connection is lost.
LEMMA DisconnectKeeps ==
  ASSUME IInv, Disconnect
  PROVE  IInv' /\ InFlight' = queue
<1>1. /\ TypeOK /\ refused = FALSE /\ LinesAreStyled
      /\ Held \subseteq Tracked
      /\ Orderly(InFlight, conn, Tracked, server)
  BY InvariantIs
<1>2. /\ up' = FALSE /\ server' = {} /\ toClient' = <<>>
      /\ UNCHANGED <<trackerVars, log, conn, style, queue, refused>>
  BY DEF Disconnect
<1>3. TypeOK'
  BY <1>1, <1>2 DEF TypeOK, TrackerTypeOK, trackerVars
<1>4. Pieces' = <<>> /\ InFlight' = queue
  <2>1. (TypeOK /\ toClient = <<>> => Pieces = <<>> /\ InFlight = queue)'
    BY InFlightAlone, PTL
  <2>2. QED
    BY <1>2, <1>3, <2>1
<1>5. LinesAreStyled'
  BY <1>2, <1>4 DEF LinesAreStyled
<1>6. Orderly(queue, conn, Tracked, server)
  <2>1. queue \in Seq(Messages) /\ Meanings(Pieces) \in Seq(Messages)
    BY <1>1, InFlightType
  <2>2. Orderly(queue \o Meanings(Pieces), conn, Tracked, server)
    BY <1>1 DEF InFlight
  <2>3. QED
    BY <2>1, <2>2, OrderlyFront
<1>7. Orderly(queue, conn, Tracked, {})
  BY <1>6, OrderlyAsked
<1>8. Held' = Held /\ Tracked' = Tracked
  BY <1>2 DEF Held, Tracked, trackerVars
<1>9. QED
  BY <1>1, <1>2, <1>3, <1>4, <1>5, <1>7, <1>8, InvariantBecomes

\* The driver is back on a new connection.
LEMMA ReconnectKeeps ==
  ASSUME IInv, Reconnect
  PROVE  IInv' /\ InFlight' = InFlight
<1>1. /\ TypeOK /\ refused = FALSE /\ LinesAreStyled
      /\ ~up => server = {} /\ toClient = <<>>
      /\ Held \subseteq Tracked
      /\ Orderly(InFlight, conn, Tracked, server)
  BY InvariantIs
<1>2. /\ ~up /\ conn < MaxConn /\ up' = TRUE /\ conn' = conn + 1
      /\ UNCHANGED <<trackerVars, log, style, toClient, queue, refused>>
  BY DEF Reconnect
<1>3. server' = PendingRequests /\ PendingRequests \subseteq RawRequest
  BY <1>1, ReconnectSends
<1>4. conn \in 1 .. MaxConn /\ MaxConn \in Nat
  BY <1>1, TypeTells, WireAssumption
<1>5. TypeOK'
  <2>1. conn' \in 1 .. MaxConn
    BY <1>2, <1>4
  <2>2. QED
    BY <1>1, <1>2, <1>3, <2>1 DEF TypeOK, TrackerTypeOK, trackerVars
<1>6. toClient = <<>> /\ Pieces' = <<>> /\ InFlight' = queue /\ InFlight = queue
  <2>1. (TypeOK /\ toClient = <<>> => Pieces = <<>> /\ InFlight = queue)'
    BY InFlightAlone, PTL
  <2>2. QED
    BY <1>1, <1>2, <1>5, <2>1, InFlightAlone
<1>7. LinesAreStyled'
  BY <1>2, <1>6 DEF LinesAreStyled
<1>8. Orderly(InFlight, conn + 1, Tracked, server')
  <2>1. InFlight \in Seq(Messages) /\ conn \in Nat
    BY <1>1, <1>4, InFlightType
  <2>2. QED
    BY <1>1, <2>1, OrderlyAgain
<1>9. Held' = Held /\ Tracked' = Tracked
  BY <1>2 DEF Held, Tracked, trackerVars
<1>10. \A q \in PendingRequests : q.req \in Held
  BY <1>1, TypeTells, HeldUnderId DEF PendingRequests
<1>11. QED
  BY <1>1, <1>2, <1>3, <1>5, <1>6, <1>7, <1>8, <1>9, <1>10, InvariantBecomes

\* A request is answered.
LEMMA AnswerKeeps ==
  ASSUME IInv, NEW q \in server, NEW result \in Results, Answer(q, result)
  PROVE  /\ IInv'
         /\ InFlight' = Append(InFlight,
              <<conn, [type |-> "response", id |-> q.id, of |-> q.req, result |-> result]>>)
<1> DEFINE msg == [type |-> "response", id |-> q.id, of |-> q.req, result |-> result]
<1>1. /\ TypeOK /\ refused = FALSE /\ LinesAreStyled
      /\ ~up => server = {} /\ toClient = <<>>
      /\ Held \subseteq Tracked /\ \A p \in server : p.req \in Tracked
      /\ Orderly(InFlight, conn, Tracked, server)
  BY InvariantIs
<1>2. /\ server' = server \ {q} /\ ServerSends(ResponseObject(q, result))
      /\ UNCHANGED <<trackerVars, log, conn, up, style, queue, refused>>
  BY DEF Answer
<1>3. /\ q \in RawRequest /\ style \in Styles /\ conn \in 1 .. MaxConn /\ conn \in Nat
  BY <1>1, TypeTells
<1>4. PICK m : m = msg
  OBVIOUS
<1>5. /\ m.type = "response" /\ m.id = q.id /\ m.of = q.req
      /\ q = [id |-> m.id, req |-> m.of]
  BY <1>3, <1>4 DEF RawRequest
<1>6. m \in RawIncoming
  BY <1>3, <1>4, WireAssumption DEF RawRequest, RawIncoming, Response
<1>7. Understood(ResponseObject(q, result), m) /\ ResponseObject(q, result) \in ServerObjects
  <2>1. Understood(ResponseObject(q, result), m)
    BY <1>3, <1>4, ResponseUnderstood
  <2>2. ResponseObject(q, result) \in ServerObjects
    BY <1>3 DEF ServerObjects
  <2>3. QED
    BY <2>1, <2>2
<1>8. LinesAreStyled' /\ InFlight' = Append(InFlight, <<conn, m>>)
  BY <1>1, <1>2, <1>6, <1>7, ServerSendsMoves
<1>9. TypeOK'
  <2>1. server' \subseteq RawRequest
    BY <1>1, <1>2, TypeTells
  <2>2. QED
    BY <1>1, <1>2, <2>1 DEF TypeOK, TrackerTypeOK, trackerVars
<1>10. Orderly(InFlight', conn, Tracked, server')
  <2>1. InFlight \in Seq(Messages) /\ <<conn, m>> \in Messages
    BY <1>1, <1>3, <1>6, InFlightType DEF Messages
  <2>2. m.of \in Tracked
    BY <1>1, <1>5
  <2>3. Orderly(Append(InFlight, <<conn, m>>), conn, Tracked, server \ {q})
    BY <1>1, <1>3, <1>5, <2>1, <2>2, OrderlyAnswered
  <2>4. QED
    BY <1>2, <1>8, <2>3
<1>11. Held' = Held /\ Tracked' = Tracked
  BY <1>2 DEF Held, Tracked, trackerVars
<1>12. ~up' => server' = {} /\ toClient' = <<>>
  BY <1>1, <1>2
<1>13. IInv'
  BY <1>1, <1>2, <1>8, <1>9, <1>10, <1>11, <1>12, InvariantBecomes
<1>14. QED
  BY <1>4, <1>8, <1>13

\* A notification goes out.
LEMMA NotifyKeeps ==
  ASSUME IInv, NEW params \in Params, Notify(params)
  PROVE  /\ IInv'
         /\ InFlight' = Append(InFlight, <<conn, [type |-> "notification", params |-> params]>>)
<1>1. /\ TypeOK /\ refused = FALSE /\ LinesAreStyled
      /\ Held \subseteq Tracked /\ \A p \in server : p.req \in Tracked
  BY InvariantIs
<1>2. /\ up /\ OnTheWay = {} /\ ServerSends(NotificationObject(params))
      /\ UNCHANGED <<trackerVars, log, conn, up, style, server, queue, refused>>
  BY DEF Notify
<1>3. style \in Styles /\ conn \in 1 .. MaxConn /\ conn \in Nat
  BY <1>1, TypeTells
<1>4. PICK m : m = [type |-> "notification", params |-> params]
  OBVIOUS
<1>5. m.type # "response" /\ m \in RawIncoming
  BY <1>4, WireAssumption DEF RawIncoming, Notification
<1>6. Understood(NotificationObject(params), m) /\ NotificationObject(params) \in ServerObjects
  BY <1>3, <1>4, NotificationUnderstood DEF ServerObjects
<1>7. LinesAreStyled' /\ InFlight' = Append(InFlight, <<conn, m>>)
  BY <1>1, <1>2, <1>5, <1>6, ServerSendsMoves
<1>8. TypeOK'
  BY <1>1, <1>2 DEF TypeOK, TrackerTypeOK, trackerVars
<1>9. InFlight = <<>>
  <2>1. InFlight \in Seq(Messages) /\ Range(InFlight) = {}
    BY <1>1, <1>2, InFlightType, OnTheWayIs
  <2> DEFINE F == InFlight
  <2> HIDE DEF F
  <2>2. F \in Seq(Messages) /\ \A k \in DOMAIN F : FALSE
    BY <2>1 DEF Range, F
  <2>3. Len(F) \in Nat /\ DOMAIN F = 1 .. Len(F)
    BY <2>2
  <2>4. Len(F) = 0
    <3>1. 1 \notin 1 .. Len(F)
      BY <2>2, <2>3
    <3>2. QED
      BY <2>3, <3>1
  <2>5. F = <<>>
    BY <2>2, <2>4
  <2>6. QED
    BY <2>5 DEF F
<1>10. InFlight' = <<<<conn, m>>>>
  BY <1>7, <1>9
<1>11. Orderly(InFlight', conn, Tracked, server)
  BY <1>3, <1>5, <1>10, OrderlyAlone
<1>12. Held' = Held /\ Tracked' = Tracked
  BY <1>2 DEF Held, Tracked, trackerVars
<1>13. IInv'
  BY <1>1, <1>2, <1>7, <1>8, <1>11, <1>12, InvariantBecomes
<1>14. QED
  BY <1>4, <1>7, <1>13

\* Every step keeps the invariant.
LEMMA InvariantStep == IInv /\ [Next]_vars => IInv'
<1> SUFFICES ASSUME IInv, [Next]_vars PROVE IInv'
  OBVIOUS
<1>1. ASSUME NEW requests \in Batches(Req \ Tracked, MaxBatch), Track(requests) PROVE IInv'
  BY <1>1, TrackKeeps
<1>2. CASE ReadLine
  BY <1>2, ReadLineKeeps
<1>3. CASE Handle
  BY <1>3, HandleKeeps
<1>4. CASE Disconnect
  BY <1>4, DisconnectKeeps
<1>5. CASE Reconnect
  BY <1>5, ReconnectKeeps
<1>6. ASSUME NEW q \in server, NEW result \in Results, Answer(q, result) PROVE IInv'
  BY <1>6, AnswerKeeps
<1>7. ASSUME NEW params \in Params, Notify(params) PROVE IInv'
  BY <1>7, NotifyKeeps
<1>8. CASE UNCHANGED vars
  <2>1. UNCHANGED <<trackerVars, log, conn, up, style, server, toClient, queue, refused>>
    BY <1>8 DEF vars
  <2>2. /\ TypeOK /\ refused = FALSE /\ LinesAreStyled
        /\ ~up => server = {} /\ toClient = <<>>
        /\ Held \subseteq Tracked /\ \A q \in server : q.req \in Tracked
        /\ Orderly(InFlight, conn, Tracked, server)
    BY InvariantIs
  <2>3. TypeOK'
    BY <2>1, <2>2 DEF TypeOK, TrackerTypeOK, trackerVars
  <2>4. InFlight' = InFlight /\ LinesAreStyled'
    BY <2>1, <2>2, SameObjects DEF InFlight, Meanings, Pieces, LinesAreStyled
  <2>5. Held' = Held /\ Tracked' = Tracked
    BY <2>1 DEF Held, Tracked, trackerVars
  <2>6. QED
    BY <2>1, <2>2, <2>3, <2>4, <2>5, InvariantBecomes
<1>9. QED
  BY <1>1, <1>2, <1>3, <1>4, <1>5, <1>6, <1>7, <1>8, Zenon DEF Next

\* The types hold, what is on the connection is what a server in its style sends,
\* and no message is on its way twice (WireSession, for every style of server,
\* every number of ids and however often connections are lost).
THEOREM WireInvariant == Spec => []IInv
BY InvariantInit, InvariantStep, PTL DEF Spec

\* Every line of a server that conforms to JSON-RPC is understood (the untagged
\* RawOneOrMany and RawIncoming and the flattened result of RawResponse,
\* protocol.rs:58-92).
THEOREM LinesUnderstood == Spec => []LinesAreUnderstood
<1>1. IInv => LinesAreUnderstood
  BY DEF IInv
<1>2. QED
  BY <1>1, WireInvariant, PTL

-----------------------------------------------------------------------------
(***************************************************************************)
(* The refinement: lines and queues come down to raw requests and messages *)
(* on their way.                                                           *)
(***************************************************************************)

\* The session below has the same tracker, over the same constants.
LEMMA SameTracker ==
  /\ Session!Tracked = Tracked
  /\ \A U, max : Session!Batches(U, max) = Batches(U, max)
  /\ Session!PendingRequests = PendingRequests
  /\ Session!trackerVars = trackerVars
  /\ \A b : Session!RawRequests(b) = RawRequests(b)
<1>1. Session!Tracked = Tracked
  BY DEF Session!Tracked, Tracked, Session!Range, Range
<1>2. \A U, max : Session!Batches(U, max) = Batches(U, max)
  BY DEF Session!Batches, Batches, Session!IsInjective, IsInjective
<1>3. Session!PendingRequests = PendingRequests
  BY DEF Session!PendingRequests, PendingRequests, Session!Ids, Ids
<1>4. Session!trackerVars = trackerVars
  BY DEF Session!trackerVars, trackerVars
<1>5. \A b : Session!RawRequests(b) = RawRequests(b)
  BY DEF Session!RawRequests, RawRequests, Session!IdAt, IdAt
<1>6. QED
  BY <1>1, <1>2, <1>3, <1>4, <1>5

\* A batch is tracked as below.
LEMMA SameTrackRequest == \A b : TrackRequest(b) => Session!TrackRequest(b)
BY DEF TrackRequest, Session!TrackRequest, Inserted, Session!Inserted, Displaced, Session!Displaced,
       Dropped, Session!Dropped, PositionsWithId, Session!PositionsWithId, IdAt, Session!IdAt,
       Held, Session!Held, Ids, Session!Ids, Range, Session!Range, Max, Session!Max

\* A message is handled as below.
LEMMA SameHandleIncoming == \A msg : HandleIncoming(msg) => Session!HandleIncoming(msg)
BY DEF HandleIncoming, Session!HandleIncoming, IsKnownResponse, Session!IsKnownResponse,
       Resolve, Session!Resolve, Settled, Session!Settled, trackerVars, Session!trackerVars

\* The invariant and what is on the way, before and after a step.
LEMMA OnTheWayMoves ==
  ASSUME IInv, IInv'
  PROVE  /\ OnTheWay = Range(InFlight) /\ OnTheWay' = Range(InFlight')
         /\ TypeOK /\ LinesAreStyled /\ IsInjective(InFlight)
         /\ InFlight \in Seq(Messages)
<1>1. TypeOK /\ LinesAreStyled /\ IsInjective(InFlight)
  BY DEF IInv, AnsweredOnce
<1>2. TypeOK' /\ LinesAreStyled'
  BY DEF IInv
<1>3. OnTheWay = Range(InFlight) /\ InFlight \in Seq(Messages)
  BY <1>1, OnTheWayIs, InFlightType
<1>4. OnTheWay' = Range(InFlight')
  <2>1. OnTheWay' = Range(InFlight)'
    BY <1>2, OnTheWayBecomes
  <2>2. QED
    BY <2>1
<1>5. QED
  BY <1>1, <1>3, <1>4

\* What is behind the first of a sequence without repetition is all but that.
LEMMA RangeOfTail ==
  ASSUME NEW S, NEW s \in Seq(S), s # <<>>, IsInjective(s)
  PROVE  Range(Tail(s)) = Range(s) \ {Head(s)} /\ Head(s) \in Range(s)
<1> DEFINE n == Len(s)
<1>1. PICK t : t = Tail(s)
  OBVIOUS
<1>2. /\ n \in Nat /\ n # 0 /\ DOMAIN s = 1 .. n /\ DOMAIN t = 1 .. n - 1
      /\ \A k \in 1 .. n - 1 : t[k] = s[k + 1]
      /\ Head(s) = s[1]
  BY <1>1
<1> HIDE DEF n
<1>3. 1 \in DOMAIN s
  BY <1>2
<1>4. ASSUME NEW k \in DOMAIN t PROVE t[k] \in Range(s) /\ t[k] # s[1]
  <2>1. k + 1 \in DOMAIN s /\ k + 1 # 1 /\ t[k] = s[k + 1]
    BY <1>2
  <2>2. QED
    BY <1>3, <2>1 DEF IsInjective, Range
<1>5. ASSUME NEW k \in DOMAIN s, s[k] # s[1] PROVE s[k] \in Range(t)
  <2>1. k # 1
    BY <1>5
  <2>2. k - 1 \in DOMAIN t /\ k = (k - 1) + 1
    BY <1>2, <2>1
  <2>3. t[k - 1] = s[k]
    BY <1>2, <2>2
  <2>4. QED
    BY <2>2, <2>3 DEF Range
<1>6. Range(t) \subseteq Range(s) \ {s[1]}
  BY <1>4 DEF Range
<1>7. Range(s) \ {s[1]} \subseteq Range(t)
  <2>1. SUFFICES ASSUME NEW x \in Range(s), x # s[1] PROVE x \in Range(t)
    OBVIOUS
  <2>2. PICK k \in DOMAIN s : s[k] = x
    BY DEF Range
  <2>3. QED
    BY <1>5, <2>1, <2>2
<1>8. s[1] \in Range(s)
  BY <1>3 DEF Range
<1>9. QED
  BY <1>1, <1>2, <1>6, <1>7, <1>8

\* What is behind a sequence when one more is put there.
LEMMA RangeOfAppended ==
  ASSUME NEW S, NEW s \in Seq(S), NEW e \in S
  PROVE  Range(Append(s, e)) = Range(s) \cup {e}
<1>1. /\ DOMAIN s = 1 .. Len(s) /\ Len(s) \in Nat
      /\ DOMAIN Append(s, e) = 1 .. Len(s) + 1
      /\ \A k \in 1 .. Len(s) : Append(s, e)[k] = s[k]
      /\ Append(s, e)[Len(s) + 1] = e
  OBVIOUS
<1>2. 1 .. Len(s) + 1 = (1 .. Len(s)) \cup {Len(s) + 1}
  BY <1>1
<1>3. QED
  BY <1>1, <1>2 DEF Range

\* Nothing is on the way in the beginning.
LEMMA SessionInit == Init => Session!Init
<1> SUFFICES ASSUME Init PROVE Session!Init
  OBVIOUS
<1>1. /\ TrackerInit /\ log = <<>> /\ conn = 1 /\ up = TRUE /\ server = {}
      /\ toClient = <<>> /\ queue = <<>>
  BY DEF Init
<1>2. Session!TrackerInit
  BY <1>1 DEF TrackerInit, Session!TrackerInit, Ids, Session!Ids
<1>3. OnTheWay = {}
  <2>1. Range(queue) = {} /\ Range(toClient) = {}
    BY <1>1 DEF Range
  <2>2. UNION {Objects(line) : line \in Range(toClient)} = {}
    BY <2>1
  <2>3. UNION {Meaning(object) : object \in {}} = {}
    OBVIOUS
  <2>4. QED
    BY <2>1, <2>2, <2>3 DEF OnTheWay
<1>4. QED
  BY <1>1, <1>2, <1>3 DEF Session!Init

\* Every step is one of the session below, or none.
LEMMA SessionStep ==
  ASSUME IInv, IInv', [Next]_vars
  PROVE  [Session!Next]_(Session!vars)
<1>1. /\ OnTheWay = Range(InFlight) /\ OnTheWay' = Range(InFlight')
      /\ TypeOK /\ LinesAreStyled /\ IsInjective(InFlight)
      /\ InFlight \in Seq(Messages)
  BY OnTheWayMoves
<1>2. Session!vars = <<trackerVars, log, conn, up, server, OnTheWay>>
  BY SameTracker DEF Session!vars
<1> SUFFICES Session!Next \/ UNCHANGED Session!vars
  OBVIOUS
<1>13. ASSUME UNCHANGED trackerVars PROVE UNCHANGED Session!trackerVars
  BY <1>13 DEF trackerVars, Session!trackerVars
<1>3. ASSUME UNCHANGED <<trackerVars, log, conn, up, server>>, InFlight' = InFlight
      PROVE  UNCHANGED Session!vars
  BY <1>1, <1>3 DEF Session!vars, trackerVars, Session!trackerVars
<1>4. ASSUME NEW requests \in Batches(Req \ Tracked, MaxBatch), Track(requests)
      PROVE  Session!Next
  <2>1. /\ Len(log) + Len(requests) <= MaxTracked /\ log' = log \o requests
        /\ UNCHANGED <<conn, up, style, toClient, queue, refused>>
    BY <1>4 DEF Track
  <2>2. requests \in Seq(Req) /\ requests # <<>>
    BY <1>1, <2>1, BatchIsNew
  <2>3. /\ TrackRequest(requests)
        /\ server' = IF up THEN server \cup Range(RawRequests(requests)) ELSE server
    BY <1>1, <1>4, <2>2, TrackSends
  <2>4. InFlight' = InFlight
    BY <2>1 DEF InFlight, Meanings, Pieces
  <2>5. Session!Range(Session!RawRequests(requests)) = Range(RawRequests(requests))
    BY SameTracker DEF Session!Range, Range
  <2>6. Session!Track(requests)
    BY <1>1, <2>1, <2>3, <2>4, <2>5, SameTrackRequest DEF Session!Track
  <2>7. requests \in Session!Batches(Req \ Session!Tracked, MaxBatch)
    BY <1>4, SameTracker
  <2>8. QED
    BY <2>6, <2>7 DEF Session!Next
<1>5. CASE ReadLine
  <2>1. InFlight' = InFlight /\ UNCHANGED <<trackerVars, log, conn, up, server>>
    BY <1>1, <1>5, ReadLineMoves DEF ReadLine
  <2>2. QED
    BY <1>3, <2>1
<1>6. CASE Handle
  <2>1. /\ HandleIncoming(Head(queue)[2]) /\ InFlight # <<>>
        /\ Head(InFlight) = Head(queue) /\ InFlight' = Tail(InFlight)
    BY <1>1, <1>6, HandleMoves
  <2>2. Head(queue) \in OnTheWay /\ OnTheWay' = OnTheWay \ {Head(queue)}
    BY <1>1, <2>1, RangeOfTail
  <2>3. Session!HandleIncoming(Head(queue)[2]) /\ UNCHANGED <<log, conn, up, server>>
    BY <1>6, <2>1, SameHandleIncoming DEF Handle
  <2>4. Session!Deliver(Head(queue))
    BY <2>2, <2>3 DEF Session!Deliver
  <2>5. QED
    BY <2>2, <2>4 DEF Session!Next
<1>7. CASE Disconnect
  <2>1. InFlight' = queue
    BY <1>7, DisconnectKeeps
  <2>2. Range(queue) \subseteq OnTheWay
    BY DEF OnTheWay
  <2>3. /\ up /\ conn < MaxConn /\ up' = FALSE /\ server' = {}
        /\ UNCHANGED <<trackerVars, log, conn>>
    BY <1>7 DEF Disconnect
  <2>4. OnTheWay' \in SUBSET OnTheWay
    BY <1>1, <2>1, <2>2
  <2>5. UNCHANGED Session!trackerVars
    BY <1>13, <2>3
  <2>6. Session!Disconnect
    BY <2>3, <2>4, <2>5 DEF Session!Disconnect
  <2>7. QED
    BY <2>6 DEF Session!Next
<1>8. CASE Reconnect
  <2>1. InFlight' = InFlight
    BY <1>8, ReconnectKeeps
  <2>2. server' = PendingRequests
    BY <1>1, <1>8, ReconnectSends
  <2>3. /\ ~up /\ conn < MaxConn /\ up' = TRUE /\ conn' = conn + 1
        /\ UNCHANGED <<trackerVars, log>>
    BY <1>8 DEF Reconnect
  <2>4. OnTheWay' = OnTheWay /\ server' = Session!PendingRequests
    BY <1>1, <2>1, <2>2, SameTracker
  <2>5. UNCHANGED Session!trackerVars
    BY <1>13, <2>3
  <2>6. Session!Reconnect
    BY <2>3, <2>4, <2>5 DEF Session!Reconnect
  <2>7. QED
    BY <2>6 DEF Session!Next
<1>9. ASSUME NEW q \in server, NEW result \in Results, Answer(q, result)
      PROVE  Session!Next
  <2> DEFINE e == <<conn, [type |-> "response", id |-> q.id, of |-> q.req, result |-> result]>>
  <2>1. InFlight' = Append(InFlight, e)
    BY <1>9, AnswerKeeps
  <2>2. e \in Messages
    BY <1>1, TypeTells, WireAssumption DEF Messages, RawRequest, RawIncoming, Response
  <2>3. OnTheWay' = OnTheWay \cup {e}
    <3> HIDE DEF e
    <3>1. QED
      BY <1>1, <2>1, <2>2, RangeOfAppended
  <2>4. server' = server \ {q} /\ UNCHANGED <<trackerVars, log, conn, up>>
    BY <1>9 DEF Answer
  <2>5. UNCHANGED Session!trackerVars
    BY <1>13, <2>4
  <2>6. Session!Answer(q, result)
    BY <1>9, <2>3, <2>4, <2>5 DEF Session!Answer
  <2>7. QED
    BY <1>9, <2>6 DEF Session!Next
<1>10. ASSUME NEW params \in Params, Notify(params)
       PROVE  Session!Next
  <2> DEFINE e == <<conn, [type |-> "notification", params |-> params]>>
  <2>1. InFlight' = Append(InFlight, e)
    BY <1>10, NotifyKeeps
  <2>2. e \in Messages
    BY <1>1, TypeTells, WireAssumption DEF Messages, RawIncoming, Notification
  <2>3. OnTheWay' = OnTheWay \cup {e}
    <3> HIDE DEF e
    <3>1. QED
      BY <1>1, <2>1, <2>2, RangeOfAppended
  <2>4. up /\ OnTheWay = {} /\ UNCHANGED <<trackerVars, log, conn, up, server>>
    BY <1>10 DEF Notify
  <2>5. UNCHANGED Session!trackerVars
    BY <1>13, <2>4
  <2>6. \A m \in OnTheWay : m[2].type # "notification"
    BY <2>4
  <2>7. Session!Notify(params)
    BY <2>3, <2>4, <2>5, <2>6 DEF Session!Notify
  <2>8. QED
    BY <1>10, <2>7 DEF Session!Next
<1>11. CASE UNCHANGED vars
  <2>1. UNCHANGED <<trackerVars, log, conn, up, style, server, toClient, queue, refused>>
    BY <1>11 DEF vars
  <2>2. InFlight' = InFlight
    BY <2>1 DEF InFlight, Meanings, Pieces
  <2>3. QED
    BY <1>3, <2>1, <2>2
<1>12. QED
  BY <1>4, <1>5, <1>6, <1>7, <1>8, <1>9, <1>10, <1>11, Zenon DEF Next

\* The tracker on a connection of lines, with servers of every style, is the
\* tracker of TrackerSession: what arrives is what was sent, once each, whatever
\* the shape of batches and answers, the order of keys and of what is read
\* (protocol.rs, request_tracker.rs).
THEOREM ImplementsTheSession == Spec => ImplementsSession
<1>1. Init => Session!Init
  BY SessionInit
<1>2. IInv /\ IInv' /\ [Next]_vars => [Session!Next]_(Session!vars)
  BY SessionStep
<1>3. QED
  BY <1>1, <1>2, WireInvariant, PTL DEF Spec, ImplementsSession, Session!Spec

-----------------------------------------------------------------------------
(***************************************************************************)
(* What is proved of TrackerSession holds over lines.                      *)
(***************************************************************************)
SessionProofs == INSTANCE TrackerSessionProofs WITH
  AllowClear <- FALSE,
  replies <- OnTheWay

\* The session that its proofs are about is the one that is implemented.
LEMMA SameSession == Session!Spec <=> SessionProofs!Spec
<1> USE DEF Session!Ids, SessionProofs!Ids, Session!Held, SessionProofs!Held,
            Session!Range, SessionProofs!Range, Session!Tracked, SessionProofs!Tracked,
            Session!trackerVars, SessionProofs!trackerVars,
            Session!Dropped, SessionProofs!Dropped, Session!Settled, SessionProofs!Settled
<1>1. Session!Init <=> SessionProofs!Init
  BY DEF Session!Init, SessionProofs!Init, Session!TrackerInit, SessionProofs!TrackerInit
<1>2. UNCHANGED Session!vars <=> UNCHANGED SessionProofs!vars
  BY DEF Session!vars, SessionProofs!vars
<1>3. ASSUME NEW requests
      PROVE  Session!Track(requests) <=> SessionProofs!Track(requests)
  BY Zenon DEF Session!Track, SessionProofs!Track, Session!TrackRequest, SessionProofs!TrackRequest,
         Session!RawRequests, SessionProofs!RawRequests, Session!IdAt, SessionProofs!IdAt,
         Session!Displaced, SessionProofs!Displaced, Session!Inserted, SessionProofs!Inserted,
         Session!PositionsWithId, SessionProofs!PositionsWithId, Session!Max, SessionProofs!Max
<1>4. ASSUME NEW m
      PROVE  Session!Deliver(m) <=> SessionProofs!Deliver(m)
  BY Zenon DEF Session!Deliver, SessionProofs!Deliver,
         Session!HandleIncoming, SessionProofs!HandleIncoming,
         Session!IsKnownResponse, SessionProofs!IsKnownResponse,
         Session!Resolve, SessionProofs!Resolve
<1>5. Session!Disconnect <=> SessionProofs!Disconnect
  BY DEF Session!Disconnect, SessionProofs!Disconnect
<1>6. Session!Reconnect <=> SessionProofs!Reconnect
  BY DEF Session!Reconnect, SessionProofs!Reconnect,
         Session!PendingRequests, SessionProofs!PendingRequests
<1>7. Session!ClearTracker <=> SessionProofs!ClearTracker
  BY DEF Session!ClearTracker, SessionProofs!ClearTracker
<1>8. ASSUME NEW r
      PROVE  Session!Abandon(r) <=> SessionProofs!Abandon(r)
  BY DEF Session!Abandon, SessionProofs!Abandon
<1>9. ASSUME NEW q, NEW result
      PROVE  Session!Answer(q, result) <=> SessionProofs!Answer(q, result)
  BY DEF Session!Answer, SessionProofs!Answer
<1>10. ASSUME NEW params
       PROVE  Session!Notify(params) <=> SessionProofs!Notify(params)
  BY DEF Session!Notify, SessionProofs!Notify
<1>11. Session!Batches(Req \ Session!Tracked, MaxBatch)
         = SessionProofs!Batches(Req \ SessionProofs!Tracked, MaxBatch)
  BY Zenon DEF Session!Batches, SessionProofs!Batches, Session!IsInjective, SessionProofs!IsInjective
<1>12. Session!Next <=> SessionProofs!Next
  BY <1>3, <1>4, <1>5, <1>6, <1>7, <1>8, <1>9, <1>10, <1>11, Zenon DEF Session!Next, SessionProofs!Next
<1>13. [Session!Next]_(Session!vars) <=> [SessionProofs!Next]_(SessionProofs!vars)
  BY <1>2, <1>12
<1>14. QED
  BY <1>1, <1>13, PTL DEF Session!Spec, SessionProofs!Spec

\* Over lines too no handler of a request that waits is lost, while a connection
\* is up each pending request is at its server or answered, and a resolved
\* request stays as it is, also when ids wrap around (track_request,
\* pending_requests, handle_incoming).
THEOREM HandlersAreKept ==
  Spec => [](Session!NoOrphan /\ Session!PendingIsAsked) /\ Session!ResolvedOnce
<1>1. SessionProofs!NoOrphan => Session!NoOrphan
  BY Zenon DEF Session!NoOrphan, SessionProofs!NoOrphan, Session!Tracked, SessionProofs!Tracked,
     Session!Ids, SessionProofs!Ids, Session!Range, SessionProofs!Range
<1>2. SessionProofs!PendingIsAsked => Session!PendingIsAsked
  BY Zenon DEF Session!PendingIsAsked, SessionProofs!PendingIsAsked, Session!Ids, SessionProofs!Ids
<1>3. SessionProofs!ResolvedOnce => Session!ResolvedOnce
  <2> DEFINE Kept == \A r \in Req : reply[r] \in {"ok", "error", "canceled"} =>
                       reply'[r] = reply[r] /\ answer'[r] = answer[r]
  <2>1. UNCHANGED Session!vars <=> UNCHANGED SessionProofs!vars
    BY DEF Session!vars, SessionProofs!vars, Session!trackerVars, SessionProofs!trackerVars
  <2>2. [Kept]_(Session!vars) <=> [Kept]_(SessionProofs!vars)
    BY <2>1
  <2>3. QED
    BY <2>2, PTL DEF Session!ResolvedOnce, SessionProofs!ResolvedOnce
<1>4. SessionProofs!Spec => []SessionProofs!NoOrphan
  BY SessionProofs!NoHandlerIsLost, WireAssumption, TrackerAssumption
<1>5. SessionProofs!Spec => []SessionProofs!PendingIsAsked
  BY SessionProofs!PendingIsAlwaysAsked, WireAssumption, TrackerAssumption
<1>6. SessionProofs!Spec => SessionProofs!ResolvedOnce
  BY SessionProofs!ResolvedOnlyOnce, WireAssumption, TrackerAssumption
<1>7. QED
  BY <1>1, <1>2, <1>3, <1>4, <1>5, <1>6, SameSession, ImplementsTheSession, PTL DEF ImplementsSession

\* With an id for every request, no request is given the answer to another, and
\* an answer that a line brings finds the handler of its request if that still
\* waits: the id alone is enough, whatever was tracked, resent and styled since
\* (handle_incoming).
THEOREM AnswersAreCorrelated ==
  ASSUME MaxTracked <= IdCount
  PROVE  Spec => [](Correlated /\ Session!AnswersFindTheirRequest)
<1>1. SessionProofs!Correlated => Correlated
  BY DEF SessionProofs!Correlated, Correlated
<1>2. SessionProofs!AnswersFindTheirRequest => Session!AnswersFindTheirRequest
  BY Zenon DEF SessionProofs!AnswersFindTheirRequest, Session!AnswersFindTheirRequest
<1>3. SessionProofs!Spec => []SessionProofs!Correlated
  BY SessionProofs!AnswersAreCorrelated, WireAssumption, TrackerAssumption
<1>4. SessionProofs!Spec => []SessionProofs!AnswersFindTheirRequest
  BY SessionProofs!AnswersFindHandlers, WireAssumption, TrackerAssumption
<1>5. QED
  BY <1>1, <1>2, <1>3, <1>4, SameSession, ImplementsTheSession, PTL DEF ImplementsSession

=============================================================================
