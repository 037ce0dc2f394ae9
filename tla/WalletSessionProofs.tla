------------------------ MODULE WalletSessionProofs ------------------------
(***************************************************************************)
(* Theorems about WalletSession, for any wallet, any number of blocks and  *)
(* any requests.                                                           *)
(***************************************************************************)
EXTENDS WalletSession, SharedLemmas

-----------------------------------------------------------------------------
(***************************************************************************)
(* Numbers and sequences.                                                  *)
(***************************************************************************)

\* The greater of two numbers.
LEMMA MaxOfTwo ==
  ASSUME NEW a \in Int, NEW b \in Int
  PROVE  Max({a, b}) = IF a >= b THEN a ELSE b
<1> DEFINE c == IF a >= b THEN a ELSE b
<1>1. c \in {a, b} /\ \A y \in {a, b} : c >= y
  OBVIOUS
<1>2. \A x \in {a, b} : (\A y \in {a, b} : x >= y) => x = c
  OBVIOUS
<1> HIDE DEF c
<1>3. Max({a, b}) = c
  BY <1>1, <1>2 DEF Max
<1>4. QED
  BY <1>3 DEF c

\* The least of three numbers is none of the greater ones.
LEMMA MinOfThree ==
  ASSUME NEW a \in Int, NEW b \in Int, NEW c \in Int
  PROVE  /\ Min({a, b, c}) \in {a, b, c}
         /\ Min({a, b, c}) <= a /\ Min({a, b, c}) <= b /\ Min({a, b, c}) <= c
<1>1. \E x \in {a, b, c} : \A y \in {a, b, c} : x =< y
  <2>1. CASE a <= b /\ a <= c
    BY <2>1
  <2>2. CASE b <= a /\ b <= c
    BY <2>2
  <2>3. CASE c <= a /\ c <= b
    BY <2>3
  <2>4. QED
    BY <2>1, <2>2, <2>3
<1>2. Min({a, b, c}) \in {a, b, c} /\ \A y \in {a, b, c} : Min({a, b, c}) =< y
  BY <1>1 DEF Min
<1>3. QED
  BY <1>2

\* The recursive function of a sum of values.
Summing(seq, f) ==
  f = [s \in SUBSET DOMAIN seq |-> IF s = {} THEN 0 ELSE f[s \ {Max(s)}] + seq[Max(s)].value]

\* A fold over a sequence is the recursive function of its sum.
LEMMA SumIs ==
  ASSUME NEW seq, NEW total,
         \E f : Summing(seq, f),
         \A f : Summing(seq, f) => f[DOMAIN seq] = total
  PROVE  FoldLeft(LAMBDA sum, utxo : sum + utxo.value, 0, seq) = total
<1>1. FoldLeft(LAMBDA sum, utxo : sum + utxo.value, 0, seq)
        = (CHOOSE f : Summing(seq, f))[DOMAIN seq]
  BY Zenon DEF FoldLeft, MapThenFoldSet, Summing
<1>2. Summing(seq, CHOOSE f : Summing(seq, f))
  OBVIOUS
<1>3. QED
  BY <1>1, <1>2

\* The sum over no elements, ...
LEMMA SumOfNone == FoldLeft(LAMBDA sum, utxo : sum + utxo.value, 0, <<>>) = 0
<1>1. DOMAIN <<>> = {} /\ \A s \in SUBSET {} : s = {}
  OBVIOUS
<1>2. Summing(<<>>, [s \in SUBSET {} |-> 0])
  BY <1>1 DEF Summing
<1>3. \A f : Summing(<<>>, f) => f[DOMAIN <<>>] = 0
  BY <1>1 DEF Summing
<1>4. QED
  BY <1>2, <1>3, SumIs

\* ... and over one.
LEMMA SumOfOne ==
  ASSUME NEW u, u.value \in Int
  PROVE  FoldLeft(LAMBDA sum, utxo : sum + utxo.value, 0, <<u>>) = u.value
<1> DEFINE g == [s \in SUBSET {1} |-> IF s = {} THEN 0 ELSE u.value]
<1>1. DOMAIN <<u>> = {1} /\ <<u>>[1] = u
  OBVIOUS
<1>2. Max({1}) = 1 /\ {1} \ {1} = {}
  BY DEF Max
<1>3. \A s \in SUBSET {1} : s = {} \/ s = {1}
  OBVIOUS
<1>4. Summing(<<u>>, g)
  <2>1. \A s \in SUBSET {1} :
          g[s] = IF s = {} THEN 0 ELSE g[s \ {Max(s)}] + <<u>>[Max(s)].value
    <3>1. g[{}] = 0 /\ g[{1}] = u.value /\ 0 + u.value = u.value /\ {1} # {}
      OBVIOUS
    <3> HIDE DEF g
    <3>2. g[{1}] = g[{1} \ {Max({1})}] + <<u>>[Max({1})].value
      BY <1>1, <1>2, <3>1
    <3>3. \A s \in SUBSET {1} :
            \/ s = {} /\ g[s] = 0
            \/ s = {1} /\ s # {} /\ g[s] = g[s \ {Max(s)}] + <<u>>[Max(s)].value
      BY <1>3, <3>1, <3>2, Zenon
    <3>4. QED
      BY <3>3, Zenon
  <2>2. QED
    BY <1>1, <2>1 DEF Summing
<1>5. \A f : Summing(<<u>>, f) => f[DOMAIN <<u>>] = u.value
  <2>1. SUFFICES ASSUME NEW f, Summing(<<u>>, f) PROVE f[{1}] = u.value
    BY <1>1
  <2>2. \A s \in SUBSET {1} :
          f[s] = IF s = {} THEN 0 ELSE f[s \ {Max(s)}] + <<u>>[Max(s)].value
    BY <1>1, <2>1 DEF Summing
  <2>3. f[{}] = 0
    BY <2>2
  <2>4. f[{1}] = f[{}] + u.value
    <3>1. {1} \in SUBSET {1} /\ {1} # {}
      OBVIOUS
    <3>2. f[{1}] = f[{1} \ {Max({1})}] + <<u>>[Max({1})].value
      BY <2>2, <3>1
    <3>3. QED
      BY <1>1, <1>2, <3>2
  <2>5. QED
    BY <2>3, <2>4
<1>6. QED
  BY <1>4, <1>5, SumIs

-----------------------------------------------------------------------------
\* Sequences of what they are sequences of, put together.
IsSeq(s) == s \in Seq(Range(s))

\* What is a sequence of anything is one of its own elements.
LEMMA SeqIs ==
  ASSUME NEW S, NEW s \in Seq(S)
  PROVE  IsSeq(s) /\ DOMAIN s = 1 .. Len(s) /\ Len(s) \in Nat
<1>1. \A k \in 1 .. Len(s) : s[k] \in Range(s)
  BY DEF Range
<1>2. QED
  BY <1>1 DEF IsSeq

\* Three sequences are joined to the first in turn or at once.
LEMMA JoinedThrice ==
  ASSUME NEW S, NEW w \in Seq(S), NEW x \in Seq(S), NEW y \in Seq(S), NEW z \in Seq(S)
  PROVE  ((w \o x) \o y) \o z = w \o ((x \o y) \o z)
OBVIOUS

\* What two sequences put together have, at which place.
LEMMA Joined ==
  ASSUME NEW s, NEW t, IsSeq(s), IsSeq(t)
  PROVE  /\ IsSeq(s \o t) /\ Len(s \o t) = Len(s) + Len(t)
         /\ Len(s) \in Nat /\ Len(t) \in Nat
         /\ DOMAIN (s \o t) = 1 .. Len(s) + Len(t)
         /\ DOMAIN s = 1 .. Len(s) /\ DOMAIN t = 1 .. Len(t)
         /\ \A k \in 1 .. Len(s) : (s \o t)[k] = s[k]
         /\ \A k \in 1 .. Len(t) : (s \o t)[Len(s) + k] = t[k]
<1> DEFINE S == Range(s) \cup Range(t)
<1>1. s \in Seq(S) /\ t \in Seq(S)
  <2>1. \A A, B, x : x \in Seq(A) /\ A \subseteq B => x \in Seq(B)
    OBVIOUS
  <2>2. QED
    BY <2>1 DEF IsSeq
<1> HIDE DEF S
<1>2. s \o t \in Seq(S)
  BY <1>1
<1>3. IsSeq(s \o t) /\ DOMAIN (s \o t) = 1 .. Len(s \o t)
  BY <1>2, SeqIs, Zenon
<1>4. /\ Len(s \o t) = Len(s) + Len(t)
      /\ Len(s) \in Nat /\ Len(t) \in Nat
      /\ DOMAIN s = 1 .. Len(s) /\ DOMAIN t = 1 .. Len(t)
      /\ \A k \in 1 .. Len(s) : (s \o t)[k] = s[k]
      /\ \A k \in 1 .. Len(t) : (s \o t)[Len(s) + k] = t[k]
  BY <1>1
<1>5. QED
  BY <1>3, <1>4

\* Every element of what is put together is one of the parts.
LEMMA JoinedElements ==
  ASSUME NEW s, NEW t, IsSeq(s), IsSeq(t), NEW k \in DOMAIN (s \o t)
  PROVE  \/ k \in DOMAIN s /\ (s \o t)[k] = s[k]
         \/ k - Len(s) \in DOMAIN t /\ (s \o t)[k] = t[k - Len(s)]
<1>1. k \in 1 .. Len(s) + Len(t) /\ Len(s) \in Nat /\ Len(t) \in Nat
  BY Joined
<1>2. k \in 1 .. Len(s) \/ (k - Len(s) \in 1 .. Len(t) /\ Len(s) + (k - Len(s)) = k)
  BY <1>1
<1>3. QED
  BY <1>2, Joined

\* A first element is taken.
LEMMA Taken ==
  ASSUME NEW s, IsSeq(s), s # <<>>
  PROVE  /\ IsSeq(Tail(s)) /\ Len(Tail(s)) = Len(s) - 1 /\ Len(s) \in Nat \ {0}
         /\ DOMAIN s = 1 .. Len(s) /\ DOMAIN Tail(s) = 1 .. Len(s) - 1 /\ Head(s) = s[1]
         /\ \A k \in 1 .. Len(s) - 1 : Tail(s)[k] = s[k + 1]
<1>1. s \in Seq(Range(s))
  BY DEF IsSeq
<1>2. PICK S : S = Range(s)
  OBVIOUS
<1>3. Tail(s) \in Seq(S)
  BY <1>1, <1>2
<1>4. IsSeq(Tail(s)) /\ DOMAIN Tail(s) = 1 .. Len(Tail(s))
  BY <1>3, SeqIs, Zenon
<1>5. /\ Len(Tail(s)) = Len(s) - 1 /\ Len(s) \in Nat \ {0}
      /\ DOMAIN s = 1 .. Len(s) /\ Head(s) = s[1]
      /\ \A k \in 1 .. Len(s) - 1 : Tail(s)[k] = s[k + 1]
  BY <1>1, <1>2
<1>6. QED
  BY <1>4, <1>5

\* The items that options decode to.
DecodeTo(options, items) ==
  /\ DOMAIN options = DOMAIN items /\ items = [k \in DOMAIN items |-> items[k]]
  /\ \A k \in DOMAIN items : options[k] = {items[k]}

\* If all options decode, their items are what all of them decode to.
LEMMA AllOfIs ==
  ASSUME NEW options, NEW items, DecodeTo(options, items)
  PROVE  AllOf(options) = {items}
<1> DEFINE D == DOMAIN items
<1>0. DOMAIN options = D /\ items = [k \in D |-> items[k]] /\ \A k \in D : options[k] = {items[k]}
  BY DEF DecodeTo
<1> HIDE DEF D
<1>1. \A k \in D : options[k] # {} /\ (CHOOSE x \in options[k] : TRUE) = items[k]
  <2>1. \A y : (CHOOSE x \in {y} : TRUE) = y
    OBVIOUS
  <2>2. QED
    BY <1>0, <2>1
<1>2. [k \in D |-> CHOOSE x \in options[k] : TRUE] = items
  BY <1>0, <1>1
<1>3. QED
  BY <1>0, <1>1, <1>2 DEF AllOf

\* A header or a transaction is decoded from its hex.
LEMMA HexDecodes ==
  ASSUME NEW x
  PROVE  FromConsensusHex(HexOf(x)) = {x}
BY DEF FromConsensusHex, HexOf

-----------------------------------------------------------------------------
(***************************************************************************)
(* The server's history.                                                   *)
(***************************************************************************)

\* The first m of the wallet's transactions are in the chain, and the next
\* ones up to the n-th in the mempool.
Placed(c, pool, m, n) ==
  /\ m \in 0 .. Len(WalletTx) /\ n \in 0 .. Len(WalletTx) /\ m <= n
  /\ Entered(c, {}) = 1 .. m
  /\ pool = {WalletTx[k] : k \in m + 1 .. n}

\* A chain whose first block has none of them.
ChainOK(c) ==
  /\ IsSeq(c) /\ Len(c) \in 1 .. MaxHeights
  /\ \A t \in Range(WalletTx) : Txid(t) \notin Range(c[1].txids)

\* The wallet's transactions are a sequence that has each once.
LEMMA WalletIs ==
  /\ IsSeq(WalletTx) /\ DOMAIN WalletTx = 1 .. Len(WalletTx) /\ Len(WalletTx) \in Nat
  /\ \A j, k \in DOMAIN WalletTx : WalletTx[j] = WalletTx[k] => j = k
  /\ \A k \in DOMAIN WalletTx : WalletTx[k] \in Range(WalletTx)
<1>1. WalletTx \in Seq(Range(WalletTx)) /\ IsInjective(WalletTx)
  BY WalletAssumption
<1>2. PICK S : S = Range(WalletTx)
  OBVIOUS
<1>3. QED
  BY <1>1, <1>2, SeqIs DEF IsInjective, Range

\* The bounds are numbers, as are the rates and the counts.
LEMMA BoundsAre ==
  /\ MaxBlocks \in Nat \ {0} /\ MaxHeights \in Nat \ {0} /\ MaxCount \in Nat \ {0}
  /\ MaxWeight \in Nat /\ Len(Rates) \in Nat /\ 4 * Len(Rates) <= MaxWeight
  /\ DOMAIN Rates = 1 .. Len(Rates) /\ Counts \subseteq Nat /\ Fillers \subseteq Nat
  /\ Heights \subseteq Nat /\ Heights = 0 .. MaxBlocks - 1
<1>1. /\ MaxBlocks \in Nat \ {0} /\ MaxHeights \in Nat /\ MaxBlocks <= MaxHeights
      /\ MaxCount \in Nat \ {0} /\ MaxWeight \in Nat /\ Counts \subseteq Nat /\ Fillers \subseteq Nat
  BY WalletAssumption
<1>2. Rates \in Seq(Nat) /\ 4 * Len(Rates) <= MaxWeight
  BY WalletAssumption
<1>3. Len(Rates) \in Nat /\ DOMAIN Rates = 1 .. Len(Rates)
  BY <1>2
<1>4. MaxHeights \in Nat \ {0}
  BY <1>1
<1>5. Heights = 0 .. MaxBlocks - 1 /\ Heights \subseteq Nat
  BY <1>1 DEF Heights
<1>6. QED
  BY <1>1, <1>2, <1>3, <1>4, <1>5

\* Counting tells where the transactions are.
LEMMA PlacedCounts ==
  ASSUME NEW c, NEW pool, NEW m, NEW n, Placed(c, pool, m, n)
  PROVE  /\ Entered(c, pool) = 1 .. n /\ Count(c, {}) = m /\ Count(c, pool) = n
         /\ m \in Nat /\ n \in Nat /\ m <= n /\ n <= Len(WalletTx)
         /\ \A k \in 1 .. n : k \in DOMAIN WalletTx /\ (WalletTx[k] \in pool <=> k > m)
         /\ pool \subseteq Range(WalletTx)
<1> DEFINE N == Len(WalletTx)
<1>1. m \in 0 .. N /\ n \in 0 .. N /\ m <= n /\ Entered(c, {}) = 1 .. m
      /\ pool = {WalletTx[k] : k \in m + 1 .. n}
  BY DEF Placed
<1>2. N \in Nat /\ DOMAIN WalletTx = 1 .. N
  BY WalletIs
<1>3. \A k \in 1 .. N : WalletTx[k] \in pool <=> k \in m + 1 .. n
  <2>1. \A k \in m + 1 .. n : k \in DOMAIN WalletTx
    BY <1>1, <1>2
  <2>2. QED
    BY <1>1, <1>2, <2>1, WalletIs
<1>4. Entered(c, pool) = {k \in 1 .. N : k \in m + 1 .. n} \cup Entered(c, {})
  BY <1>2, <1>3 DEF Entered
<1>5. Entered(c, pool) = 1 .. n
  <2>1. \A k \in Int : k \in 1 .. n <=> (k \in 1 .. N /\ k \in m + 1 .. n) \/ k \in 1 .. m
    BY <1>1, <1>2
  <2>2. \A k : k \in Entered(c, pool) <=> (k \in 1 .. N /\ k \in m + 1 .. n) \/ k \in 1 .. m
    BY <1>1, <1>4
  <2>3. 1 .. n \subseteq Int /\ 1 .. m \subseteq Int /\ 1 .. N \subseteq Int
    OBVIOUS
  <2>4. QED
    BY <2>1, <2>2, <2>3, Zenon
<1>6. Cardinality(1 .. m) = m /\ Cardinality(1 .. n) = n
  <2>1. m \in Nat /\ n \in Nat
    BY <1>1, <1>2
  <2>2. \A a \in Nat : Cardinality(1 .. a) = IF 1 > a THEN 0 ELSE a - 1 + 1
    BY FS_Interval
  <2>3. QED
    BY <2>1, <2>2
<1>7. Count(c, {}) = m /\ Count(c, pool) = n
  BY <1>1, <1>5, <1>6 DEF Count
<1>8. \A k \in 1 .. n : k \in 1 .. N /\ (k \in m + 1 .. n <=> k > m)
  BY <1>1, <1>2
<1>9. pool \subseteq Range(WalletTx)
  BY <1>1, <1>2, WalletIs
<1>10. QED
  BY <1>1, <1>2, <1>3, <1>5, <1>7, <1>8, <1>9

\* A confirmed transaction is at a height above the first block.
LEMMA HeightIs ==
  ASSUME NEW c, ChainOK(c), NEW k \in Entered(c, {})
  PROVE  HeightIn(c, WalletTx[k]) \in 1 .. MaxHeights - 1
<1> DEFINE t == WalletTx[k]
           i == CHOOSE j \in DOMAIN c : Txid(t) \in Range(c[j].txids)
<1>1. k \in DOMAIN WalletTx /\ \E b \in Range(c) : Txid(t) \in Range(b.txids)
  BY DEF Entered
<1>2. \E j \in DOMAIN c : Txid(t) \in Range(c[j].txids)
  BY <1>1 DEF Range
<1>3. i \in DOMAIN c /\ Txid(t) \in Range(c[i].txids)
  BY <1>2, Zenon
<1>4. i # 1
  BY <1>1, <1>3, WalletIs DEF ChainOK
<1>5. DOMAIN c = 1 .. Len(c) /\ Len(c) \in 1 .. MaxHeights
  BY SeqIs DEF ChainOK, IsSeq
<1> HIDE DEF i
<1>6. MaxHeights \in Nat /\ i \in 2 .. MaxHeights
  BY <1>3, <1>4, <1>5, BoundsAre
<1>7. i - 1 \in 1 .. MaxHeights - 1
  BY <1>6
<1>8. QED
  BY <1>7 DEF HeightIn, i

\* The history of what is placed has an entry for each transaction, of which
\* those that are confirmed have the height of their block.
LEMMA HistoryIs ==
  ASSUME NEW c, NEW pool, NEW m, NEW n, Placed(c, pool, m, n), ChainOK(c)
  PROVE  /\ HistoryOK(ServerHistory(c, pool)) /\ Len(ServerHistory(c, pool)) = n
         /\ DOMAIN ServerHistory(c, pool) = 1 .. n
         /\ \A k \in m + 1 .. n : /\ ServerHistory(c, pool)[k].height \in {0, -1}
                                  /\ "fee" \in DOMAIN ServerHistory(c, pool)[k]
<1> DEFINE h == ServerHistory(c, pool)
           Entry(k) == LET t == WalletTx[k] IN
             IF t \notin pool THEN [tx_hash |-> Txid(t), height |-> HeightIn(c, t)]
             ELSE [tx_hash |-> Txid(t), fee |-> 1,
                   height |-> IF k > 1 /\ WalletTx[k - 1] \in pool THEN -1 ELSE 0]
<1>1. n \in Nat /\ m \in Nat /\ m <= n /\ h = [k \in 1 .. n |-> Entry(k)]
  BY PlacedCounts DEF ServerHistory
<1>2. h \in Seq(Range(h)) /\ Len(h) = n /\ DOMAIN h = 1 .. n
  <2>1. PICK s : s = h
    OBVIOUS
  <2>2. s = [k \in 1 .. n |-> s[k]] /\ DOMAIN s = 1 .. n
    BY <1>1, <2>1
  <2>3. \A k \in 1 .. n : s[k] \in Range(s)
    BY <2>2 DEF Range
  <2>4. PICK S : S = Range(s)
    OBVIOUS
  <2>5. s \in Seq(S) /\ Len(s) = n
    BY <1>1, <2>2, <2>3, <2>4
  <2>6. QED
    BY <2>1, <2>2, <2>4, <2>5
<1>3. ASSUME NEW k \in 1 .. n
      PROVE  /\ EntryOK(Entry(k))
             /\ k \in m + 1 .. n => Entry(k).height \in {0, -1} /\ "fee" \in DOMAIN Entry(k)
  <2>1. k \in DOMAIN WalletTx /\ (WalletTx[k] \in pool <=> k > m) /\ m \in Nat
    BY PlacedCounts
  <2>2. MaxHeights \in Nat /\ MaxHeights # 0
    BY WalletAssumption
  <2>3. CASE k > m
    <3>1. Entry(k) = [tx_hash |-> Txid(WalletTx[k]), fee |-> 1,
                      height |-> IF k > 1 /\ WalletTx[k - 1] \in pool THEN -1 ELSE 0]
      BY <2>1, <2>3
    <3>2. PICK e : e = Entry(k)
      OBVIOUS
    <3> HIDE DEF Entry
    <3>3. PICK x \in {0, -1} : e = [tx_hash |-> Txid(WalletTx[k]), fee |-> 1, height |-> x]
      BY <3>1, <3>2
    <3>4. x \in -1 .. MaxHeights - 1 /\ ~(x > 0) /\ e.height = x /\ "fee" \in DOMAIN e
          /\ e = [tx_hash |-> e.tx_hash, fee |-> 1, height |-> x]
      BY <2>2, <3>3
    <3>5. QED
      BY <3>2, <3>4 DEF EntryOK
  <2>4. CASE ~(k > m)
    <3>1. PICK x : x = HeightIn(c, WalletTx[k])
      OBVIOUS
    <3>2. PICK e : e = Entry(k)
      OBVIOUS
    <3>3. k \in Entered(c, {})
      BY <2>1, <2>4 DEF Placed
    <3>4. x \in 1 .. MaxHeights - 1
      BY <3>1, <3>3, HeightIs
    <3>5. e = [tx_hash |-> Txid(WalletTx[k]), height |-> x]
      BY <2>1, <2>4, <3>1, <3>2
    <3> HIDE DEF Entry
    <3>6. x \in -1 .. MaxHeights - 1 /\ x > 0 /\ e = [tx_hash |-> e.tx_hash, height |-> x]
      BY <2>2, <3>4, <3>5
    <3>7. EntryOK(e)
      BY <3>6 DEF EntryOK
    <3>8. QED
      BY <2>1, <2>4, <3>2, <3>7
  <2>5. QED
    BY <2>3, <2>4
<1> HIDE DEF Entry
<1>4. \A k \in 1 .. n : h[k] = Entry(k)
  BY <1>1
<1> HIDE DEF h
<1>5. HistoryOK(h)
  BY <1>2, <1>3, <1>4 DEF HistoryOK
<1>6. \A k \in m + 1 .. n : k \in 1 .. n
  BY <1>1
<1>7. \A k \in m + 1 .. n : h[k].height \in {0, -1} /\ "fee" \in DOMAIN h[k]
  BY <1>3, <1>4, <1>6
<1>8. QED
  BY <1>2, <1>5, <1>7 DEF h

-----------------------------------------------------------------------------
(***************************************************************************)
(* Histories are decoded as they were sent.                                *)
(***************************************************************************)

\* The heights of the mempool are told apart.
LEMMA InputsAre == AllInputsConfirmed(0) = {TRUE} /\ AllInputsConfirmed(-1) = {FALSE}
<1>1. -1 # 0
  OBVIOUS
<1>2. QED
  BY <1>1 DEF AllInputsConfirmed

\* An entry that says by its height whether it is in the mempool is decoded
\* with that height.
LEMMA EntryDecodes ==
  ASSUME NEW entry, EntryOK(entry)
  PROVE  \E tx : /\ DecodeTx(entry) = {tx}
                 /\ tx.txid = entry.tx_hash /\ ElectrumHeight(tx) = entry.height
<1>1. PICK h \in -1 .. MaxHeights - 1 :
        entry = IF h > 0 THEN [tx_hash |-> entry.tx_hash, height |-> h]
                ELSE [tx_hash |-> entry.tx_hash, fee |-> 1, height |-> h]
  BY DEF EntryOK
<1>2. MaxHeights \in Nat
  BY WalletAssumption
<1>3. PICK x : x = entry.tx_hash
  OBVIOUS
<1>4. CASE h > 0
  <2>1. entry = [tx_hash |-> x, height |-> h]
    BY <1>1, <1>3, <1>4
  <2>2. "fee" \notin DOMAIN entry /\ entry.height = h /\ entry.tx_hash = x
    BY <2>1
  <2>3. BlockHeight(h) = {h}
    BY <1>2, <1>4 DEF BlockHeight
  <2>4. DecodeTx(entry) = {[txid |-> x, height |-> h]}
    BY <2>2, <2>3 DEF DecodeTx
  <2>5. ElectrumHeight([txid |-> x, height |-> h]) = h
    BY DEF ElectrumHeight
  <2>6. QED
    BY <2>2, <2>4, <2>5
<1>5. CASE ~(h > 0)
  <2>1. entry = [tx_hash |-> x, fee |-> 1, height |-> h]
    BY <1>1, <1>3, <1>5
  <2>2. "fee" \in DOMAIN entry /\ entry.height = h /\ entry.tx_hash = x /\ entry.fee = 1
    BY <2>1
  <2>3. PICK c \in BOOLEAN : AllInputsConfirmed(h) = {c} /\ h = IF c THEN 0 ELSE -1
    <3>1. h = 0 \/ h = -1
      BY <1>2, <1>5
    <3>2. CASE h = 0
      BY <3>2, InputsAre
    <3>3. CASE h = -1
      BY <3>3, InputsAre
    <3>4. QED
      BY <3>1, <3>2, <3>3
  <2>4. DecodeMempoolTx(entry) = {[txid |-> x, fee |-> 1, confirmed_inputs |-> c]}
    BY <2>2, <2>3 DEF DecodeMempoolTx
  <2>5. DecodeTx(entry) = {[txid |-> x, fee |-> 1, confirmed_inputs |-> c]}
    BY <2>2, <2>4 DEF DecodeTx
  <2>6. ElectrumHeight([txid |-> x, fee |-> 1, confirmed_inputs |-> c]) = h
    BY <2>3 DEF ElectrumHeight
  <2>7. QED
    BY <2>2, <2>5, <2>6
<1>6. QED
  BY <1>4, <1>5

\* A history is decoded so that from_history finds its status.
LEMMA HistoryDecodes ==
  ASSUME NEW entries, HistoryOK(entries)
  PROVE  \E txs : Each(DecodeTx, entries) = {txs} /\ DecodedAs(entries, txs)
<1> DEFINE D == DOMAIN entries
           Good(k, tx) == DecodeTx(entries[k]) = {tx} /\ tx.txid = entries[k].tx_hash
                          /\ ElectrumHeight(tx) = entries[k].height
           txs == [k \in D |-> CHOOSE tx : Good(k, tx)]
           options == [k \in D |-> DecodeTx(entries[k])]
<1>1. entries \in Seq(Range(entries)) /\ \A k \in D : EntryOK(entries[k])
  BY DEF HistoryOK
<1>2. \A k \in D : \E tx : Good(k, tx)
  BY <1>1, EntryDecodes
<1>3. DOMAIN txs = D /\ txs = [k \in D |-> txs[k]]
  OBVIOUS
<1>4. \A k \in D : Good(k, txs[k])
  <2>1. \A k \in D : txs[k] = CHOOSE tx : Good(k, tx)
    OBVIOUS
  <2> HIDE DEF Good, txs
  <2>2. QED
    BY <1>2, <2>1, Zenon
<1> HIDE DEF txs
<1>5. AllOf(options) = {txs}
  <2>1. DOMAIN options = D /\ \A k \in D : options[k] = {txs[k]}
    BY <1>4
  <2>2. DecodeTo(options, txs)
    BY <1>3, <2>1 DEF DecodeTo
  <2> HIDE DEF options
  <2>3. QED
    BY <2>2, AllOfIs
<1>6. Each(DecodeTx, entries) = {txs}
  BY <1>5 DEF Each
<1>7. FromHistory(txs) = StatusOf(entries)
  <2>1. entries = <<>> <=> D = {}
    <3>1. PICK S : S = Range(entries)
      OBVIOUS
    <3>2. entries \in Seq(S)
      BY <1>1, <3>1
    <3>3. QED
      BY <3>2
  <2>2. txs = <<>> <=> D = {}
    BY <1>3
  <2>3. [k \in DOMAIN txs |-> <<txs[k].txid, ElectrumHeight(txs[k])>>]
          = [k \in DOMAIN entries |-> <<entries[k].tx_hash, entries[k].height>>]
    BY <1>3, <1>4
  <2>4. QED
    BY <2>1, <2>2, <2>3 DEF FromHistory, StatusOf
<1>8. QED
  BY <1>6, <1>7 DEF DecodedAs

\* What is in the mempool is decoded as such.
LEMMA MempoolDecodes ==
  ASSUME NEW entries,
         \A k \in DOMAIN entries : entries[k].height \in {0, -1}
  PROVE  \E items : Each(DecodeMempoolTx, entries) = {items}
<1> DEFINE D == DOMAIN entries
           options == [k \in D |-> DecodeMempoolTx(entries[k])]
           items == [k \in D |-> [txid |-> entries[k].tx_hash, fee |-> entries[k].fee,
                                  confirmed_inputs |-> entries[k].height = 0]]
<1>1. ASSUME NEW k \in D PROVE options[k] = {items[k]}
  <2>1. AllInputsConfirmed(entries[k].height) = {entries[k].height = 0}
    <3>1. CASE entries[k].height = 0
      BY <3>1, InputsAre
    <3>2. CASE entries[k].height = -1
      BY <3>2, InputsAre
    <3>3. QED
      BY <3>1, <3>2
  <2>2. DecodeMempoolTx(entries[k]) = {items[k]}
    BY <2>1 DEF DecodeMempoolTx
  <2>3. QED
    BY <2>2
<1>2. DecodeTo(options, items)
  <2>1. DOMAIN options = D /\ DOMAIN items = D /\ items = [k \in D |-> items[k]]
    OBVIOUS
  <2> HIDE DEF items, D, options
  <2>2. QED
    BY <1>1, <2>1 DEF DecodeTo
<1> HIDE DEF items, options
<1>3. AllOf(options) = {items}
  BY <1>2, AllOfIs
<1>4. QED
  BY <1>3 DEF Each, options, D

-----------------------------------------------------------------------------
(***************************************************************************)
(* Lists of headers.                                                       *)
(***************************************************************************)

\* Sequences of two elements each, one after the other.
Pairs(S, n) == {s \in Seq(Seq(S)) : Len(s) = n /\ \A k \in 1 .. n : Len(s[k]) = 2}

InPlaces(s, n) ==
  /\ Len(FlattenSeq(s)) = 2 * n
  /\ \A k \in 1 .. n : FlattenSeq(s)[2 * k - 1] = s[k][1] /\ FlattenSeq(s)[2 * k] = s[k][2]

\* A pair behind a sequence.
LEMMA PairBehind ==
  ASSUME NEW S, NEW s \in Seq(S), NEW t \in Seq(S)
  PROVE  Len(t) = 2 =>
           /\ Len(s \o t) = Len(s) + 2
           /\ (s \o t)[Len(s) + 1] = t[1] /\ (s \o t)[Len(s) + 2] = t[2]
           /\ \A i \in 1 .. Len(s) : (s \o t)[i] = s[i]
<1>1. /\ Len(s \o t) = Len(s) + Len(t) /\ (\A i \in 1 .. Len(s) : (s \o t)[i] = s[i])
      /\ \A i \in 1 .. Len(t) : (s \o t)[Len(s) + i] = t[i]
  BY ConcatAt
<1>2. Len(t) = 2 => 1 \in 1 .. Len(t) /\ 2 \in 1 .. Len(t)
  OBVIOUS
<1>3. QED
  BY <1>1, <1>2

\* One more of them comes after the others.
LEMMA OneMorePair ==
  ASSUME NEW S, NEW n \in Nat, \A s \in Pairs(S, n) : InPlaces(s, n),
         NEW s \in Pairs(S, n + 1)
  PROVE  InPlaces(s, n + 1)
<1> DEFINE front == SubSeq(s, 1, n)
           last == s[n + 1]
           f == FlattenSeq(front)
<1>1. s \in Seq(Seq(S)) /\ Len(s) = n + 1 /\ \A k \in 1 .. n + 1 : Len(s[k]) = 2
  BY DEF Pairs
<1>2. /\ front \in Seq(Seq(S)) /\ Len(front) = n /\ last \in Seq(S) /\ Len(last) = 2
      /\ \A k \in 1 .. n : front[k] = s[k] /\ k \in 1 .. n + 1
  <2>1. n + 1 \in 1 .. n + 1 /\ \A k \in 1 .. n : k \in 1 .. n + 1
    OBVIOUS
  <2>2. PICK T : T = Seq(S)
    OBVIOUS
  <2>3. /\ front \in Seq(T) /\ Len(front) = n /\ last \in T
        /\ \A k \in 1 .. n : front[k] = s[k]
    BY <1>1, <2>1, <2>2
  <2>4. QED
    BY <1>1, <2>1, <2>2, <2>3
<1>3. s = Append(front, last)
  <2>1. PICK T : T = Seq(S)
    OBVIOUS
  <2>2. s \in Seq(T) /\ Len(s) = n + 1
    BY <1>1, <2>1
  <2>3. QED
    BY <2>2
<1>4. front \in Pairs(S, n)
  BY <1>1, <1>2 DEF Pairs
<1>5. InPlaces(front, n)
  BY <1>4
<1>6. FlattenSeq(s) = f \o last /\ f \in Seq(S)
  BY <1>2, <1>3, FlattenAppended, FlattenType
<1>7. Len(f) = 2 * n /\ \A k \in 1 .. n : f[2 * k - 1] = s[k][1] /\ f[2 * k] = s[k][2]
  BY <1>2, <1>5 DEF InPlaces
<1> HIDE DEF f, front, last
<1>8. PICK g : g = f \o last
  OBVIOUS
<1>9. /\ Len(g) = 2 * n + 2 /\ g[2 * n + 1] = last[1] /\ g[2 * n + 2] = last[2]
      /\ \A i \in 1 .. 2 * n : g[i] = f[i]
  <2>1. PICK m \in Nat : m = 2 * n
    OBVIOUS
  <2>2. Len(g) = m + 2 /\ g[m + 1] = last[1] /\ g[m + 2] = last[2]
        /\ \A i \in 1 .. m : g[i] = f[i]
    <3>1. f \in Seq(S) /\ last \in Seq(S) /\ Len(f) = m /\ Len(last) = 2
      BY <1>2, <1>6, <1>7, <2>1
    <3>2. /\ Len(g) = Len(f) + 2
          /\ g[Len(f) + 1] = last[1] /\ g[Len(f) + 2] = last[2]
          /\ \A i \in 1 .. Len(f) : g[i] = f[i]
      BY <1>8, <3>1, PairBehind
    <3>3. QED
      BY <3>1, <3>2
  <2>3. QED
    BY <2>1, <2>2
<1>10. ASSUME NEW k \in 1 .. n + 1
       PROVE  g[2 * k - 1] = s[k][1] /\ g[2 * k] = s[k][2]
  <2>1. CASE k = n + 1
    <3>1. 2 * k - 1 = 2 * n + 1 /\ 2 * k = 2 * n + 2
      BY <2>1
    <3>2. QED
      BY <1>9, <2>1, <3>1 DEF last
  <2>2. CASE k # n + 1
    <3>1. k \in 1 .. n /\ 2 * k - 1 \in 1 .. 2 * n /\ 2 * k \in 1 .. 2 * n
      BY <2>2
    <3>2. QED
      BY <1>7, <1>9, <3>1
  <2>3. QED
    BY <2>1, <2>2
<1>11. 2 * (n + 1) = 2 * n + 2
  OBVIOUS
<1>12. QED
  BY <1>6, <1>8, <1>9, <1>10, <1>11 DEF InPlaces

\* Pairs keep their order and their places.
LEMMA PairsInPlaces ==
  ASSUME NEW S
  PROVE  \A n \in Nat : \A s \in Pairs(S, n) : InPlaces(s, n)
<1> DEFINE G == {n \in Nat : \A s \in Pairs(S, n) : InPlaces(s, n)}
<1>1. 0 \in G
  <2>1. ASSUME NEW s \in Pairs(S, 0) PROVE InPlaces(s, 0)
    <3>1. PICK T : T = Seq(S)
      OBVIOUS
    <3>2. s \in Seq(T) /\ Len(s) = 0
      BY <3>1 DEF Pairs
    <3>3. s = <<>> /\ Len(<<>>) = 2 * 0
      BY <3>2
    <3>4. QED
      BY <3>3, FlattenEmpty DEF InPlaces
  <2>2. QED
    BY <2>1
<1>2. \A n \in Nat : n \in G => n + 1 \in G
  BY OneMorePair
<1> HIDE DEF G
<1>3. \A n \in Nat : n \in G
  BY <1>1, <1>2, Induction
<1>4. QED
  BY <1>3 DEF G

\* Two elements in a row.
LEMMA TwoAre ==
  ASSUME NEW s, s = [k \in 1 .. 2 |-> s[k]]
  PROVE  s = <<s[1], s[2]>>
OBVIOUS

\* Headers are decoded from a list and from one string, in their order.
LEMMA HeadersDecode ==
  ASSUME NEW n \in Nat, NEW headers, headers = [k \in 1 .. n |-> headers[k]],
         NEW value,
         \/ "hex" \in DOMAIN value
            /\ value.hex = FlattenSeq([k \in 1 .. n |-> HexOf(headers[k])])
         \/ "hex" \notin DOMAIN value
            /\ value.headers = [k \in 1 .. n |-> HexOf(headers[k])]
  PROVE  HeadersFromHexOrList(value) = {headers}
<1> DEFINE s == [k \in 1 .. n |-> HexOf(headers[k])]
           S == UNION {{<<headers[k], 1>>, <<headers[k], 2>>} : k \in 1 .. n}
           f == FlattenSeq(s)
           cuts == [k \in 1 .. (Len(f) + 1) \div 2 |-> FromConsensusHex(SubSeq(f, 2 * k - 1, 2 * k))]
           items == [k \in DOMAIN s |-> FromConsensusHex(s[k])]
<1>1. \A k \in 1 .. n : s[k] = <<<<headers[k], 1>>, <<headers[k], 2>>>>
  BY DEF HexOf
<1>2. s \in Pairs(S, n)
  <2>1. \A k \in 1 .. n : <<headers[k], 1>> \in S /\ <<headers[k], 2>> \in S
    OBVIOUS
  <2> HIDE DEF S
  <2>2. \A k \in 1 .. n : s[k] \in Seq(S) /\ Len(s[k]) = 2
    <3>1. \A x, y \in S : <<x, y>> \in Seq(S) /\ Len(<<x, y>>) = 2
      OBVIOUS
    <3> HIDE DEF s
    <3>2. QED
      BY <1>1, <2>1, <3>1, Zenon
  <2>3. s = [k \in 1 .. n |-> s[k]]
    OBVIOUS
  <2> HIDE DEF s
  <2>4. PICK T : T = Seq(S)
    OBVIOUS
  <2>5. s \in Seq(T) /\ Len(s) = n
    BY <2>2, <2>3, <2>4
  <2>6. QED
    BY <2>2, <2>4, <2>5 DEF Pairs
<1> HIDE DEF S
<1>3. f \in Seq(S) /\ Len(f) = 2 * n
      /\ \A k \in 1 .. n : f[2 * k - 1] = s[k][1] /\ f[2 * k] = s[k][2]
  <2> HIDE DEF s
  <2>1. s \in Seq(Seq(S))
    BY <1>2 DEF Pairs
  <2>2. InPlaces(s, n)
    BY <1>2, PairsInPlaces
  <2>3. QED
    BY <2>1, <2>2, FlattenType DEF InPlaces
<1>4. DecodeTo(cuts, headers)
  <2>1. (2 * n + 1) \div 2 = n
    OBVIOUS
  <2>2. DOMAIN cuts = 1 .. n /\ DOMAIN headers = 1 .. n
    BY <1>3, <2>1
  <2>3. ASSUME NEW k \in 1 .. n PROVE cuts[k] = {headers[k]}
    <3>1. SubSeq(f, 2 * k - 1, 2 * k) = <<f[2 * k - 1], f[2 * k]>>
      <4>1. 2 * k - 1 \in 1 .. 2 * n /\ 2 * k \in 1 .. 2 * n /\ 2 * k - (2 * k - 1) + 1 = 2
            /\ 2 * k - 1 + 1 = 2 * k
        OBVIOUS
      <4> HIDE DEF f
      <4>2. PICK i \in Int : i = 2 * k - 1
        OBVIOUS
      <4>3. i \in 1 .. Len(f) /\ i + 1 \in 1 .. Len(f) /\ 2 * k = i + 1 /\ Len(f) \in Nat
        BY <1>3, <4>1, <4>2
      <4>4. SubSeq(f, i, i + 1) = <<f[i], f[i + 1]>>
        <5>1. PICK cut : cut = SubSeq(f, i, i + 1)
          OBVIOUS
        <5>2. \A p \in i .. i + 1 : f[p] \in S
          BY <1>3, <4>3
        <5>3. i + 1 - i + 1 = 2 /\ i <= i + 1 /\ i + 1 \in Int
          OBVIOUS
        <5>4. cut \in Seq(S) /\ Len(cut) = 2 /\ \A p \in 1 .. 2 : cut[p] = f[i + p - 1]
          BY <5>1, <5>2, <5>3, SubSeqProperties
        <5>5. cut = [p \in 1 .. 2 |-> cut[p]] /\ cut[1] = f[i] /\ cut[2] = f[i + 1]
          BY <5>4
        <5>6. cut = <<cut[1], cut[2]>>
          BY <5>5, TwoAre
        <5>7. QED
          BY <5>1, <5>5, <5>6
      <4>5. QED
        BY <4>2, <4>3, <4>4
    <3>2. <<f[2 * k - 1], f[2 * k]>> = HexOf(headers[k])
      BY <1>1, <1>3 DEF HexOf
    <3>3. cuts[k] = FromConsensusHex(HexOf(headers[k]))
      BY <1>3, <2>1, <3>1, <3>2
    <3>4. QED
      BY <3>3, HexDecodes
  <2> HIDE DEF cuts
  <2>4. QED
    BY <2>2, <2>3 DEF DecodeTo
<1>5. DecodeTo(items, headers)
  <2>1. DOMAIN items = 1 .. n /\ DOMAIN headers = 1 .. n
    OBVIOUS
  <2>2. \A k \in 1 .. n : items[k] = {headers[k]}
    BY HexDecodes
  <2> HIDE DEF items
  <2>3. QED
    BY <2>1, <2>2 DEF DecodeTo
<1>6. AllOf(cuts) = {headers} /\ AllOf(items) = {headers}
  <2> HIDE DEF cuts, items
  <2>1. QED
    BY <1>4, <1>5, AllOfIs
<1>7. CASE "hex" \in DOMAIN value /\ value.hex = f
  <2>1. HeadersFromHexOrList(value) = AllOf(cuts)
    BY <1>7 DEF HeadersFromHexOrList
  <2>2. QED
    BY <1>6, <2>1
<1>8. CASE "hex" \notin DOMAIN value /\ value.headers = s
  <2>1. HeadersFromHexOrList(value) = AllOf(items)
    BY <1>8 DEF HeadersFromHexOrList
  <2>2. QED
    BY <1>6, <2>1
<1>9. QED
  BY <1>7, <1>8

-----------------------------------------------------------------------------
(***************************************************************************)
(* Answers.                                                                *)
(***************************************************************************)

\* The methods that the server dispatches on.
Methods ==
  {"blockchain.block.header", "blockchain.block.headers", "blockchain.headers.subscribe",
   "blockchain.scripthash.subscribe", "blockchain.scripthash.get_history",
   "blockchain.transaction.get_merkle", "blockchain.transaction.id_from_pos",
   "blockchain.transaction.get", "blockchain.transaction.broadcast",
   "blockchain.transaction.broadcast_package", "blockchain.scripthash.unsubscribe",
   "blockchain.scripthash.get_balance", "blockchain.scripthash.listunspent",
   "blockchain.scripthash.get_mempool", "blockchain.estimatefee", "blockchain.relayfee",
   "mempool.get_fee_histogram", "mempool.get_info", "server.version",
   "blockchain.silentpayments.subscribe", "blockchain.silentpayments.unsubscribe",
   "server.banner", "server.features", "server.ping"}

\* Each has a result or an error.
LEMMA AnswerType ==
  ASSUME NEW method \in Methods, NEW params
  PROVE  Answer(method, params).type \in {"result", "error"}
BY DEF Answer, Methods

\* Every request has one of these methods.
LEMMA CallIs ==
  ASSUME NEW req \in Requests \cup LoneRequests
  PROVE  MethodAndParams(req)[1] \in Methods
BY DEF Requests, LoneRequests, MethodAndParams, HeaderCall, FeeCall, CoinCall, SubscribeCall, TxCall,
       PoolCall, SpCall, ServerCall, Methods, HeaderKinds, FeeKinds, CoinKinds, SubscribeKinds,
       TxKinds, PoolKinds, SpKinds

\* The parameters that a request of a kind has.
LEMMA RequestIs ==
  ASSUME NEW req \in Requests \cup LoneRequests
  PROVE  /\ req.kind \in {"Header", "Headers"} => 
              (IF req.kind = "Header" THEN req.height ELSE req.start_height) \in Heights
         /\ req.kind = "Headers" => req.count \in Counts
         /\ req.kind = "HeadersWithCheckpoint" =>
              req.start_height \in Heights /\ req.count \in Counts
         /\ req.kind = "GetTxMerkle" => req.height \in Heights
         /\ req.kind = "EstimateFee" => req.mode \in {{}, {"ECONOMICAL"}}
         /\ req.kind = "SpSubscribe" =>
              req.start_height \in {{}, {1}} /\ req.labels \in {{}, {{2}}}
BY DEF Requests, LoneRequests

\* Kinds whose result is passed on as it is, or with a name.
PlainKinds ==
  {"ScriptHashSubscribe", "ScriptHashUnsubscribe", "GetTxidFromPos", "BroadcastTx",
   "BroadcastPackage", "BroadcastPackageVerbose", "ServerVersion", "Banner", "Features", "Ping",
   "SpSubscribe", "SpUnsubscribe"}

DecodedKinds ==
  HeaderKinds \cup FeeKinds \cup CoinKinds
  \cup {"GetTx", "GetTxMerkle", "GetFeeHistogram", "GetMempoolInfo"}

\* A result is passed on or decoded.
LEMMA KindIs ==
  ASSUME NEW req \in Requests \cup LoneRequests
  PROVE  req.kind \in PlainKinds \cup DecodedKinds
BY DEF Requests, LoneRequests, PlainKinds, DecodedKinds, HeaderKinds, FeeKinds, CoinKinds

\* A result from which a request gets a response that is right.
Right(req, value, of) ==
  \E resp :
    /\ DecodeResponse(req, value) = {resp}
    /\ \A pairs \in TryToHeaders([type |-> "Response", req |-> req, resp |-> resp]) :
         Range(pairs) \subseteq ever
    /\ ResponseOK(req, resp, [of |-> of, value |-> value])

\* What is passed on has nothing that could be wrong.
LEMMA PlainIsRight ==
  ASSUME NEW req, req.kind \in PlainKinds, NEW value, NEW of
  PROVE  Right(req, value, of)
<1>1. PICK resp : resp = IF req.kind = "ScriptHashSubscribe" THEN [status |-> value] ELSE value
  OBVIOUS
<1>2. DecodeResponse(req, value) = {resp}
  BY <1>1 DEF PlainKinds, DecodeResponse
<1>3. TryToHeaders([type |-> "Response", req |-> req, resp |-> resp]) = {}
  BY DEF PlainKinds, TryToHeaders
<1>4. req.kind \notin {"GetBalance", "ListUnspent", "GetHistory"}
  BY DEF PlainKinds
<1>5. QED
  BY <1>2, <1>3, <1>4 DEF Right, ResponseOK

\* What makes a message right.
LEMMA ResultIsOK ==
  ASSUME NEW req, NEW value, NEW of, Right(req, value, of)
  PROVE  MessageOK([type |-> "result", req |-> req, of |-> of, value |-> value])
<1> DEFINE msg == [type |-> "result", req |-> req, of |-> of, value |-> value]
<1>1. PICK resp :
        /\ DecodeResponse(req, value) = {resp}
        /\ \A pairs \in TryToHeaders([type |-> "Response", req |-> req, resp |-> resp]) :
             Range(pairs) \subseteq ever
        /\ ResponseOK(req, resp, [of |-> of, value |-> value])
  BY DEF Right
<1>2. PICK event : event = [type |-> "Response", req |-> req, resp |-> resp]
  OBVIOUS
<1>3. EventOf(msg) = {event}
  BY <1>1, <1>2 DEF EventOf
<1>4. ResponseOK(req, resp, msg)
  BY <1>1 DEF ResponseOK
<1>5. event.type = "Response" /\ event.req = req /\ event.resp = resp
  BY <1>2
<1>6. msg.type = "result"
  OBVIOUS
<1> HIDE DEF msg
<1>7. MessageOK(msg)
  BY <1>1, <1>2, <1>3, <1>4, <1>5, <1>6 DEF MessageOK
<1>8. QED
  BY <1>7 DEF msg

\* An error has nothing that could be wrong.
LEMMA ErrorIsOK ==
  ASSUME NEW req, NEW value, NEW of
  PROVE  MessageOK([type |-> "error", req |-> req, of |-> of, value |-> value])
<1> DEFINE msg == [type |-> "error", req |-> req, of |-> of, value |-> value]
<1>1. PICK event : event = [type |-> "ResponseError", req |-> req]
  OBVIOUS
<1>2. msg.type = "error" /\ event.type = "ResponseError"
  BY <1>1
<1>3. EventOf(msg) = {event}
  BY <1>1 DEF EventOf
<1>4. TryToHeaders(event) = {}
  BY <1>2 DEF TryToHeaders
<1> HIDE DEF msg
<1>5. MessageOK(msg)
  BY <1>2, <1>3, <1>4 DEF MessageOK
<1>6. QED
  BY <1>5 DEF msg

\* What the server has.
ServerOK == TypeOK /\ TransactionsInOrder /\ ChainIsKept

\* What the lemmas on answers need of the server.
LEMMA ServerIs ==
  ASSUME ServerOK
  PROVE  /\ \E m, n : Placed(chain, mempool, m, n)
         /\ ChainOK(chain) /\ Tip \in Nat /\ Len(chain) = Tip + 1 /\ DOMAIN chain = 1 .. Tip + 1
         /\ \A h \in 0 .. Tip : <<h, HeaderAt(h)>> \in ever
         /\ made \in 1 .. MaxBlocks /\ Rate \in Nat /\ Rates[1] \in Nat
<1>1. /\ IsSeq(chain) /\ Len(chain) \in 1 .. MaxHeights /\ made \in 1 .. MaxBlocks
      /\ \A t \in Range(WalletTx) : Txid(t) \notin Range(chain[1].txids)
  <2>1. /\ chain \in Seq(Range(chain)) /\ Len(chain) \in 1 .. made /\ made \in 1 .. MaxBlocks
        /\ \A t \in Range(WalletTx) : Txid(t) \notin Range(chain[1].txids)
    BY DEF ServerOK, TypeOK, TransactionsInOrder
  <2>2. MaxBlocks \in Nat /\ MaxHeights \in Nat /\ MaxBlocks <= MaxHeights
    BY WalletAssumption
  <2>3. Len(chain) \in 1 .. MaxHeights
    BY <2>1, <2>2
  <2>4. QED
    BY <2>1, <2>3 DEF IsSeq
<1>2. Tip \in Nat /\ Len(chain) = Tip + 1 /\ DOMAIN chain = 1 .. Tip + 1
  <2>1. DOMAIN chain = 1 .. Len(chain)
    BY <1>1, SeqIs DEF IsSeq
  <2>2. Len(chain) \in Nat /\ Len(chain) >= 1
    BY <1>1
  <2>3. QED
    BY <2>1, <2>2 DEF Tip
<1>3. ASSUME NEW h \in 0 .. Tip PROVE <<h, HeaderAt(h)>> \in ever
  <2>1. h + 1 \in DOMAIN chain /\ h + 1 - 1 = h
    BY <1>2
  <2>2. \A k \in DOMAIN chain : <<k - 1, HeaderAt(k - 1)>> \in ever
    BY DEF ServerOK, ChainIsKept
  <2>3. PICK k \in DOMAIN chain : k - 1 = h
    BY <2>1
  <2>4. QED
    BY <2>2, <2>3
<1>4. \E m, n : Placed(chain, mempool, m, n)
  BY Zenon DEF ServerOK, TransactionsInOrder, Placed
<1>5. Rate \in Nat /\ Rates[1] \in Nat
  <2>1. Rates \in Seq(Nat) /\ MaxBlocks \in Nat \ {0} /\ MaxBlocks <= Len(Rates)
    BY WalletAssumption
  <2>2. 1 \in 1 .. Len(Rates) /\ made \in 1 .. Len(Rates)
    BY <1>1, <2>1
  <2>3. QED
    BY <2>1, <2>2 DEF Rate
<1>6. QED
  BY <1>1, <1>2, <1>3, <1>4, <1>5 DEF ChainOK

\* With the answers about coins goes the history that they are of.
OfRequest(req) ==
  IF req.kind \in {"GetBalance", "ListUnspent"} THEN ServerHistory(chain, mempool) ELSE <<>>

\* A request is answered with an error or with a result from which it gets its
\* response.
Reply(req) == Answer(MethodAndParams(req)[1], MethodAndParams(req)[2])

Answered(req) ==
  \/ Reply(req).type = "error"
  \/ Reply(req).type = "result" /\ Right(req, Reply(req).value, OfRequest(req))

\* The answer is the one to the method and the parameters of the request.
LEMMA ReplyIs ==
  ASSUME NEW req, NEW method, NEW params, MethodAndParams(req) = <<method, params>>
  PROVE  Reply(req) = Answer(method, params)
BY DEF Reply

\* The part of request.rs that a kind is in.
LEMMA CallOf ==
  ASSUME NEW req
  PROVE  /\ req.kind \in HeaderKinds => MethodAndParams(req) = HeaderCall(req)
         /\ req.kind \in FeeKinds => MethodAndParams(req) = FeeCall(req)
         /\ req.kind \in CoinKinds => MethodAndParams(req) = CoinCall(req)
         /\ req.kind \in TxKinds => MethodAndParams(req) = TxCall(req)
         /\ req.kind \in PoolKinds => MethodAndParams(req) = PoolCall(req)
         /\ req.kind \in SpKinds => MethodAndParams(req) = SpCall(req)
         /\ req.kind = "GetMempoolInfo" => MethodAndParams(req) = ServerCall(req)
         /\ req.kind \in {"BroadcastTx", "BroadcastPackage", "BroadcastPackageVerbose"} =>
              req.kind \in TxKinds \cup PoolKinds
BY DEF MethodAndParams, HeaderKinds, FeeKinds, CoinKinds, SubscribeKinds, TxKinds, PoolKinds, SpKinds

\* One header is given at the height that was asked for.
LEMMA HeaderAnswered ==
  ASSUME ServerOK, NEW req, req.kind = "Header", req.height \in Heights
  PROVE  Answered(req)
<1>1. PICK h : h = req.height
  OBVIOUS
<1>2. MethodAndParams(req) = <<"blockchain.block.header", <<h>>>>
  BY <1>1, CallOf DEF HeaderKinds, HeaderCall
<1>3. Reply(req) = Answer("blockchain.block.header", <<h>>)
  BY <1>2, ReplyIs
<1>4. Reply(req) = IF h > Tip THEN [type |-> "error", value |-> {}]
                   ELSE [type |-> "result", value |-> HexOf(HeaderAt(h))]
  BY <1>3 DEF Answer
<1>5. CASE h > Tip
  BY <1>4, <1>5 DEF Answered
<1>6. CASE ~(h > Tip)
  <2>1. h \in 0 .. Tip /\ <<h, HeaderAt(h)>> \in ever
    <3>1. h \in Nat /\ Tip \in Nat
      BY <1>1, ServerIs, BoundsAre
    <3>2. h \in 0 .. Tip
      BY <1>6, <3>1
    <3>3. QED
      BY <3>2, ServerIs
  <2>2. PICK x : x = HeaderAt(h)
    OBVIOUS
  <2>3. PICK resp : resp = [header |-> x]
    OBVIOUS
  <2>4. DecodeResponse(req, HexOf(x)) = {resp}
    BY <2>3, HexDecodes DEF DecodeResponse
  <2>5. PICK event : event = [type |-> "Response", req |-> req, resp |-> resp]
    OBVIOUS
  <2>6. event.type = "Response" /\ event.req = req /\ event.resp.header = x
    BY <2>3, <2>5
  <2>7. TryToHeaders(event) = {<<<<h, x>>>>}
    BY <1>1, <2>6 DEF TryToHeaders
  <2>8. Range(<<<<h, x>>>>) = {<<h, x>>}
    BY DEF Range
  <2>9. Right(req, HexOf(x), OfRequest(req))
    <3>1. ResponseOK(req, resp, [of |-> OfRequest(req), value |-> HexOf(x)])
      BY DEF ResponseOK
    <3>2. \A pairs \in TryToHeaders(event) : Range(pairs) \subseteq ever
      BY <2>1, <2>2, <2>7, <2>8
    <3>3. QED
      BY <2>4, <2>5, <3>1, <3>2 DEF Right
  <2>10. Reply(req).type = "result" /\ Reply(req).value = HexOf(x)
    BY <1>4, <1>6, <2>2
  <2>11. QED
    BY <2>9, <2>10 DEF Answered
<1>7. QED
  BY <1>5, <1>6

\* Responses that have neither headers for the wallet nor anything it keeps.
SimpleKinds ==
  {"HeaderWithProof", "HeadersSubscribe", "RelayFee", "GetMempool", "GetTx", "GetTxMerkle",
   "EstimateFee", "GetFeeHistogram", "GetMempoolInfo"}

\* A result of such a kind is right if it decodes.
LEMMA SimpleIsRight ==
  ASSUME NEW req, NEW value, NEW of, req.kind \in SimpleKinds,
         \E resp : DecodeResponse(req, value) = {resp}
  PROVE  Right(req, value, of)
<1> USE DEF SimpleKinds
<1>0. PICK resp : DecodeResponse(req, value) = {resp}
  OBVIOUS
<1>1. TryToHeaders([type |-> "Response", req |-> req, resp |-> resp]) = {}
  BY DEF TryToHeaders
<1>2. req.kind \notin {"GetBalance", "ListUnspent", "GetHistory"}
  OBVIOUS
<1>3. QED
  BY <1>0, <1>1, <1>2 DEF Right, ResponseOK

\* Responses that have something that the wallet keeps, but no headers.
LEMMA KeptIsRight ==
  ASSUME NEW req, NEW value, NEW of, NEW resp,
         req.kind \in {"GetBalance", "ListUnspent", "GetHistory"},
         DecodeResponse(req, value) = {resp},
         ResponseOK(req, resp, [of |-> of, value |-> value])
  PROVE  Right(req, value, of)
<1>1. TryToHeaders([type |-> "Response", req |-> req, resp |-> resp]) = {}
  BY DEF TryToHeaders
<1>2. QED
  BY <1>1 DEF Right

\* A header with its proof.
LEMMA ProofAnswered ==
  ASSUME NEW req, req.kind = "HeaderWithProof"
  PROVE  Answered(req)
<1>1. PICK h, c : h = req.height /\ c = req.cp_height
  OBVIOUS
<1>2. MethodAndParams(req) = <<"blockchain.block.header", <<h, c>>>>
  BY <1>1, CallOf DEF HeaderKinds, HeaderCall
<1>3. Reply(req) = Answer("blockchain.block.header", <<h, c>>)
  BY <1>2, ReplyIs
<1>4. PICK x : x = HeaderAt(h)
  OBVIOUS
<1>5. PICK value : value = [f \in DOMAIN [header |-> HexOf(x)] \cup {"root", "branch"} |->
           IF f = "root" THEN [tx |-> 0] ELSE IF f = "branch" THEN <<>> ELSE [header |-> HexOf(x)][f]]
  OBVIOUS
<1>6. Reply(req) \in {[type |-> "error", value |-> {}], [type |-> "result", value |-> value]}
  BY <1>3, <1>4, <1>5 DEF Answer
<1>7. value.header = HexOf(x)
  BY <1>5
<1>8. PICK resp : DecodeResponse(req, value) = {resp}
  <2>1. DecodeResponse(req, value) = {[header |-> x, branch |-> value.branch, root |-> value.root]}
    BY <1>7, HexDecodes DEF DecodeResponse
  <2>2. QED
    BY <2>1, Zenon
<1>9. Right(req, value, OfRequest(req))
  BY <1>8, SimpleIsRight DEF SimpleKinds
<1>10. QED
  BY <1>6, <1>9 DEF Answered

\* A Merkle proof, if the transaction is at the height that was asked for.
LEMMA MerkleAnswered ==
  ASSUME ServerOK, NEW req, req.kind = "GetTxMerkle", req.height \in Heights
  PROVE  Answered(req)
<1>1. PICK txid, h : txid = req.txid /\ h = req.height
  OBVIOUS
<1>2. MethodAndParams(req) = <<"blockchain.transaction.get_merkle", <<txid, h>>>>
  BY <1>1, CallOf DEF TxKinds, TxCall
<1>3. Reply(req) = Answer("blockchain.transaction.get_merkle", <<txid, h>>)
  BY <1>2, ReplyIs
<1>4. \/ Reply(req) = [type |-> "error", value |-> {}]
      \/ /\ ~(h > Tip)
         /\ \E branch, pos :
              Reply(req) = [type |-> "result",
                            value |-> [block_height |-> h, merkle |-> branch, pos |-> pos]]
  BY <1>3 DEF Answer
<1>5. CASE Reply(req) = [type |-> "error", value |-> {}]
  BY <1>5 DEF Answered
<1>6. ASSUME ~(h > Tip), NEW branch, NEW pos,
             Reply(req) = [type |-> "result",
                           value |-> [block_height |-> h, merkle |-> branch, pos |-> pos]]
      PROVE  Answered(req)
  <2>1. PICK value : value = [block_height |-> h, merkle |-> branch, pos |-> pos]
    OBVIOUS
  <2>2. h \in 0 .. MaxHeights - 1
    <3>1. MaxHeights \in Nat
      BY BoundsAre
    <3>2. h \in Nat
      BY <1>1, BoundsAre
    <3>3. Tip \in Nat /\ Len(chain) = Tip + 1 /\ Len(chain) \in 1 .. MaxHeights
      BY ServerIs DEF ChainOK
    <3>4. PICK l, t : l = Len(chain) /\ t = Tip
      OBVIOUS
    <3>5. l \in 1 .. MaxHeights /\ l = t + 1 /\ t \in Nat /\ ~(h > t)
      BY <1>6, <3>3, <3>4
    <3>6. QED
      BY <3>1, <3>2, <3>5
  <2>3. BlockHeight(value.block_height) = {h}
    BY <2>1, <2>2 DEF BlockHeight
  <2>4. DecodeResponse(req, value) = {[block_height |-> h, merkle |-> value.merkle, pos |-> value.pos]}
    BY <2>3 DEF DecodeResponse, DecodeTxMerkle
  <2>5. PICK resp : DecodeResponse(req, value) = {resp}
    BY <2>4, Zenon
  <2>6. Right(req, value, OfRequest(req))
    BY <2>5, SimpleIsRight DEF SimpleKinds
  <2>7. QED
    BY <1>6, <2>1, <2>6 DEF Answered
<1>7. QED
  BY <1>4, <1>5, <1>6

\* The tip.
LEMMA TipAnswered ==
  ASSUME NEW req, req.kind = "HeadersSubscribe"
  PROVE  Answered(req)
<1>1. MethodAndParams(req) = <<"blockchain.headers.subscribe", <<>>>>
  BY CallOf DEF FeeKinds, FeeCall
<1>2. Reply(req) = Answer("blockchain.headers.subscribe", <<>>)
  BY <1>1, ReplyIs
<1>3. PICK value : value = TipOf(chain)
  OBVIOUS
<1>4. Reply(req) = [type |-> "result", value |-> value]
  BY <1>2, <1>3 DEF Answer
<1>5. PICK x : value.hex = HexOf(x)
  BY <1>3 DEF TipOf
<1>6. PICK resp : DecodeResponse(req, value) = {resp}
  <2>1. DecodeResponse(req, value) = {[header |-> x, height |-> value.height]}
    BY <1>5, HexDecodes DEF DecodeResponse
  <2>2. QED
    BY <2>1, Zenon
<1>7. Right(req, value, OfRequest(req))
  BY <1>6, SimpleIsRight DEF SimpleKinds
<1>8. QED
  BY <1>4, <1>7 DEF Answered

\* A transaction that the server knows.
LEMMA TxAnswered ==
  ASSUME NEW req, req.kind = "GetTx"
  PROVE  Answered(req)
<1>1. PICK t : t = req.txid
  OBVIOUS
<1>2. MethodAndParams(req) = <<"blockchain.transaction.get", <<t>>>>
  BY <1>1, CallOf DEF TxKinds, TxCall
<1>3. Reply(req) = Answer("blockchain.transaction.get", <<t>>)
  BY <1>2, ReplyIs
<1>4. Reply(req) = IF Known(t.tx) THEN [type |-> "result", value |-> HexOf(t.tx)]
                   ELSE [type |-> "error", value |-> {}]
  BY <1>3 DEF Answer
<1>5. PICK resp : DecodeResponse(req, HexOf(t.tx)) = {resp}
  <2>1. DecodeResponse(req, HexOf(t.tx)) = {[tx |-> t.tx]}
    BY HexDecodes DEF DecodeResponse
  <2>2. QED
    BY <2>1, Zenon
<1>6. Right(req, HexOf(t.tx), OfRequest(req))
  BY <1>5, SimpleIsRight DEF SimpleKinds
<1>7. QED
  BY <1>4, <1>6 DEF Answered

\* The relay fee, until protocol 1.6.
LEMMA RelayFeeAnswered ==
  ASSUME ServerOK, NEW req, req.kind = "RelayFee"
  PROVE  Answered(req)
<1>1. MethodAndParams(req) = <<"blockchain.relayfee", <<>>>>
  BY CallOf DEF FeeKinds, FeeCall
<1>2. Reply(req) = Answer("blockchain.relayfee", <<>>)
  BY <1>1, ReplyIs
<1>3. Reply(req) = IF protocol = "1.6" THEN [type |-> "error", value |-> {}]
                   ELSE [type |-> "result", value |-> Rate]
  BY <1>2 DEF Answer
<1>4. UnsignedSat(Rate) = {Rate}
  BY ServerIs DEF UnsignedSat
<1>5. PICK resp : DecodeResponse(req, Rate) = {resp}
  <2>1. DecodeResponse(req, Rate) = {[fee |-> Rate]}
    BY <1>4 DEF DecodeResponse
  <2>2. QED
    BY <2>1, Zenon
<1>6. Right(req, Rate, OfRequest(req))
  BY <1>5, SimpleIsRight DEF SimpleKinds
<1>7. QED
  BY <1>3, <1>6 DEF Answered

\* The places of a part.
LEMMA SubSeqIs ==
  ASSUME NEW s, NEW i \in Int, NEW j \in Int
  PROVE  SubSeq(s, i, j) = [k \in 1 .. j - i + 1 |-> s[i + k - 1]]
OBVIOUS

\* What is in the mempool.
LEMMA MempoolAnswered ==
  ASSUME ServerOK, NEW req, req.kind = "GetMempool"
  PROVE  Answered(req)
<1>1. PICK s : s = req.script_hash
  OBVIOUS
<1>2. MethodAndParams(req) = <<"blockchain.scripthash.get_mempool", <<s>>>>
  BY <1>1, CallOf DEF CoinKinds, CoinCall
<1>3. Reply(req) = Answer("blockchain.scripthash.get_mempool", <<s>>)
  BY <1>2, ReplyIs
<1>4. PICK entries : entries = SubSeq(ServerHistory(chain, mempool), Count(chain, {}) + 1,
                                      Count(chain, mempool))
  OBVIOUS
<1>5. Reply(req) = [type |-> "result", value |-> entries]
  BY <1>3, <1>4 DEF Answer
<1>6. \A k \in DOMAIN entries : entries[k].height \in {0, -1}
  <2>1. PICK m, n : Placed(chain, mempool, m, n)
    BY ServerIs
  <2>2. ChainOK(chain)
    BY ServerIs
  <2>3. PICK h : h = ServerHistory(chain, mempool)
    OBVIOUS
  <2>4. \A k \in m + 1 .. n : h[k].height \in {0, -1}
    BY <2>1, <2>2, <2>3, HistoryIs
  <2>5. m \in Nat /\ n \in Nat /\ m <= n /\ entries = SubSeq(h, m + 1, n)
    BY <1>4, <2>1, <2>3, PlacedCounts
  <2>6. entries = [k \in 1 .. n - (m + 1) + 1 |-> h[m + 1 + k - 1]]
    BY <2>5, SubSeqIs
  <2>7. QED
    BY <2>4, <2>5, <2>6
<1>7. PICK items : Each(DecodeMempoolTx, entries) = {items}
  BY <1>6, MempoolDecodes
<1>8. DecodeResponse(req, entries) = {items}
  BY <1>7 DEF DecodeResponse
<1>9. Right(req, entries, OfRequest(req))
  BY <1>8, SimpleIsRight DEF SimpleKinds
<1>10. QED
  BY <1>5, <1>9 DEF Answered

\* The history.
LEMMA HistoryAnswered ==
  ASSUME ServerOK, NEW req, req.kind = "GetHistory"
  PROVE  Answered(req)
<1>1. PICK s : s = req.script_hash
  OBVIOUS
<1>2. MethodAndParams(req) = <<"blockchain.scripthash.get_history", <<s>>>>
  BY <1>1, CallOf DEF CoinKinds, CoinCall
<1>3. Reply(req) = Answer("blockchain.scripthash.get_history", <<s>>)
  BY <1>2, ReplyIs
<1>4. PICK entries : entries = ServerHistory(chain, mempool)
  OBVIOUS
<1>5. Reply(req) = [type |-> "result", value |-> entries]
  BY <1>3, <1>4 DEF Answer
<1>6. HistoryOK(entries)
  <2>1. PICK m, n : Placed(chain, mempool, m, n)
    BY ServerIs
  <2>2. QED
    BY <1>4, <2>1, ServerIs, HistoryIs
<1>7. PICK txs : Each(DecodeTx, entries) = {txs} /\ DecodedAs(entries, txs)
  BY <1>6, HistoryDecodes
<1>8. PICK resp : resp = [history |-> txs]
  OBVIOUS
<1>9. DecodeResponse(req, entries) = {resp}
  BY <1>7, <1>8 DEF DecodeResponse
<1>10. ResponseOK(req, resp, [of |-> OfRequest(req), value |-> entries])
  BY <1>7, <1>8 DEF ResponseOK
<1>11. Right(req, entries, OfRequest(req))
  BY <1>9, <1>10, KeptIsRight
<1>12. QED
  BY <1>5, <1>11 DEF Answered

-----------------------------------------------------------------------------
(***************************************************************************)
(* Answers about coins and fees.                                           *)
(***************************************************************************)
\* What an output is worth is a number.
LEMMA WorthType ==
  ASSUME NEW n \in 0 .. Len(WalletTx)
  PROVE  Worth(n) \in Nat
<1>1. Paid \in [1 .. Len(WalletTx) -> Nat] /\ Len(WalletTx) \in Nat
  BY WalletAssumption, WalletIs
<1>2. CASE n = 0
  BY <1>2 DEF Worth
<1>3. CASE n # 0
  <2>1. n \in 1 .. Len(WalletTx)
    BY <1>1, <1>3
  <2>2. QED
    BY <1>1, <1>3, <2>1 DEF Worth
<1>4. QED
  BY <1>2, <1>3

\* The parts of a balance add up to what the history is worth.
LEMMA BalanceAnswered ==
  ASSUME ServerOK, NEW req, req.kind = "GetBalance"
  PROVE  Answered(req)
<1>1. PICK s : s = req.script_hash
  OBVIOUS
<1>2. MethodAndParams(req) = <<"blockchain.scripthash.get_balance", <<s>>>>
  BY <1>1, CallOf DEF CoinKinds, CoinCall
<1>3. Reply(req) = Answer("blockchain.scripthash.get_balance", <<s>>)
  BY <1>2, ReplyIs
<1>4. Reply(req) = [type |-> "result", value |-> ServerBalance(chain, mempool)]
  BY <1>3 DEF Answer
<1>5. PICK m, n : Placed(chain, mempool, m, n)
  BY ServerIs
<1>6. Count(chain, {}) = m /\ Count(chain, mempool) = n
      /\ m \in 0 .. Len(WalletTx) /\ n \in 0 .. Len(WalletTx)
  <2>1. Count(chain, {}) = m /\ Count(chain, mempool) = n
    BY <1>5, PlacedCounts
  <2>2. QED
    BY <1>5, <2>1 DEF Placed
<1>7. PICK c \in Nat, w \in Nat : c = Worth(m) /\ w = Worth(n)
  BY <1>6, WorthType
<1>8. PICK value : value = [confirmed |-> c, unconfirmed |-> w - c]
  OBVIOUS
<1>9. ServerBalance(chain, mempool) = value
  BY <1>6, <1>7, <1>8 DEF ServerBalance
<1>10. DecodeResponse(req, value) = {value}
  <2>1. UnsignedSat(value.confirmed) = {c} /\ SignedSat(value.unconfirmed) = {w - c}
    BY <1>8 DEF UnsignedSat, SignedSat
  <2>2. DecodeBalance(value) = {value}
    BY <1>8, <2>1 DEF DecodeBalance
  <2>3. QED
    BY <2>2 DEF DecodeResponse
<1>11. PICK h : h = ServerHistory(chain, mempool)
  OBVIOUS
<1>12. OfRequest(req) = h /\ Len(h) = n
  BY <1>5, <1>11, HistoryIs, ServerIs DEF OfRequest
<1>13. BalanceOK([of |-> h, is |-> value])
  <2>1. value.confirmed + value.unconfirmed = w
    BY <1>8
  <2>2. QED
    BY <1>7, <1>12, <2>1 DEF BalanceOK
<1>14. ResponseOK(req, value, [of |-> OfRequest(req), value |-> value])
  BY <1>12, <1>13 DEF ResponseOK
<1>15. Right(req, value, OfRequest(req))
  BY <1>10, <1>14, KeptIsRight
<1>16. QED
  BY <1>4, <1>9, <1>15 DEF Answered

\* The unspent output is worth what the history is.
LEMMA UnspentAnswered ==
  ASSUME ServerOK, NEW req, req.kind = "ListUnspent"
  PROVE  Answered(req)
<1>1. PICK s : s = req.script_hash
  OBVIOUS
<1>2. MethodAndParams(req) = <<"blockchain.scripthash.listunspent", <<s>>>>
  BY <1>1, CallOf DEF CoinKinds, CoinCall
<1>3. Reply(req) = Answer("blockchain.scripthash.listunspent", <<s>>)
  BY <1>2, ReplyIs
<1>4. PICK value : value = ServerUnspent(chain, mempool)
  OBVIOUS
<1>5. Reply(req) = [type |-> "result", value |-> value]
  BY <1>3, <1>4 DEF Answer
<1>6. PICK m, n : Placed(chain, mempool, m, n)
  BY ServerIs
<1>7. Count(chain, mempool) = n /\ n \in 0 .. Len(WalletTx) /\ n \in Nat
  <2>1. Count(chain, mempool) = n /\ n \in Nat
    BY <1>6, PlacedCounts
  <2>2. QED
    BY <1>6, <2>1 DEF Placed
<1>8. PICK h : h = ServerHistory(chain, mempool)
  OBVIOUS
<1>9. /\ OfRequest(req) = h /\ Len(h) = n /\ DOMAIN h = 1 .. n /\ HistoryOK(h)
  BY <1>6, <1>8, HistoryIs, ServerIs DEF OfRequest
<1>10. h = <<>> <=> n = 0
  <2>1. PICK S : h \in Seq(S)
    BY <1>9 DEF HistoryOK
  <2>2. QED
    BY <1>9, <2>1
<1>11. PICK resp : DecodeResponse(req, value) = {resp} /\ UnspentOK([of |-> h, is |-> resp])
  <2>1. CASE n = 0
    <3>1. value = <<>>
      BY <1>4, <1>8, <1>10, <2>1 DEF ServerUnspent
    <3>2. DecodeTo([k \in DOMAIN <<>> |-> DecodeUtxo(<<>>[k])], <<>>)
      BY DEF DecodeTo
    <3>3. Each(DecodeUtxo, value) = {<<>>}
      BY <3>1, <3>2, AllOfIs DEF Each
    <3>4. DecodeResponse(req, value) = {<<>>}
      BY <3>3 DEF DecodeResponse
    <3>5. PICK u : u = [of |-> h, is |-> <<>>]
      OBVIOUS
    <3>6. FoldLeft(LAMBDA sum, utxo : sum + utxo.value, 0, u.is) = 0 /\ Worth(Len(u.of)) = 0
      BY <1>9, <2>1, <3>5, SumOfNone DEF Worth
    <3>7. UnspentOK(u)
      BY <3>6 DEF UnspentOK
    <3>8. QED
      BY <3>4, <3>5, <3>7
  <2>2. CASE n # 0
    <3>1. PICK e : e = Last(h)
      OBVIOUS
    <3>2. EntryOK(e)
      <4>1. e = h[n] /\ n \in DOMAIN h
        BY <1>7, <1>9, <2>2, <3>1 DEF Last
      <4>2. QED
        BY <1>9, <4>1 DEF HistoryOK
    <3>3. PICK y \in -1 .. MaxHeights - 1 : e.height = y
      BY <3>2 DEF EntryOK
    <3>4. PICK x \in 0 .. MaxHeights - 1 : x = Max({0, e.height})
      <4>1. MaxHeights \in Nat /\ MaxHeights >= 1
        BY BoundsAre
      <4>2. Max({0, y}) = IF 0 >= y THEN 0 ELSE y
        BY MaxOfTwo
      <4>3. (IF 0 >= y THEN 0 ELSE y) \in 0 .. MaxHeights - 1
        BY <4>1
      <4>4. QED
        BY <3>3, <4>2, <4>3
    <3>5. PICK w \in Nat : w = Worth(n)
      BY <1>7, WorthType
    <3>6. PICK entry : entry = [tx_hash |-> e.tx_hash, tx_pos |-> 0, value |-> w, height |-> x]
      OBVIOUS
    <3>7. value = <<entry>>
      BY <1>4, <1>7, <1>8, <1>10, <2>2, <3>1, <3>4, <3>5, <3>6 DEF ServerUnspent
    <3>8. PICK utxo : utxo = [height |-> x, tx_pos |-> 0, txid |-> e.tx_hash, value |-> w]
      OBVIOUS
    <3>9. DecodeUtxo(entry) = {utxo}
      <4>1. BlockHeight(x) = {x}
        BY DEF BlockHeight
      <4>2. QED
        BY <3>6, <3>8, <4>1 DEF DecodeUtxo
    <3>10. Each(DecodeUtxo, <<entry>>) = {<<utxo>>}
      <4>1. PICK options : options = [k \in DOMAIN <<entry>> |-> DecodeUtxo(<<entry>>[k])]
        OBVIOUS
      <4>2. DecodeTo(options, <<utxo>>)
        BY <3>9, <4>1 DEF DecodeTo
      <4>3. QED
        BY <4>1, <4>2, AllOfIs DEF Each
    <3>11. DecodeResponse(req, value) = {<<utxo>>}
      BY <3>7, <3>10 DEF DecodeResponse
    <3>12. PICK u : u = [of |-> h, is |-> <<utxo>>]
      OBVIOUS
    <3>13. FoldLeft(LAMBDA sum, out : sum + out.value, 0, <<utxo>>) = w
      <4>1. utxo.value = w /\ w \in Int
        BY <3>8
      <4>2. QED
        BY <4>1, SumOfOne
    <3>14. u.is = <<utxo>> /\ Worth(Len(u.of)) = w
      BY <1>9, <3>5, <3>12
    <3>15. UnspentOK(u)
      BY <3>13, <3>14 DEF UnspentOK
    <3>16. QED
      BY <3>11, <3>12, <3>15
  <2>3. QED
    BY <2>1, <2>2
<1>12. ResponseOK(req, resp, [of |-> OfRequest(req), value |-> value])
  BY <1>9, <1>11 DEF ResponseOK
<1>13. Right(req, value, OfRequest(req))
  BY <1>11, <1>12, KeptIsRight
<1>14. QED
  BY <1>5, <1>13 DEF Answered

\* An estimate, with a rate or without.
LEMMA EstimateAnswered ==
  ASSUME NEW req, req.kind = "EstimateFee"
  PROVE  Answered(req)
<1>1. PICK params : params = <<req.number>> \o SetToSeq(req.mode)
  OBVIOUS
<1>2. MethodAndParams(req) = <<"blockchain.estimatefee", params>>
  BY <1>1, CallOf DEF FeeKinds, FeeCall
<1>3. Reply(req) = Answer("blockchain.estimatefee", params)
  BY <1>2, ReplyIs
<1>4. PICK value : value = IF made = 1 THEN -1 ELSE Rates[params[1]]
  OBVIOUS
<1>5. Reply(req) = [type |-> "error", value |-> {}] \/ Reply(req) = [type |-> "result", value |-> value]
  BY <1>3, <1>4 DEF Answer
<1>6. DecodeResponse(req, value) = {[fee_rate |-> DecodeFeeRate(value)]}
  BY DEF DecodeResponse, DecodeEstimate
<1>7. PICK resp : DecodeResponse(req, value) = {resp}
  BY <1>6, Zenon
<1>8. Right(req, value, OfRequest(req))
  BY <1>7, SimpleIsRight DEF SimpleKinds
<1>9. QED
  BY <1>5, <1>8 DEF Answered

\* A histogram of any rates, whose sizes are those of a mempool.
LEMMA HistogramAnswered ==
  ASSUME NEW req, req.kind = "GetFeeHistogram"
  PROVE  Answered(req)
<1>1. MethodAndParams(req) = <<"mempool.get_fee_histogram", <<>>>>
  BY CallOf DEF PoolKinds, PoolCall
<1>2. Reply(req) = Answer("mempool.get_fee_histogram", <<>>)
  BY <1>1, ReplyIs
<1>3. PICK value : value = [k \in DOMAIN Rates |-> <<Rates[k], k>>]
  OBVIOUS
<1>4. Reply(req) = [type |-> "result", value |-> value]
  BY <1>2, <1>3 DEF Answer
<1>5. PICK resp : resp = [k \in DOMAIN Rates |->
                            [fee_rate |-> SatPerKwuFromByte(Rates[k]), weight |-> 4 * k]]
  OBVIOUS
<1>6. PICK options : options = [k \in DOMAIN value |-> DecodeFeePair(value[k])]
  OBVIOUS
<1>7. ASSUME NEW k \in DOMAIN Rates PROVE options[k] = {resp[k]}
  <2>1. k \in 1 .. Len(Rates) /\ Len(Rates) \in Nat /\ MaxWeight \in Nat /\ 4 * Len(Rates) <= MaxWeight
    BY BoundsAre
  <2>2. 4 * k \in 0 .. MaxWeight
    BY <2>1
  <2>3. WeightFromVb(k) = {4 * k}
    BY <2>2 DEF WeightFromVb
  <2>4. value[k][1] = Rates[k] /\ value[k][2] = k
    BY <1>3
  <2>5. options[k] = DecodeFeePair(value[k])
    BY <1>3, <1>6
  <2>6. resp[k] = [fee_rate |-> SatPerKwuFromByte(Rates[k]), weight |-> 4 * k]
    BY <1>5
  <2>7. QED
    BY <2>3, <2>4, <2>5, <2>6 DEF DecodeFeePair
<1>8. DOMAIN options = DOMAIN Rates /\ DOMAIN resp = DOMAIN Rates /\ resp = [k \in DOMAIN resp |-> resp[k]]
  BY <1>3, <1>5, <1>6
<1>9. DecodeTo(options, resp)
  BY <1>7, <1>8 DEF DecodeTo
<1>10. DecodeResponse(req, value) = {resp}
  <2>1. Each(DecodeFeePair, value) = {resp}
    BY <1>6, <1>9, AllOfIs DEF Each
  <2>2. QED
    BY <2>1 DEF DecodeResponse
<1>11. Right(req, value, OfRequest(req))
  BY <1>10, SimpleIsRight DEF SimpleKinds
<1>12. QED
  BY <1>4, <1>11 DEF Answered

\* The minimum rates of a mempool.
LEMMA FloorAnswered ==
  ASSUME ServerOK, NEW req, req.kind = "GetMempoolInfo"
  PROVE  Answered(req)
<1>1. MethodAndParams(req) = <<"mempool.get_info", <<>>>>
  BY CallOf DEF ServerCall
<1>2. Reply(req) = Answer("mempool.get_info", <<>>)
  BY <1>1, ReplyIs
<1>3. PICK a \in Nat, b \in Nat : a = Rate /\ b = Rates[1]
  BY ServerIs
<1>4. PICK value : value = [mempoolminfee |-> a, minrelaytxfee |-> b, incrementalrelayfee |-> b]
  OBVIOUS
<1>5. Reply(req) = [type |-> "error", value |-> {}] \/ Reply(req) = [type |-> "result", value |-> value]
  BY <1>2, <1>3, <1>4 DEF Answer
<1>6. PICK x, y : x = SatPerKwuFromBtc(a) /\ y = SatPerKwuFromBtc(b)
  OBVIOUS
<1>7. PICK resp : resp = [mempoolminfee |-> x, minrelaytxfee |-> y, incrementalrelayfee |-> y]
  OBVIOUS
<1>8. DecodeResponse(req, value) = {resp}
  <2>1. DecodeFeeRate(a) = {x} /\ DecodeFeeRate(b) = {y}
    BY <1>6 DEF DecodeFeeRate
  <2>2. value.mempoolminfee = a /\ value.minrelaytxfee = b /\ value.incrementalrelayfee = b
    BY <1>4
  <2>3. DecodeMempoolInfo(value) = {resp}
    BY <1>7, <2>1, <2>2 DEF DecodeMempoolInfo
  <2>4. QED
    BY <2>3 DEF DecodeResponse
<1>9. Right(req, value, OfRequest(req))
  BY <1>8, SimpleIsRight DEF SimpleKinds
<1>10. QED
  BY <1>5, <1>9 DEF Answered

-----------------------------------------------------------------------------
(***************************************************************************)
(* Answers with lists of headers.                                          *)
(***************************************************************************)

\* The number of headers that the server sends, and the headers.
HeadersSent(start, count) == Min({count, MaxCount, Max({0, Tip + 1 - start})})

HeadersFrom(start, n) == [k \in 1 .. n |-> HeaderAt(start + k - 1)]

\* A list of them in the form of either protocol version.
ListOf(value, start, n) ==
  \/ "hex" \in DOMAIN value
     /\ value.hex = FlattenSeq([k \in 1 .. n |-> HexOf(HeadersFrom(start, n)[k])])
  \/ "hex" \notin DOMAIN value
     /\ value.headers = [k \in 1 .. n |-> HexOf(HeadersFrom(start, n)[k])]

\* The server sends no more headers than there are.
LEMMA HeadersAreThere ==
  ASSUME ServerOK, NEW start \in Nat, NEW count \in Nat, NEW n, n = HeadersSent(start, count)
  PROVE  n \in Nat /\ \A k \in 1 .. n : start + k - 1 \in 0 .. Tip
<1>1. Tip \in Nat /\ MaxCount \in Nat
  BY ServerIs, BoundsAre
<1>2. PICK x \in Nat : x = Max({0, Tip + 1 - start}) /\ (x = 0 \/ x = Tip + 1 - start)
  <2>1. 0 \in Int /\ Tip + 1 - start \in Int
    BY <1>1
  <2>2. Max({0, Tip + 1 - start}) = IF 0 >= Tip + 1 - start THEN 0 ELSE Tip + 1 - start
    BY <2>1, MaxOfTwo
  <2>3. QED
    BY <2>1, <2>2
<1>3. n = Min({count, MaxCount, x})
  BY <1>2 DEF HeadersSent
<1>4. n \in {count, MaxCount, x} /\ n <= x
  <2>1. MaxCount \in Int /\ x \in Int /\ count \in Int
    BY <1>1, <1>2
  <2>2. Min({count, MaxCount, x}) \in {count, MaxCount, x} /\ Min({count, MaxCount, x}) <= x
    BY <2>1, MinOfThree, Zenon
  <2>3. QED
    BY <1>3, <2>2
<1>5. n \in Nat
  BY <1>1, <1>2, <1>4
<1>6. ASSUME NEW k \in 1 .. n PROVE start + k - 1 \in 0 .. Tip
  BY <1>1, <1>2, <1>4, <1>5
<1>7. QED
  BY <1>5, <1>6

\* Listed headers are decoded, and given at the heights they have.
LEMMA ListIsRight ==
  ASSUME ServerOK, NEW req, req.kind \in {"Headers", "HeadersWithCheckpoint"},
         req.start_height \in Nat, NEW count \in Nat,
         NEW n, n = HeadersSent(req.start_height, count),
         NEW value, ListOf(value, req.start_height, n), NEW of
  PROVE  Right(req, value, of)
<1>1. PICK start \in Nat : start = req.start_height
  OBVIOUS
<1>2. PICK headers : headers = HeadersFrom(start, n)
  OBVIOUS
<1>3. n \in Nat /\ \A k \in 1 .. n : start + k - 1 \in 0 .. Tip
  BY <1>1, HeadersAreThere
<1>4. headers = [k \in 1 .. n |-> headers[k]] /\ DOMAIN headers = 1 .. n
      /\ \A k \in 1 .. n : headers[k] = HeaderAt(start + k - 1)
  BY <1>2 DEF HeadersFrom
<1>5. HeadersFromHexOrList(value) = {headers}
  <2>1. \/ "hex" \in DOMAIN value
           /\ value.hex = FlattenSeq([k \in 1 .. n |-> HexOf(headers[k])])
        \/ "hex" \notin DOMAIN value
           /\ value.headers = [k \in 1 .. n |-> HexOf(headers[k])]
    BY <1>1, <1>2 DEF ListOf
  <2>2. QED
    BY <1>3, <1>4, <2>1, HeadersDecode
<1>6. PICK resp : DecodeResponse(req, value) = {resp} /\ resp.headers = headers
  <2>1. PICK hs : hs = [count |-> value.count, headers |-> headers, max |-> value.max]
    OBVIOUS
  <2>2. DecodeHeaders(value) = {hs}
    BY <1>5, <2>1 DEF DecodeHeaders
  <2>3. CASE req.kind = "Headers"
    BY <2>1, <2>2, <2>3 DEF DecodeResponse
  <2>4. CASE req.kind = "HeadersWithCheckpoint"
    <3>1. PICK resp : resp = [count |-> hs.count, headers |-> hs.headers, max |-> hs.max,
                              root |-> value.root, branch |-> value.branch]
      OBVIOUS
    <3>2. DecodeResponse(req, value) = {resp}
      BY <2>2, <2>4, <3>1 DEF DecodeResponse
    <3>3. resp.headers = headers
      BY <2>1, <3>1
    <3>4. QED
      BY <3>2, <3>3
  <2>5. QED
    BY <2>3, <2>4
<1>7. PICK event : event = [type |-> "Response", req |-> req, resp |-> resp]
  OBVIOUS
<1>8. TryToHeaders(event) = {Zipped(start, headers)}
  <2>1. event.type = "Response" /\ event.req = req /\ event.resp = resp
    BY <1>7
  <2>2. QED
    BY <1>1, <1>6, <2>1 DEF TryToHeaders
<1>9. Range(Zipped(start, headers)) \subseteq ever
  <2>1. ASSUME NEW k \in 1 .. n PROVE <<start + k - 1, headers[k]>> \in ever
    <3>1. PICK h \in 0 .. Tip : h = start + k - 1
      BY <1>3
    <3>2. <<h, HeaderAt(h)>> \in ever
      BY ServerIs
    <3>3. QED
      BY <1>4, <3>1, <3>2
  <2>2. QED
    BY <1>4, <2>1 DEF Zipped, Range
<1>10. ResponseOK(req, resp, [of |-> of, value |-> value])
  BY DEF ResponseOK
<1>11. \A pairs \in TryToHeaders(event) : Range(pairs) \subseteq ever
  BY <1>8, <1>9
<1>12. QED
  BY <1>6, <1>7, <1>10, <1>11 DEF Right

\* Headers, as many as the server has and sends.
LEMMA HeadersAnswered ==
  ASSUME ServerOK, NEW req, req.kind = "Headers", req.start_height \in Nat, req.count \in Nat
  PROVE  Answered(req)
<1>1. PICK start, count, n :
        /\ start \in Nat /\ start = req.start_height /\ count \in Nat /\ count = req.count
        /\ n = HeadersSent(start, count)
  OBVIOUS
<1>2. MethodAndParams(req) = <<"blockchain.block.headers", <<start, count>>>>
  BY <1>1, CallOf DEF HeaderKinds, HeaderCall
<1>3. Reply(req) = Answer("blockchain.block.headers", <<start, count>>)
  BY <1>2, ReplyIs
<1>4. PICK hexes : hexes = [k \in 1 .. n |-> HexOf(HeaderAt(start + k - 1))]
  OBVIOUS
<1>5. PICK value : value = IF protocol = "1.4"
                           THEN [count |-> n, hex |-> FlattenSeq(hexes), max |-> MaxCount]
                           ELSE [count |-> n, headers |-> hexes, max |-> MaxCount]
  OBVIOUS
<1>6. Reply(req) = [type |-> "result", value |-> value]
  BY <1>1, <1>3, <1>4, <1>5 DEF Answer, HeadersSent
<1>7. hexes = [k \in 1 .. n |-> HexOf(HeadersFrom(start, n)[k])]
  BY <1>4 DEF HeadersFrom
<1>8. ListOf(value, start, n)
  <2>1. CASE protocol = "1.4"
    BY <1>5, <1>7, <2>1 DEF ListOf
  <2>2. CASE protocol # "1.4"
    BY <1>5, <1>7, <2>2 DEF ListOf
  <2>3. QED
    BY <2>1, <2>2
<1>9. Right(req, value, OfRequest(req))
  BY <1>1, <1>8, ListIsRight
<1>10. QED
  BY <1>6, <1>9 DEF Answered

\* The same with a proof for the last of them.
LEMMA CheckpointAnswered ==
  ASSUME ServerOK, NEW req, req.kind = "HeadersWithCheckpoint",
         req.start_height \in Nat, req.count \in Nat
  PROVE  Answered(req)
<1>1. PICK start, count, n, c :
        /\ start \in Nat /\ start = req.start_height /\ count \in Nat /\ count = req.count
        /\ n = HeadersSent(start, count) /\ c = req.cp_height
  OBVIOUS
<1>2. MethodAndParams(req) = <<"blockchain.block.headers", <<start, count, c>>>>
  BY <1>1, CallOf DEF HeaderKinds, HeaderCall
<1>3. Reply(req) = Answer("blockchain.block.headers", <<start, count, c>>)
  BY <1>2, ReplyIs
<1>4. PICK hexes : hexes = [k \in 1 .. n |-> HexOf(HeaderAt(start + k - 1))]
  OBVIOUS
<1>5. PICK list : list = IF protocol = "1.4"
                         THEN [count |-> n, hex |-> FlattenSeq(hexes), max |-> MaxCount]
                         ELSE [count |-> n, headers |-> hexes, max |-> MaxCount]
  OBVIOUS
<1>6. PICK value : value = [f \in DOMAIN list \cup {"root", "branch"} |->
           IF f = "root" THEN [tx |-> 0] ELSE IF f = "branch" THEN <<>> ELSE list[f]]
  OBVIOUS
<1>7. Reply(req) \in {[type |-> "error", value |-> {}], [type |-> "result", value |-> value]}
  BY <1>1, <1>3, <1>4, <1>5, <1>6 DEF Answer, HeadersSent
<1>8. hexes = [k \in 1 .. n |-> HexOf(HeadersFrom(start, n)[k])]
  BY <1>4 DEF HeadersFrom
<1>9. ListOf(value, start, n)
  <2>1. CASE protocol = "1.4"
    <3>1. list = [count |-> n, hex |-> FlattenSeq(hexes), max |-> MaxCount]
      BY <1>5, <2>1
    <3>2. "hex" \in DOMAIN value /\ value.hex = FlattenSeq(hexes)
      BY <1>6, <3>1
    <3>3. QED
      BY <1>8, <3>2 DEF ListOf
  <2>2. CASE protocol # "1.4"
    <3>1. list = [count |-> n, headers |-> hexes, max |-> MaxCount]
      BY <1>5, <2>2
    <3>2. "hex" \notin DOMAIN value /\ value.headers = hexes
      BY <1>6, <3>1
    <3>3. QED
      BY <1>8, <3>2 DEF ListOf
  <2>3. QED
    BY <2>1, <2>2
<1>10. Right(req, value, OfRequest(req))
  BY <1>1, <1>9, ListIsRight
<1>11. QED
  BY <1>7, <1>10 DEF Answered

\* Every request is answered with what the wallet understands.
LEMMA AllAnswered ==
  ASSUME ServerOK, NEW req \in Requests \cup LoneRequests
  PROVE  Answered(req)
<1>1. CASE req.kind \in PlainKinds
  <2>1. MethodAndParams(req)[1] \in Methods
    BY CallIs
  <2>2. Reply(req).type \in {"result", "error"}
    BY <2>1, AnswerType DEF Reply
  <2>3. Right(req, Reply(req).value, OfRequest(req))
    BY <1>1, PlainIsRight
  <2>4. QED
    BY <2>2, <2>3 DEF Answered
<1>2. CASE req.kind \in HeaderKinds
  <2>1. Heights \subseteq Nat /\ Counts \subseteq Nat
    BY BoundsAre
  <2>2. CASE req.kind = "Header"
    BY <2>2, RequestIs, HeaderAnswered
  <2>3. CASE req.kind = "HeaderWithProof"
    BY <2>3, ProofAnswered
  <2>4. CASE req.kind = "Headers"
    <3>1. req.start_height \in Heights /\ req.count \in Counts
      BY <2>4, RequestIs
    <3>2. QED
      BY <2>1, <2>4, <3>1, HeadersAnswered
  <2>5. CASE req.kind = "HeadersWithCheckpoint"
    <3>1. req.start_height \in Heights /\ req.count \in Counts
      BY <2>5, RequestIs
    <3>2. QED
      BY <2>1, <2>5, <3>1, CheckpointAnswered
  <2>6. QED
    BY <1>2, <2>2, <2>3, <2>4, <2>5 DEF HeaderKinds
<1>3. CASE req.kind \in FeeKinds
  BY <1>3, EstimateAnswered, TipAnswered, RelayFeeAnswered DEF FeeKinds
<1>4. CASE req.kind \in CoinKinds
  BY <1>4, BalanceAnswered, HistoryAnswered, MempoolAnswered, UnspentAnswered DEF CoinKinds
<1>5. CASE req.kind \in {"GetTx", "GetTxMerkle", "GetFeeHistogram", "GetMempoolInfo"}
  BY <1>5, RequestIs, TxAnswered, MerkleAnswered, HistogramAnswered, FloorAnswered
<1>6. QED
  BY <1>1, <1>2, <1>3, <1>4, <1>5, KindIs DEF DecodedKinds

-----------------------------------------------------------------------------
(***************************************************************************)
(* The server's chain and mempool keep the order of the transactions.      *)
(***************************************************************************)

\* What a part of the wallet's transactions has.
LEMMA PartIs ==
  ASSUME NEW i \in Nat \ {0}, NEW j \in Nat, j <= Len(WalletTx), NEW part,
         part = SubSeq(WalletTx, i, j)
  PROVE  /\ IsSeq(part) /\ Range(part) = {WalletTx[k] : k \in i .. j}
         /\ part = [k \in 1 .. j - i + 1 |-> WalletTx[i + k - 1]]
<1>1. part = [k \in 1 .. j - i + 1 |-> WalletTx[i + k - 1]]
  BY SubSeqIs
<1>2. Range(part) = {WalletTx[k] : k \in i .. j}
  <2>1. ASSUME NEW x \in Range(part) PROVE x \in {WalletTx[k] : k \in i .. j}
    <3>1. PICK k \in 1 .. j - i + 1 : x = WalletTx[i + k - 1]
      BY <1>1 DEF Range
    <3>2. i + k - 1 \in i .. j
      OBVIOUS
    <3>3. QED
      BY <3>1, <3>2
  <2>2. ASSUME NEW k \in i .. j PROVE WalletTx[k] \in Range(part)
    <3>1. k - i + 1 \in 1 .. j - i + 1 /\ i + (k - i + 1) - 1 = k
      OBVIOUS
    <3>2. part[k - i + 1] = WalletTx[k] /\ k - i + 1 \in DOMAIN part
      BY <1>1, <3>1
    <3>3. QED
      BY <3>2 DEF Range
  <2>3. QED
    BY <2>1, <2>2
<1>3. part \in Seq(Range(WalletTx))
  <2>1. \A k \in i .. j : WalletTx[k] \in Range(WalletTx)
    <3>1. \A k \in i .. j : k \in DOMAIN WalletTx
      BY WalletIs
    <3>2. QED
      BY <3>1, WalletIs
  <2>2. QED
    BY <2>1, SubSeqProperties
<1>4. QED
  BY <1>1, <1>2, <1>3, SeqIs

\* What is accepted comes after what is there.
LEMMA AcceptedIs ==
  ASSUME NEW m, NEW n, Placed(chain, mempool, m, n), NEW txs, Len(txs) \in Nat
  PROVE  \E p : Placed(chain, mempool \cup Accepted(txs), m, p)
<1>1. /\ n \in Nat /\ m \in Nat /\ m <= n /\ n <= Len(WalletTx) /\ Count(chain, mempool) = n
      /\ Entered(chain, {}) = 1 .. m /\ mempool = {WalletTx[k] : k \in m + 1 .. n}
      /\ m \in 0 .. Len(WalletTx) /\ n \in 0 .. Len(WalletTx)
  <2>1. n \in Nat /\ m \in Nat /\ m <= n /\ n <= Len(WalletTx) /\ Count(chain, mempool) = n
    BY PlacedCounts
  <2>2. QED
    BY <2>1 DEF Placed
<1>2. CASE n + Len(txs) <= Len(WalletTx) /\ txs = SubSeq(WalletTx, n + 1, n + Len(txs))
  <2>1. PICK p \in Nat : p = n + Len(txs)
    BY <1>1
  <2>2. Accepted(txs) = Range(txs)
    BY <1>1, <1>2 DEF Accepted
  <2>3. Range(txs) = {WalletTx[k] : k \in n + 1 .. p}
    <3>1. n + 1 \in Nat \ {0} /\ p <= Len(WalletTx) /\ txs = SubSeq(WalletTx, n + 1, p)
      BY <1>1, <1>2, <2>1
    <3>2. QED
      BY <3>1, PartIs
  <2>4. \A k \in Int : k \in m + 1 .. p <=> k \in m + 1 .. n \/ k \in n + 1 .. p
    BY <1>1, <2>1
  <2>5. mempool \cup Accepted(txs) = {WalletTx[k] : k \in m + 1 .. p}
    BY <1>1, <2>2, <2>3, <2>4
  <2>6. p \in 0 .. Len(WalletTx) /\ m <= p
    BY <1>1, <1>2, <2>1, WalletIs
  <2>7. QED
    BY <1>1, <2>5, <2>6 DEF Placed
<1>3. CASE ~(n + Len(txs) <= Len(WalletTx) /\ txs = SubSeq(WalletTx, n + 1, n + Len(txs)))
  <2>1. Accepted(txs) = {}
    BY <1>1, <1>3 DEF Accepted
  <2>2. mempool \cup Accepted(txs) = mempool
    BY <2>1
  <2>3. QED
    BY <2>2
<1>4. QED
  BY <1>2, <1>3

\* The elements of what is put together.
LEMMA RangeJoined ==
  ASSUME NEW s, NEW t, IsSeq(s), IsSeq(t)
  PROVE  Range(s \o t) = Range(s) \cup Range(t)
<1>1. ASSUME NEW x \in Range(s \o t) PROVE x \in Range(s) \cup Range(t)
  <2>1. PICK k \in DOMAIN (s \o t) : x = (s \o t)[k]
    BY DEF Range
  <2>2. \/ k \in DOMAIN s /\ x = s[k]
        \/ k - Len(s) \in DOMAIN t /\ x = t[k - Len(s)]
    BY <2>1, JoinedElements
  <2>3. QED
    BY <2>2 DEF Range
<1>2. Len(s) \in Nat /\ Len(t) \in Nat /\ DOMAIN s = 1 .. Len(s) /\ DOMAIN t = 1 .. Len(t)
      /\ DOMAIN (s \o t) = 1 .. Len(s) + Len(t)
  BY Joined
<1>3. ASSUME NEW x \in Range(s) PROVE x \in Range(s \o t)
  <2>1. PICK k \in 1 .. Len(s) : x = s[k]
    BY <1>2 DEF Range
  <2>2. k \in 1 .. Len(s) + Len(t) /\ (s \o t)[k] = x
    BY <1>2, <2>1, Joined
  <2>3. QED
    BY <1>2, <2>2 DEF Range
<1>4. ASSUME NEW x \in Range(t) PROVE x \in Range(s \o t)
  <2>1. PICK k \in 1 .. Len(t) : x = t[k]
    BY <1>2 DEF Range
  <2>2. Len(s) + k \in 1 .. Len(s) + Len(t) /\ (s \o t)[Len(s) + k] = x
    BY <1>2, <2>1, Joined
  <2>3. QED
    BY <1>2, <2>2 DEF Range
<1>5. QED
  BY <1>1, <1>3, <1>4

\* A block has those of the wallet's transactions that it was made with.
LEMMA BlockHas ==
  ASSUME made \in Nat, NEW filler \in Nat, NEW i \in Nat \ {0}, NEW j \in Nat, j <= Len(WalletTx),
         NEW k \in DOMAIN WalletTx
  PROVE  Txid(WalletTx[k]) \in Range(BlockWith(SubSeq(WalletTx, i, j), filler).txids)
           <=> k \in i .. j
<1>1. PICK own : own = SubSeq(WalletTx, i, j)
  OBVIOUS
<1>2. IsSeq(own) /\ Range(own) = {WalletTx[p] : p \in i .. j} /\ DOMAIN own = 1 .. Len(own)
      /\ Len(own) \in Nat
  <2>1. IsSeq(own) /\ Range(own) = {WalletTx[p] : p \in i .. j}
    BY <1>1, PartIs
  <2>2. QED
    BY <2>1, SeqIs DEF IsSeq
<1>3. PICK others : others = [p \in 1 .. filler + 1 |-> Txid(10 * made + p)]
  OBVIOUS
<1>4. PICK ours : ours = [p \in DOMAIN own |-> Txid(own[p])]
  OBVIOUS
<1>5. IsSeq(others) /\ IsSeq(ours)
  <2>1. \A p \in DOMAIN others : others[p] \in Range(others)
    BY DEF Range
  <2>2. \A p \in DOMAIN ours : ours[p] \in Range(ours)
    BY DEF Range
  <2>3. PICK S, T : S = Range(others) /\ T = Range(ours)
    OBVIOUS
  <2>4. others \in Seq(S)
    <3>1. others = [p \in 1 .. filler + 1 |-> others[p]] /\ filler + 1 \in Nat
      BY <1>3
    <3>2. \A p \in 1 .. filler + 1 : others[p] \in S
      BY <1>3, <2>1, <2>3
    <3>3. QED
      BY <3>1, <3>2
  <2>5. ours \in Seq(T)
    <3>1. ours = [p \in 1 .. Len(own) |-> ours[p]]
      BY <1>2, <1>4
    <3>2. \A p \in 1 .. Len(own) : ours[p] \in T
      BY <1>2, <1>4, <2>2, <2>3
    <3>3. QED
      BY <1>2, <3>1, <3>2
  <2>6. QED
    BY <2>3, <2>4, <2>5 DEF IsSeq
<1>6. BlockWith(own, filler).txids = others \o ours
  BY <1>3, <1>4 DEF BlockWith
<1>7. PICK t : t = WalletTx[k]
  OBVIOUS
<1>8. Txid(t) \notin Range(others)
  <2>1. t \notin Nat
    BY <1>7, WalletIs, WalletAssumption
  <2>2. ASSUME NEW p \in 1 .. filler + 1 PROVE Txid(t) # others[p]
    <3>1. others[p].tx \in Nat
      BY <1>3 DEF Txid
    <3>2. Txid(t).tx = t
      BY DEF Txid
    <3>3. QED
      BY <2>1, <3>1, <3>2
  <2>3. QED
    BY <1>3, <2>2 DEF Range
<1>9. Txid(t) \in Range(ours) <=> t \in Range(own)
  <2>1. \A x, y : Txid(x) = Txid(y) => x = y
    <3>1. \A x : Txid(x).tx = x
      BY DEF Txid
    <3>2. QED
      BY <3>1
  <2>2. QED
    BY <1>4, <2>1 DEF Range
<1>10. t \in Range(own) <=> k \in i .. j
  <2>1. \A p \in i .. j : p \in DOMAIN WalletTx
    BY WalletIs
  <2>2. QED
    BY <1>2, <1>7, <2>1, WalletIs
<1>11. QED
  BY <1>1, <1>5, <1>6, <1>7, <1>8, <1>9, <1>10, RangeJoined

\* One more element.
LEMMA OneMore ==
  ASSUME NEW s, IsSeq(s), NEW x
  PROVE  /\ Append(s, x) = s \o <<x>> /\ IsSeq(<<x>>) /\ Range(<<x>>) = {x} /\ Len(<<x>>) = 1
         /\ <<x>>[1] = x /\ DOMAIN <<x>> = {1}
<1>1. Range(<<x>>) = {x}
  BY DEF Range
<1>2. IsSeq(<<x>>)
  BY <1>1 DEF IsSeq
<1>3. Append(s, x) = s \o <<x>>
  <2>1. PICK S : S = Range(s) \cup {x}
    OBVIOUS
  <2>2. s \in Seq(S) /\ x \in S
    <3>1. \A A, B, t : t \in Seq(A) /\ A \subseteq B => t \in Seq(B)
      OBVIOUS
    <3>2. QED
      BY <2>1, <3>1 DEF IsSeq
  <2>3. QED
    BY <2>2
<1>4. QED
  BY <1>1, <1>2, <1>3

\* The first blocks of a chain.
LEMMA FirstBlocks ==
  ASSUME NEW c, IsSeq(c), NEW n \in DOMAIN c
  PROVE  /\ IsSeq(SubSeq(c, 1, n)) /\ Len(SubSeq(c, 1, n)) = n /\ DOMAIN SubSeq(c, 1, n) = 1 .. n
         /\ SubSeq(c, 1, n) = [k \in 1 .. n |-> c[k]]
         /\ n \in 1 .. Len(c) /\ Len(c) \in Nat
<1>1. PICK S : S = Range(c)
  OBVIOUS
<1>2. c \in Seq(S)
  BY <1>1 DEF IsSeq
<1>3. n \in 1 .. Len(c) /\ Len(c) \in Nat
  BY <1>2
<1>4. SubSeq(c, 1, n) \in Seq(S) /\ Len(SubSeq(c, 1, n)) = n
  BY <1>2, <1>3, CutAt
<1>5. SubSeq(c, 1, n) = [k \in 1 .. n |-> c[k]]
  <2>1. SubSeq(c, 1, n) = [k \in 1 .. n - 1 + 1 |-> c[1 + k - 1]]
    BY <1>3, SubSeqIs
  <2>2. n - 1 + 1 = n /\ \A k \in 1 .. n : 1 + k - 1 = k
    BY <1>3
  <2>3. QED
    BY <2>1, <2>2
<1>6. QED
  BY <1>3, <1>4, <1>5, SeqIs

\* A block adds its transactions.
LEMMA EnteredGrows ==
  ASSUME NEW c, IsSeq(c), NEW b, NEW k
  PROVE  k \in Entered(Append(c, b), {}) <=>
           \/ k \in Entered(c, {})
           \/ k \in DOMAIN WalletTx /\ Txid(WalletTx[k]) \in Range(b.txids)
<1>1. PICK e : e = <<b>>
  OBVIOUS
<1>2. PICK d : d = Append(c, b)
  OBVIOUS
<1>3. d = c \o e /\ IsSeq(e) /\ Range(e) = {b}
  BY <1>1, <1>2, OneMore
<1>4. Range(d) = Range(c) \cup {b}
  BY <1>3, RangeJoined
<1>5. QED
  BY <1>2, <1>4 DEF Entered

\* The transactions in a chain are those in its blocks.
LEMMA EnteredIs ==
  ASSUME NEW c, NEW k
  PROVE  k \in Entered(c, {}) <=>
           k \in DOMAIN WalletTx /\ \E i \in DOMAIN c : Txid(WalletTx[k]) \in Range(c[i].txids)
BY DEF Entered, Range

\* Every block is on blocks that have the first of the transactions.
Ordered(c) ==
  \A n \in DOMAIN c : \E m \in 0 .. Len(WalletTx) : Entered(SubSeq(c, 1, n), {}) = 1 .. m

\* What a new block on the first blocks makes of the chain and the mempool.
Extended(n, filler, kept, first, last, k, c, pool) ==
  /\ kept = SubSeq(chain, 1, n)
  /\ first = Count(kept, {}) + 1 /\ last = Count(chain, mempool) /\ k \in first - 1 .. last
  /\ c = Append(kept, BlockWith(SubSeq(WalletTx, first, k), filler))
  /\ pool = Range(SubSeq(WalletTx, k + 1, last))

\* A block on the first blocks, which may replace the tip, goes on where these
\* end, and the mempool where the block ends.
LEMMA ExtendIs ==
  ASSUME ServerOK, NEW n \in DOMAIN chain, NEW filler \in Nat, NEW kept, NEW first, NEW last,
         NEW k, NEW c, NEW pool, Extended(n, filler, kept, first, last, k, c, pool)
  PROVE  /\ Ordered(c) /\ \E p, q : Placed(c, pool, p, q)
         /\ IsSeq(c) /\ Len(c) = n + 1 /\ DOMAIN c = 1 .. n + 1
         /\ \A i \in 1 .. n : c[i] = chain[i]
<1>0. /\ kept = SubSeq(chain, 1, n)
     /\ first = Count(kept, {}) + 1 /\ last = Count(chain, mempool) /\ k \in first - 1 .. last
     /\ c = Append(kept, BlockWith(SubSeq(WalletTx, first, k), filler))
     /\ pool = Range(SubSeq(WalletTx, k + 1, last))
  BY DEF Extended
<1> USE <1>0
<1>1. PICK m0, N : Placed(chain, mempool, m0, N)
  BY ServerIs
<1>2. /\ N \in Nat /\ m0 \in Nat /\ m0 <= N /\ N <= Len(WalletTx) /\ last = N
      /\ Entered(chain, {}) = 1 .. m0
  <2>1. N \in Nat /\ m0 \in Nat /\ m0 <= N /\ N <= Len(WalletTx) /\ last = N
    BY <1>1, PlacedCounts
  <2>2. QED
    BY <1>1, <2>1 DEF Placed
<1>3. Ordered(chain) /\ IsSeq(chain)
  BY ServerIs DEF ServerOK, TransactionsInOrder, Ordered, ChainOK
<1>4. /\ IsSeq(kept) /\ Len(kept) = n /\ DOMAIN kept = 1 .. n /\ kept = [i \in 1 .. n |-> chain[i]]
      /\ n \in Nat /\ n >= 1
  BY <1>3, FirstBlocks
<1>5. PICK m \in 0 .. Len(WalletTx) : Entered(kept, {}) = 1 .. m
  BY <1>3 DEF Ordered
<1>6. m \in Nat /\ first = m + 1 /\ m <= m0 /\ k \in m .. N
  <2>1. m \in Nat
    BY <1>5, WalletIs
  <2>2. Count(kept, {}) = m
    <3>1. Cardinality(1 .. m) = IF 1 > m THEN 0 ELSE m - 1 + 1
      BY <2>1, FS_Interval
    <3>2. QED
      BY <1>5, <2>1, <3>1 DEF Count
  <2>3. \A i \in 1 .. m : i \in 1 .. m0
    <3>1. ASSUME NEW i \in 1 .. m PROVE i \in 1 .. m0
      <4>1. PICK j \in DOMAIN kept : Txid(WalletTx[i]) \in Range(kept[j].txids)
        BY <1>5, EnteredIs
      <4>2. i \in DOMAIN WalletTx
        BY <1>5, EnteredIs
      <4>3. j \in DOMAIN chain /\ chain[j] = kept[j]
        BY <1>3, <1>4, FirstBlocks
      <4>4. i \in Entered(chain, {})
        BY <4>1, <4>2, <4>3, EnteredIs
      <4>5. QED
        BY <1>2, <4>4
    <3>2. QED
      BY <3>1
  <2>4. m <= m0
    <3>1. CASE m = 0
      BY <1>2, <3>1
    <3>2. CASE m # 0
      <4>1. m \in 1 .. m
        BY <2>1, <3>2
      <4>2. m \in 1 .. m0
        BY <2>3, <4>1, Zenon
      <4>3. QED
        BY <1>2, <4>2
    <3>3. QED
      BY <3>1, <3>2
  <2>5. QED
    BY <1>2, <2>1, <2>2, <2>4
<1>7. PICK b : b = BlockWith(SubSeq(WalletTx, first, k), filler)
  OBVIOUS
<1>8. c = Append(kept, b)
  BY <1>7
<1>9. /\ IsSeq(c) /\ Len(c) = n + 1 /\ DOMAIN c = 1 .. n + 1
      /\ \A i \in 1 .. n : c[i] = chain[i]
  <2>1. PICK e : e = <<b>>
    OBVIOUS
  <2>2. c = kept \o e /\ IsSeq(e) /\ Len(e) = 1
    BY <1>4, <1>8, <2>1, OneMore
  <2>3. /\ IsSeq(c) /\ Len(c) = Len(kept) + Len(e) /\ DOMAIN c = 1 .. Len(kept) + Len(e)
        /\ \A i \in 1 .. Len(kept) : c[i] = kept[i]
    <3>1. IsSeq(kept)
      BY <1>4
    <3>2. /\ IsSeq(kept \o e) /\ Len(kept \o e) = Len(kept) + Len(e)
          /\ DOMAIN (kept \o e) = 1 .. Len(kept) + Len(e)
          /\ \A i \in 1 .. Len(kept) : (kept \o e)[i] = kept[i]
      BY <2>2, <3>1, Joined, Zenon
    <3>3. QED
      BY <2>2, <3>2, Zenon
  <2>4. QED
    BY <1>4, <2>2, <2>3
<1>10. Entered(c, {}) = 1 .. k
  <2>1. k \in Nat /\ k <= Len(WalletTx) /\ first \in Nat \ {0}
    BY <1>2, <1>6
  <2>2. \A i \in DOMAIN WalletTx : Txid(WalletTx[i]) \in Range(b.txids) <=> i \in first .. k
    <3>1. made \in Nat
      BY ServerIs
    <3>2. QED
      BY <1>7, <2>1, <3>1, BlockHas
  <2>3. \A i : i \in Entered(c, {}) <=>
                 i \in 1 .. m \/ (i \in DOMAIN WalletTx /\ i \in first .. k)
    <3>1. \A i : i \in Entered(c, {}) <=>
                   \/ i \in Entered(kept, {})
                   \/ i \in DOMAIN WalletTx /\ Txid(WalletTx[i]) \in Range(b.txids)
      BY <1>4, <1>8, EnteredGrows, Zenon
    <3>2. QED
      BY <1>5, <2>2, <3>1, Zenon
  <2>4. \A i \in Int : i \in 1 .. k <=> i \in 1 .. m \/ (i \in 1 .. Len(WalletTx) /\ i \in first .. k)
    BY <1>6, <2>1, WalletIs
  <2>5. DOMAIN WalletTx = 1 .. Len(WalletTx) /\ DOMAIN WalletTx \subseteq Int
    BY WalletIs
  <2>6. 1 .. k \subseteq Int /\ 1 .. m \subseteq Int
    OBVIOUS
  <2>7. QED
    BY <2>3, <2>4, <2>5, <2>6, Zenon
<1>11. Ordered(c)
  <2>1. ASSUME NEW i \in DOMAIN c
        PROVE  \E j \in 0 .. Len(WalletTx) : Entered(SubSeq(c, 1, i), {}) = 1 .. j
    <3>1. SubSeq(c, 1, i) = [j \in 1 .. i |-> c[j]]
      <4>1. i \in Nat /\ n \in Nat
        BY <1>4, <1>9
      <4>2. SubSeq(c, 1, i) = [j \in 1 .. i - 1 + 1 |-> c[1 + j - 1]]
        BY <4>1, SubSeqIs
      <4>3. i - 1 + 1 = i /\ \A j \in 1 .. i : 1 + j - 1 = j
        BY <4>1
      <4>4. QED
        BY <4>2, <4>3
    <3>2. CASE i = n + 1
      <4>1. SubSeq(c, 1, i) = c
        <5>1. PICK S : S = Range(c)
          OBVIOUS
        <5>2. c \in Seq(S)
          BY <1>9, <5>1 DEF IsSeq
        <5>3. c = [j \in 1 .. n + 1 |-> c[j]]
          BY <1>9, <5>2
        <5>4. QED
          BY <3>1, <3>2, <5>3
      <4>2. k \in 0 .. Len(WalletTx)
        BY <1>2, <1>6, WalletIs
      <4>3. QED
        BY <1>10, <4>1, <4>2
    <3>3. CASE i # n + 1
      <4>1. i \in 1 .. n /\ i \in DOMAIN chain
        <5>1. i \in 1 .. n + 1 /\ n \in Nat
          BY <1>4, <1>9
        <5>2. n \in 1 .. Len(chain) /\ Len(chain) \in Nat /\ DOMAIN chain = 1 .. Len(chain)
          BY ServerIs, <1>3, FirstBlocks, SeqIs DEF IsSeq
        <5>3. QED
          BY <3>3, <5>1, <5>2
      <4>2. SubSeq(chain, 1, i) = [j \in 1 .. i |-> chain[j]]
        BY <1>3, <4>1, FirstBlocks
      <4>3. \A j \in 1 .. i : c[j] = chain[j]
        BY <1>4, <1>9, <4>1
      <4>4. SubSeq(c, 1, i) = SubSeq(chain, 1, i)
        BY <3>1, <4>2, <4>3
      <4>5. QED
        BY <1>3, <4>1, <4>4 DEF Ordered
    <3>4. QED
      BY <3>2, <3>3
  <2>2. QED
    BY <2>1 DEF Ordered
<1>12. Placed(c, pool, k, N)
  <2>1. k \in 0 .. Len(WalletTx) /\ N \in 0 .. Len(WalletTx) /\ k <= N /\ k + 1 \in Nat \ {0}
    BY <1>2, <1>6, WalletIs
  <2>2. pool = {WalletTx[j] : j \in k + 1 .. N}
    BY <1>2, <2>1, PartIs
  <2>3. QED
    BY <1>10, <2>1, <2>2 DEF Placed
<1>13. QED
  BY <1>9, <1>11, <1>12

-----------------------------------------------------------------------------
(***************************************************************************)
(* Notifications.                                                          *)
(***************************************************************************)
TipNotice(c) ==
  [type |-> "notification", method |-> "blockchain.headers.subscribe", params |-> <<TipOf(c)>>]

StatusNotice(s) ==
  [type |-> "notification", method |-> "blockchain.scripthash.subscribe",
   params |-> <<"script", s>>]

\* A message is right while these headers were true at some time.
MessageFor(msg, true) ==
  /\ msg.type \in {"notification", "result", "error"} /\ EventOf(msg) # {}
  /\ \A event \in EventOf(msg) :
       /\ \A pairs \in TryToHeaders(event) : Range(pairs) \subseteq true
       /\ event.type = "Response" => ResponseOK(event.req, event.resp, msg)
       /\ event.type = "Notification" /\ event.of.type = "SpSubscribe" =>
            ScanOK([req |-> msg.of, got |-> event.of])

MessagesFor(w, true) == \A k \in DOMAIN w : MessageFor(w[k], true)

\* A tip that was true gives a true header.
LEMMA TipNoticeIsOK ==
  ASSUME NEW c, NEW true, <<Len(c) - 1, HeaderOf(Last(c))>> \in true
  PROVE  MessageFor(TipNotice(c), true)
<1>1. PICK h : h = Len(c) - 1
  OBVIOUS
<1>2. PICK x : x = HeaderOf(Last(c))
  OBVIOUS
<1>3. PICK msg : msg = TipNotice(c)
  OBVIOUS
<1>4. /\ msg.type = "notification" /\ msg.method = "blockchain.headers.subscribe"
      /\ msg.params[1].height = h /\ msg.params[1].hex = HexOf(x)
  BY <1>1, <1>2, <1>3 DEF TipNotice, TipOf
<1>5. PICK of : of = [type |-> "Header", height |-> h, header |-> x]
  OBVIOUS
<1>6. DecodeNotification(msg) = {of}
  BY <1>4, <1>5, HexDecodes DEF DecodeNotification
<1>7. PICK event : event = [type |-> "Notification", of |-> of]
  OBVIOUS
<1>8. EventOf(msg) = {event}
  BY <1>4, <1>6, <1>7 DEF EventOf
<1>9. TryToHeaders(event) = {<<<<h, x>>>>}
  BY <1>5, <1>7 DEF TryToHeaders
<1>10. Range(<<<<h, x>>>>) = {<<h, x>>} /\ {<<h, x>>} \subseteq true
  BY <1>1, <1>2 DEF Range
<1>11. event.type = "Notification" /\ event.of.type = "Header"
  BY <1>5, <1>7
<1>12. MessageFor(msg, true)
  BY <1>4, <1>8, <1>9, <1>10, <1>11 DEF MessageFor
<1>13. QED
  BY <1>3, <1>12

\* A status has nothing that could be wrong by itself.
LEMMA StatusNoticeIsOK == \A s : MessageOK(StatusNotice(s))
<1> SUFFICES ASSUME NEW s PROVE MessageOK(StatusNotice(s))
  OBVIOUS
<1>1. PICK msg : msg = StatusNotice(s)
  OBVIOUS
<1>2. /\ msg.type = "notification" /\ msg.method = "blockchain.scripthash.subscribe"
      /\ msg.params[2] = s
  BY <1>1 DEF StatusNotice
<1>3. PICK of : of = [type |-> "ScriptHash", status |-> s]
  OBVIOUS
<1>4. DecodeNotification(msg) = {of}
  BY <1>2, <1>3 DEF DecodeNotification
<1>5. PICK event : event = [type |-> "Notification", of |-> of]
  OBVIOUS
<1>6. EventOf(msg) = {event}
  BY <1>2, <1>4, <1>5 DEF EventOf
<1>7. event.type = "Notification" /\ event.of.type = "ScriptHash"
  BY <1>3, <1>5
<1>8. TryToHeaders(event) = {}
  BY <1>7 DEF TryToHeaders
<1>9. MessageOK(msg)
  BY <1>2, <1>6, <1>7, <1>8 DEF MessageOK
<1>10. QED
  BY <1>1, <1>9

\* What a scan is asked for by the places of its parameters.
LEMMA SpParamsAre ==
  ASSUME NEW start \in {{}, {1}}, NEW labels \in {{}, {{2}}}
  PROVE  SpParams(start, labels) =
           IF labels # {} THEN <<start, {2}>> ELSE IF start # {} THEN <<start>> ELSE <<>>
<1>1. CASE labels = {}
  <2>1. SetToSeq({}) = <<>>
    <3>1. SetToSeq({}) \in Seq({}) /\ Len(SetToSeq({})) = 0
      BY SetToSeqIs, FS_EmptySet
    <3>2. QED
      BY <3>1
  <2>2. QED
    <3>1. \A y : <<y>> \o <<>> = <<y>>
      OBVIOUS
    <3>2. SpParams(start, {}) = IF start = {} THEN <<>> ELSE <<start>> \o <<>>
      BY <2>1 DEF SpParams
    <3>3. QED
      BY <1>1, <3>1, <3>2
<1>2. CASE labels = {{2}}
  <2>1. PICK x : x = {2}
    OBVIOUS
  <2>2. IsFiniteSet({x}) /\ Cardinality({x}) = 1
    BY FS_Singleton
  <2>3. PICK s : s = SetToSeq({x})
    OBVIOUS
  <2>4. s \in Seq({x}) /\ Len(s) = 1
    BY <2>2, <2>3, SetToSeqIs
  <2>5. s = <<x>>
    BY <2>4
  <2>6. QED
    <3>1. \A y, z : <<y>> \o <<z>> = <<y, z>>
      <4>1. SUFFICES ASSUME NEW y, NEW z PROVE <<y>> \o <<z>> = <<y, z>>
        OBVIOUS
      <4>2. PICK a : a = <<y>>
        OBVIOUS
      <4>3. PICK b : b = <<z>>
        OBVIOUS
      <4>4. a \in Seq({y, z}) /\ b \in Seq({y, z}) /\ Len(a) = 1 /\ Len(b) = 1 /\ a[1] = y /\ b[1] = z
        BY <4>2, <4>3
      <4>5. PICK ab : ab = a \o b
        OBVIOUS
      <4>6. ab \in Seq({y, z}) /\ Len(ab) = 2 /\ ab[1] = y /\ ab[2] = z
        <5>1. /\ a \o b \in Seq({y, z}) /\ Len(a \o b) = Len(a) + Len(b)
              /\ \A i \in 1 .. Len(a) + Len(b) :
                   (a \o b)[i] = IF i <= Len(a) THEN a[i] ELSE b[i - Len(a)]
          <6>1. a \in Seq({y, z}) /\ b \in Seq({y, z})
            BY <4>4
          <6>2. QED
            BY <6>1, ConcatProperties
        <5>2. /\ ab \in Seq({y, z}) /\ Len(ab) = 2
              /\ \A i \in 1 .. 2 : ab[i] = IF i <= 1 THEN a[i] ELSE b[i - 1]
          BY <4>4, <4>5, <5>1
        <5>3. QED
          BY <4>4, <5>2
      <4>7. ab = <<y, z>>
        <5>1. PICK yz : yz = <<y, z>>
          OBVIOUS
        <5>2. yz \in Seq({y, z}) /\ Len(yz) = 2 /\ yz[1] = y /\ yz[2] = z
          BY <5>1
        <5>3. \A i \in 1 .. 2 : ab[i] = yz[i]
          <6>1. \A i \in 1 .. 2 : i = 1 \/ i = 2
            OBVIOUS
          <6>2. QED
            BY <4>6, <5>2, <6>1
        <5>4. ab = yz
          BY <4>6, <5>2, <5>3, SeqEqual
        <5>5. QED
          BY <5>1, <5>4
      <4>8. QED
        BY <4>2, <4>3, <4>5, <4>7
    <3>2. SpParams(start, labels) = <<start>> \o s
      BY <1>2, <2>1, <2>3 DEF SpParams
    <3>3. QED
      BY <1>2, <2>1, <2>5, <3>1, <3>2
<1>3. QED
  BY <1>1, <1>2

\* A scan is notified as it was asked for.
LEMMA ScanNoticeIsOK ==
  ASSUME NEW req \in Requests \cup LoneRequests, req.kind = "SpSubscribe"
  PROVE  MessageOK(ScanNotice(req, MethodAndParams(req)[2]))
<1>1. PICK params : params = MethodAndParams(req)[2]
  OBVIOUS
<1>2. req.start_height \in {{}, {1}} /\ req.labels \in {{}, {{2}}}
  BY RequestIs
<1>3. PICK keys : keys = <<req.scan_priv_key, req.spend_pub_key>>
  OBVIOUS
<1>4. params = keys \o SpParams(req.start_height, req.labels)
  <2>1. MethodAndParams(req) = SpCall(req)
    BY CallOf DEF SpKinds
  <2>2. QED
    BY <1>1, <1>3, <2>1 DEF SpCall
<1>5. PICK start : start = IF Len(params) >= 3 THEN Max({0} \cup params[3]) ELSE 0
  OBVIOUS
<1>6. PICK labels : labels = {0} \cup (IF Len(params) = 4 THEN params[4] ELSE {})
  OBVIOUS
<1>7. start = Max({0} \cup req.start_height) /\ labels = {0} \cup UNION req.labels
  <2>1. Max({0}) = 0
    <3>1. {0, 0} = {0}
      OBVIOUS
    <3>2. QED
      BY <3>1, MaxOfTwo
  <2>2. CASE req.labels # {}
    <3>1. SpParams(req.start_height, req.labels) = <<req.start_height, {2}>>
      BY <1>2, <2>2, SpParamsAre
    <3>2. Len(params) = 4 /\ params[3] = req.start_height /\ params[4] = {2}
      BY <1>3, <1>4, <3>1
    <3>3. QED
      BY <1>2, <1>5, <1>6, <2>2, <3>2
  <2>3. CASE req.labels = {} /\ req.start_height # {}
    <3>1. SpParams(req.start_height, req.labels) = <<req.start_height>>
      BY <1>2, <2>3, SpParamsAre
    <3>2. Len(params) = 3 /\ params[3] = req.start_height
      BY <1>3, <1>4, <3>1
    <3>3. QED
      BY <1>5, <1>6, <2>3, <3>2
  <2>4. CASE req.labels = {} /\ req.start_height = {}
    <3>1. SpParams(req.start_height, req.labels) = <<>>
      BY <1>2, <2>4, SpParamsAre
    <3>2. Len(params) = 2
      BY <1>3, <1>4, <3>1
    <3>3. QED
      BY <1>5, <1>6, <2>1, <2>4, <3>2
  <2>5. QED
    BY <2>2, <2>3, <2>4
<1>8. PICK msg : msg = ScanNotice(req, params)
  OBVIOUS
<1>9. /\ msg.type = "notification" /\ msg.method = "blockchain.silentpayments.subscribe"
      /\ msg.of = req /\ msg.params.subscription.start_height = start
      /\ msg.params.subscription.labels = labels
  BY <1>5, <1>6, <1>8 DEF ScanNotice
<1>10. PICK of : of = [type |-> "SpSubscribe", subscription |-> msg.params.subscription,
                       progress |-> msg.params.progress, history |-> msg.params.history]
  OBVIOUS
<1>11. DecodeNotification(msg) = {of}
  BY <1>9, <1>10 DEF DecodeNotification
<1>12. PICK event : event = [type |-> "Notification", of |-> of]
  OBVIOUS
<1>13. EventOf(msg) = {event}
  BY <1>9, <1>11, <1>12 DEF EventOf
<1>14. event.type = "Notification" /\ event.of = of /\ of.type = "SpSubscribe"
       /\ of.subscription = msg.params.subscription
  BY <1>10, <1>12
<1>15. TryToHeaders(event) = {}
  BY <1>14 DEF TryToHeaders
<1>16. ScanOK([req |-> msg.of, got |-> event.of])
  BY <1>7, <1>9, <1>14 DEF ScanOK
<1>17. MessageOK(msg)
  BY <1>9, <1>13, <1>14, <1>15, <1>16 DEF MessageOK
<1>18. QED
  BY <1>1, <1>8, <1>17

-----------------------------------------------------------------------------
(***************************************************************************)
(* The last status told.                                                   *)
(***************************************************************************)
Tellers(w) == {k \in DOMAIN w : StatusesIn(w[k]) # {}}

TellsLast(w, current) ==
  \E k \in Tellers(w) : StatusesIn(w[k]) = {current} /\ \A j \in Tellers(w) : j <= k

\* StatusIsTold in these terms.
LEMMA StatusTold ==
  StatusIsTold <=>
    (scriptSub =>
       \/ Tellers(wire) = {} /\ status.known /\ status.value = ServerStatus(chain, mempool)
       \/ TellsLast(wire, ServerStatus(chain, mempool)))
BY DEF StatusIsTold, Tellers, TellsLast

\* What is put behind, and tells nothing, leaves the last status what it was.
LEMMA NothingTold ==
  ASSUME NEW w, NEW u, IsSeq(w), IsSeq(u), Tellers(u) = {}
  PROVE  /\ Tellers(w) = {} => Tellers(w \o u) = {}
         /\ \A s : TellsLast(w, s) => TellsLast(w \o u, s)
<1>1. \A k \in DOMAIN u : StatusesIn(u[k]) = {}
  BY DEF Tellers
<1>2. ASSUME NEW k \in Tellers(w \o u) PROVE k \in Tellers(w)
  <2>1. k \in DOMAIN (w \o u) /\ StatusesIn((w \o u)[k]) # {}
    BY DEF Tellers
  <2>2. \/ k \in DOMAIN w /\ (w \o u)[k] = w[k]
        \/ k - Len(w) \in DOMAIN u /\ (w \o u)[k] = u[k - Len(w)]
    BY <2>1, JoinedElements
  <2>3. QED
    BY <1>1, <2>1, <2>2 DEF Tellers
<1>3. ASSUME NEW k \in Tellers(w) PROVE k \in Tellers(w \o u) /\ (w \o u)[k] = w[k]
  <2>1. k \in 1 .. Len(w) /\ StatusesIn(w[k]) # {}
    BY Joined DEF Tellers
  <2>2. (w \o u)[k] = w[k]
    BY <2>1, Joined
  <2>3. k \in DOMAIN (w \o u)
    BY <2>1, Joined
  <2>4. QED
    BY <2>1, <2>2, <2>3 DEF Tellers
<1>4. ASSUME NEW s, TellsLast(w, s) PROVE TellsLast(w \o u, s)
  <2>1. PICK k \in Tellers(w) : StatusesIn(w[k]) = {s} /\ \A j \in Tellers(w) : j <= k
    BY <1>4 DEF TellsLast
  <2>2. QED
    BY <1>2, <1>3, <2>1 DEF TellsLast
<1>5. QED
  BY <1>2, <1>4

\* What is put behind tells the last status if it tells any.
LEMMA LastTold ==
  ASSUME NEW w, NEW u, IsSeq(w), IsSeq(u), NEW s, TellsLast(u, s)
  PROVE  TellsLast(w \o u, s)
<1>1. PICK k \in Tellers(u) : StatusesIn(u[k]) = {s} /\ \A j \in Tellers(u) : j <= k
  BY DEF TellsLast
<1>2. k \in 1 .. Len(u) /\ Len(w) \in Nat /\ Len(u) \in Nat
  BY Joined DEF Tellers
<1>3. PICK p : p = Len(w) + k
  OBVIOUS
<1>4. (w \o u)[p] = u[k] /\ p \in DOMAIN (w \o u)
  <2>1. (w \o u)[p] = u[k]
    BY <1>2, <1>3, Joined
  <2>2. p \in 1 .. Len(w) + Len(u)
    BY <1>2, <1>3
  <2>3. QED
    BY <2>1, <2>2, Joined
<1>5. p \in Tellers(w \o u)
  BY <1>1, <1>4 DEF Tellers
<1>6. ASSUME NEW j \in Tellers(w \o u) PROVE j <= p
  <2>1. j \in DOMAIN (w \o u) /\ StatusesIn((w \o u)[j]) # {}
    BY DEF Tellers
  <2>2. \/ j \in DOMAIN w
        \/ j - Len(w) \in DOMAIN u /\ (w \o u)[j] = u[j - Len(w)]
    BY <2>1, JoinedElements
  <2>3. CASE j \in DOMAIN w
    <3>1. j \in 1 .. Len(w)
      BY <2>3, Joined
    <3>2. QED
      BY <1>2, <1>3, <3>1
  <2>4. CASE j - Len(w) \in DOMAIN u /\ (w \o u)[j] = u[j - Len(w)]
    <3>1. j - Len(w) \in Tellers(u)
      BY <2>1, <2>4 DEF Tellers
    <3>2. j - Len(w) <= k
      BY <1>1, <3>1
    <3>3. j \in 1 .. Len(w) + Len(u)
      BY <2>1, Joined
    <3>4. QED
      BY <1>2, <1>3, <3>2, <3>3
  <2>5. QED
    BY <2>2, <2>3, <2>4
<1>7. QED
  BY <1>1, <1>4, <1>5, <1>6 DEF TellsLast

\* One message tells its status.
LEMMA OneTells ==
  ASSUME NEW x
  PROVE  /\ StatusesIn(x) = {} => Tellers(<<x>>) = {}
         /\ \A s : StatusesIn(x) = {s} => TellsLast(<<x>>, s)
<1>1. DOMAIN <<x>> = {1} /\ <<x>>[1] = x
  OBVIOUS
<1>2. ASSUME NEW s, StatusesIn(x) = {s} PROVE TellsLast(<<x>>, s)
  <2>1. Tellers(<<x>>) = {1}
    BY <1>1, <1>2 DEF Tellers
  <2>2. QED
    BY <1>1, <1>2, <2>1 DEF TellsLast
<1>3. QED
  BY <1>1, <1>2 DEF Tellers

\* Once the first message is read, the others tell what they told.
LEMMA FirstRead ==
  ASSUME NEW w, IsSeq(w), w # <<>>
  PROVE  /\ Tellers(w) = {} => Tellers(Tail(w)) = {} /\ StatusesIn(Head(w)) = {}
         /\ \A s : TellsLast(w, s) =>
              \/ Tellers(Tail(w)) = {} /\ StatusesIn(Head(w)) = {s}
              \/ TellsLast(Tail(w), s)
<1>1. /\ Len(w) \in Nat \ {0} /\ DOMAIN w = 1 .. Len(w) /\ DOMAIN Tail(w) = 1 .. Len(w) - 1
      /\ Head(w) = w[1] /\ \A k \in 1 .. Len(w) - 1 : Tail(w)[k] = w[k + 1]
  BY Taken
<1>2. PICK v : v = Tail(w)
  OBVIOUS
<1>3. ASSUME NEW k \in Tellers(v) PROVE k + 1 \in Tellers(w) /\ w[k + 1] = v[k] /\ k \in Nat
  <2>1. k \in 1 .. Len(w) - 1 /\ StatusesIn(v[k]) # {}
    BY <1>1, <1>2 DEF Tellers
  <2>2. k + 1 \in 1 .. Len(w) /\ w[k + 1] = v[k]
    BY <1>1, <1>2, <2>1
  <2>3. QED
    BY <1>1, <2>1, <2>2 DEF Tellers
<1>4. ASSUME NEW k \in Tellers(w), k # 1 PROVE k - 1 \in Tellers(v) /\ v[k - 1] = w[k]
  <2>1. k \in 1 .. Len(w) /\ StatusesIn(w[k]) # {}
    BY <1>1 DEF Tellers
  <2>2. k - 1 \in 1 .. Len(w) - 1 /\ (k - 1) + 1 = k
    BY <1>1, <1>4, <2>1
  <2>3. v[k - 1] = w[k] /\ k - 1 \in DOMAIN v
    BY <1>1, <1>2, <2>2
  <2>4. QED
    BY <2>1, <2>3 DEF Tellers
<1>5. 1 \in DOMAIN w
  BY <1>1
<1>6. ASSUME NEW s, TellsLast(w, s)
      PROVE  (Tellers(v) = {} /\ StatusesIn(w[1]) = {s}) \/ TellsLast(v, s)
  <2>1. PICK k \in Tellers(w) : StatusesIn(w[k]) = {s} /\ \A j \in Tellers(w) : j <= k
    BY <1>6 DEF TellsLast
  <2>2. CASE k = 1
    <3>1. ASSUME NEW j \in Tellers(v) PROVE FALSE
      <4>1. j + 1 \in Tellers(w) /\ j \in Nat
        BY <1>3
      <4>2. j + 1 <= 1
        BY <2>1, <2>2, <4>1
      <4>3. j \in DOMAIN v
        BY DEF Tellers
      <4>4. QED
        BY <1>1, <1>2, <4>2, <4>3
    <3>2. QED
      BY <2>1, <2>2, <3>1
  <2>3. CASE k # 1
    <3>1. k - 1 \in Tellers(v) /\ v[k - 1] = w[k]
      BY <1>4, <2>3
    <3>2. ASSUME NEW j \in Tellers(v) PROVE j <= k - 1
      <4>1. j + 1 \in Tellers(w) /\ j \in Nat
        BY <1>3
      <4>2. j + 1 <= k
        BY <2>1, <4>1
      <4>3. k \in Nat
        BY <1>1 DEF Tellers
      <4>4. QED
        BY <4>1, <4>2, <4>3
    <3>3. QED
      BY <2>1, <3>1, <3>2 DEF TellsLast
  <2>4. QED
    BY <2>2, <2>3
<1>7. ASSUME Tellers(w) = {} PROVE Tellers(v) = {} /\ StatusesIn(w[1]) = {}
  BY <1>3, <1>5, <1>7 DEF Tellers
<1>8. QED
  BY <1>1, <1>2, <1>6, <1>7

\* An event leaves the status alone, or sets it to the one that the message
\* tells.
LEMMA KeepTells ==
  ASSUME NEW msg, msg.type \in {"notification", "result", "error"}, NEW event \in EventOf(msg),
         Keep(event, msg)
  PROVE  \/ StatusesIn(msg) = {} /\ status' = status
         \/ \E s : StatusesIn(msg) = {s} /\ status' = [known |-> TRUE, value |-> s]
<1>1. status' =
        CASE event.type = "Response" /\ event.req.kind = "ScriptHashSubscribe" ->
               [known |-> TRUE, value |-> event.resp.status]
          [] event.type = "Notification" /\ event.of.type = "ScriptHash" ->
               [known |-> TRUE, value |-> event.of.status]
          [] OTHER -> status
  BY DEF Keep
<1>2. CASE msg.type = "error"
  <2>1. event.type = "ResponseError"
    BY <1>2 DEF EventOf
  <2>2. StatusesIn(msg) = {}
    BY <1>2 DEF StatusesIn
  <2>3. QED
    BY <1>1, <2>1, <2>2
<1>3. CASE msg.type = "result"
  <2>1. PICK resp \in DecodeResponse(msg.req, msg.value) :
          event = [type |-> "Response", req |-> msg.req, resp |-> resp]
    BY <1>3 DEF EventOf
  <2>2. event.type = "Response" /\ event.req = msg.req /\ event.resp = resp
    BY <2>1
  <2>3. CASE msg.req.kind = "ScriptHashSubscribe"
    <3>1. DecodeResponse(msg.req, msg.value) = {[status |-> msg.value]}
      BY <2>3 DEF DecodeResponse
    <3>2. resp.status = msg.value
      BY <2>1, <3>1
    <3>3. StatusesIn(msg) = {msg.value}
      BY <1>3, <2>3 DEF StatusesIn
    <3>4. QED
      BY <1>1, <2>2, <2>3, <3>2, <3>3
  <2>4. CASE msg.req.kind # "ScriptHashSubscribe"
    BY <1>1, <1>3, <2>2, <2>4 DEF StatusesIn
  <2>5. QED
    BY <2>3, <2>4
<1>4. CASE msg.type = "notification"
  <2>1. PICK of \in DecodeNotification(msg) : event = [type |-> "Notification", of |-> of]
    BY <1>4 DEF EventOf
  <2>2. event.type = "Notification" /\ event.of = of
    BY <2>1
  <2>3. CASE msg.method = "blockchain.scripthash.subscribe"
    <3>1. DecodeNotification(msg) = {[type |-> "ScriptHash", status |-> msg.params[2]]}
      BY <2>3 DEF DecodeNotification
    <3>2. of.type = "ScriptHash" /\ of.status = msg.params[2]
      BY <2>1, <3>1
    <3>3. StatusesIn(msg) = {msg.params[2]}
      BY <1>4, <2>3 DEF StatusesIn
    <3>4. QED
      BY <1>1, <2>2, <3>2, <3>3
  <2>4. CASE msg.method # "blockchain.scripthash.subscribe"
    <3>1. of.type # "ScriptHash"
      BY <2>1, <2>4 DEF DecodeNotification
    <3>2. StatusesIn(msg) = {}
      BY <1>4, <2>4 DEF StatusesIn
    <3>3. QED
      BY <1>1, <2>2, <3>1, <3>2
  <2>5. QED
    BY <2>3, <2>4
<1>5. QED
  BY <1>2, <1>3, <1>4

\* What subscribers are told, and the status that they are told last.
LEMMA NoticesTell ==
  ASSUME NEW c, NEW pool, NEW u, u = Notices(c, pool)
  PROVE  /\ IsSeq(u)
         /\ \A k \in DOMAIN u : u[k] = TipNotice(c) \/ \E s : u[k] = StatusNotice(s)
         /\ ServerStatus(c, pool) = ServerStatus(chain, mempool) => Tellers(u) = {}
         /\ scriptSub /\ ServerStatus(c, pool) # ServerStatus(chain, mempool) =>
              TellsLast(u, ServerStatus(c, pool))
<1>1. PICK s : s = ServerStatus(c, pool)
  OBVIOUS
<1>2. PICK x : x = TipNotice(c)
  OBVIOUS
<1>3. PICK y : y = StatusNotice(s)
  OBVIOUS
<1>4. PICK a : a = IF headerSub /\ c # chain THEN <<x>> ELSE <<>>
  OBVIOUS
<1>5. PICK b : b = IF scriptSub /\ s # ServerStatus(chain, mempool) THEN <<y>> ELSE <<>>
  OBVIOUS
<1>6. u = a \o b
  BY <1>1, <1>2, <1>3, <1>4, <1>5 DEF Notices, TipNotice, StatusNotice
<1>7. IsSeq(<<>>) /\ Tellers(<<>>) = {} /\ DOMAIN <<>> = {}
  BY DEF IsSeq, Tellers
<1>8. StatusesIn(x) = {} /\ StatusesIn(y) = {s}
  BY <1>2, <1>3 DEF TipNotice, StatusNotice, StatusesIn
<1>9. /\ IsSeq(<<x>>) /\ DOMAIN <<x>> = {1} /\ <<x>>[1] = x
      /\ IsSeq(<<y>>) /\ DOMAIN <<y>> = {1} /\ <<y>>[1] = y
  BY <1>7, OneMore
<1>10. IsSeq(a) /\ Tellers(a) = {} /\ \A k \in DOMAIN a : a[k] = x
  BY <1>4, <1>7, <1>8, <1>9, OneTells
<1>11. IsSeq(b) /\ \A k \in DOMAIN b : b[k] = y
  BY <1>5, <1>7, <1>9
<1>12. IsSeq(u)
  BY <1>6, <1>10, <1>11, Joined
<1>13. ASSUME NEW k \in DOMAIN u PROVE u[k] = x \/ u[k] = y
  <2>1. \/ k \in DOMAIN a /\ u[k] = a[k]
        \/ k - Len(a) \in DOMAIN b /\ u[k] = b[k - Len(a)]
    BY <1>6, <1>10, <1>11, JoinedElements
  <2>2. QED
    BY <1>10, <1>11, <2>1
<1>14. ASSUME s = ServerStatus(chain, mempool) PROVE Tellers(u) = {}
  <2>1. Tellers(b) = {}
    BY <1>5, <1>7, <1>14
  <2>2. QED
    BY <1>6, <1>10, <1>11, <2>1, NothingTold
<1>15. ASSUME scriptSub, s # ServerStatus(chain, mempool) PROVE TellsLast(u, s)
  <2>1. b = <<y>>
    BY <1>5, <1>15
  <2>2. TellsLast(b, s)
    BY <1>8, <2>1, OneTells
  <2>3. QED
    BY <1>6, <1>10, <1>11, <2>2, LastTold
<1>16. QED
  BY <1>1, <1>2, <1>3, <1>12, <1>13, <1>14, <1>15

-----------------------------------------------------------------------------
(***************************************************************************)
(* What is sent, is right.                                                 *)
(***************************************************************************)

\* MessageOK in terms of the headers that were true, for one message.
LEMMA MessageIs == \A msg : MessageOK(msg) <=> MessageFor(msg, ever)
BY DEF MessageOK, MessageFor

\* The same for all messages.
LEMMA WireIs == (\A k \in DOMAIN wire : MessageOK(wire[k])) <=> MessagesFor(wire, ever)
BY MessageIs DEF MessagesFor

\* More headers make no message wrong.
LEMMA MoreIsTrue ==
  ASSUME NEW msg, NEW E, NEW F, E \subseteq F, MessageFor(msg, E)
  PROVE  MessageFor(msg, F)
BY DEF MessageFor

\* A function on the first numbers is a sequence.
LEMMA WireIsSeq ==
  ASSUME NEW w
  PROVE  w = [k \in 1 .. Len(w) |-> w[k]] /\ Len(w) \in Nat <=> IsSeq(w)
<1>1. ASSUME w = [k \in 1 .. Len(w) |-> w[k]], Len(w) \in Nat PROVE IsSeq(w)
  <2>1. PICK S : S = Range(w)
    OBVIOUS
  <2>2. \A k \in 1 .. Len(w) : w[k] \in S
    BY <1>1, <2>1 DEF Range
  <2>3. w \in Seq(S)
    BY <1>1, <2>2
  <2>4. QED
    BY <2>1, <2>3 DEF IsSeq
<1>2. ASSUME IsSeq(w) PROVE w = [k \in 1 .. Len(w) |-> w[k]] /\ Len(w) \in Nat
  <2>1. PICK S : S = Range(w)
    OBVIOUS
  <2>2. w \in Seq(S)
    BY <1>2, <2>1 DEF IsSeq
  <2>3. QED
    BY <2>2
<1>3. QED
  BY <1>1, <1>2

\* Messages that are right are sent behind those on the way.
LEMMA SentKeeps ==
  ASSUME IInv, NEW u, IsSeq(u), wire' = wire \o u, ever \subseteq ever', MessagesFor(u, ever'),
         UNCHANGED walletVars
  PROVE  /\ IsSeq(wire') /\ (\A k \in DOMAIN wire : MessageOK(wire[k]))' /\ WalletOK'
<1>1. IsSeq(wire)
  BY WireIsSeq DEF IInv, TypeOK
<1>2. IsSeq(wire')
  BY <1>1, Joined
<1>3. MessagesFor(wire, ever)
  BY WireIs DEF IInv
<1>4. ASSUME NEW k \in DOMAIN wire' PROVE MessageFor(wire'[k], ever')
  <2>1. PICK w : w = wire
    OBVIOUS
  <2>2. \/ k \in DOMAIN w /\ wire'[k] = w[k]
        \/ k - Len(w) \in DOMAIN u /\ wire'[k] = u[k - Len(w)]
    BY <1>1, <2>1, JoinedElements
  <2>3. \A j \in DOMAIN w : MessageFor(w[j], ever')
    BY <1>3, <2>1, MoreIsTrue DEF MessagesFor
  <2>4. QED
    BY <2>2, <2>3 DEF MessagesFor
<1>5. (\A k \in DOMAIN wire : MessageOK(wire[k]))'
  <2>1. ((\A k \in DOMAIN wire : MessageOK(wire[k])) <=> MessagesFor(wire, ever))'
    BY WireIs, PTL
  <2>2. QED
    BY <1>4, <2>1 DEF MessagesFor
<1>6. WalletOK'
  BY DEF IInv, WalletOK, walletVars
<1>7. QED
  BY <1>2, <1>5, <1>6

\* A change of the server's chain and mempool is told.
LEMMA ChangesKeep ==
  ASSUME IInv, NEW c, NEW pool, Changes(c, pool)
  PROVE  /\ IsSeq(wire') /\ (\A k \in DOMAIN wire : MessageOK(wire[k]))' /\ WalletOK'
         /\ StatusIsTold'
<1>1. /\ chain' = c /\ mempool' = pool /\ wire' = wire \o Notices(c, pool)
      /\ ever' = ever \cup {<<Len(c) - 1, HeaderOf(Last(c))>>}
      /\ scriptSub' = scriptSub /\ UNCHANGED walletVars /\ status' = status
  BY DEF Changes, subVars, walletVars
<1>2. PICK u : u = Notices(c, pool)
  OBVIOUS
<1>3. /\ IsSeq(u)
      /\ \A k \in DOMAIN u : u[k] = TipNotice(c) \/ \E s : u[k] = StatusNotice(s)
      /\ ServerStatus(c, pool) = ServerStatus(chain, mempool) => Tellers(u) = {}
      /\ scriptSub /\ ServerStatus(c, pool) # ServerStatus(chain, mempool) =>
           TellsLast(u, ServerStatus(c, pool))
  BY <1>2, NoticesTell
<1>4. MessagesFor(u, ever')
  <2>1. MessageFor(TipNotice(c), ever')
    BY <1>1, TipNoticeIsOK
  <2>2. (\A s : MessageOK(StatusNotice(s)))'
    BY StatusNoticeIsOK, PTL
  <2>3. (\A msg : MessageOK(msg) <=> MessageFor(msg, ever))'
    BY MessageIs, PTL
  <2>4. MessageFor(TipNotice(c), ever') /\ \A s : MessageFor(StatusNotice(s), ever')
    BY <1>1, <2>1, <2>2, <2>3
  <2>5. QED
    BY <1>3, <2>4 DEF MessagesFor
<1>5. IsSeq(wire') /\ (\A k \in DOMAIN wire : MessageOK(wire[k]))' /\ WalletOK'
  BY <1>1, <1>2, <1>3, <1>4, SentKeeps
<1>6. StatusIsTold'
  <2>1. SUFFICES ASSUME scriptSub
                 PROVE  \/ Tellers(wire') = {} /\ status'.known
                           /\ status'.value = ServerStatus(chain', mempool')
                        \/ TellsLast(wire', ServerStatus(chain', mempool'))
    <3>1. (StatusIsTold <=>
             (scriptSub =>
                \/ Tellers(wire) = {} /\ status.known /\ status.value = ServerStatus(chain, mempool)
                \/ TellsLast(wire, ServerStatus(chain, mempool))))'
      BY StatusTold, PTL
    <3>2. QED
      BY <1>1, <3>1
  <2>2. IsSeq(wire)
    BY WireIsSeq DEF IInv, TypeOK
  <2>3. CASE ServerStatus(c, pool) = ServerStatus(chain, mempool)
    <3>1. \/ Tellers(wire) = {} /\ status.known /\ status.value = ServerStatus(chain, mempool)
          \/ TellsLast(wire, ServerStatus(chain, mempool))
      BY <2>1, StatusTold DEF IInv
    <3>2. Tellers(u) = {}
      BY <1>3, <2>3
    <3>3. /\ Tellers(wire) = {} => Tellers(wire \o u) = {}
          /\ \A s : TellsLast(wire, s) => TellsLast(wire \o u, s)
      BY <1>3, <2>2, <3>2, NothingTold
    <3>4. QED
      BY <1>1, <1>2, <2>3, <3>1, <3>3
  <2>4. CASE ServerStatus(c, pool) # ServerStatus(chain, mempool)
    <3>1. TellsLast(u, ServerStatus(c, pool))
      BY <1>3, <2>1, <2>4
    <3>2. TellsLast(wire \o u, ServerStatus(c, pool))
      BY <1>3, <2>2, <3>1, LastTold
    <3>3. QED
      BY <1>1, <1>2, <3>2
  <2>5. QED
    BY <2>3, <2>4
<1>7. QED
  BY <1>5, <1>6

\* A part of the wallet's transactions is in the mempool.
LEMMA PoolIs ==
  ASSUME NEW c, NEW pool, NEW m, NEW n, Placed(c, pool, m, n)
  PROVE  pool \subseteq Range(WalletTx)
<1>1. m \in Nat /\ n \in Nat /\ n <= Len(WalletTx) /\ pool = {WalletTx[k] : k \in m + 1 .. n}
  BY WalletIs DEF Placed
<1>2. \A k \in m + 1 .. n : k \in DOMAIN WalletTx
  BY <1>1, WalletIs
<1>3. QED
  BY <1>1, <1>2, WalletIs

\* What the server has after a step.
LEMMA ServerKeeps ==
  ASSUME NEW c, NEW pool, chain' = c, mempool' = pool,
         IsSeq(c), made' \in 1 .. MaxBlocks, Len(c) \in 1 .. made',
         Ordered(c), \E m, n : Placed(c, pool, m, n),
         \A t \in Range(WalletTx) : Txid(t) \notin Range(c[1].txids),
         \A k \in DOMAIN c : <<k - 1, HeaderOf(c[k])>> \in ever',
         IsSeq(wire'), headerSub' \in BOOLEAN, scriptSub' \in BOOLEAN
  PROVE  TypeOK' /\ TransactionsInOrder' /\ ChainIsKept'
<1>1. PICK m, n : Placed(c, pool, m, n)
  OBVIOUS
<1>2. TypeOK'
  <2>1. pool \subseteq Range(WalletTx)
    BY <1>1, PoolIs
  <2>2. wire' = [k \in 1 .. Len(wire') |-> wire'[k]] /\ Len(wire') \in Nat
    <3>1. PICK w : w = wire'
      OBVIOUS
    <3>2. w = [k \in 1 .. Len(w) |-> w[k]] /\ Len(w) \in Nat
      BY <3>1, WireIsSeq
    <3>3. QED
      BY <3>1, <3>2
  <2>3. QED
    BY <2>1, <2>2 DEF TypeOK, IsSeq
<1>3. TransactionsInOrder'
  BY <1>1 DEF TransactionsInOrder, Ordered, Placed
<1>4. ChainIsKept'
  <2>1. ASSUME NEW k \in DOMAIN c PROVE <<k - 1, HeaderOf(c[k - 1 + 1])>> \in ever'
    <3>1. DOMAIN c = 1 .. Len(c)
      BY SeqIs DEF IsSeq
    <3>2. k - 1 + 1 = k
      BY <3>1
    <3>3. QED
      BY <3>2
  <2>2. QED
    BY <2>1 DEF ChainIsKept, HeaderAt
<1>5. QED
  BY <1>2, <1>3, <1>4

\* What the server has before a step.
LEMMA ServerHas ==
  ASSUME IInv
  PROVE  /\ ServerOK /\ IsSeq(chain) /\ IsSeq(wire) /\ Ordered(chain)
         /\ \E m, n : Placed(chain, mempool, m, n)
         /\ DOMAIN chain = 1 .. Len(chain) /\ Len(chain) \in 1 .. made /\ made \in 1 .. MaxBlocks
         /\ \A t \in Range(WalletTx) : Txid(t) \notin Range(chain[1].txids)
         /\ \A k \in DOMAIN chain : <<k - 1, HeaderOf(chain[k])>> \in ever
         /\ headerSub \in BOOLEAN /\ scriptSub \in BOOLEAN
<1>1. ServerOK
  BY DEF IInv, ServerOK
<1>2. IsSeq(chain) /\ DOMAIN chain = 1 .. Len(chain) /\ \E m, n : Placed(chain, mempool, m, n)
  BY <1>1, ServerIs, SeqIs DEF ChainOK, IsSeq
<1>3. IsSeq(wire)
  BY WireIsSeq DEF IInv, TypeOK
<1>4. Ordered(chain)
  BY DEF IInv, TransactionsInOrder, Ordered
<1>5. \A t \in Range(WalletTx) : Txid(t) \notin Range(chain[1].txids)
  BY DEF IInv, TransactionsInOrder
<1>6. ASSUME NEW k \in DOMAIN chain PROVE <<k - 1, HeaderOf(chain[k])>> \in ever
  <2>1. k - 1 + 1 = k
    BY <1>2
  <2>2. <<k - 1, HeaderOf(chain[k - 1 + 1])>> \in ever
    BY DEF IInv, ChainIsKept, HeaderAt
  <2>3. QED
    BY <2>1, <2>2
<1>7. /\ Len(chain) \in 1 .. made /\ made \in 1 .. MaxBlocks
      /\ headerSub \in BOOLEAN /\ scriptSub \in BOOLEAN
  BY DEF IInv, TypeOK
<1>8. QED
  BY <1>1, <1>2, <1>3, <1>4, <1>5, <1>6, <1>7

-----------------------------------------------------------------------------
(***************************************************************************)
(* The steps.                                                              *)
(***************************************************************************)

\* A block, which may replace the tip.
LEMMA ExtendKeeps ==
  ASSUME IInv, NEW n, NEW filler \in Fillers, Extend(n, filler)
  PROVE  IInv'
<1>1. /\ ServerOK /\ IsSeq(chain) /\ Ordered(chain)
      /\ DOMAIN chain = 1 .. Len(chain) /\ Len(chain) \in 1 .. made /\ made \in 1 .. MaxBlocks
      /\ \A t \in Range(WalletTx) : Txid(t) \notin Range(chain[1].txids)
      /\ \A k \in DOMAIN chain : <<k - 1, HeaderOf(chain[k])>> \in ever
      /\ headerSub \in BOOLEAN /\ scriptSub \in BOOLEAN
  BY ServerHas
<1>2. PICK kept, first, last :
        kept = SubSeq(chain, 1, n) /\ first = Count(kept, {}) + 1 /\ last = Count(chain, mempool)
  OBVIOUS
<1>3. PICK k \in first - 1 .. last :
        Changes(Append(kept, BlockWith(SubSeq(WalletTx, first, k), filler)),
                Range(SubSeq(WalletTx, k + 1, last)))
  BY <1>2 DEF Extend
<1>4. PICK c, pool : /\ c = Append(kept, BlockWith(SubSeq(WalletTx, first, k), filler))
                     /\ pool = Range(SubSeq(WalletTx, k + 1, last))
  OBVIOUS
<1>5. /\ n \in DOMAIN chain /\ n \in 1 .. Len(chain) /\ filler \in Nat
      /\ made' = made + 1 /\ made < MaxBlocks /\ MaxBlocks \in Nat
  <2>1. filler \in Nat /\ MaxBlocks \in Nat
    BY BoundsAre
  <2>2. /\ made < MaxBlocks /\ n \in {Len(chain), Len(chain) - 1} \ {0}
        /\ made' = made + 1
    BY DEF Extend
  <2>3. n \in 1 .. Len(chain)
    <3>1. \A l \in 1 .. made : made \in 1 .. MaxBlocks /\ MaxBlocks \in Nat => l \in Nat \ {0}
      OBVIOUS
    <3>2. Len(chain) \in Nat \ {0}
      BY <1>1, <2>1, <3>1
    <3>3. QED
      BY <2>2, <3>2
  <2>4. QED
    BY <1>1, <2>1, <2>2, <2>3
<1>6. /\ Ordered(c) /\ \E p, q : Placed(c, pool, p, q)
      /\ IsSeq(c) /\ Len(c) = n + 1 /\ DOMAIN c = 1 .. n + 1
      /\ \A i \in 1 .. n : c[i] = chain[i]
  <2>1. ServerOK /\ n \in DOMAIN chain /\ filler \in Nat
    BY <1>1, <1>5
  <2>2. Extended(n, filler, kept, first, last, k, c, pool)
    BY <1>2, <1>3, <1>4 DEF Extended
  <2>3. QED
    BY <2>1, <2>2, ExtendIs
<1>7. Changes(c, pool)
  BY <1>3, <1>4
<1>8. /\ chain' = c /\ mempool' = pool /\ headerSub' = headerSub /\ scriptSub' = scriptSub
      /\ ever' = ever \cup {<<Len(c) - 1, HeaderOf(Last(c))>>}
  BY <1>7 DEF Changes, subVars
<1>9. IsSeq(wire') /\ (\A j \in DOMAIN wire : MessageOK(wire[j]))' /\ WalletOK' /\ StatusIsTold'
  BY <1>7, ChangesKeep
<1>10. ASSUME NEW j \in DOMAIN c PROVE <<j - 1, HeaderOf(c[j])>> \in ever'
  <2>1. CASE j = n + 1
    BY <1>6, <1>8, <2>1 DEF Last
  <2>2. CASE j # n + 1
    <3>1. j \in 1 .. n /\ j \in 1 .. Len(chain)
      BY <1>1, <1>5, <1>6, <2>2
    <3>2. c[j] = chain[j] /\ <<j - 1, HeaderOf(chain[j])>> \in ever
      BY <1>1, <1>6, <3>1
    <3>3. QED
      BY <1>8, <3>2
  <2>3. QED
    BY <2>1, <2>2
<1>11. c[1] = chain[1] /\ made' \in 1 .. MaxBlocks /\ Len(c) \in 1 .. made'
  BY <1>1, <1>5, <1>6
<1>12. TypeOK' /\ TransactionsInOrder' /\ ChainIsKept'
  <2>1. \A t \in Range(WalletTx) : Txid(t) \notin Range(c[1].txids)
    BY <1>1, <1>11
  <2>2. headerSub' \in BOOLEAN /\ scriptSub' \in BOOLEAN
    BY <1>1, <1>8
  <2>3. QED
    BY <1>6, <1>8, <1>9, <1>10, <1>11, <2>1, <2>2, ServerKeeps
<1>13. QED
  BY <1>9, <1>12 DEF IInv

\* A transaction from elsewhere.
LEMMA BroadcastKeeps ==
  ASSUME IInv, Broadcast
  PROVE  IInv'
<1>1. /\ IsSeq(chain) /\ Ordered(chain)
      /\ Len(chain) \in 1 .. made /\ made \in 1 .. MaxBlocks
      /\ \A t \in Range(WalletTx) : Txid(t) \notin Range(chain[1].txids)
      /\ \A k \in DOMAIN chain : <<k - 1, HeaderOf(chain[k])>> \in ever
      /\ headerSub \in BOOLEAN /\ scriptSub \in BOOLEAN
  BY ServerHas
<1>2. PICK t \in Range(WalletTx) : Accepted(<<t>>) # {} /\ Changes(chain, mempool \cup {t})
  BY DEF Broadcast
<1>3. made' = made
  BY DEF Broadcast
<1>4. Accepted(<<t>>) = {t}
  <2>1. Range(<<t>>) = {t}
    BY DEF Range
  <2>2. QED
    BY <1>2, <2>1 DEF Accepted
<1>5. PICK c, pool : c = chain /\ pool = mempool \cup {t}
  OBVIOUS
<1>6. Changes(c, pool)
  BY <1>2, <1>5
<1>7. \E m, n : Placed(c, pool, m, n)
  <2>1. PICK m, n : Placed(chain, mempool, m, n)
    BY ServerHas
  <2>2. PICK txs : txs = <<t>>
    OBVIOUS
  <2>3. Len(txs) \in Nat
    BY <2>2
  <2>4. \E p : Placed(chain, mempool \cup Accepted(txs), m, p)
    BY <2>1, <2>3, AcceptedIs
  <2>5. QED
    BY <1>4, <1>5, <2>2, <2>4
<1>8. /\ chain' = c /\ mempool' = pool /\ headerSub' = headerSub /\ scriptSub' = scriptSub
      /\ ever \subseteq ever'
  BY <1>6 DEF Changes, subVars
<1>9. IsSeq(wire') /\ (\A j \in DOMAIN wire : MessageOK(wire[j]))' /\ WalletOK' /\ StatusIsTold'
  BY <1>6, ChangesKeep
<1>10. TypeOK' /\ TransactionsInOrder' /\ ChainIsKept'
  <2>1. \A k \in DOMAIN c : <<k - 1, HeaderOf(c[k])>> \in ever'
    BY <1>1, <1>5, <1>8
  <2>2. \A s \in Range(WalletTx) : Txid(s) \notin Range(c[1].txids)
    BY <1>1, <1>5
  <2>3. /\ IsSeq(c) /\ made' \in 1 .. MaxBlocks /\ Len(c) \in 1 .. made' /\ Ordered(c)
        /\ headerSub' \in BOOLEAN /\ scriptSub' \in BOOLEAN
    BY <1>1, <1>3, <1>5, <1>8
  <2>4. QED
    BY <1>7, <1>8, <1>9, <2>1, <2>2, <2>3, ServerKeeps
<1>11. QED
  BY <1>9, <1>10 DEF IInv

\* The message with the answer to a request.
ReplyMessage(req) ==
  [type |-> Reply(req).type, req |-> req, of |-> OfRequest(req), value |-> Reply(req).value]

\* The answer to a request is right.
LEMMA ReplyIsOK ==
  ASSUME ServerOK, NEW req \in Requests \cup LoneRequests
  PROVE  MessageOK(ReplyMessage(req))
<1>1. PICK value, of : value = Reply(req).value /\ of = OfRequest(req)
  OBVIOUS
<1>2. CASE Reply(req).type = "error"
  <2>1. ReplyMessage(req) = [type |-> "error", req |-> req, of |-> of, value |-> value]
    BY <1>1, <1>2 DEF ReplyMessage
  <2>2. QED
    BY <2>1, ErrorIsOK
<1>3. CASE Reply(req).type = "result" /\ Right(req, Reply(req).value, OfRequest(req))
  <2>1. ReplyMessage(req) = [type |-> "result", req |-> req, of |-> of, value |-> value]
    BY <1>1, <1>3 DEF ReplyMessage
  <2>2. QED
    BY <1>1, <1>3, <2>1, ResultIsOK
<1>4. QED
  BY <1>2, <1>3, AllAnswered DEF Answered

\* Only the answer to a subscription tells a status, and then the one that
\* the server has.
LEMMA ReplyTells ==
  ASSUME NEW req
  PROVE  /\ req.kind = "ScriptHashSubscribe" =>
              StatusesIn(ReplyMessage(req)) = {ServerStatus(chain, mempool)}
         /\ req.kind # "ScriptHashSubscribe" /\ Reply(req).type \in {"result", "error"} =>
              StatusesIn(ReplyMessage(req)) = {}
<1>1. PICK msg : msg = ReplyMessage(req)
  OBVIOUS
<1>2. msg.type = Reply(req).type /\ msg.req = req /\ msg.value = Reply(req).value
  BY <1>1 DEF ReplyMessage
<1>3. CASE req.kind = "ScriptHashSubscribe"
  <2>1. MethodAndParams(req) = SubscribeCall(req)
    BY <1>3 DEF MethodAndParams, HeaderKinds, FeeKinds, CoinKinds, SubscribeKinds, TxKinds,
                PoolKinds, SpKinds
  <2>2. MethodAndParams(req) = <<"blockchain.scripthash.subscribe", <<req.script_hash>>>>
    BY <1>3, <2>1 DEF SubscribeCall
  <2>3. PICK params : params = <<req.script_hash>>
    OBVIOUS
  <2>4. Reply(req) = Answer("blockchain.scripthash.subscribe", params)
    BY <2>2, <2>3, ReplyIs
  <2>5. Reply(req) = [type |-> "result", value |-> ServerStatus(chain, mempool)]
    BY <2>4 DEF Answer
  <2>6. QED
    BY <1>1, <1>2, <1>3, <2>5 DEF StatusesIn
<1>4. CASE req.kind # "ScriptHashSubscribe" /\ Reply(req).type \in {"result", "error"}
  BY <1>1, <1>2, <1>4 DEF StatusesIn
<1>5. QED
  BY <1>3, <1>4

\* Nothing but the transactions that a request brings changes the mempool.
LEMMA WantedIs ==
  ASSUME NEW req \in Requests \cup LoneRequests
  PROVE  /\ Len(Wanted(req)) \in Nat
         /\ req.kind = "ScriptHashSubscribe" => Accepted(Wanted(req)) = {}
<1>1. req.kind \in {"BroadcastPackage", "BroadcastPackageVerbose"} => req.txs = WalletTx
  BY DEF Requests, LoneRequests
<1>2. Len(WalletTx) \in Nat
  BY WalletIs
<1>3. \A x : Len(<<x>>) \in Nat
  OBVIOUS
<1>4. Len(<<>>) \in Nat
  OBVIOUS
<1>5. Wanted(req) = <<req.tx>> \/ Wanted(req) = WalletTx \/ Wanted(req) = <<>>
  BY <1>1 DEF Wanted
<1>6. ASSUME req.kind = "ScriptHashSubscribe" PROVE Accepted(Wanted(req)) = {}
  <2>1. Wanted(req) = <<>>
    BY <1>6 DEF Wanted
  <2>2. Range(<<>>) = {}
    BY DEF Range
  <2>3. QED
    BY <2>1, <2>2 DEF Accepted
<1>7. QED
  BY <1>2, <1>3, <1>4, <1>5, <1>6

\* A scan tells no status.
LEMMA ScanTellsNone ==
  ASSUME NEW req, NEW params
  PROVE  StatusesIn(ScanNotice(req, params)) = {}
<1>1. PICK msg : msg = ScanNotice(req, params)
  OBVIOUS
<1>2. msg.type = "notification" /\ msg.method = "blockchain.silentpayments.subscribe"
  BY <1>1 DEF ScanNotice
<1>3. QED
  BY <1>1, <1>2 DEF StatusesIn

\* What is sent when a request is answered: the answer, what subscribers are
\* told of the transactions that it brought, and of a scan.
LEMMA AskSends ==
  ASSUME IInv, NEW req \in Requests \cup LoneRequests, Ask(req)
  PROVE  \E u : /\ IsSeq(u) /\ wire' = wire \o u /\ MessagesFor(u, ever')
                /\ scriptSub' => \/ /\ Tellers(u) = {} /\ scriptSub
                                    /\ ServerStatus(chain', mempool') = ServerStatus(chain, mempool)
                                 \/ TellsLast(u, ServerStatus(chain', mempool'))
<1>1. PICK pool : pool = mempool \cup Accepted(Wanted(req))
  OBVIOUS
<1>2. PICK params : params = MethodAndParams(req)[2]
  OBVIOUS
<1>3. PICK a : a = <<ReplyMessage(req)>>
  OBVIOUS
<1>4. PICK b : b = Notices(chain, pool)
  OBVIOUS
<1>5. PICK d : d = IF req.kind = "SpSubscribe" THEN <<ScanNotice(req, params)>> ELSE <<>>
  OBVIOUS
<1>6. /\ wire' = Append(wire, ReplyMessage(req)) \o b \o d
      /\ mempool' = pool /\ chain' = chain /\ ever' = ever
      /\ scriptSub' = ((scriptSub \/ req.kind = "ScriptHashSubscribe")
                       /\ req.kind # "ScriptHashUnsubscribe")
  BY <1>1, <1>2, <1>4, <1>5 DEF Ask, ReplyMessage, Reply, OfRequest
<1>7. ServerOK /\ IsSeq(wire) /\ IsSeq(chain) /\ \A k \in DOMAIN chain : <<k - 1, HeaderOf(chain[k])>> \in ever
  BY ServerHas
<1>8. IsSeq(a) /\ DOMAIN a = {1} /\ a[1] = ReplyMessage(req)
  <2>1. PICK x : x = ReplyMessage(req)
    OBVIOUS
  <2>2. QED
    BY <1>3, <1>7, <2>1, OneMore
<1>9. /\ IsSeq(b)
      /\ \A k \in DOMAIN b : b[k] = TipNotice(chain) \/ \E s : b[k] = StatusNotice(s)
      /\ ServerStatus(chain, pool) = ServerStatus(chain, mempool) => Tellers(b) = {}
      /\ scriptSub /\ ServerStatus(chain, pool) # ServerStatus(chain, mempool) =>
           TellsLast(b, ServerStatus(chain, pool))
  BY <1>4, NoticesTell
<1>10. IsSeq(d) /\ Tellers(d) = {}
       /\ \A k \in DOMAIN d : req.kind = "SpSubscribe" /\ d[k] = ScanNotice(req, params)
  <2>1. CASE req.kind = "SpSubscribe"
    <3>1. PICK x : x = ScanNotice(req, params)
      OBVIOUS
    <3>2. StatusesIn(x) = {}
      BY <3>1, ScanTellsNone
    <3>3. IsSeq(<<x>>) /\ DOMAIN <<x>> = {1} /\ <<x>>[1] = x /\ Tellers(<<x>>) = {}
      BY <1>7, <3>2, OneMore, OneTells
    <3>4. QED
      BY <1>5, <2>1, <3>1, <3>3
  <2>2. CASE req.kind # "SpSubscribe"
    BY <1>5, <2>2 DEF IsSeq, Tellers
  <2>3. QED
    BY <2>1, <2>2
<1>11. PICK ab : ab = a \o b
  OBVIOUS
<1>12. PICK u : u = ab \o d
  OBVIOUS
<1>13. IsSeq(ab) /\ IsSeq(u)
  BY <1>8, <1>9, <1>10, <1>11, <1>12, Joined
<1>14. wire' = wire \o u
  <2>1. Append(wire, ReplyMessage(req)) = wire \o a
    <3>1. PICK x : x = ReplyMessage(req)
      OBVIOUS
    <3>2. QED
      BY <1>3, <1>7, <3>1, OneMore
  <2>2. PICK S : S = Range(wire) \cup Range(a) \cup Range(b) \cup Range(d)
    OBVIOUS
  <2>3. wire \in Seq(S) /\ a \in Seq(S) /\ b \in Seq(S) /\ d \in Seq(S)
    <3>1. \A A, B, x : x \in Seq(A) /\ A \subseteq B => x \in Seq(B)
      OBVIOUS
    <3>2. QED
      BY <1>7, <1>8, <1>9, <1>10, <2>2, <3>1 DEF IsSeq
  <2>5. wire' = ((wire \o a) \o b) \o d
    BY <1>6, <2>1
  <2>6. ((wire \o a) \o b) \o d = wire \o ((a \o b) \o d)
    <3>1. PICK w : w = wire
      OBVIOUS
    <3>2. w \in Seq(S) /\ a \in Seq(S) /\ b \in Seq(S) /\ d \in Seq(S)
      BY <2>3, <3>1
    <3>3. ((w \o a) \o b) \o d = w \o ((a \o b) \o d)
      BY <3>2, JoinedThrice, SMTT(60)
    <3>4. QED
      BY <3>1, <3>3
  <2>7. QED
    BY <1>11, <1>12, <2>5, <2>6
<1>15. MessagesFor(u, ever')
  <2>1. MessageFor(ReplyMessage(req), ever)
    BY <1>7, ReplyIsOK, MessageIs
  <2>2. MessageFor(TipNotice(chain), ever)
    <3>1. Len(chain) \in DOMAIN chain /\ Last(chain) = chain[Len(chain)]
      BY ServerHas DEF Last
    <3>2. <<Len(chain) - 1, HeaderOf(Last(chain))>> \in ever
      BY <1>7, <3>1
    <3>3. QED
      BY <3>2, TipNoticeIsOK
  <2>3. \A s : MessageFor(StatusNotice(s), ever)
    BY StatusNoticeIsOK, MessageIs
  <2>4. req.kind = "SpSubscribe" => MessageFor(ScanNotice(req, params), ever)
    BY <1>2, ScanNoticeIsOK, MessageIs
  <2>5. ASSUME NEW k \in DOMAIN u PROVE MessageFor(u[k], ever)
    <3>1. \/ k \in DOMAIN ab /\ u[k] = ab[k]
          \/ k - Len(ab) \in DOMAIN d /\ u[k] = d[k - Len(ab)]
      BY <1>10, <1>12, <1>13, JoinedElements
    <3>2. ASSUME NEW j \in DOMAIN ab PROVE MessageFor(ab[j], ever)
      <4>1. \/ j \in DOMAIN a /\ ab[j] = a[j]
            \/ j - Len(a) \in DOMAIN b /\ ab[j] = b[j - Len(a)]
        BY <1>8, <1>9, <1>11, JoinedElements
      <4>2. QED
        BY <1>8, <1>9, <2>1, <2>2, <2>3, <4>1
    <3>3. QED
      BY <1>10, <2>4, <3>1, <3>2
  <2>6. QED
    BY <1>6, <2>5 DEF MessagesFor
<1>16. ASSUME scriptSub'
       PROVE  \/ /\ Tellers(u) = {} /\ scriptSub
                 /\ ServerStatus(chain, pool) = ServerStatus(chain, mempool)
              \/ TellsLast(u, ServerStatus(chain, pool))
  <2>1. Reply(req).type \in {"result", "error"}
    BY <1>7, AllAnswered DEF Answered
  <2>2. CASE req.kind = "ScriptHashSubscribe"
    <3>1. PICK s : s = ServerStatus(chain, mempool)
      OBVIOUS
    <3>2. pool = mempool
      BY <1>1, <2>2, WantedIs
    <3>3. TellsLast(a, s)
      <4>1. PICK x : x = ReplyMessage(req)
        OBVIOUS
      <4>2. StatusesIn(x) = {s}
        BY <2>2, <3>1, <4>1, ReplyTells
      <4>3. QED
        BY <1>3, <4>1, <4>2, OneTells
    <3>4. Tellers(b) = {}
      BY <1>9, <3>2
    <3>5. TellsLast(ab, s)
      BY <1>8, <1>9, <1>11, <3>3, <3>4, NothingTold
    <3>6. TellsLast(u, s)
      BY <1>10, <1>12, <1>13, <3>5, NothingTold
    <3>7. QED
      BY <3>1, <3>2, <3>6
  <2>3. CASE req.kind # "ScriptHashSubscribe"
    <3>1. scriptSub
      BY <1>6, <1>16, <2>3
    <3>2. Tellers(a) = {}
      <4>1. PICK x : x = ReplyMessage(req)
        OBVIOUS
      <4>2. StatusesIn(x) = {}
        BY <2>1, <2>3, <4>1, ReplyTells
      <4>3. QED
        BY <1>3, <4>1, <4>2, OneTells
    <3>3. CASE ServerStatus(chain, pool) = ServerStatus(chain, mempool)
      <4>1. Tellers(ab) = {}
        BY <1>8, <1>9, <1>11, <3>2, <3>3, NothingTold
      <4>2. Tellers(u) = {}
        BY <1>10, <1>12, <1>13, <4>1, NothingTold
      <4>3. QED
        BY <3>1, <3>3, <4>2
    <3>4. CASE ServerStatus(chain, pool) # ServerStatus(chain, mempool)
      <4>1. PICK s : s = ServerStatus(chain, pool)
        OBVIOUS
      <4>2. TellsLast(b, s)
        BY <1>9, <3>1, <3>4, <4>1
      <4>3. TellsLast(ab, s)
        BY <1>8, <1>9, <1>11, <4>2, LastTold
      <4>4. TellsLast(u, s)
        BY <1>10, <1>12, <1>13, <4>3, NothingTold
      <4>5. QED
        BY <4>1, <4>4
    <3>5. QED
      BY <3>3, <3>4
  <2>4. QED
    BY <2>2, <2>3
<1>17. QED
  BY <1>6, <1>13, <1>14, <1>15, <1>16

\* A request and its answer.
LEMMA AskKeeps ==
  ASSUME IInv, NEW req \in Requests \cup LoneRequests, Ask(req)
  PROVE  IInv'
<1>1. /\ IsSeq(chain) /\ IsSeq(wire) /\ Ordered(chain)
      /\ Len(chain) \in 1 .. made /\ made \in 1 .. MaxBlocks
      /\ \A t \in Range(WalletTx) : Txid(t) \notin Range(chain[1].txids)
      /\ \A k \in DOMAIN chain : <<k - 1, HeaderOf(chain[k])>> \in ever
      /\ headerSub \in BOOLEAN /\ scriptSub \in BOOLEAN
  BY ServerHas
<1>2. PICK c, pool : c = chain /\ pool = mempool \cup Accepted(Wanted(req))
  OBVIOUS
<1>3. /\ chain' = c /\ mempool' = pool /\ made' = made /\ ever' = ever /\ UNCHANGED walletVars
      /\ headerSub' = (headerSub \/ req.kind = "HeadersSubscribe")
      /\ scriptSub' = ((scriptSub \/ req.kind = "ScriptHashSubscribe")
                       /\ req.kind # "ScriptHashUnsubscribe")
  BY <1>2 DEF Ask
<1>4. PICK u : /\ IsSeq(u) /\ wire' = wire \o u /\ MessagesFor(u, ever')
               /\ scriptSub' => \/ /\ Tellers(u) = {} /\ scriptSub
                                   /\ ServerStatus(chain', mempool') = ServerStatus(chain, mempool)
                                \/ TellsLast(u, ServerStatus(chain', mempool'))
  BY AskSends
<1>5. IsSeq(wire') /\ (\A k \in DOMAIN wire : MessageOK(wire[k]))' /\ WalletOK'
  <2>1. ever \subseteq ever'
    BY <1>3
  <2>2. QED
    BY <1>3, <1>4, <2>1, SentKeeps
<1>6. StatusIsTold'
  <2>1. SUFFICES ASSUME scriptSub'
                 PROVE  \/ Tellers(wire') = {} /\ status'.known
                           /\ status'.value = ServerStatus(chain', mempool')
                        \/ TellsLast(wire', ServerStatus(chain', mempool'))
    <3>1. (StatusIsTold <=>
             (scriptSub =>
                \/ Tellers(wire) = {} /\ status.known /\ status.value = ServerStatus(chain, mempool)
                \/ TellsLast(wire, ServerStatus(chain, mempool))))'
      BY StatusTold, PTL
    <3>2. QED
      BY <3>1
  <2>2. status' = status
    BY <1>3 DEF walletVars
  <2>3. PICK now : now = ServerStatus(chain', mempool')
    OBVIOUS
  <2>4. CASE Tellers(u) = {} /\ scriptSub /\ now = ServerStatus(chain, mempool)
    <3>1. \/ Tellers(wire) = {} /\ status.known /\ status.value = now
          \/ TellsLast(wire, now)
      BY <2>4, StatusTold DEF IInv
    <3>2. /\ Tellers(wire) = {} => Tellers(wire \o u) = {}
          /\ TellsLast(wire, now) => TellsLast(wire \o u, now)
      BY <1>1, <1>4, <2>4, NothingTold
    <3>3. QED
      BY <1>4, <2>2, <2>3, <3>1, <3>2
  <2>5. CASE TellsLast(u, now)
    <3>1. TellsLast(wire \o u, now)
      BY <1>1, <1>4, <2>5, LastTold
    <3>2. QED
      BY <1>4, <2>3, <3>1
  <2>6. QED
    BY <1>4, <2>1, <2>3, <2>4, <2>5
<1>7. TypeOK' /\ TransactionsInOrder' /\ ChainIsKept'
  <2>1. \E m, n : Placed(c, pool, m, n)
    <3>1. PICK m, n : Placed(chain, mempool, m, n)
      BY ServerHas
    <3>2. PICK txs : txs = Wanted(req)
      OBVIOUS
    <3>3. Len(txs) \in Nat
      BY <3>2, WantedIs
    <3>4. \E p : Placed(chain, mempool \cup Accepted(txs), m, p)
      BY <3>1, <3>3, AcceptedIs
    <3>5. QED
      BY <1>2, <3>2, <3>4
  <2>2. /\ IsSeq(c) /\ made' \in 1 .. MaxBlocks /\ Len(c) \in 1 .. made' /\ Ordered(c)
        /\ \A t \in Range(WalletTx) : Txid(t) \notin Range(c[1].txids)
        /\ \A k \in DOMAIN c : <<k - 1, HeaderOf(c[k])>> \in ever'
    BY <1>1, <1>2, <1>3
  <2>3. headerSub' \in BOOLEAN /\ scriptSub' \in BOOLEAN
    BY <1>1, <1>3
  <2>4. QED
    BY <1>3, <1>5, <2>1, <2>2, <2>3, ServerKeeps
<1>8. QED
  BY <1>5, <1>6, <1>7 DEF IInv

\* What a wallet keeps of an event is right if the message was.
LEMMA KeepIsRight ==
  ASSUME WalletOK, NEW msg, MessageOK(msg), NEW event \in EventOf(msg), Keep(event, msg),
         ever' = ever
  PROVE  WalletOK'
<1>1. /\ \A pairs \in TryToHeaders(event) : Range(pairs) \subseteq ever
      /\ event.type = "Response" => ResponseOK(event.req, event.resp, msg)
      /\ event.type = "Notification" /\ event.of.type = "SpSubscribe" =>
           ScanOK([req |-> msg.of, got |-> event.of])
  BY DEF MessageOK
<1>2. ~broken' /\ given' \subseteq ever'
  <2>1. given' = given \cup UNION {Range(pairs) : pairs \in TryToHeaders(event)} /\ broken' = broken
    BY DEF Keep
  <2>2. UNION {Range(pairs) : pairs \in TryToHeaders(event)} \subseteq ever
    BY <1>1
  <2>3. QED
    BY <2>1, <2>2 DEF WalletOK
<1>3. \A sent \in history'.sent, txs \in history'.txs : DecodedAs(sent, txs)
  <2>1. CASE event.type = "Response" /\ event.req.kind = "GetHistory"
    <3>1. history' = [sent |-> {msg.value}, txs |-> {event.resp.history}]
      BY <2>1 DEF Keep
    <3>2. DecodedAs(msg.value, event.resp.history)
      BY <1>1, <2>1 DEF ResponseOK
    <3>3. QED
      BY <3>1, <3>2
  <2>2. CASE ~(event.type = "Response" /\ event.req.kind = "GetHistory")
    <3>1. history' = history
      BY <2>2 DEF Keep
    <3>2. QED
      BY <3>1 DEF WalletOK
  <2>3. QED
    BY <2>1, <2>2
<1>4. (\A b \in coins'.balance : BalanceOK(b)) /\ (\A u \in coins'.unspent : UnspentOK(u))
  <2>1. PICK x : x = [of |-> msg.of, is |-> event.resp]
    OBVIOUS
  <2>2. /\ \A b \in coins.balance : BalanceOK(b)
        /\ \A u \in coins.unspent : UnspentOK(u)
    BY DEF WalletOK
  <2>3. CASE event.type = "Response" /\ event.req.kind = "GetBalance"
    <3>1. coins' = [coins EXCEPT !.balance = {x}]
      BY <2>1, <2>3 DEF Keep
    <3>2. BalanceOK(x)
      BY <1>1, <2>1, <2>3 DEF ResponseOK
    <3>3. coins'.balance \subseteq {x} \cup coins.balance /\ coins'.unspent = coins.unspent
      BY <3>1
    <3>4. QED
      BY <2>2, <3>2, <3>3
  <2>4. CASE event.type = "Response" /\ event.req.kind = "ListUnspent"
    <3>1. coins' = [coins EXCEPT !.unspent = {x}]
      BY <2>1, <2>4 DEF Keep
    <3>2. UnspentOK(x)
      BY <1>1, <2>1, <2>4 DEF ResponseOK
    <3>3. coins'.unspent \subseteq {x} \cup coins.unspent /\ coins'.balance = coins.balance
      BY <3>1
    <3>4. QED
      BY <2>2, <3>2, <3>3
  <2>5. CASE ~(event.type = "Response" /\ event.req.kind \in {"GetBalance", "ListUnspent"})
    <3>1. coins' = coins
      BY <2>5 DEF Keep
    <3>2. QED
      BY <2>2, <3>1
  <2>6. QED
    BY <2>3, <2>4, <2>5
<1>5. \A s \in scans' : ScanOK(s)
  <2>1. CASE event.type = "Notification" /\ event.of.type = "SpSubscribe"
    <3>1. scans' = scans \cup {[req |-> msg.of, got |-> event.of]}
      BY <2>1 DEF Keep
    <3>2. QED
      BY <1>1, <2>1, <3>1 DEF WalletOK
  <2>2. CASE ~(event.type = "Notification" /\ event.of.type = "SpSubscribe")
    <3>1. scans' = scans
      BY <2>2 DEF Keep
    <3>2. QED
      BY <3>1 DEF WalletOK
  <2>3. QED
    BY <2>1, <2>2
<1>6. QED
  BY <1>2, <1>3, <1>4, <1>5 DEF WalletOK

\* A message is read.
LEMMA ReceiveKeeps ==
  ASSUME IInv, Receive
  PROVE  IInv'
<1>1. /\ wire # <<>> /\ wire' = Tail(wire)
      /\ UNCHANGED <<protocol, chain, made, mempool, ever>> /\ UNCHANGED subVars
  BY DEF Receive, chainVars
<1>2. IsSeq(wire)
  BY ServerHas
<1>3. PICK w : w = wire
  OBVIOUS
<1>4. PICK v : v = Tail(w)
  OBVIOUS
<1>5. /\ IsSeq(v) /\ Len(w) \in Nat \ {0} /\ DOMAIN w = 1 .. Len(w)
      /\ DOMAIN v = 1 .. Len(w) - 1 /\ Head(w) = w[1]
      /\ \A k \in 1 .. Len(w) - 1 : v[k] = w[k + 1]
  BY <1>1, <1>2, <1>3, <1>4, Taken
<1>6. PICK msg : msg = Head(w)
  OBVIOUS
<1>7. MessageOK(msg)
  <2>1. \A k \in DOMAIN w : MessageOK(w[k])
    BY <1>3 DEF IInv
  <2>2. 1 \in DOMAIN w
    BY <1>5
  <2>3. QED
    BY <1>5, <1>6, <2>1, <2>2
<1>8. PICK event \in EventOf(msg) : Keep(event, msg)
  <2>1. EventOf(msg) # {}
    BY <1>7 DEF MessageOK
  <2>2. QED
    BY <1>3, <1>6, <2>1 DEF Receive
<1>9. WalletOK'
  <2>1. WalletOK /\ ever' = ever
    BY <1>1 DEF IInv
  <2>2. QED
    BY <1>7, <1>8, <2>1, KeepIsRight
<1>10. (\A k \in DOMAIN wire : MessageOK(wire[k]))'
  <2>1. MessagesFor(wire, ever)
    BY WireIs DEF IInv
  <2>2. ASSUME NEW k \in DOMAIN v PROVE MessageFor(v[k], ever)
    <3>1. k + 1 \in 1 .. Len(w) /\ v[k] = w[k + 1]
      BY <1>5
    <3>2. QED
      BY <1>3, <1>5, <2>1, <3>1 DEF MessagesFor
  <2>3. MessagesFor(v, ever)
    BY <2>2 DEF MessagesFor
  <2>4. ((\A k \in DOMAIN wire : MessageOK(wire[k])) <=> MessagesFor(wire, ever))'
    BY WireIs, PTL
  <2>5. QED
    BY <1>1, <1>3, <1>4, <2>3, <2>4
<1>11. StatusIsTold'
  <2>1. PICK now : now = ServerStatus(chain, mempool)
    OBVIOUS
  <2>2. now = ServerStatus(chain', mempool')
    BY <1>1, <2>1
  <2>3. SUFFICES ASSUME scriptSub
                 PROVE  \/ Tellers(v) = {} /\ status'.known /\ status'.value = now
                        \/ TellsLast(v, now)
    <3>1. (StatusIsTold <=>
             (scriptSub =>
                \/ Tellers(wire) = {} /\ status.known /\ status.value = ServerStatus(chain, mempool)
                \/ TellsLast(wire, ServerStatus(chain, mempool))))'
      BY StatusTold, PTL
    <3>2. wire' = v /\ scriptSub' = scriptSub
      BY <1>1, <1>3, <1>4 DEF subVars
    <3>3. QED
      BY <2>2, <3>1, <3>2
  <2>4. (Tellers(w) = {} /\ status.known /\ status.value = now) \/ TellsLast(w, now)
    BY <1>3, <2>1, <2>3, StatusTold DEF IInv
  <2>5. \/ StatusesIn(msg) = {} /\ status' = status
        \/ \E s : StatusesIn(msg) = {s} /\ status' = [known |-> TRUE, value |-> s]
    <3>1. msg.type \in {"notification", "result", "error"}
      BY <1>7 DEF MessageOK
    <3>2. QED
      BY <1>8, <3>1, KeepTells
  <2>6. /\ Tellers(w) = {} => Tellers(v) = {} /\ StatusesIn(msg) = {}
        /\ \A s : TellsLast(w, s) =>
             \/ Tellers(v) = {} /\ StatusesIn(msg) = {s}
             \/ TellsLast(v, s)
    BY <1>1, <1>2, <1>3, <1>4, <1>6, FirstRead
  <2>7. CASE Tellers(w) = {} /\ status.known /\ status.value = now
    BY <2>5, <2>6, <2>7
  <2>8. CASE Tellers(v) = {} /\ StatusesIn(msg) = {now}
    <3>1. status' = [known |-> TRUE, value |-> now]
      BY <2>5, <2>8
    <3>2. status'.known /\ status'.value = now
      BY <3>1
    <3>3. QED
      BY <2>8, <3>2
  <2>9. QED
    BY <2>4, <2>6, <2>7, <2>8
<1>12. TypeOK' /\ TransactionsInOrder' /\ ChainIsKept'
  <2>1. PICK c, pool : c = chain /\ pool = mempool
    OBVIOUS
  <2>2. /\ IsSeq(c) /\ made' \in 1 .. MaxBlocks /\ Len(c) \in 1 .. made' /\ Ordered(c)
        /\ \A t \in Range(WalletTx) : Txid(t) \notin Range(c[1].txids)
        /\ \A k \in DOMAIN c : <<k - 1, HeaderOf(c[k])>> \in ever'
        /\ \E m, n : Placed(c, pool, m, n)
        /\ headerSub' \in BOOLEAN /\ scriptSub' \in BOOLEAN
    BY <1>1, <2>1, ServerHas DEF subVars
  <2>3. chain' = c /\ mempool' = pool /\ IsSeq(wire')
    BY <1>1, <1>3, <1>4, <1>5, <2>1
  <2>4. QED
    BY <2>2, <2>3, ServerKeeps
<1>13. QED
  BY <1>9, <1>10, <1>11, <1>12 DEF IInv

\* The first block has none of the wallet's transactions, which are no numbers.
LEMMA GenesisIs ==
  \A t \in Range(WalletTx) : Txid(t) \notin Range(Genesis.txids)
<1>1. Range(Genesis.txids) = {Txid(0)}
  BY DEF Genesis, Range
<1>2. ASSUME NEW t \in Range(WalletTx) PROVE Txid(t) # Txid(0)
  <2>1. t \notin Nat
    BY WalletAssumption
  <2>2. t # 0
    BY <2>1
  <2>3. Txid(t).tx = t /\ Txid(0).tx = 0
    BY DEF Txid
  <2>4. QED
    BY <2>2, <2>3
<1>3. QED
  BY <1>1, <1>2

\* The first states are right.
LEMMA FirstIsRight == Init => IInv
<1> SUFFICES ASSUME Init PROVE IInv
  OBVIOUS
<1>1. PICK g : g = Genesis
  OBVIOUS
<1>2. PICK c : c = <<g>>
  OBVIOUS
<1>3. /\ chain = c /\ made = 1 /\ mempool = {} /\ ever = {<<0, HeaderOf(g)>>}
      /\ headerSub = FALSE /\ scriptSub = FALSE /\ wire = <<>>
  BY <1>1, <1>2 DEF Init
<1>4. IsSeq(c) /\ Range(c) = {g} /\ Len(c) = 1 /\ c[1] = g /\ DOMAIN c = {1}
  BY <1>2 DEF IsSeq, Range
<1>5. \A t \in Range(WalletTx) : Txid(t) \notin Range(g.txids)
  BY <1>1, GenesisIs
<1>6. Entered(c, {}) = {}
  <2>1. ASSUME NEW k \in Entered(c, {}) PROVE FALSE
    <3>1. k \in DOMAIN WalletTx /\ Txid(WalletTx[k]) \in Range(g.txids)
      BY <1>4, <2>1, EnteredIs
    <3>2. WalletTx[k] \in Range(WalletTx)
      BY <3>1, WalletIs
    <3>3. QED
      BY <1>5, <3>1, <3>2
  <2>2. QED
    BY <2>1
<1>7. 0 \in 0 .. Len(WalletTx) /\ 1 .. 0 = {} /\ MaxBlocks \in Nat \ {0}
  BY WalletIs, BoundsAre
<1>8. Placed(c, {}, 0, 0)
  <2>1. {WalletTx[k] : k \in 0 + 1 .. 0} = {}
    OBVIOUS
  <2>2. QED
    BY <1>6, <1>7, <2>1 DEF Placed
<1>9. TypeOK
  <2>1. chain \in Seq(Range(chain)) /\ Len(chain) \in 1 .. made
    BY <1>3, <1>4 DEF IsSeq
  <2>2. wire = [k \in 1 .. Len(wire) |-> wire[k]] /\ Len(wire) \in Nat
    BY <1>3
  <2>3. made \in 1 .. MaxBlocks
    BY <1>3, <1>7
  <2>4. QED
    BY <1>3, <2>1, <2>2, <2>3 DEF TypeOK
<1>10. TransactionsInOrder
  <2>1. ASSUME NEW n \in DOMAIN c PROVE \E m \in 0 .. Len(WalletTx) : Entered(SubSeq(c, 1, n), {}) = 1 .. m
    <3>1. n = Len(c) /\ c \in Seq({g})
      BY <1>4, <2>1 DEF IsSeq
    <3>2. SubSeq(c, 1, n) = c
      BY <3>1, SubSeqFull
    <3>3. QED
      BY <1>6, <1>7, <3>2
  <2>2. QED
    BY <1>3, <1>4, <1>5, <1>8, <2>1 DEF TransactionsInOrder, Placed
<1>11. ChainIsKept
  <2>1. <<1 - 1, HeaderOf(c[1 - 1 + 1])>> \in ever
    BY <1>3, <1>4
  <2>2. QED
    BY <1>3, <1>4, <2>1 DEF ChainIsKept, HeaderAt
<1>12. WalletOK
  BY DEF Init, WalletOK
<1>13. (\A k \in DOMAIN wire : MessageOK(wire[k])) /\ StatusIsTold
  BY <1>3 DEF StatusIsTold
<1>14. QED
  BY <1>9, <1>10, <1>11, <1>12, <1>13 DEF IInv

\* Every step keeps the invariant.
LEMMA StepIsRight == IInv /\ [Next]_vars => IInv'
<1> SUFFICES ASSUME IInv, [Next]_vars PROVE IInv'
  OBVIOUS
<1>1. ASSUME NEW n \in 1 .. MaxBlocks, NEW filler \in Fillers, Extend(n, filler) PROVE IInv'
  BY <1>1, ExtendKeeps
<1>2. CASE Broadcast
  BY <1>2, BroadcastKeeps
<1>3. ASSUME NEW req \in Requests \cup LoneRequests, Ask(req) PROVE IInv'
  BY <1>3, AskKeeps
<1>4. CASE Receive
  BY <1>4, ReceiveKeeps
<1>5. CASE UNCHANGED vars
  <2>1. /\ UNCHANGED <<chain, made, mempool, ever, wire, headerSub, scriptSub>>
        /\ UNCHANGED walletVars
    BY <1>5 DEF vars, chainVars, subVars
  <2>2. UNCHANGED <<broken, given, history, coins, scans, rates, status>>
    BY <2>1 DEF walletVars
  <2>3. (\A k \in DOMAIN wire : MessageOK(wire[k]))'
    <3>1. ((\A k \in DOMAIN wire : MessageOK(wire[k])) <=> MessagesFor(wire, ever))'
      BY WireIs, PTL
    <3>2. MessagesFor(wire, ever)
      BY WireIs DEF IInv
    <3>3. QED
      BY <2>1, <3>1, <3>2
  <2>4. TypeOK' /\ TransactionsInOrder' /\ ChainIsKept'
    BY <2>1 DEF IInv, TypeOK, TransactionsInOrder, ChainIsKept, HeaderAt
  <2>5. WalletOK'
    BY <2>1, <2>2 DEF IInv, WalletOK
  <2>6. StatusIsTold'
    <3>1. (StatusIsTold <=>
             (scriptSub =>
                \/ Tellers(wire) = {} /\ status.known /\ status.value = ServerStatus(chain, mempool)
                \/ TellsLast(wire, ServerStatus(chain, mempool))))'
      BY StatusTold, PTL
    <3>2. scriptSub =>
            \/ Tellers(wire) = {} /\ status.known /\ status.value = ServerStatus(chain, mempool)
            \/ TellsLast(wire, ServerStatus(chain, mempool))
      BY StatusTold DEF IInv
    <3>3. QED
      BY <2>1, <2>2, <3>1, <3>2
  <2>7. QED
    BY <2>3, <2>4, <2>5, <2>6 DEF IInv
<1>6. QED
  BY <1>1, <1>2, <1>3, <1>4, <1>5 DEF Next

-----------------------------------------------------------------------------
(***************************************************************************)
(* Theorems.                                                               *)
(***************************************************************************)

\* Whatever the chain does, the messages on their way to a wallet decode and
\* are right, what it has of them is right, and the last status of the script
\* that it was or will be told is the server's.
THEOREM WalletInvariant == Spec => []IInv
<1>1. Init => IInv
  BY FirstIsRight
<1>2. IInv /\ [Next]_vars => IInv'
  BY StepIsRight
<1>3. QED
  BY <1>1, <1>2, PTL DEF Spec

\* Every message of a truthful server decodes.
THEOREM AllMessagesDecode == Spec => []MessagesDecode
<1>1. IInv => MessagesDecode
  BY DEF IInv, WalletOK, MessagesDecode
<1>2. QED
  BY <1>1, WalletInvariant, PTL

\* try_to_headers gives the true height of every header.
THEOREM HeadersAreTrue == Spec => []GivenHeadersAreTrue
<1>1. IInv => GivenHeadersAreTrue
  BY DEF IInv, WalletOK, GivenHeadersAreTrue
<1>2. QED
  BY <1>1, WalletInvariant, PTL

\* Every scan that is notified is one asked for.
THEOREM ScansStayAsked == Spec => []ScansAreAsked
<1>1. IInv => ScansAreAsked
  BY DEF IInv, WalletOK, ScansAreAsked, ScanOK
<1>2. QED
  BY <1>1, WalletInvariant, PTL

\* A balance and the unspent outputs of the same history add up.
THEOREM BalancesAddUp == Spec => []CoinsAddUp
<1>1. IInv => CoinsAddUp
  <2>1. SUFFICES ASSUME IInv, NEW b \in coins.balance, NEW u \in coins.unspent, b.of = u.of
                 PROVE  b.is.confirmed + b.is.unconfirmed
                          = FoldLeft(LAMBDA sum, utxo : sum + utxo.value, 0, u.is)
    BY DEF CoinsAddUp
  <2>2. b.is.confirmed + b.is.unconfirmed = Worth(Len(b.of))
    BY <2>1 DEF IInv, WalletOK, BalanceOK
  <2>3. FoldLeft(LAMBDA sum, utxo : sum + utxo.value, 0, u.is) = Worth(Len(u.of))
    BY <2>1 DEF IInv, WalletOK, UnspentOK
  <2>4. QED
    BY <2>1, <2>2, <2>3
<1>2. QED
  BY <1>1, WalletInvariant, PTL

\* Two histories with the same status are the same.
LEMMA StatusIsOne ==
  ASSUME NEW a, NEW b, HistoryOK(a), HistoryOK(b), StatusOf(a) = StatusOf(b)
  PROVE  a = b
<1>1. /\ IsSeq(a) /\ \A k \in DOMAIN a : EntryOK(a[k])
      /\ IsSeq(b) /\ \A k \in DOMAIN b : EntryOK(b[k])
  BY DEF HistoryOK, IsSeq
<1>2. \A e, f : EntryOK(e) /\ EntryOK(f) /\ e.tx_hash = f.tx_hash /\ e.height = f.height => e = f
  <2>1. SUFFICES ASSUME NEW e, NEW f, EntryOK(e), EntryOK(f), e.tx_hash = f.tx_hash,
                        e.height = f.height
                 PROVE  e = f
    OBVIOUS
  <2>2. PICK x : x = e.tx_hash
    OBVIOUS
  <2>3. PICK g : e = IF g > 0 THEN [tx_hash |-> x, height |-> g]
                     ELSE [tx_hash |-> x, fee |-> 1, height |-> g]
    BY <2>1, <2>2 DEF EntryOK
  <2>4. PICK h : f = IF h > 0 THEN [tx_hash |-> x, height |-> h]
                     ELSE [tx_hash |-> x, fee |-> 1, height |-> h]
    BY <2>1, <2>2 DEF EntryOK
  <2>5. e.height = g /\ f.height = h
    BY <2>3, <2>4
  <2>6. QED
    BY <2>1, <2>3, <2>4, <2>5
<1>3. /\ a = [k \in DOMAIN a |-> a[k]] /\ DOMAIN a = 1 .. Len(a) /\ Len(a) \in Nat
      /\ b = [k \in DOMAIN b |-> b[k]] /\ DOMAIN b = 1 .. Len(b) /\ Len(b) \in Nat
  <2>1. PICK S, T : S = Range(a) /\ T = Range(b)
    OBVIOUS
  <2>2. a \in Seq(S) /\ b \in Seq(T)
    BY <1>1, <2>1 DEF IsSeq
  <2>3. QED
    BY <2>2
<1>4. CASE a = <<>> \/ b = <<>>
  BY <1>4 DEF StatusOf
<1>5. CASE a # <<>> /\ b # <<>>
  <2>1. PICK p : p = [k \in DOMAIN a |-> <<a[k].tx_hash, a[k].height>>]
    OBVIOUS
  <2>2. PICK q : q = [k \in DOMAIN b |-> <<b[k].tx_hash, b[k].height>>]
    OBVIOUS
  <2>3. p = q
    <3>1. {p} = {q}
      BY <1>5, <2>1, <2>2 DEF StatusOf
    <3>2. QED
      BY <3>1
  <2>4. DOMAIN a = DOMAIN b
    BY <2>1, <2>2, <2>3
  <2>5. ASSUME NEW k \in DOMAIN a PROVE a[k] = b[k]
    <3>1. p[k] = <<a[k].tx_hash, a[k].height>> /\ q[k] = <<b[k].tx_hash, b[k].height>>
      BY <2>1, <2>2, <2>4
    <3>2. a[k].tx_hash = b[k].tx_hash /\ a[k].height = b[k].height
      BY <2>3, <3>1
    <3>3. QED
      BY <1>1, <1>2, <2>4, <3>2
  <2>6. QED
    BY <1>3, <2>4, <2>5
<1>6. QED
  BY <1>4, <1>5

\* A wallet that has read everything knows from the status whether its history
\* is still the server's.
THEOREM StatusesTell == Spec => []StatusTellsHistory
<1>1. IInv => StatusTellsHistory
  <2>1. SUFFICES ASSUME IInv, scriptSub, wire = <<>>, status.known,
                        NEW sent \in history.sent, NEW txs \in history.txs
                 PROVE  FromHistory(txs) = status.value <=> sent = ServerHistory(chain, mempool)
    BY DEF StatusTellsHistory
  <2>2. PICK now : now = ServerHistory(chain, mempool)
    OBVIOUS
  <2>3. status.value = StatusOf(now)
    <3>1. Tellers(<<>>) = {}
      BY DEF Tellers
    <3>2. ~TellsLast(<<>>, ServerStatus(chain, mempool))
      BY <3>1 DEF TellsLast
    <3>3. status.value = ServerStatus(chain, mempool)
      BY <2>1, <3>2, StatusTold DEF IInv
    <3>4. QED
      BY <2>2, <3>3 DEF ServerStatus
  <2>4. HistoryOK(sent) /\ FromHistory(txs) = StatusOf(sent)
    BY <2>1 DEF IInv, WalletOK, DecodedAs
  <2>5. HistoryOK(now)
    BY <2>1, <2>2, ServerHas, ServerIs, HistoryIs
  <2>6. QED
    BY <2>2, <2>3, <2>4, <2>5, StatusIsOne
<1>2. QED
  BY <1>1, WalletInvariant, PTL

=============================================================================
