------------------------ MODULE ReadStreamerProofs ------------------------
(***************************************************************************)
(* Theorems about ReadStreamer, for streams of any number of lines.        *)
(***************************************************************************)
EXTENDS ReadStreamer, SharedLemmas

-----------------------------------------------------------------------------
(***************************************************************************)
(* Lines and their messages.                                               *)
(***************************************************************************)

ScriptOK == script \in SeqOf(Kinds, MaxLines)

\* A script is a sequence of lines, of which each has its messages.
LEMMA ScriptIs ==
  ASSUME ScriptOK
  PROVE  /\ Len(script) \in 0 .. MaxLines /\ DOMAIN script = 1 .. Len(script)
         /\ \A k \in DOMAIN script : script[k] \in Kinds
         /\ \A k \in DOMAIN script : GoodLine(k) \in Seq(Messages) /\ MessagesOf(k) \in Seq(Messages)
<1>1. PICK m \in 0 .. MaxLines : script \in [1 .. m -> Kinds]
  BY DEF ScriptOK, SeqOf
<1>2. Len(script) = m /\ DOMAIN script = 1 .. m /\ MaxLines \in Nat
  BY <1>1, StreamerAssumption
<1>3. ASSUME NEW k \in DOMAIN script PROVE MessagesOf(k) \in Seq(Messages)
  <2>1. k \in 1 .. MaxLines
    BY <1>2, <1>3
  <2>2. <<k, 1>> \in Messages /\ <<k, 2>> \in Messages
    BY <2>1 DEF Messages
  <2>3. <<<<k, 1>>>> \in Seq(Messages) /\ <<<<k, 1>>, <<k, 2>>>> \in Seq(Messages) /\ <<>> \in Seq(Messages)
    BY <2>2
  <2>4. QED
    BY <2>3 DEF MessagesOf
<1>4. QED
  BY <1>1, <1>2, <1>3 DEF GoodLine

\* The messages of the first m lines, those that are not counted left out.
LinesOf(lines, m) == [k \in 1 .. m |-> IF k \in lines THEN GoodLine(k) ELSE <<>>]
UpTo(lines, m) == FlattenSeq(LinesOf(lines, m))

\* With each line its messages are added, if it is counted.
LEMMA UpToNext ==
  ASSUME ScriptOK, NEW lines, NEW m \in Nat, m + 1 <= Len(script)
  PROVE  /\ UpTo(lines, m) \in Seq(Messages)
         /\ UpTo(lines, m + 1) = UpTo(lines, m) \o (IF m + 1 \in lines THEN GoodLine(m + 1) ELSE <<>>)
<1> DEFINE s == LinesOf(lines, m)
           e == IF m + 1 \in lines THEN GoodLine(m + 1) ELSE <<>>
<1>1. \A k \in 1 .. m + 1 : GoodLine(k) \in Seq(Messages)
  BY ScriptIs
<1>2. s \in Seq(Seq(Messages)) /\ Len(s) = m /\ e \in Seq(Messages)
  BY <1>1 DEF LinesOf
<1>3. LinesOf(lines, m + 1) = Append(s, e)
  BY <1>1, <1>2 DEF LinesOf
<1> HIDE DEF s, e
<1>4. FlattenSeq(Append(s, e)) = FlattenSeq(s) \o e /\ FlattenSeq(s) \in Seq(Messages)
  BY <1>2, FlattenAppended, FlattenType
<1>5. QED
  BY <1>3, <1>4 DEF UpTo, s, e

\* Before the first line there are none.
LEMMA UpToNone == ASSUME NEW lines PROVE UpTo(lines, 0) = <<>>
<1>1. LinesOf(lines, 0) = <<>>
  BY DEF LinesOf
<1>2. QED
  BY <1>1, FlattenEmpty, Zenon DEF UpTo

\* All of them are sequences of messages.
LEMMA UpToType ==
  ASSUME ScriptOK, NEW lines, NEW m \in 0 .. Len(script)
  PROVE  UpTo(lines, m) \in Seq(Messages)
<1>1. \A k \in 1 .. m : GoodLine(k) \in Seq(Messages)
  BY ScriptIs
<1>2. LinesOf(lines, m) \in Seq(Seq(Messages))
  BY <1>1 DEF LinesOf
<1>3. QED
  BY <1>2, FlattenType DEF UpTo

\* GoodMessages is what all lines have.
LEMMA GoodIs == ASSUME ScriptOK, NEW lines PROVE GoodMessages(lines) = UpTo(lines, Len(script))
<1>1. DOMAIN script = 1 .. Len(script)
  BY ScriptIs
<1>2. QED
  BY <1>1 DEF GoodMessages, UpTo, LinesOf

\* Lines without messages add none.
LEMMA GoodNone ==
  ASSUME ScriptOK, NEW lines, \A k \in DOMAIN script : k \in lines => GoodLine(k) = <<>>
  PROVE  GoodMessages(lines) = <<>>
<1> DEFINE G == {m \in Nat : m <= Len(script) => UpTo(lines, m) = <<>>}
<1>1. 0 \in G
  BY UpToNone
<1>2. ASSUME NEW m \in Nat, m \in G PROVE m + 1 \in G
  <2>1. SUFFICES ASSUME m + 1 <= Len(script) PROVE UpTo(lines, m + 1) = <<>>
    OBVIOUS
  <2>2. Len(script) \in Nat /\ m + 1 \in DOMAIN script
    BY <2>1, ScriptIs
  <2>3. UpTo(lines, m) = <<>>
    BY <1>2, <2>1, <2>2
  <2>4. (IF m + 1 \in lines THEN GoodLine(m + 1) ELSE <<>>) = <<>>
    BY <2>2
  <2>5. UpTo(lines, m + 1) = UpTo(lines, m) \o (IF m + 1 \in lines THEN GoodLine(m + 1) ELSE <<>>)
    BY <2>1, UpToNext
  <2>6. <<>> \o <<>> = <<>>
    OBVIOUS
  <2>7. QED
    BY <2>3, <2>4, <2>5, <2>6
<1>3. \A m \in Nat : m \in G
  <2> HIDE DEF G
  <2>1. QED
    BY <1>1, <1>2, Induction
<1>4. Len(script) \in G
  BY <1>3, ScriptIs
<1>5. QED
  BY <1>4, ScriptIs, GoodIs

\* One line has its own messages.
LEMMA GoodOne ==
  ASSUME ScriptOK, NEW k \in DOMAIN script
  PROVE  GoodMessages({k}) = GoodLine(k)
<1> DEFINE G == {m \in Nat : m <= Len(script) => UpTo({k}, m) = IF k <= m THEN GoodLine(k) ELSE <<>>}
<1>0. k \in 1 .. Len(script) /\ Len(script) \in Nat /\ GoodLine(k) \in Seq(Messages)
  BY ScriptIs
<1>1. 0 \in G
  BY <1>0, UpToNone
<1>2. ASSUME NEW m \in Nat, m \in G PROVE m + 1 \in G
  <2>1. SUFFICES ASSUME m + 1 <= Len(script)
                 PROVE  UpTo({k}, m + 1) = IF k <= m + 1 THEN GoodLine(k) ELSE <<>>
    OBVIOUS
  <2>2. UpTo({k}, m) = IF k <= m THEN GoodLine(k) ELSE <<>>
    BY <1>0, <1>2, <2>1
  <2>3. UpTo({k}, m + 1) = UpTo({k}, m) \o (IF m + 1 \in {k} THEN GoodLine(m + 1) ELSE <<>>)
    BY <2>1, UpToNext
  <2>4. GoodLine(k) \o <<>> = GoodLine(k) /\ <<>> \o GoodLine(k) = GoodLine(k) /\ <<>> \o <<>> = <<>>
    BY <1>0, ConcatEmptySeq
  <2> DEFINE x == UpTo({k}, m)
             y == UpTo({k}, m + 1)
             e == GoodLine(k)
  <2> HIDE DEF x, y, e
  <2>5. CASE k <= m
    <3>1. m + 1 \notin {k}
      BY <1>0, <2>5
    <3>2. x = e /\ y = x \o <<>> /\ e \o <<>> = e
      BY <2>2, <2>3, <2>4, <2>5, <3>1 DEF x, y, e
    <3>3. QED
      BY <1>0, <2>5, <3>2 DEF y, e
  <2>6. CASE k = m + 1
    <3>1. m + 1 \in {k} /\ ~(k <= m)
      BY <1>0, <2>6
    <3>2. x = <<>> /\ y = x \o e /\ <<>> \o e = e
      BY <2>2, <2>3, <2>4, <2>6, <3>1 DEF x, y, e
    <3>3. QED
      BY <1>0, <2>6, <3>2 DEF y, e
  <2>7. CASE k > m + 1
    BY <1>0, <2>2, <2>3, <2>4, <2>7
  <2>8. QED
    BY <1>0, <2>5, <2>6, <2>7
<1>3. \A m \in Nat : m \in G
  <2> HIDE DEF G
  <2>1. QED
    BY <1>1, <1>2, Induction
<1>4. Len(script) \in G
  BY <1>0, <1>3
<1>5. QED
  BY <1>0, <1>4, GoodIs

\* The first lines come first.
LEMMA GoodSplit ==
  ASSUME ScriptOK, NEW w \in Nat, NEW k \in 0 .. w
  PROVE  /\ GoodMessages(1 .. w) = GoodMessages(1 .. k) \o GoodMessages(k + 1 .. w)
         /\ GoodMessages(1 .. k) \in Seq(Messages) /\ GoodMessages(k + 1 .. w) \in Seq(Messages)
<1> DEFINE a(m) == UpTo(1 .. k, m)
           b(m) == UpTo(k + 1 .. w, m)
           c(m) == UpTo(1 .. w, m)
           G == {m \in Nat : m <= Len(script) =>
                               c(m) = a(m) \o b(m) /\ (m <= k => b(m) = <<>>)}
<1>1. 0 \in G
  <2>1. a(0) = <<>> /\ b(0) = <<>> /\ c(0) = <<>> /\ <<>> \o <<>> = <<>>
    BY UpToNone
  <2>2. QED
    BY <2>1
<1>2. ASSUME NEW m \in Nat, m \in G PROVE m + 1 \in G
  <2>1. SUFFICES ASSUME m + 1 <= Len(script)
                 PROVE  c(m + 1) = a(m + 1) \o b(m + 1) /\ (m + 1 <= k => b(m + 1) = <<>>)
    OBVIOUS
  <2>2. Len(script) \in Nat /\ m <= Len(script) /\ GoodLine(m + 1) \in Seq(Messages)
    BY <2>1, ScriptIs
  <2> DEFINE e == GoodLine(m + 1)
             x == a(m)
             y == b(m)
  <2>3. /\ x \in Seq(Messages) /\ y \in Seq(Messages) /\ e \in Seq(Messages)
        /\ c(m) = x \o y /\ (m <= k => y = <<>>)
    BY <1>2, <2>2, UpToType
  <2>4. /\ a(m + 1) = x \o (IF m + 1 \in 1 .. k THEN e ELSE <<>>)
        /\ b(m + 1) = y \o (IF m + 1 \in k + 1 .. w THEN e ELSE <<>>)
        /\ c(m + 1) = (x \o y) \o (IF m + 1 \in 1 .. w THEN e ELSE <<>>)
    <3>1. a(m + 1) = x \o (IF m + 1 \in 1 .. k THEN e ELSE <<>>)
      BY <2>1, UpToNext
    <3>2. b(m + 1) = y \o (IF m + 1 \in k + 1 .. w THEN e ELSE <<>>)
      BY <2>1, UpToNext
    <3>3. c(m + 1) = c(m) \o (IF m + 1 \in 1 .. w THEN e ELSE <<>>)
      BY <2>1, UpToNext
    <3> HIDE DEF a, b, c, x, y, e
    <3>4. QED
      BY <2>3, <3>1, <3>2, <3>3
  <2> HIDE DEF a, b, c, x, y, e
  <2>5. /\ x \o <<>> = x /\ y \o <<>> = y /\ <<>> \o <<>> = <<>>
        /\ (x \o y) \o <<>> = x \o y /\ (x \o y) \o e = x \o (y \o e)
    BY <2>3
  <2>6. CASE m + 1 <= k
    <3>1. m + 1 \in 1 .. k /\ m + 1 \in 1 .. w /\ m + 1 \notin k + 1 .. w /\ y = <<>>
      BY <2>3, <2>6
    <3>2. (x \o e) \o <<>> = x \o e
      BY <2>3
    <3>3. QED
      BY <2>4, <2>5, <3>1, <3>2
  <2>7. CASE m + 1 > k /\ m + 1 <= w
    <3>1. m + 1 \notin 1 .. k /\ m + 1 \in 1 .. w /\ m + 1 \in k + 1 .. w /\ ~(m + 1 <= k)
      BY <2>7
    <3>2. QED
      BY <2>4, <2>5, <3>1
  <2>8. CASE m + 1 > w
    <3>1. m + 1 \notin 1 .. k /\ m + 1 \notin 1 .. w /\ m + 1 \notin k + 1 .. w /\ ~(m + 1 <= k)
      BY <2>8
    <3>2. QED
      BY <2>4, <2>5, <3>1
  <2>9. QED
    BY <2>6, <2>7, <2>8
<1>3. \A m \in Nat : m \in G
  <2> HIDE DEF G
  <2>1. QED
    BY <1>1, <1>2, Induction
<1>4. Len(script) \in 0 .. Len(script) /\ Len(script) \in Nat
  BY ScriptIs
<1>5. c(Len(script)) = a(Len(script)) \o b(Len(script))
  BY <1>3, <1>4
<1>6. /\ GoodMessages(1 .. k) = a(Len(script)) /\ GoodMessages(k + 1 .. w) = b(Len(script))
      /\ GoodMessages(1 .. w) = c(Len(script))
  BY GoodIs
<1>7. a(Len(script)) \in Seq(Messages) /\ b(Len(script)) \in Seq(Messages)
  BY <1>4, UpToType
<1>8. QED
  BY <1>5, <1>6, <1>7

-----------------------------------------------------------------------------
(***************************************************************************)
(* Bytes.                                                                  *)
(***************************************************************************)

\* The bytes of the first m lines.
BytesUpTo(m) == FlattenSeq([k \in 1 .. m |-> BytesOf(k)])

\* The n-th byte of a stream is at the place n.
BytesInPlace(s, m) ==
  /\ s \in Seq(Bytes) /\ Len(s) = 3 * m
  /\ \A n \in 1 .. Len(s) : Place(s[n]) = n

\* The bytes of a line are at the places that follow those of the lines before.
LEMMA StreamIs ==
  ASSUME NEW m \in 0 .. MaxLines
  PROVE  BytesInPlace(BytesUpTo(m), m)
<1> DEFINE G == {i \in Nat : i <= MaxLines => BytesInPlace(BytesUpTo(i), i)}
<1>0. MaxLines \in Nat
  BY StreamerAssumption
<1>1. 0 \in G
  <2>1. [k \in 1 .. 0 |-> BytesOf(k)] = <<>>
    OBVIOUS
  <2>2. BytesUpTo(0) = <<>>
    BY <2>1, FlattenEmpty, Zenon DEF BytesUpTo
  <2>3. BytesInPlace(<<>>, 0)
    BY DEF BytesInPlace
  <2>4. QED
    BY <2>2, <2>3
<1>2. ASSUME NEW i \in Nat, i \in G PROVE i + 1 \in G
  <2>1. SUFFICES ASSUME i + 1 <= MaxLines PROVE BytesInPlace(BytesUpTo(i + 1), i + 1)
    OBVIOUS
  <2>2. BytesInPlace(BytesUpTo(i), i)
    BY <1>0, <1>2, <2>1
  <2> DEFINE s == BytesUpTo(i)
             e == BytesOf(i + 1)
             u == [k \in 1 .. i |-> BytesOf(k)]
  <2>3. \A k \in 1 .. i + 1 : BytesOf(k) \in Seq(Bytes)
    BY <1>0, <2>1 DEF BytesOf, Newline, Bytes
  <2>4. /\ u \in Seq(Seq(Bytes)) /\ e \in Seq(Bytes)
        /\ [k \in 1 .. i + 1 |-> BytesOf(k)] = Append(u, e)
    BY <2>3
  <2>5. BytesUpTo(i + 1) = s \o e
    <3> HIDE DEF e, u
    <3>1. FlattenSeq(Append(u, e)) = FlattenSeq(u) \o e
      BY <2>4, FlattenAppended
    <3>2. QED
      BY <2>4, <3>1 DEF BytesUpTo, u
  <2>6. s \in Seq(Bytes) /\ Len(s) = 3 * i /\ \A n \in 1 .. Len(s) : Place(s[n]) = n
    BY <2>2 DEF BytesInPlace
  <2>7. Len(e) = 3 /\ \A n \in 1 .. 3 : Place(e[n]) = 3 * i + n
    BY DEF BytesOf, Newline, Place
  <2> HIDE DEF s, e
  <2>8. /\ s \o e \in Seq(Bytes) /\ Len(s \o e) = 3 * (i + 1)
        /\ \A n \in 1 .. 3 * i : (s \o e)[n] = s[n]
        /\ \A n \in 1 .. 3 : (s \o e)[3 * i + n] = e[n]
    <3>1. s \in Seq(Bytes) /\ e \in Seq(Bytes)
      BY <2>4, <2>6
    <3>2. /\ s \o e \in Seq(Bytes) /\ Len(s \o e) = Len(s) + Len(e)
          /\ \A n \in 1 .. Len(s) : (s \o e)[n] = s[n]
          /\ \A n \in 1 .. Len(e) : (s \o e)[Len(s) + n] = e[n]
      BY <3>1, ConcatAt
    <3>3. QED
      BY <2>6, <2>7, <3>2
  <2>9. ASSUME NEW n \in 1 .. Len(s \o e) PROVE Place((s \o e)[n]) = n
    <3>1. n \in 1 .. 3 * i \/ n = 3 * i + 1 \/ n = 3 * i + 2 \/ n = 3 * i + 3
      <4>1. n \in 1 .. 3 * (i + 1)
        BY <2>8, Zenon
      <4>2. QED
        BY <4>1
    <3>2. CASE n \in 1 .. 3 * i
      BY <2>6, <2>8, <3>2
    <3>3. ASSUME NEW j \in 1 .. 3, n = 3 * i + j PROVE Place((s \o e)[n]) = n
      BY <2>7, <2>8, <3>3, Zenon
    <3>4. QED
      BY <3>1, <3>2, <3>3
  <2>10. QED
    BY <2>5, <2>8, <2>9 DEF BytesInPlace
<1>3. \A i \in Nat : i \in G
  <2> HIDE DEF G
  <2>1. QED
    BY <1>1, <1>2, Induction
<1>4. QED
  BY <1>0, <1>3

\* A place tells which byte it is.
LEMMA PlaceTells ==
  ASSUME NEW byte \in Bytes, NEW line \in Nat, NEW i \in 1 .. 3, Place(byte) = 3 * line + i
  PROVE  byte = <<line + 1, i>> /\ (IsNewline(byte) <=> i = 3)
<1>1. PICK k \in 1 .. MaxLines, j \in 1 .. 3 : byte = <<k, j>>
  BY DEF Bytes
<1>2. 3 * (k - 1) + j = 3 * line + i /\ k \in Nat
  BY <1>1, StreamerAssumption DEF Place
<1>3. k = line + 1 /\ j = i
  BY <1>2
<1>4. QED
  BY <1>1, <1>3 DEF IsNewline

\* What the least element of a set of positions is.
LEMMA MinIs ==
  ASSUME NEW n \in Nat, NEW S \in SUBSET (1 .. n), S # {}
  PROVE  Min(S) \in S /\ \A m \in S : Min(S) <= m
<1>1. \E k \in S : \A m \in S : k <= m
  <2>1. S \in SUBSET Nat
    OBVIOUS
  <2>2. QED
    BY <2>1, LeastNatural
<1>2. QED
  BY <1>1 DEF Min

\* What UnparsedFrom says of the places of what was read and what was not.
LEMMA UnparsedIs ==
  ASSUME TypeOK, NEW line \in 0 .. whole, UnparsedFrom(line)
  PROVE  /\ ScriptOK /\ whole \in 0 .. Len(script) /\ Len(script) \in Nat
         /\ whole \in Nat /\ line \in Nat /\ line <= whole
         /\ wire \in Seq(Bytes) /\ Len(wire) \in Nat /\ ready \in Nat /\ ready <= Len(wire)
         /\ buf \in Seq(Bytes) /\ Len(buf) \in 0 .. 2
         /\ 3 * line + Len(buf) + Len(wire) >= 3 * whole
         /\ 3 * line + Len(buf) + Len(wire) <= 3 * whole + 2
         /\ \A i \in 1 .. Len(buf) : buf[i] \in Bytes /\ Place(buf[i]) = 3 * line + i
         /\ \A i \in 1 .. Len(wire) : wire[i] \in Bytes /\ Place(wire[i]) = 3 * line + Len(buf) + i
<1>1. /\ ScriptOK /\ whole \in 0 .. Len(script) /\ wire \in Seq(Bytes)
      /\ ready \in 0 .. Len(wire) /\ buf \in Seq(Bytes)
  BY Zenon DEF TypeOK, ScriptOK
<1>2. Len(script) \in Nat
  BY <1>1, ScriptIs
<1>3. whole \in Nat /\ line \in Nat /\ line <= whole
  BY <1>1, <1>2
<1> DEFINE u == buf \o wire
           l == Len(buf)
<1>4. /\ Len(u) = l + Len(wire) /\ l \in Nat /\ Len(wire) \in Nat
      /\ \A i \in 1 .. l : u[i] = buf[i] /\ buf[i] \in Bytes
      /\ \A i \in 1 .. Len(wire) : u[l + i] = wire[i] /\ wire[i] \in Bytes
  <2>1. wire \in Seq(Bytes) /\ buf \in Seq(Bytes)
    BY <1>1
  <2>2. QED
    BY <2>1, ConcatAt
<1>5. /\ 3 * line + Len(u) \in 3 * whole .. 3 * whole + 2 /\ l <= 2
      /\ \A i \in DOMAIN u : Place(u[i]) = 3 * line + i
  BY Zenon DEF UnparsedFrom
<1>6. DOMAIN u = 1 .. Len(u)
  BY <1>1
<1> HIDE DEF u
<1>7. \A i \in 1 .. l : Place(buf[i]) = 3 * line + i
  <2>1. \A i \in 1 .. l : i \in DOMAIN u
    BY <1>4, <1>6
  <2>2. QED
    BY <1>4, <1>5, <2>1, Zenon
<1>8. \A i \in 1 .. Len(wire) : Place(wire[i]) = 3 * line + (l + i)
  <2>1. \A i \in 1 .. Len(wire) : l + i \in DOMAIN u
    BY <1>4, <1>6
  <2>2. QED
    BY <1>4, <1>5, <2>1, Zenon
<1> HIDE DEF l
<1>9. \A i \in 1 .. Len(wire) : Place(wire[i]) = 3 * line + l + i
  BY <1>3, <1>4, <1>8
<1>10. /\ 3 * line + l + Len(wire) >= 3 * whole /\ 3 * line + l + Len(wire) <= 3 * whole + 2
       /\ l \in 0 .. 2
  BY <1>3, <1>4, <1>5
<1>11. ready \in Nat /\ ready <= Len(wire)
  BY <1>1, <1>4
<1>12. QED
  BY <1>1, <1>2, <1>3, <1>4, <1>7, <1>9, <1>10, <1>11 DEF l

\* A newline is in the part of the stream that has arrived: then the bytes through
\* the first one are the rest of a line, and what follows begins the next.
LEMMA NextLine ==
  ASSUME TypeOK, NEW line \in 0 .. whole, UnparsedFrom(line), NewlinesReady # {},
         NEW n, n = Min(NewlinesReady)
  PROVE  /\ n \in 1 .. ready /\ Len(buf) + n = 3
         /\ buf \o SubSeq(wire, 1, n) = BytesOf(line + 1)
         /\ line + 1 \in 1 .. whole
<1> DEFINE l == Len(buf)
<1>1. /\ whole \in Nat /\ line \in Nat /\ line <= whole
      /\ Len(wire) \in Nat /\ ready \in Nat /\ ready <= Len(wire) /\ l \in 0 .. 2
      /\ 3 * line + l + Len(wire) <= 3 * whole + 2
  BY UnparsedIs, Zenon
<1>2. wire \in Seq(Bytes) /\ buf \in Seq(Bytes)
  BY UnparsedIs, Zenon
<1>3. /\ \A i \in 1 .. l : buf[i] \in Bytes /\ Place(buf[i]) = 3 * line + i
      /\ \A i \in 1 .. Len(wire) : wire[i] \in Bytes /\ Place(wire[i]) = 3 * line + l + i
  BY UnparsedIs, Zenon
<1> HIDE DEF l
<1>4. /\ n \in 1 .. ready /\ IsNewline(wire[n])
      /\ \A m \in 1 .. ready : IsNewline(wire[m]) => n <= m
  <2>1. NewlinesReady \in SUBSET (1 .. ready)
    BY DEF NewlinesReady
  <2>2. n \in NewlinesReady /\ \A m \in NewlinesReady : n <= m
    BY <1>1, <2>1, MinIs
  <2>3. QED
    BY <2>2 DEF NewlinesReady
<1>5. n \in 1 .. ready /\ n \in Nat /\ n \in 1 .. Len(wire)
  BY <1>1, <1>4
<1>6. l + n >= 3
  <2>1. wire[n] \in Bytes /\ Place(wire[n]) = 3 * line + l + n
    BY <1>3, <1>5, Zenon
  <2>2. PICK k \in 1 .. MaxLines, j \in 1 .. 3 : wire[n] = <<k, j>>
    BY <2>1 DEF Bytes
  <2>3. j = 3 /\ 3 * (k - 1) + j = 3 * line + l + n /\ k \in Nat
    BY <1>4, <2>1, <2>2, StreamerAssumption DEF Place, IsNewline
  <2>4. 3 * k = 3 * line + (l + n) /\ l + n \in Nat /\ l + n >= 1
    BY <1>1, <1>5, <2>3, SMTT(30)
  <2>5. QED
    BY <1>1, <2>3, <2>4
<1>7. l + n = 3
  <2>1. SUFFICES ASSUME l + n > 3 PROVE FALSE
    BY <1>1, <1>5, <1>6
  <2>2. PICK m \in 1 .. ready : l + m = 3
    <3>1. 3 - l \in 1 .. ready /\ l + (3 - l) = 3
      BY <1>1, <1>5, <2>1
    <3>2. QED
      BY <3>1, Zenon
  <2>3. m \in 1 .. Len(wire) /\ m < n /\ 3 * line + l + m = 3 * line + 3
    BY <1>1, <1>5, <2>1, <2>2
  <2>4. Place(wire[m]) = 3 * line + 3 /\ wire[m] \in Bytes
    BY <1>3, <2>3
  <2>5. IsNewline(wire[m])
    BY <1>1, <2>4, PlaceTells
  <2>6. n <= m
    BY <1>4, <2>5
  <2>7. QED
    BY <1>5, <2>3, <2>6
<1>8. buf \o SubSeq(wire, 1, n) = BytesOf(line + 1)
  <2> DEFINE v == SubSeq(wire, 1, n)
             t == buf \o v
  <2>1. v \in Seq(Bytes) /\ Len(v) = n /\ \A i \in 1 .. n : v[i] = wire[i]
    BY <1>1, <1>2, <1>5, CutAt
  <2> HIDE DEF v
  <2>2. /\ t \in Seq(Bytes) /\ Len(t) = l + n
        /\ \A i \in 1 .. l : t[i] = buf[i]
        /\ \A i \in 1 .. n : t[l + i] = v[i]
    <3>1. v \in Seq(Bytes) /\ buf \in Seq(Bytes)
      BY <1>2, <2>1
    <3>2. /\ t \in Seq(Bytes) /\ Len(t) = Len(buf) + Len(v)
          /\ \A i \in 1 .. Len(buf) : t[i] = buf[i]
          /\ \A i \in 1 .. Len(v) : t[Len(buf) + i] = v[i]
      BY <3>1, ConcatAt
    <3>3. Len(v) = n /\ l = Len(buf)
      BY <2>1, Zenon DEF l
    <3>4. QED
      BY <3>2, <3>3, Zenon
  <2> HIDE DEF t
  <2>3. ASSUME NEW i \in 1 .. 3 PROVE t[i] = <<line + 1, i>>
    <3>1. SUFFICES t[i] \in Bytes /\ Place(t[i]) = 3 * line + i
      BY <1>1, PlaceTells
    <3>2. CASE i \in 1 .. l
      BY <1>3, <2>2, <3>2
    <3>3. CASE i \notin 1 .. l
      <4>1. PICK m \in 1 .. n : i = l + m
        <5>1. i - l \in 1 .. n /\ i = l + (i - l)
          BY <1>1, <1>5, <1>7, <3>3
        <5>2. QED
          BY <5>1, Zenon
      <4>2. m \in 1 .. Len(wire) /\ 3 * line + l + m = 3 * line + i
        BY <1>1, <1>5, <4>1
      <4>3. t[i] = wire[m]
        BY <2>1, <2>2, <4>1, Zenon
      <4>4. Place(wire[m]) = 3 * line + l + m /\ wire[m] \in Bytes
        BY <1>3, <4>2, Zenon
      <4>5. QED
        BY <4>2, <4>3, <4>4, Zenon
    <3>4. QED
      BY <3>2, <3>3, Zenon
  <2>4. t[1] = <<line + 1, 1>> /\ t[2] = <<line + 1, 2>> /\ t[3] = <<line + 1, 3>>
    BY <2>3
  <2>5. t = <<t[1], t[2], t[3]>>
    <3>1. t \in Seq(Bytes) /\ Len(t) = 3
      BY <1>7, <2>2
    <3>2. QED
      BY <3>1
  <2>6. QED
    BY <2>4, <2>5, Zenon DEF t, v, BytesOf, Newline
<1>9. line + 1 \in 1 .. whole
  BY <1>1, <1>5, <1>7
<1>10. QED
  BY <1>5, <1>7, <1>8, <1>9 DEF l

\* The text of a line is that of no other line.
LEMMA ParsedLine ==
  ASSUME ScriptOK, NEW k \in DOMAIN script
  PROVE  /\ BytesOf(k) # <<>> /\ IsNewline(Last(BytesOf(k)))
         /\ Parsed(Front(BytesOf(k))) = IF script[k] = "bad" THEN {} ELSE {k}
<1>1. ASSUME NEW j PROVE SubSeq(BytesOf(j), 1, 2) = <<<<j, 1>>, <<j, 2>>>>
  <2> DEFINE a == <<j, 1>>
             b == <<j, 2>>
             c == <<j, 3>>
             t == <<a, b, c>>
             x == SubSeq(t, 1, 2)
  <2> HIDE DEF a, b, c
  <2>1. t \in Seq({a, b, c}) /\ Len(t) = 3 /\ t[1] = a /\ t[2] = b
    OBVIOUS
  <2> HIDE DEF t
  <2>2. x \in Seq({a, b, c}) /\ Len(x) = 2 /\ x[1] = a /\ x[2] = b
    BY <2>1
  <2> HIDE DEF x
  <2>3. x = <<a, b>>
    BY <2>2
  <2>4. QED
    BY <2>3, Zenon DEF BytesOf, Newline, a, b, c, t, x
<1>2. BytesOf(k) # <<>> /\ Len(BytesOf(k)) = 3 /\ BytesOf(k)[3] = <<k, 3>>
  BY DEF BytesOf, Newline
<1>3. IsNewline(Last(BytesOf(k)))
  <2>1. Last(BytesOf(k)) = <<k, 3>>
    BY <1>2, Zenon DEF Last
  <2>2. QED
    BY <2>1 DEF IsNewline
<1>4. Front(BytesOf(k)) = SubSeq(BytesOf(k), 1, 2)
  <2>1. Len(BytesOf(k)) - 1 = 2
    BY <1>2
  <2>2. QED
    BY <2>1, Zenon DEF Front
<1>5. \A j : SubSeq(BytesOf(j), 1, 2) = SubSeq(BytesOf(k), 1, 2) <=> j = k
  <2>1. \A j : <<<<j, 1>>, <<j, 2>>>> = <<<<k, 1>>, <<k, 2>>>> <=> j = k
    OBVIOUS
  <2>2. QED
    BY <1>1, <2>1, Zenon
<1>6. Parsed(Front(BytesOf(k))) = {j \in DOMAIN script : script[j] # "bad" /\ j = k}
  <2>1. \A j : Front(BytesOf(k)) = SubSeq(BytesOf(j), 1, 2) <=> j = k
    BY <1>4, <1>5, Zenon
  <2>2. QED
    BY <2>1, Zenon DEF Parsed
<1>7. Parsed(Front(BytesOf(k))) = IF script[k] = "bad" THEN {} ELSE {k}
  BY <1>6
<1>8. QED
  BY <1>2, <1>3, <1>7

-----------------------------------------------------------------------------
(***************************************************************************)
(* Types.                                                                  *)
(***************************************************************************)

\* The script is of the type ScriptIs asks for, and its lines of messages.
LEMMA TypeTells ==
  ASSUME TypeOK
  PROVE  /\ ScriptOK /\ whole \in 0 .. Len(script) /\ Len(script) \in Nat /\ whole \in Nat
         /\ wire \in Seq(Bytes) /\ ready \in 0 .. Len(wire) /\ Len(wire) \in Nat
         /\ buf \in Seq(Bytes) /\ queue \in Seq(Messages) /\ out \in Seq(Messages \cup {Error})
<1>1. /\ ScriptOK /\ whole \in 0 .. Len(script) /\ wire \in Seq(Bytes) /\ ready \in 0 .. Len(wire)
      /\ buf \in Seq(Bytes) /\ queue \in Seq(Messages) /\ out \in Seq(Messages \cup {Error})
  BY Zenon DEF TypeOK, ScriptOK
<1>2. Len(script) \in Nat /\ Len(wire) \in Nat
  BY <1>1, ScriptIs
<1>3. QED
  BY <1>1, <1>2

\* A line is a place of the script.
LEMMA LineIs ==
  ASSUME TypeOK, NEW line \in 1 .. whole
  PROVE  line \in DOMAIN script
<1>1. DOMAIN script = 1 .. Len(script) /\ whole \in 0 .. Len(script) /\ Len(script) \in Nat
  BY TypeTells, ScriptIs
<1>2. QED
  BY <1>1

\* What parsing a text leaves.
LEMMA EnqueueType ==
  ASSUME TypeOK, NEW bytes \in Seq(Bytes), EnqueueFromBuf(bytes)
  PROVE  /\ reader' \in BOOLEAN /\ err' \in BOOLEAN /\ panicked' \in BOOLEAN
         /\ buf' \in Seq(Bytes) /\ queue' \in Seq(Messages)
<1>1. /\ reader \in BOOLEAN /\ err \in BOOLEAN /\ panicked \in BOOLEAN
      /\ buf \in Seq(Bytes) /\ queue \in Seq(Messages)
  BY Zenon DEF TypeOK
<1>2. <<>> \in Seq(Bytes)
  OBVIOUS
<1>3. bytes # <<>> => Front(bytes) \in Seq(Bytes)
  BY DEF Front
<1>4. \A k \in Parsed(Front(bytes)) : queue \o MessagesOf(k) \in Seq(Messages)
  <2>1. ASSUME NEW k \in Parsed(Front(bytes)) PROVE queue \o MessagesOf(k) \in Seq(Messages)
    <3>1. k \in DOMAIN script
      BY DEF Parsed
    <3>2. MessagesOf(k) \in Seq(Messages)
      BY <3>1, TypeTells, ScriptIs
    <3>3. QED
      BY <1>1, <3>2
  <2>2. QED
    BY <2>1
<1>5. QED
  BY <1>1, <1>2, <1>3, <1>4, Zenon DEF EnqueueFromBuf

\* Every step keeps the types.
LEMMA TypeStep ==
  ASSUME TypeOK, [Next]_vars
  PROVE  TypeOK'
<1> DEFINE Stream == /\ script \in SeqOf(Kinds, MaxLines) /\ whole \in 0 .. Len(script)
                     /\ wire \in Seq(Bytes) /\ ready \in 0 .. Len(wire) /\ failed \in BOOLEAN
           Self == /\ reader \in BOOLEAN /\ err \in BOOLEAN /\ buf \in Seq(Bytes)
                   /\ queue \in Seq(Messages) /\ panicked \in BOOLEAN
           Given == out \in Seq(Messages \cup {Error}) /\ ended \in BOOLEAN
<1>1. Stream /\ Self /\ Given
  BY Zenon DEF TypeOK
<1>2. Stream' /\ Self' /\ Given' => TypeOK'
  BY Zenon DEF TypeOK
<1>3. UNCHANGED streamVars => Stream'
  BY <1>1, Zenon DEF streamVars
<1>4. UNCHANGED <<selfVars, panicked>> => Self'
  BY <1>1, Zenon DEF selfVars
<1>5. UNCHANGED <<out, ended>> => Given'
  BY <1>1, Zenon
<1>6. ASSUME NEW n \in 0 .. ready, Consume(n)
      PROVE  Stream'
  <2>1. wire \in Seq(Bytes) /\ ready \in 0 .. Len(wire) /\ Len(wire) \in Nat
    BY TypeTells
  <2>2. n \in 0 .. Len(wire) /\ ready - n \in 0 .. Len(wire) - n
    BY <2>1
  <2>3. SubSeq(wire, n + 1, Len(wire)) \in Seq(Bytes)
        /\ Len(SubSeq(wire, n + 1, Len(wire))) = Len(wire) - n
    BY <2>1, <2>2, CutAt
  <2>4. wire' \in Seq(Bytes) /\ ready' \in 0 .. Len(wire')
    BY <1>6, <2>2, <2>3, Zenon DEF Consume
  <2>5. QED
    BY <1>1, <1>6, <2>4, Zenon DEF Consume
<1>7. CASE Arrive
  <2>1. ready' \in 0 .. Len(wire)
    <3>1. ready' \in ready + 1 .. Len(wire) /\ ready \in 0 .. Len(wire) /\ Len(wire) \in Nat
      BY <1>7, TypeTells DEF Arrive
    <3>2. QED
      BY <3>1
  <2>2. Stream'
    BY <1>1, <1>7, <2>1, Zenon DEF Arrive
  <2>3. Self' /\ Given'
    BY <1>4, <1>5, <1>7, Zenon DEF Arrive
  <2>4. QED
    BY <1>2, <2>2, <2>3, Zenon
<1>8. CASE HandOut
  <2>1. Head(queue) \in Messages /\ Tail(queue) \in Seq(Messages)
    BY <1>8, TypeTells DEF HandOut
  <2>2. Append(out, Head(queue)) \in Seq(Messages \cup {Error})
    BY <2>1, TypeTells
  <2>3. Given'
    BY <1>1, <1>8, <2>2, Zenon DEF HandOut
  <2>4. Self'
    BY <1>1, <1>8, <2>1, Zenon DEF HandOut
  <2>5. QED
    BY <1>2, <1>3, <1>8, <2>3, <2>4, Zenon DEF HandOut
<1>9. CASE HandOutError
  <2>1. Append(out, Error) \in Seq(Messages \cup {Error})
    <3>1. \A e : e \in Messages \cup {Error} => Append(out, e) \in Seq(Messages \cup {Error})
      BY TypeTells
    <3>2. QED
      BY <3>1, Zenon
  <2>2. Given' /\ Self'
    BY <1>1, <1>9, <2>1, Zenon DEF HandOutError
  <2>3. QED
    BY <1>2, <1>3, <1>9, <2>2, Zenon DEF HandOutError
<1>10. CASE HandOutEnd
  <2>1. Given'
    BY <1>1, <1>10, Zenon DEF HandOutEnd
  <2>2. QED
    BY <1>2, <1>3, <1>4, <1>10, <2>1, Zenon DEF HandOutEnd
<1>11. CASE ReadLine
  <2>1. PICK n : n = Min(NewlinesReady)
    OBVIOUS
  <2>2. n \in 0 .. ready
    <3>1. NewlinesReady \in SUBSET (1 .. ready) /\ NewlinesReady # {} /\ ready \in Nat
      BY <1>11, TypeTells DEF NewlinesReady, ReadLine
    <3>2. n \in NewlinesReady
      BY <2>1, <3>1, MinIs
    <3>3. QED
      BY <3>1, <3>2
  <2>3. Consume(n) /\ EnqueueFromBuf(buf \o SubSeq(wire, 1, n)) /\ UNCHANGED <<out, ended>>
    BY <1>11, <2>1, Zenon DEF ReadLine
  <2>4. buf \o SubSeq(wire, 1, n) \in Seq(Bytes)
    <3>1. wire \in Seq(Bytes) /\ buf \in Seq(Bytes) /\ n \in 0 .. Len(wire)
      BY <2>2, TypeTells
    <3>2. SubSeq(wire, 1, n) \in Seq(Bytes)
      BY <3>1, CutAt
    <3>3. QED
      BY <3>1, <3>2, ConcatProperties
  <2>5. Stream'
    BY <1>6, <2>2, <2>3, Zenon
  <2>6. Self'
    BY <2>3, <2>4, EnqueueType, Zenon
  <2>7. QED
    BY <1>2, <1>5, <2>3, <2>5, <2>6, Zenon
<1>12. CASE ReadPart
  <2>1. ready \in 0 .. ready /\ ready \in 0 .. Len(wire) /\ wire \in Seq(Bytes) /\ buf \in Seq(Bytes)
    BY TypeTells
  <2>2. SubSeq(wire, 1, ready) \in Seq(Bytes)
    BY <2>1, CutAt
  <2>3. buf \o SubSeq(wire, 1, ready) \in Seq(Bytes)
    BY <2>1, <2>2, ConcatProperties
  <2>4. Stream'
    BY <1>6, <1>12, <2>1, Zenon DEF ReadPart
  <2>5. Self'
    BY <1>1, <1>12, <2>3, Zenon DEF ReadPart
  <2>6. QED
    BY <1>2, <1>5, <1>12, <2>4, <2>5, Zenon DEF ReadPart
<1>13. CASE ReadEnd
  <2>1. Self'
    BY <1>1, <1>13, EnqueueType, Zenon DEF ReadEnd
  <2>2. QED
    BY <1>2, <1>3, <1>5, <1>13, <2>1, Zenon DEF ReadEnd
<1>14. CASE ReadFails
  <2>1. Stream' /\ Self'
    BY <1>1, <1>14, Zenon DEF ReadFails
  <2>2. QED
    BY <1>2, <1>5, <1>14, <2>1, Zenon DEF ReadFails
<1>15. CASE UNCHANGED vars
  BY <1>2, <1>3, <1>4, <1>5, <1>15, Zenon DEF vars, selfVars
<1>16. QED
  BY <1>7, <1>8, <1>9, <1>10, <1>11, <1>12, <1>13, <1>14, <1>15, Zenon DEF Next, Step

-----------------------------------------------------------------------------
(***************************************************************************)
(* What was taken from the lines.                                          *)
(***************************************************************************)

\* What was handed out, with the errors left out.
Given(o) == [n \in DOMAIN o |-> IF o[n] = Error THEN <<>> ELSE <<o[n]>>]

\* An error is no message.
LEMMA ErrorIsNoMessage == Error \notin Messages
BY DEF Error, Messages

\* What is handed out comes behind what was.
LEMMA GivenAppended ==
  ASSUME NEW o \in Seq(Messages \cup {Error}), NEW m \in Messages \cup {Error}
  PROVE  /\ FlattenSeq(Given(o)) \in Seq(Messages)
         /\ FlattenSeq(Given(Append(o, m))) =
              FlattenSeq(Given(o)) \o (IF m = Error THEN <<>> ELSE <<m>>)
<1> DEFINE of(x) == IF x = Error THEN <<>> ELSE <<x>>
<1>1. \A x \in Messages \cup {Error} : of(x) \in Seq(Messages)
  <2>1. ASSUME NEW x \in Messages \cup {Error} PROVE of(x) \in Seq(Messages)
    <3>1. CASE x = Error
      <4>1. <<>> \in Seq(Messages)
        OBVIOUS
      <4>2. QED
        BY <3>1, <4>1, Zenon
    <3>2. CASE x # Error
      <4>1. x \in Messages
        BY <3>2, Zenon
      <4>2. <<x>> \in Seq(Messages)
        BY <4>1
      <4>3. QED
        BY <3>2, <4>2, Zenon
    <3>3. QED
      BY <3>1, <3>2
  <2>2. QED
    BY <2>1
<1>2. Given(o) = [n \in DOMAIN o |-> of(o[n])] /\ Given(Append(o, m)) = [n \in DOMAIN Append(o, m) |-> of(Append(o, m)[n])]
  BY Zenon DEF Given
<1> HIDE DEF of
<1> DEFINE g == [n \in DOMAIN o |-> of(o[n])]
           p == Append(o, m)
           h == [n \in DOMAIN p |-> of(p[n])]
<1>3. g \in Seq(Seq(Messages)) /\ Len(g) = Len(o) /\ of(m) \in Seq(Messages)
  <2>1. DOMAIN o = 1 .. Len(o) /\ Len(o) \in Nat /\ \A n \in 1 .. Len(o) : o[n] \in Messages \cup {Error}
    OBVIOUS
  <2>2. \A n \in 1 .. Len(o) : of(o[n]) \in Seq(Messages)
    BY <1>1, <2>1, Zenon
  <2>3. g = [n \in 1 .. Len(o) |-> of(o[n])]
    BY <2>1, Zenon
  <2>4. [n \in 1 .. Len(o) |-> of(o[n])] \in Seq(Seq(Messages))
        /\ Len([n \in 1 .. Len(o) |-> of(o[n])]) = Len(o)
    BY <2>1, <2>2
  <2>5. QED
    BY <1>1, <2>3, <2>4, Zenon
<1>4. h = Append(g, of(m))
  <2>1. /\ p \in Seq(Messages \cup {Error}) /\ Len(p) = Len(o) + 1 /\ Len(o) \in Nat
        /\ \A i \in 1 .. Len(o) : p[i] = o[i]
        /\ p[Len(o) + 1] = m /\ DOMAIN o = 1 .. Len(o)
    OBVIOUS
  <2> HIDE DEF p
  <2>2. h \in Seq(Seq(Messages)) /\ Len(h) = Len(o) + 1
    BY <1>1, <2>1
  <2>3. /\ Append(g, of(m)) \in Seq(Seq(Messages)) /\ Len(Append(g, of(m))) = Len(o) + 1
        /\ \A i \in 1 .. Len(o) : Append(g, of(m))[i] = of(o[i])
        /\ Append(g, of(m))[Len(o) + 1] = of(m)
    BY <1>3, <2>1
  <2>4. \A i \in 1 .. Len(o) + 1 : h[i] = of(p[i])
    BY <2>1
  <2>5. \A i \in 1 .. Len(o) + 1 : h[i] = Append(g, of(m))[i]
    <3>1. ASSUME NEW i \in 1 .. Len(o) + 1 PROVE h[i] = Append(g, of(m))[i]
      <4> HIDE DEF g, h
      <4>1. i \in 1 .. Len(o) \/ i = Len(o) + 1
        BY <2>1
      <4>2. CASE i \in 1 .. Len(o)
        BY <2>1, <2>3, <2>4, <4>2, Zenon
      <4>3. CASE i = Len(o) + 1
        BY <2>1, <2>3, <2>4, <4>3, Zenon
      <4>4. QED
        BY <4>1, <4>2, <4>3
    <3>2. QED
      BY <3>1
  <2> HIDE DEF g, h
  <2>6. QED
    BY <2>2, <2>3, <2>5, SeqEqual
<1> HIDE DEF g, h
<1>5. FlattenSeq(g) \in Seq(Messages) /\ FlattenSeq(Append(g, of(m))) = FlattenSeq(g) \o of(m)
  BY <1>3, FlattenType, FlattenAppended
<1>6. QED
  BY <1>2, <1>4, <1>5, Zenon DEF g, h, p, of

\* What was handed out is a sequence of messages.
LEMMA HandedOutType ==
  ASSUME TypeOK
  PROVE  HandedOut \in Seq(Messages)
<1>1. out \in Seq(Messages \cup {Error}) /\ Error \in Messages \cup {Error}
  BY TypeTells
<1>2. QED
  BY <1>1, GivenAppended, Zenon DEF HandedOut, Given

\* Handing out takes nothing more from the lines, nor does handing out an error.
LEMMA TakenKept ==
  ASSUME TypeOK, HandOut \/ HandOutError \/ UNCHANGED <<out, queue>>
  PROVE  Taken' = Taken
<1>1. HandedOut = FlattenSeq(Given(out)) /\ HandedOut' = FlattenSeq(Given(out'))
  BY Zenon DEF HandedOut, Given
<1>2. out \in Seq(Messages \cup {Error}) /\ queue \in Seq(Messages) /\ HandedOut \in Seq(Messages)
  BY TypeTells, HandedOutType
<1> DEFINE H == HandedOut
           H2 == HandedOut'
<1>3. CASE HandOut
  <2>1. queue # <<>> /\ out' = Append(out, Head(queue)) /\ queue' = Tail(queue)
    BY <1>3 DEF HandOut
  <2>2. /\ Head(queue) \in Messages \cup {Error} /\ Head(queue) # Error /\ <<Head(queue)>> \in Seq(Messages)
        /\ Tail(queue) \in Seq(Messages) /\ <<Head(queue)>> \o Tail(queue) = queue
    <3>1. Head(queue) \in Messages /\ Tail(queue) \in Seq(Messages) /\ <<Head(queue)>> \o Tail(queue) = queue
      BY <1>2, <2>1
    <3>2. <<Head(queue)>> \in Seq(Messages)
      BY <3>1
    <3>3. QED
      BY <3>1, <3>2, ErrorIsNoMessage, Zenon
  <2>3. H2 = H \o <<Head(queue)>>
    BY <1>1, <1>2, <2>1, <2>2, GivenAppended, Zenon
  <2>4. (H \o <<Head(queue)>>) \o Tail(queue) = H \o (<<Head(queue)>> \o Tail(queue))
    BY <1>2, <2>2, Concatenated, SMTT(30)
  <2>5. QED
    BY <2>1, <2>2, <2>3, <2>4, Zenon DEF Taken
<1>4. CASE HandOutError
  <2>1. out' = Append(out, Error) /\ queue' = queue
    BY <1>4 DEF HandOutError
  <2>2. H2 = H \o <<>>
    BY <1>1, <1>2, <2>1, GivenAppended, Zenon
  <2>3. H \o <<>> = H
    BY <1>2, ConcatEmptySeq, Zenon
  <2>4. QED
    BY <2>1, <2>2, <2>3, Zenon DEF Taken
<1>5. CASE UNCHANGED <<out, queue>>
  BY <1>5, Zenon DEF Taken, HandedOut
<1>6. QED
  BY <1>3, <1>4, <1>5

\* What is queued is taken from the lines.
LEMMA TakenMore ==
  ASSUME TypeOK, out' = out, NEW ms \in Seq(Messages), queue' = queue \o ms
  PROVE  Taken' = Taken \o ms
<1>1. HandedOut \in Seq(Messages) /\ queue \in Seq(Messages)
  BY TypeTells, HandedOutType
<1>2. HandedOut' = HandedOut
  BY Zenon DEF HandedOut
<1>3. HandedOut \o (queue \o ms) = (HandedOut \o queue) \o ms
  BY <1>1, Concatenated, SMTT(30)
<1>4. QED
  BY <1>2, <1>3, Zenon DEF Taken

\* The messages of the lines are what they were.
LEMMA GoodSame ==
  ASSUME UNCHANGED script, NEW lines
  PROVE  GoodMessages(lines)' = GoodMessages(lines)
BY Zenon DEF GoodMessages, GoodLine, MessagesOf

\* Bytes that move from the wire to the buffer are still not parsed.
LEMMA UnparsedKept ==
  ASSUME UNCHANGED <<script, whole>>, (buf \o wire)' = buf \o wire, Len(buf') <= 2, Taken' = Taken,
         NEW line, UnparsedFrom(line)
  PROVE  UnparsedFrom(line)'
<1>1. GoodMessages(1 .. line)' = GoodMessages(1 .. line)
  BY GoodSame
<1>2. QED
  BY <1>1, Zenon DEF UnparsedFrom

-----------------------------------------------------------------------------
(***************************************************************************)
(* Every step keeps the messages in order.                                 *)
(***************************************************************************)

\* A step that takes nothing and reads nothing, or not a whole line.
LEMMA OrderKept ==
  ASSUME InOrder, UNCHANGED <<script, whole, failed, reader>>, Taken' = Taken,
         reader => (buf \o wire)' = buf \o wire /\ Len(buf') <= 2
  PROVE  InOrder'
<1>1. \A line : GoodMessages(1 .. line)' = GoodMessages(1 .. line)
  BY GoodSame
<1>2. GoodMessages(1 .. whole)' = GoodMessages(1 .. whole)
  BY Zenon DEF GoodMessages, GoodLine, MessagesOf
<1>3. ASSUME reader PROVE \E line \in 0 .. whole : UnparsedFrom(line)'
  <2>1. PICK line \in 0 .. whole : UnparsedFrom(line)
    BY <1>3, Zenon DEF InOrder
  <2>2. UnparsedFrom(line)'
    BY <1>3, <2>1, UnparsedKept, Zenon
  <2>3. QED
    BY <2>2
<1>4. QED
  BY <1>1, <1>2, <1>3, Zenon DEF InOrder

\* A step that gives the reader up.
LEMMA OrderEnds ==
  ASSUME UNCHANGED <<script, whole>>, Taken' = Taken, ~reader',
         \E line \in 0 .. whole : Taken = GoodMessages(1 .. line),
         ~failed' => Taken = GoodMessages(1 .. whole)
  PROVE  InOrder'
<1>1. \A line : GoodMessages(1 .. line)' = GoodMessages(1 .. line)
  BY GoodSame
<1>2. GoodMessages(1 .. whole)' = GoodMessages(1 .. whole)
  BY Zenon DEF GoodMessages, GoodLine, MessagesOf
<1>3. QED
  BY <1>1, <1>2, Zenon DEF InOrder

\* The lines through a good one are those before it and itself.
LEMMA GoodNext ==
  ASSUME TypeOK, NEW line \in Nat, line + 1 \in 1 .. whole, \A k \in 1 .. line : script[k] # "bad"
  PROVE  /\ script[line + 1] # "bad" =>
              GoodMessages(1 .. line + 1) = GoodMessages(1 .. line) \o MessagesOf(line + 1)
         /\ script[line + 1] = "bad" => GoodMessages(1 .. whole) = GoodMessages(1 .. line)
<1>1. ScriptOK /\ line + 1 \in DOMAIN script /\ whole \in Nat /\ line \in 0 .. whole
  BY TypeTells, LineIs
<1>2. ASSUME script[line + 1] # "bad"
      PROVE  GoodMessages(1 .. line + 1) = GoodMessages(1 .. line) \o MessagesOf(line + 1)
  <2>1. line \in 0 .. line + 1 /\ line + 1 \in Nat /\ line + 1 .. line + 1 = {line + 1}
    OBVIOUS
  <2>2. GoodMessages(1 .. line + 1) = GoodMessages(1 .. line) \o GoodMessages({line + 1})
    BY <1>1, <2>1, GoodSplit
  <2>3. GoodMessages({line + 1}) = GoodLine(line + 1)
    BY <1>1, GoodOne
  <2>4. \A j \in 1 .. line + 1 : script[j] # "bad"
    <3>1. \A j \in 1 .. line + 1 : j \in 1 .. line \/ j = line + 1
      OBVIOUS
    <3>2. QED
      BY <1>2, <3>1, Zenon
  <2>5. QED
    BY <2>2, <2>3, <2>4, Zenon DEF GoodLine
<1>3. ASSUME script[line + 1] = "bad" PROVE GoodMessages(1 .. whole) = GoodMessages(1 .. line)
  <2>1. /\ GoodMessages(1 .. whole) = GoodMessages(1 .. line) \o GoodMessages(line + 1 .. whole)
        /\ GoodMessages(1 .. line) \in Seq(Messages)
    BY <1>1, GoodSplit
  <2>2. \A k \in line + 1 .. whole : line + 1 \in 1 .. k
    BY <1>1
  <2>3. \A k \in line + 1 .. whole : GoodLine(k) = <<>>
    BY <1>3, <2>2, Zenon DEF GoodLine
  <2>4. GoodMessages(line + 1 .. whole) = <<>>
    BY <1>1, <2>3, GoodNone
  <2> DEFINE x == GoodMessages(1 .. line)
  <2> HIDE DEF x
  <2>5. x \in Seq(Messages) => x \o <<>> = x
    BY ConcatEmptySeq
  <2>6. QED
    BY <2>1, <2>4, <2>5, Zenon DEF x
<1>4. QED
  BY <1>2, <1>3

\* The line that is read through its newline is parsed: its messages are taken and
\* the next line is begun, or it is bad and no other is good.
LEMMA OrderReadLine ==
  ASSUME TypeOK, InOrder, ReadLine
  PROVE  InOrder' /\ (err' => err \/ ~reader') /\ (panicked' => panicked \/ ~reader')
<1>1. PICK line \in 0 .. whole : UnparsedFrom(line)
  BY Zenon DEF InOrder, ReadLine, Reads
<1>2. PICK n : n = Min(NewlinesReady)
  OBVIOUS
<1>3. /\ n \in 1 .. ready /\ Len(buf) + n = 3
      /\ buf \o SubSeq(wire, 1, n) = BytesOf(line + 1)
      /\ line + 1 \in 1 .. whole
  BY <1>1, <1>2, NextLine, Zenon DEF ReadLine
<1>4. Consume(n) /\ EnqueueFromBuf(BytesOf(line + 1)) /\ UNCHANGED <<out, ended>>
  BY <1>2, <1>3, Zenon DEF ReadLine
<1>5. /\ Taken = GoodMessages(1 .. line) /\ \A k \in 1 .. line : script[k] # "bad"
      /\ line \in Nat
  BY <1>1, UnparsedIs, Zenon DEF UnparsedFrom
<1>6. ScriptOK /\ line + 1 \in DOMAIN script
  BY <1>3, TypeTells, LineIs, Zenon
<1>7. /\ BytesOf(line + 1) # <<>> /\ IsNewline(Last(BytesOf(line + 1)))
      /\ Parsed(Front(BytesOf(line + 1))) = IF script[line + 1] = "bad" THEN {} ELSE {line + 1}
  BY <1>6, ParsedLine
<1>8. UNCHANGED <<script, whole, failed>>
  BY <1>4, Zenon DEF Consume
<1>9. CASE script[line + 1] = "bad"
  <2>1. err' = TRUE /\ reader' = FALSE /\ UNCHANGED <<queue, panicked>>
    BY <1>4, <1>7, <1>9, Zenon DEF EnqueueFromBuf
  <2>2. Taken' = Taken
    BY <1>4, <2>1, TakenKept, Zenon
  <2>3. Taken = GoodMessages(1 .. whole)
    BY <1>3, <1>5, <1>9, GoodNext, Zenon
  <2>4. QED
    BY <1>5, <1>8, <2>1, <2>2, <2>3, OrderEnds, Zenon
<1>10. CASE script[line + 1] # "bad"
  <2>1. /\ queue' = queue \o MessagesOf(line + 1) /\ buf' = <<>>
        /\ UNCHANGED <<reader, err, panicked>>
    <3>1. Parsed(Front(BytesOf(line + 1))) = {line + 1}
      BY <1>7, <1>10
    <3>2. QED
      BY <1>4, <1>7, <3>1 DEF EnqueueFromBuf
  <2>2. Taken' = Taken \o MessagesOf(line + 1)
    <3>1. MessagesOf(line + 1) \in Seq(Messages)
      BY <1>6, ScriptIs
    <3>2. QED
      BY <1>4, <2>1, <3>1, TakenMore, Zenon
  <2>3. Taken' = GoodMessages(1 .. line + 1)'
    <3>1. GoodMessages(1 .. line + 1)' = GoodMessages(1 .. line + 1)
      BY <1>8, GoodSame
    <3>2. GoodMessages(1 .. line + 1) = GoodMessages(1 .. line) \o MessagesOf(line + 1)
      BY <1>3, <1>5, <1>10, GoodNext
    <3>3. QED
      BY <1>5, <2>2, <3>1, <3>2, Zenon
  <2>4. \A k \in 1 .. line + 1 : script'[k] # "bad"
    <3>1. \A k \in 1 .. line + 1 : k \in 1 .. line \/ k = line + 1
      BY <1>5
    <3>2. QED
      BY <1>5, <1>8, <1>10, <3>1, Zenon
  <2> DEFINE w == SubSeq(wire, n + 1, Len(wire))
  <2>5. /\ whole \in Nat /\ Len(wire) \in Nat /\ wire \in Seq(Bytes) /\ n \in 0 .. Len(wire) /\ n \in Nat
        /\ 3 * line + Len(buf) + Len(wire) >= 3 * whole
        /\ 3 * line + Len(buf) + Len(wire) <= 3 * whole + 2
        /\ Len(buf) = 3 - n
    <3>1. /\ whole \in Nat /\ Len(wire) \in Nat /\ ready \in Nat /\ ready <= Len(wire)
          /\ 3 * line + Len(buf) + Len(wire) >= 3 * whole
          /\ 3 * line + Len(buf) + Len(wire) <= 3 * whole + 2
          /\ wire \in Seq(Bytes) /\ Len(buf) \in 0 .. 2
      BY <1>1, UnparsedIs, Zenon
    <3>2. QED
      BY <1>3, <3>1
  <2>6. \A i \in 1 .. Len(wire) : Place(wire[i]) = 3 * line + Len(buf) + i
    BY <1>1, UnparsedIs, Zenon
  <2>7. w \in Seq(Bytes) /\ Len(w) = Len(wire) - n /\ \A i \in 1 .. Len(wire) - n : w[i] = wire[n + i]
    BY <2>5, CutAt
  <2> HIDE DEF w
  <2>8. ASSUME NEW i \in 1 .. Len(w) PROVE Place(w[i]) = 3 * (line + 1) + i
    <3>1. n + i \in 1 .. Len(wire) /\ i \in 1 .. Len(wire) - n
          /\ 3 * line + Len(buf) + (n + i) = 3 * (line + 1) + i
      BY <1>5, <2>5, <2>7
    <3>2. QED
      BY <2>6, <2>7, <3>1, Zenon
  <2>9. 3 * (line + 1) + Len(w) \in 3 * whole .. 3 * whole + 2 /\ line + 1 \in 0 .. whole
    BY <1>3, <1>5, <2>5, <2>7
  <2>10. buf' \o wire' = w /\ Len(buf') <= 2 /\ DOMAIN w = 1 .. Len(w)
    <3>1. wire' = w /\ buf' = <<>>
      BY <1>4, <2>1, Zenon DEF Consume, w
    <3>2. <<>> \o w = w /\ DOMAIN w = 1 .. Len(w) /\ Len(<<>>) <= 2
      BY <2>7
    <3>3. QED
      BY <3>1, <3>2, Zenon
  <2>11. UnparsedFrom(line + 1)'
    BY <1>8, <2>3, <2>4, <2>8, <2>9, <2>10, Zenon DEF UnparsedFrom
  <2>12. reader'
    BY <2>1, Zenon DEF ReadLine, Reads
  <2>13. InOrder'
    BY <1>8, <2>9, <2>11, <2>12, Zenon DEF InOrder
  <2>14. QED
    BY <2>1, <2>13, Zenon
<1>11. QED
  BY <1>9, <1>10

\* Without a newline less than a line is read.
LEMMA OrderReadPart ==
  ASSUME TypeOK, InOrder, ReadPart
  PROVE  InOrder'
<1>1. PICK line \in 0 .. whole : UnparsedFrom(line)
  BY Zenon DEF InOrder, ReadPart, Reads
<1> DEFINE l == Len(buf)
           v == SubSeq(wire, 1, ready)
           w == SubSeq(wire, ready + 1, Len(wire))
<1>2. /\ line \in Nat /\ Len(wire) \in Nat /\ ready \in Nat /\ ready <= Len(wire) /\ l \in 0 .. 2
  BY <1>1, UnparsedIs, Zenon
<1>3. \A i \in 1 .. Len(wire) : wire[i] \in Bytes /\ Place(wire[i]) = 3 * line + l + i
  BY <1>1, UnparsedIs, Zenon
<1>4. wire \in Seq(Bytes) /\ buf \in Seq(Bytes) /\ ready \in 0 .. Len(wire)
  BY TypeTells, Zenon
<1>5. NewlinesReady = {} /\ wire' = w /\ buf' = buf \o v /\ UNCHANGED <<script, whole, failed, reader, queue, out>>
  BY Zenon DEF ReadPart, Consume
<1>6. /\ v \in Seq(Bytes) /\ Len(v) = ready /\ w \in Seq(Bytes) /\ v \o w = wire
  BY <1>4, CutAt
<1> HIDE DEF l, v, w
<1>7. l + ready <= 2
  <2>1. SUFFICES ASSUME l + ready > 2 PROVE FALSE
    BY <1>2
  <2>2. PICK m \in 1 .. ready : l + m = 3
    <3>1. 3 - l \in 1 .. ready /\ l + (3 - l) = 3
      BY <1>2, <2>1
    <3>2. QED
      BY <3>1, Zenon
  <2>3. m \in 1 .. Len(wire) /\ 3 * line + l + m = 3 * line + 3
    BY <1>2, <2>2
  <2>4. Place(wire[m]) = 3 * line + 3 /\ wire[m] \in Bytes
    BY <1>3, <2>3
  <2>5. IsNewline(wire[m])
    BY <1>2, <2>4, PlaceTells
  <2>6. QED
    BY <1>5, <2>5 DEF NewlinesReady
<1>8. (buf \o v) \o w = buf \o wire
  <2>1. buf \in Seq(Bytes) /\ v \in Seq(Bytes) /\ w \in Seq(Bytes)
    BY <1>4, <1>6, Zenon
  <2>2. (buf \o v) \o w = buf \o (v \o w)
    BY <2>1, Concatenated, SMTT(30)
  <2>3. QED
    BY <1>6, <2>2, Zenon
<1>9. Len(buf \o v) = l + ready
  <2>1. buf \in Seq(Bytes) /\ v \in Seq(Bytes)
    BY <1>4, <1>6, Zenon
  <2>2. Len(buf \o v) = Len(buf) + Len(v)
    BY <2>1
  <2>3. QED
    BY <1>6, <2>2, Zenon DEF l
<1>10. Len(buf') <= 2
  BY <1>5, <1>7, <1>9, Zenon
<1>11. Taken' = Taken
  BY <1>5, TakenKept, Zenon
<1>12. (buf \o wire)' = buf \o wire
  BY <1>5, <1>8, Zenon
<1>13. QED
  BY <1>5, <1>10, <1>11, <1>12, OrderKept, Zenon

\* At the end of the stream all whole lines are parsed; a part of another makes the
\* assertion fail.
LEMMA OrderReadEnd ==
  ASSUME TypeOK, InOrder, ReadEnd
  PROVE  InOrder' /\ ~reader' /\ UNCHANGED err
<1>1. PICK line \in 0 .. whole : UnparsedFrom(line)
  BY Zenon DEF InOrder, ReadEnd, Reads
<1>2. /\ line \in Nat /\ whole \in Nat /\ line <= whole /\ Len(buf) \in 0 .. 2
      /\ 3 * line + Len(buf) + Len(wire) >= 3 * whole
  BY <1>1, UnparsedIs, Zenon
<1>3. \A i \in 1 .. Len(buf) : buf[i] \in Bytes /\ Place(buf[i]) = 3 * line + i
  BY <1>1, UnparsedIs, Zenon
<1>4. buf \in Seq(Bytes) /\ Len(wire) = 0
  BY TypeTells DEF ReadEnd
<1>5. line = whole /\ Taken = GoodMessages(1 .. line)
  <2>1. line = whole
    <3>1. PICK l \in 0 .. 2 : Len(buf) = l
      BY <1>2
    <3>2. 3 * line + l >= 3 * whole
      BY <1>2, <1>4, <3>1
    <3>3. QED
      BY <1>2, <3>2
  <2>2. Taken = GoodMessages(1 .. line)
    BY <1>1, Zenon DEF UnparsedFrom
  <2>3. QED
    BY <2>1, <2>2
<1>6. buf # <<>> => ~IsNewline(Last(buf))
  <2>1. SUFFICES ASSUME buf # <<>> PROVE ~IsNewline(Last(buf))
    OBVIOUS
  <2>2. Len(buf) \in 1 .. 2 /\ Len(buf) \in 1 .. Len(buf)
    BY <1>2, <1>4, <2>1
  <2>3. Last(buf) \in Bytes /\ Place(Last(buf)) = 3 * line + Len(buf)
    BY <1>3, <2>2, Zenon DEF Last
  <2>4. Len(buf) \in 1 .. 3 /\ Len(buf) # 3
    BY <2>2
  <2>5. QED
    BY <1>2, <2>3, <2>4, PlaceTells, Zenon
<1>7. ~reader' /\ UNCHANGED <<err, queue, out, script, whole, failed>>
  BY <1>6, Zenon DEF ReadEnd, EnqueueFromBuf, streamVars
<1>8. Taken' = Taken
  BY <1>7, TakenKept, Zenon
<1>9. InOrder'
  BY <1>5, <1>7, <1>8, OrderEnds, Zenon
<1>10. QED
  BY <1>7, <1>9

\* When a read fails what was taken is all messages up to some line.
LEMMA OrderReadFails ==
  ASSUME TypeOK, InOrder, ReadFails
  PROVE  InOrder'
<1>1. PICK line \in 0 .. whole : UnparsedFrom(line)
  BY Zenon DEF InOrder, ReadFails, Reads
<1>2. Taken = GoodMessages(1 .. line)
  BY <1>1, Zenon DEF UnparsedFrom
<1>3. ~reader' /\ failed' /\ UNCHANGED <<queue, out, script, whole>>
  BY Zenon DEF ReadFails
<1>4. Taken' = Taken
  BY <1>3, TakenKept, Zenon
<1>5. QED
  BY <1>1, <1>2, <1>3, <1>4, OrderEnds, Zenon

\* Every step keeps the order.
LEMMA OrderStep ==
  ASSUME TypeOK, InOrder, InTurn, [Next]_vars
  PROVE  InOrder'
<1>1. reader => Len(buf) <= 2
  <2>1. SUFFICES ASSUME reader PROVE Len(buf) <= 2
    OBVIOUS
  <2>2. PICK line \in 0 .. whole : UnparsedFrom(line)
    BY <2>1, Zenon DEF InOrder
  <2>3. QED
    BY <2>2, Zenon DEF UnparsedFrom
<1>2. ASSUME UNCHANGED <<script, whole, failed, reader, buf, wire>>,
             HandOut \/ HandOutError \/ UNCHANGED <<out, queue>>
      PROVE  InOrder'
  <2>1. Taken' = Taken
    BY <1>2, TakenKept
  <2>2. (buf \o wire)' = buf \o wire /\ (reader => Len(buf') <= 2)
    BY <1>1, <1>2, Zenon
  <2>3. QED
    BY <1>2, <2>1, <2>2, OrderKept, Zenon
<1>3. CASE Arrive
  BY <1>2, <1>3, Zenon DEF Arrive, selfVars
<1>4. CASE HandOut
  BY <1>2, <1>4, Zenon DEF HandOut, streamVars
<1>5. CASE HandOutError
  BY <1>2, <1>5, Zenon DEF HandOutError, streamVars
<1>6. CASE HandOutEnd
  BY <1>2, <1>6, Zenon DEF HandOutEnd, streamVars, selfVars
<1>7. CASE UNCHANGED vars
  BY <1>2, <1>7, Zenon DEF vars, streamVars, selfVars
<1>8. QED
  BY <1>3, <1>4, <1>5, <1>6, <1>7, OrderReadLine, OrderReadPart, OrderReadEnd, OrderReadFails, Zenon
    DEF Next, Step

\* Every step keeps the turns of the queue, the error and the end.
LEMMA TurnStep ==
  ASSUME TypeOK, InOrder, InTurn, [Next]_vars
  PROVE  InTurn'
<1>1. /\ err \/ panicked => ~reader
      /\ Error \in Range(out) \/ ended => ~reader /\ ~err /\ queue = <<>>
  BY Zenon DEF InTurn
<1>2. CASE Arrive
  BY <1>1, <1>2, Zenon DEF Arrive, selfVars, InTurn
<1>3. CASE HandOut
  <2>1. ~(Error \in Range(out)) /\ ~ended
    BY <1>1, <1>3, Zenon DEF HandOut
  <2>2. Error \notin Range(out')
    <3>1. queue \in Seq(Messages) /\ out \in Seq(Messages \cup {Error}) /\ queue # <<>>
          /\ out' = Append(out, Head(queue))
      BY <1>3, TypeTells DEF HandOut
    <3>2. Head(queue) # Error
      BY <3>1, ErrorIsNoMessage
    <3>3. \A x : Range(Append(out, x)) = Range(out) \cup {x}
      BY <3>1 DEF Range
    <3>4. QED
      BY <2>1, <3>1, <3>2, <3>3
  <2>3. QED
    BY <1>1, <1>3, <2>1, <2>2, Zenon DEF HandOut, InTurn
<1>4. CASE HandOutError
  BY <1>1, <1>4, Zenon DEF HandOutError, InTurn
<1>5. CASE HandOutEnd
  BY <1>1, <1>5, Zenon DEF HandOutEnd, selfVars, InTurn
<1>6. ASSUME Reads, UNCHANGED <<out, ended>>, err' \/ panicked' => ~reader'
      PROVE  InTurn'
  <2>1. ~(Error \in Range(out)) /\ ~ended
    BY <1>1, <1>6, Zenon DEF Reads
  <2>2. QED
    BY <1>6, <2>1, Zenon DEF InTurn
<1>7. CASE ReadLine
  BY <1>6, <1>7, OrderReadLine, Zenon DEF ReadLine, Reads
<1>8. CASE ReadPart
  BY <1>6, <1>8, Zenon DEF ReadPart, Reads
<1>9. CASE ReadEnd
  BY <1>6, <1>9, OrderReadEnd, Zenon DEF ReadEnd
<1>10. CASE ReadFails
  BY <1>6, <1>10, Zenon DEF ReadFails
<1>11. CASE UNCHANGED vars
  BY <1>1, <1>11, Zenon DEF vars, selfVars, InTurn
<1>12. QED
  BY <1>2, <1>3, <1>4, <1>5, <1>7, <1>8, <1>9, <1>10, <1>11, Zenon DEF Next, Step

-----------------------------------------------------------------------------
(***************************************************************************)
(* The initial states.                                                     *)
(***************************************************************************)

\* Nothing has been taken.
LEMMA NothingTaken ==
  ASSUME out = <<>>, queue = <<>>
  PROVE  Taken = <<>>
<1>1. [n \in DOMAIN out |-> IF out[n] = Error THEN <<>> ELSE <<out[n]>>] = <<>>
  OBVIOUS
<1>2. HandedOut = <<>>
  BY <1>1, FlattenEmpty, Zenon DEF HandedOut
<1>3. <<>> \o <<>> = <<>>
  OBVIOUS
<1>4. QED
  BY <1>2, <1>3, Zenon DEF Taken

\* The wire holds the bytes of the lines, in their places, up to where it is cut.
LEMMA InitWire ==
  ASSUME Init
  PROVE  /\ ScriptOK /\ wire \in Seq(Bytes) /\ Len(wire) \in Nat /\ whole \in 0 .. Len(script)
         /\ Len(wire) \in 3 * whole .. 3 * whole + 2
         /\ \A n \in 1 .. Len(wire) : Place(wire[n]) = n
<1>1. ScriptOK
  BY DEF Init, ScriptOK
<1> DEFINE m == Len(script)
           s == BytesUpTo(m)
<1>2. m \in 0 .. MaxLines /\ m \in Nat /\ DOMAIN script = 1 .. m
  BY <1>1, ScriptIs, StreamerAssumption
<1>3. FlattenSeq([k \in DOMAIN script |-> BytesOf(k)]) = s
  BY <1>2, Zenon DEF BytesUpTo
<1>4. wire \in Prefixes(s)
  BY <1>3, Zenon DEF Init
<1> HIDE DEF m
<1>5. s \in Seq(Bytes) /\ Len(s) = 3 * m /\ \A n \in 1 .. Len(s) : Place(s[n]) = n
  <2>1. BytesInPlace(s, m)
    BY <1>2, StreamIs
  <2>2. QED
    BY <2>1, Zenon DEF BytesInPlace
<1> HIDE DEF s
<1>6. PICK l \in 0 .. Len(s) : wire = SubSeq(s, 1, l)
  BY <1>4, Zenon DEF Prefixes
<1>7. wire \in Seq(Bytes) /\ Len(wire) = l /\ \A n \in 1 .. l : wire[n] = s[n]
  BY <1>5, <1>6, CutAt
<1>8. whole = l \div 3 /\ l \in Nat /\ l <= 3 * m
  BY <1>2, <1>5, <1>7 DEF Init
<1>9. whole \in 0 .. m /\ l \in 3 * whole .. 3 * whole + 2
  <2>1. l \div 3 \in Nat /\ 3 * (l \div 3) <= l /\ l <= 3 * (l \div 3) + 2
    BY <1>8
  <2>2. QED
    BY <1>2, <1>8, <2>1
<1>10. \A n \in 1 .. l : Place(wire[n]) = n
  BY <1>2, <1>5, <1>7, <1>8
<1>11. QED
  BY <1>1, <1>7, <1>8, <1>9, <1>10, Zenon DEF m

\* The invariant holds at the beginning.
LEMMA InitInv ==
  ASSUME Init
  PROVE  IInv
<1>1. /\ script \in SeqOf(Kinds, MaxLines) /\ wire \in Seq(Bytes) /\ Len(wire) \in Nat
      /\ whole \in 0 .. Len(script) /\ Len(wire) \in 3 * whole .. 3 * whole + 2
      /\ \A n \in 1 .. Len(wire) : Place(wire[n]) = n
  BY InitWire, Zenon DEF ScriptOK
<1>2. /\ ready = 0 /\ failed = FALSE /\ reader = TRUE /\ buf = <<>> /\ queue = <<>> /\ err = FALSE
      /\ out = <<>> /\ panicked = FALSE /\ ended = FALSE
  BY Zenon DEF Init
<1>3. TypeOK
  <2>1. 0 \in 0 .. Len(wire)
    BY <1>1
  <2>2. \A S : <<>> \in Seq(S)
    OBVIOUS
  <2>3. QED
    BY <1>1, <1>2, <2>1, <2>2, Zenon DEF TypeOK
<1>4. UnparsedFrom(0) /\ 0 \in 0 .. whole
  <2>1. ScriptOK /\ whole \in Nat
    BY <1>3, TypeTells
  <2>2. buf \o wire = wire /\ DOMAIN wire = 1 .. Len(wire)
    <3>1. <<>> \o wire = wire /\ DOMAIN wire = 1 .. Len(wire)
      BY <1>1
    <3>2. QED
      BY <1>2, <3>1, Zenon
  <2>3. Taken = GoodMessages(1 .. 0)
    <3>1. GoodMessages({}) = <<>> /\ 1 .. 0 = {}
      BY <2>1, GoodNone
    <3>2. QED
      BY <1>2, <3>1, NothingTaken, Zenon
  <2>4. /\ 3 * 0 + Len(wire) \in 3 * whole .. 3 * whole + 2
        /\ \A n \in 1 .. Len(wire) : Place(wire[n]) = 3 * 0 + n
    BY <1>1
  <2>5. Len(buf) <= 2 /\ \A k \in 1 .. 0 : script[k] # "bad"
    BY <1>2
  <2>6. UnparsedFrom(0)
    BY <2>2, <2>3, <2>4, <2>5, Zenon DEF UnparsedFrom
  <2>7. QED
    BY <2>1, <2>6
<1>5. Error \notin Range(out)
  BY <1>2 DEF Range
<1>6. QED
  BY <1>2, <1>3, <1>4, <1>5, Zenon DEF IInv, InOrder, InTurn

-----------------------------------------------------------------------------
(***************************************************************************)
(* The theorems.                                                           *)
(***************************************************************************)

\* What was taken is a sequence of messages.
LEMMA TakenType ==
  ASSUME TypeOK
  PROVE  Taken \in Seq(Messages)
<1>1. HandedOut \in Seq(Messages) /\ queue \in Seq(Messages)
  BY TypeTells, HandedOutType
<1>2. QED
  BY <1>1, ConcatProperties DEF Taken

\* The newlines on the wire are those of the lines that are not parsed.
LEMMA NewlinesLeft ==
  ASSUME TypeOK, NEW line \in 0 .. whole, UnparsedFrom(line)
  PROVE  {wire[n][1] : n \in {n \in DOMAIN wire : IsNewline(wire[n])}} = line + 1 .. whole
<1> DEFINE l == Len(buf)
<1>1. /\ line \in Nat /\ whole \in Nat /\ line <= whole /\ Len(wire) \in Nat /\ l \in 0 .. 2
      /\ 3 * line + l + Len(wire) >= 3 * whole
      /\ 3 * line + l + Len(wire) <= 3 * whole + 2
  BY UnparsedIs, Zenon
<1>2. \A i \in 1 .. Len(wire) : wire[i] \in Bytes /\ Place(wire[i]) = 3 * line + l + i
  BY UnparsedIs, Zenon
<1>3. DOMAIN wire = 1 .. Len(wire)
  BY TypeTells
<1> HIDE DEF l
<1>4. ASSUME NEW n \in 1 .. Len(wire), IsNewline(wire[n])
      PROVE  wire[n][1] \in line + 1 .. whole
  <2>1. wire[n] \in Bytes /\ Place(wire[n]) = 3 * line + l + n
    BY <1>2
  <2>2. PICK k \in 1 .. MaxLines, j \in 1 .. 3 : wire[n] = <<k, j>>
    BY <2>1 DEF Bytes
  <2>3. wire[n][1] = k /\ j = 3 /\ 3 * (k - 1) + j = 3 * line + l + n /\ k \in Nat
    BY <1>4, <2>1, <2>2, StreamerAssumption DEF Place, IsNewline
  <2>4. k \in line + 1 .. whole
    BY <1>1, <2>3
  <2>5. QED
    BY <2>3, <2>4, Zenon
<1>5. ASSUME NEW k \in line + 1 .. whole
      PROVE  \E n \in 1 .. Len(wire) : IsNewline(wire[n]) /\ wire[n][1] = k
  <2>1. PICK j \in Nat : k = j + 1
    <3>1. k - 1 \in Nat /\ k = k - 1 + 1
      BY <1>1
    <3>2. QED
      BY <3>1, Zenon
  <2>2. PICK n \in 1 .. Len(wire) : 3 * line + l + n = 3 * j + 3
    <3>1. 3 * k - 3 * line - l \in 1 .. Len(wire)
          /\ 3 * line + l + (3 * k - 3 * line - l) = 3 * j + 3
      BY <1>1, <2>1
    <3>2. QED
      BY <3>1, Zenon
  <2>3. wire[n] \in Bytes /\ Place(wire[n]) = 3 * j + 3
    BY <1>2, <2>2, Zenon
  <2>4. wire[n] = <<j + 1, 3>> /\ IsNewline(wire[n])
    <3>1. 3 \in 1 .. 3
      OBVIOUS
    <3>2. QED
      BY <2>3, <3>1, PlaceTells, Zenon
  <2>5. wire[n][1] = k
    BY <2>1, <2>4
  <2>6. QED
    BY <2>4, <2>5
<1>6. QED
  BY <1>3, <1>4, <1>5, Zenon

\* What the invariant says of the messages.
LEMMA InvTells ==
  ASSUME IInv
  PROVE  MessagesConserved
<1> DEFINE newlines == {n \in DOMAIN wire : IsNewline(wire[n])}
           left == IF reader THEN {wire[n][1] : n \in newlines} ELSE {}
<1>1. TypeOK /\ InOrder /\ ScriptOK /\ whole \in Nat
  BY TypeTells, Zenon DEF IInv
<1>2. ASSUME NEW line \in 0 .. whole
      PROVE  /\ GoodMessages(1 .. whole) = GoodMessages(1 .. line) \o GoodMessages(line + 1 .. whole)
             /\ IsPrefix(GoodMessages(1 .. line), GoodMessages(1 .. whole))
  <2> DEFINE x == GoodMessages(1 .. line)
             y == GoodMessages(line + 1 .. whole)
  <2>1. GoodMessages(1 .. whole) = x \o y /\ x \in Seq(Messages) /\ y \in Seq(Messages)
    BY <1>1, GoodSplit
  <2> HIDE DEF x, y
  <2>2. IsPrefix(x, x \o y)
    BY <2>1, PrefixOfConcat
  <2>3. QED
    BY <2>1, <2>2, Zenon DEF x, y
<1>3. CASE ~reader
  <2>1. left = {}
    BY <1>3
  <2>2. GoodMessages(left) = <<>>
    BY <1>1, <2>1, GoodNone
  <2>3. \E line \in 0 .. whole : Taken = GoodMessages(1 .. line)
    BY <1>1, <1>3, Zenon DEF InOrder
  <2>4. IsPrefix(Taken, GoodMessages(1 .. whole))
    BY <1>2, <2>3, Zenon
  <2>5. Taken \o <<>> = Taken
    BY <1>1, TakenType, ConcatEmptySeq, Zenon
  <2>6. ~failed => Taken = GoodMessages(1 .. whole)
    BY <1>1, <1>3, Zenon DEF InOrder
  <2>7. QED
    BY <2>2, <2>4, <2>5, <2>6, Zenon DEF MessagesConserved
<1>4. CASE reader
  <2>1. PICK line \in 0 .. whole : UnparsedFrom(line)
    BY <1>1, <1>4, Zenon DEF InOrder
  <2>2. Taken = GoodMessages(1 .. line)
    BY <2>1, Zenon DEF UnparsedFrom
  <2>3. left = line + 1 .. whole
    BY <1>1, <1>4, <2>1, NewlinesLeft, Zenon
  <2>4. QED
    BY <1>2, <2>2, <2>3, Zenon DEF MessagesConserved
<1>5. QED
  BY <1>3, <1>4

\* ReadStreamer keeps its types.
THEOREM TypeCorrect == Spec => []TypeOK
<1>1. Init => TypeOK
  BY InitInv DEF IInv
<1>2. TypeOK /\ [Next]_vars => TypeOK'
  BY TypeStep
<1>3. QED
  BY <1>1, <1>2, PTL DEF Spec

\* However the bytes arrive, what was not parsed begins with a line, what was taken is
\* what the lines before it say, and the error and the end come in their turn.
THEOREM StreamInvariant == Spec => []IInv
<1>1. Init => IInv
  BY InitInv
<1>2. IInv /\ [Next]_vars => IInv'
  BY TypeStep, OrderStep, TurnStep, Zenon DEF IInv
<1>3. QED
  BY <1>1, <1>2, PTL DEF Spec

\* No message of a whole line is lost, repeated or out of order, for streams of any
\* number of lines that are cut and scattered in any way.
THEOREM MessagesAreConserved == Spec => []MessagesConserved
<1>1. IInv => MessagesConserved
  BY InvTells
<1>2. QED
  BY <1>1, StreamInvariant, PTL

\* Nothing but the end follows an error, and nothing the end.
THEOREM NothingComesAfterError == Spec => NothingAfterError
<1>1. IInv /\ [Next]_vars => [(Error \in Range(out) \/ ended) => (out' = out)]_vars
  <2>1. SUFFICES ASSUME IInv, Next, Error \in Range(out) \/ ended
                 PROVE  out' = out
    BY Zenon
  <2>2. ~reader /\ ~err /\ queue = <<>>
    BY <2>1, Zenon DEF IInv, InTurn
  <2>3. ~HandOut /\ ~HandOutError
    BY <2>2, Zenon DEF HandOut, HandOutError
  <2>4. QED
    BY <2>1, <2>3, Zenon
      DEF Next, Step, Arrive, HandOutEnd, ReadLine, ReadPart, ReadEnd, ReadFails
<1>2. QED
  BY <1>1, StreamInvariant, PTL DEF Spec, NothingAfterError

=============================================================================
