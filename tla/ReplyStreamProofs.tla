--------------------------- MODULE ReplyStreamProofs ---------------------------
(***************************************************************************)
(* Proofs about ReplyStream, for any calls, streams, chunks, interrupts    *)
(* and failures.  They go from the functions that cut a text into lines    *)
(* and fold these (the recursion they stand for has to be shown to exist)  *)
(* to three invariants, each on top of the one before:                     *)
(*   Basics     the types, the course of a turn, and what frames and       *)
(*              messages may hold;                                         *)
(*   Orders     the buffer holds just the part of a line that has arrived, *)
(*              so that each event is read once, and its frame is numbered *)
(*              after those before it;                                     *)
(*   Wholeness  what has been read has been gathered and streamed, and a   *)
(*              message knows how its stream has ended.                    *)
(***************************************************************************)
EXTENDS ReplyStream, ListLemmas

-----------------------------------------------------------------------------
(* Bytes and lines.                                                        *)

Bytes == Nat \X Nat
Acc   == [lines : Seq(Seq(Bytes)), rest : Seq(Bytes)]

Scanning(text) ==
  CHOOSE a : a = [k \in 0..Len(text) |->
    IF k = 0 THEN [lines |-> <<>>, rest |-> <<>>] ELSE Scan(a[k - 1], text[k])]

LEMMA ScanTyped ==
  ASSUME NEW acc \in Acc, NEW b \in Bytes
  PROVE  /\ Scan(acc, b) \in Acc
         /\ b = NL => Scan(acc, b) = [lines |-> Append(acc.lines, acc.rest), rest |-> <<>>]
         /\ b # NL => Scan(acc, b) = [lines |-> acc.lines, rest |-> Append(acc.rest, b)]
<1>1. acc.lines \in Seq(Seq(Bytes)) /\ acc.rest \in Seq(Bytes) /\ acc = [lines |-> acc.lines, rest |-> acc.rest]
  BY DEF Acc
<1>2. Append(acc.lines, acc.rest) \in Seq(Seq(Bytes)) /\ Append(acc.rest, b) \in Seq(Bytes)
      /\ <<>> \in Seq(Bytes)
  BY <1>1
<1> QED BY <1>1, <1>2 DEF Scan, Acc

LEMMA ScanningIs ==
  ASSUME NEW text \in Seq(Bytes)
  PROVE  /\ Scanning(text) \in [0..Len(text) -> Acc]
         /\ Scanning(text)[0] = [lines |-> <<>>, rest |-> <<>>]
         /\ \A k \in 1..Len(text) : Scanning(text)[k] = Scan(Scanning(text)[k - 1], text[k])
         /\ Lines(text) = IF Scanning(text)[Len(text)].rest = <<>> THEN Scanning(text)[Len(text)].lines
                          ELSE Append(Scanning(text)[Len(text)].lines, Scanning(text)[Len(text)].rest)
<1> DEFINE n == Len(text)
           b == [lines |-> <<>>, rest |-> <<>>]
           F == [k \in 1..n |-> [a \in Acc |-> Scan(a, text[k])]]
           body(a) == [k \in 0..n |-> IF k = 0 THEN b ELSE Scan(a[k - 1], text[k])]
<1>1. n \in Nat /\ b \in Acc /\ \A k \in 1..n : text[k] \in Bytes
  BY DEF Acc
<1>2. F \in [1..n -> [Acc -> Acc]]
  <2>1. ASSUME NEW k \in 1..n, NEW a \in Acc PROVE Scan(a, text[k]) \in Acc
    BY <1>1, ScanTyped
  <2> QED BY <2>1
<1>3. PICK h \in [0..n -> Acc] : \A k \in 0..n : h[k] = IF k = 0 THEN b ELSE F[k][h[k - 1]]
  <2> HIDE DEF F, b, n
  <2>1. Result(n, Acc, b, F)
    BY <1>1, <1>2, Recursion DEF Steps
  <2> QED BY <2>1 DEF Result
<1>4. ASSUME NEW k \in 0..n PROVE h[k] = IF k = 0 THEN b ELSE Scan(h[k - 1], text[k])
  <2>1. CASE k = 0
    BY <1>3, <2>1
  <2>2. CASE k # 0
    <3>1. k \in 1..n /\ h[k - 1] \in Acc
      BY <2>2, <1>1, <1>3
    <3>2. F[k][h[k - 1]] = Scan(h[k - 1], text[k])
      BY <3>1
    <3> QED BY <2>2, <3>2, <1>3
  <2> QED BY <2>1, <2>2
<1>5. h = body(h)
  <2> HIDE DEF F, b, n
  <2> QED BY <1>3, <1>4
<1> DEFINE a == Scanning(text)
<1>6. a = body(a)
  <2>1. \E x : x = body(x)
    <3> HIDE DEF F, b, n, body
    <3> QED BY <1>5
  <2>2. a = CHOOSE x : x = body(x)
    BY DEF Scanning
  <2> HIDE DEF a, body
  <2> QED BY <2>1, <2>2
<1>7. Lines(text) = IF a[n].rest = <<>> THEN a[n].lines ELSE Append(a[n].lines, a[n].rest)
  BY DEF Lines, Scanning
<1> HIDE DEF a
<1>8. \A k \in 0..n : a[k] = IF k = 0 THEN b ELSE Scan(a[k - 1], text[k])
  <2> HIDE DEF F, b
  <2> QED BY <1>6
<1>9. a[0] = b /\ \A k \in 1..n : a[k] = Scan(a[k - 1], text[k])
  <2> HIDE DEF F, b
  <2>1. 0 \in 0..n /\ \A k \in 1..n : k \in 0..n /\ k # 0
    BY <1>1
  <2> QED BY <1>8, <2>1
<1>10. \A k \in 0..n : a[k] \in Acc
  <2> DEFINE T == {k \in 0..n : a[k] \in Acc}
  <2> HIDE DEF b, F, n
  <2>1. 0 \in T
    BY <1>1, <1>9
  <2>2. ASSUME NEW k \in 1..n, k - 1 \in T PROVE k \in T
    <3>1. a[k - 1] \in Acc /\ text[k] \in Bytes /\ k \in 0..n
      BY <2>2, <1>1
    <3>2. a[k] \in Acc
      BY <3>1, <1>9, ScanTyped
    <3> QED BY <3>1, <3>2
  <2>3. \A k \in 0..n : k \in T
    <3> HIDE DEF T
    <3> QED BY <2>1, <2>2, <1>1, Induct
  <2> QED BY <2>3
<1>11. a \in [0..n -> Acc]
  <2> HIDE DEF b, F
  <2>1. a = [k \in 0..n |-> a[k]]
    BY <1>6
  <2> QED BY <2>1, <1>10
<1> QED BY <1>7, <1>9, <1>11 DEF a

\* The bytes of the four parts of an event.
LEMMA Quarters ==
  \A p \in Nat : \E q \in Nat : \E r \in 0..3 : p = 4 * q + r /\ p \div 4 = q /\ p % 4 = r
OBVIOUS

LEMMA ByteAt ==
  ASSUME NEW q \in Nat, NEW r \in 0..3
  PROVE  /\ Byte(4 * q + r + 1) = IF r >= 2 THEN NL ELSE <<q + 1, r + 1>>
         /\ Byte(4 * q + r + 1) \in Bytes
<1>1. (4 * q + r + 1) - 1 = 4 * q + r
  OBVIOUS
<1>2. (4 * q + r) % 4 = r /\ (4 * q + r) \div 4 = q
  OBVIOUS
<1>3. r + 1 > 2 <=> r >= 2
  OBVIOUS
<1>4. Byte(4 * q + r + 1) = IF r >= 2 THEN NL ELSE <<q + 1, r + 1>>
  BY <1>1, <1>2, <1>3 DEF Byte
<1>5. NL \in Bytes /\ <<q + 1, r + 1>> \in Bytes
  BY DEF NL, Bytes
<1> QED BY <1>4, <1>5

LineOf(i) == <<<<i, 1>>, <<i, 2>>>>

\* What is left in the buffer after p bytes of a call.
Partial(p) ==
  LET i == p \div 4 + 1
  IN CASE p % 4 = 0 -> <<>>
       [] p % 4 = 1 -> <<<<i, 1>>>>
       [] OTHER     -> LineOf(i)

\* Lines that are those of the events after m, one by one; count says how many
\* events there have been.
Counts(lines, m, count) ==
  /\ count \in [0..Len(lines) -> Nat] /\ count[0] = m
  /\ \A k \in 1..Len(lines) :
       \/ lines[k] = <<>> /\ count[k] = count[k - 1]
       \/ lines[k] = LineOf(count[k - 1] + 1) /\ count[k] = count[k - 1] + 1

Counted(lines, m, c) == \E count : Counts(lines, m, count) /\ count[Len(lines)] = c

LEMMA CountsNone == ASSUME NEW m \in Nat PROVE Counted(<<>>, m, m)
<1> DEFINE e == <<>>
           count == [k \in 0..0 |-> m]
<1>1. Len(e) = 0 /\ count \in [0..0 -> Nat] /\ count[0] = m /\ 1..0 = {}
  OBVIOUS
<1> HIDE DEF e, count
<1>2. Counts(e, m, count) /\ count[Len(e)] = m
  BY <1>1 DEF Counts
<1>3. Counted(e, m, m)
  BY <1>2 DEF Counted
<1> QED BY <1>3 DEF e

LEMMA CountsMore ==
  ASSUME NEW X, NEW lines \in Seq(X), NEW line \in X, NEW m \in Nat, NEW c \in Nat, NEW d \in Nat,
         Counted(lines, m, c),
         (line = <<>> /\ d = c) \/ (line = LineOf(c + 1) /\ d = c + 1)
  PROVE  Counted(Append(lines, line), m, d)
<1> DEFINE more == Append(lines, line)
           n == Len(lines)
<1>1. PICK count : Counts(lines, m, count) /\ count[n] = c
  BY DEF Counted
<1>2. /\ n \in Nat /\ Len(more) = n + 1 /\ more[n + 1] = line
      /\ \A k \in 1..n : more[k] = lines[k]
  OBVIOUS
<1> DEFINE longer == [k \in 0..(n + 1) |-> IF k = n + 1 THEN d ELSE count[k]]
<1>3. /\ count \in [0..n -> Nat] /\ count[0] = m
      /\ \A k \in 1..n : \/ lines[k] = <<>> /\ count[k] = count[k - 1]
                         \/ lines[k] = LineOf(count[k - 1] + 1) /\ count[k] = count[k - 1] + 1
  BY <1>1 DEF Counts
<1> HIDE DEF more, n
<1>4. longer \in [0..(n + 1) -> Nat] /\ longer[0] = m /\ longer[n + 1] = d /\ longer[n] = c
  BY <1>1, <1>2, <1>3
<1>5. ASSUME NEW k \in 1..(n + 1)
      PROVE  \/ more[k] = <<>> /\ longer[k] = longer[k - 1]
             \/ more[k] = LineOf(longer[k - 1] + 1) /\ longer[k] = longer[k - 1] + 1
  <2>1. CASE k = n + 1
    <3>1. k - 1 = n
      BY <2>1, <1>2
    <3> HIDE DEF longer
    <3> QED BY <2>1, <3>1, <1>2, <1>4
  <2>2. CASE k # n + 1
    <3>1. k \in 1..n /\ k - 1 \in 0..n /\ k - 1 # n + 1
      BY <2>2, <1>2
    <3>2. longer[k] = count[k] /\ longer[k - 1] = count[k - 1]
      BY <3>1, <2>2, <1>2
    <3> HIDE DEF longer
    <3> QED BY <3>1, <3>2, <1>2, <1>3
  <2> QED BY <2>1, <2>2
<1> HIDE DEF longer
<1>6. Counts(more, m, longer) /\ longer[Len(more)] = d
  BY <1>2, <1>4, <1>5 DEF Counts
<1>7. Counted(more, m, d)
  BY <1>6 DEF Counted
<1> QED BY <1>7 DEF more

\* The last line can be taken off again.
LEMMA CountsLess ==
  ASSUME NEW X, NEW lines \in Seq(X), lines # <<>>, NEW m \in Nat, NEW c \in Nat, Counted(lines, m, c)
  PROVE  /\ Front(lines) \in Seq(X) /\ Len(Front(lines)) = Len(lines) - 1
         /\ Last(lines) = lines[Len(lines)]
         /\ Last(lines) = <<>> => Counted(Front(lines), m, c)
         /\ \A i \in Nat : Last(lines) = LineOf(i) => c = i /\ Counted(Front(lines), m, i - 1)
<1> DEFINE n == Len(lines)
           less == Front(lines)
<1>1. n \in Nat /\ n # 0
  OBVIOUS
<1>2. less = [k \in 1..(n - 1) |-> lines[k]] /\ Last(lines) = lines[n]
  BY DEF Front, Last
<1>3. less \in Seq(X) /\ Len(less) = n - 1 /\ \A k \in 1..(n - 1) : less[k] = lines[k]
  BY <1>1, <1>2
<1>4. PICK count : Counts(lines, m, count) /\ count[n] = c
  BY DEF Counted
<1>5. /\ count \in [0..n -> Nat] /\ count[0] = m
      /\ \A k \in 1..n : \/ lines[k] = <<>> /\ count[k] = count[k - 1]
                         \/ lines[k] = LineOf(count[k - 1] + 1) /\ count[k] = count[k - 1] + 1
  BY <1>4 DEF Counts
<1> HIDE DEF less, n
<1> DEFINE fewer == [k \in 0..(n - 1) |-> count[k]]
<1>6. fewer \in [0..(n - 1) -> Nat] /\ fewer[0] = m /\ \A k \in 0..(n - 1) : fewer[k] = count[k]
  BY <1>1, <1>5
<1> HIDE DEF fewer
<1>7. Counts(less, m, fewer)
  <2>1. ASSUME NEW k \in 1..(n - 1)
        PROVE  \/ less[k] = <<>> /\ fewer[k] = fewer[k - 1]
               \/ less[k] = LineOf(fewer[k - 1] + 1) /\ fewer[k] = fewer[k - 1] + 1
    <3>1. k \in 1..n /\ k \in 0..(n - 1) /\ k - 1 \in 0..(n - 1)
      BY <1>1
    <3> QED BY <3>1, <1>3, <1>5, <1>6
  <2> QED BY <2>1, <1>3, <1>6 DEF Counts
<1>8. Counted(less, m, count[n - 1])
  <2>1. fewer[Len(less)] = count[n - 1]
    BY <1>1, <1>3, <1>6
  <2> QED BY <2>1, <1>7 DEF Counted
<1>9. \/ lines[n] = <<>> /\ c = count[n - 1]
      \/ lines[n] = LineOf(count[n - 1] + 1) /\ c = count[n - 1] + 1
  BY <1>1, <1>4, <1>5
<1>10. count[n - 1] \in Nat
  BY <1>1, <1>5
<1>11. \A i : LineOf(i) # <<>>
  BY DEF LineOf
<1>12. \A i, j : LineOf(i) = LineOf(j) => i = j
  BY DEF LineOf
<1>13. Last(lines) = <<>> => Counted(less, m, c)
  BY <1>2, <1>8, <1>9, <1>11
<1>14. ASSUME NEW i \in Nat, Last(lines) = LineOf(i) PROVE c = i /\ Counted(less, m, i - 1)
  <2>1. i = count[n - 1] + 1 /\ c = count[n - 1] + 1
    BY <1>2, <1>9, <1>11, <1>12, <1>14
  <2>2. i - 1 = count[n - 1]
    BY <2>1, <1>10
  <2> QED BY <2>1, <2>2, <1>8
<1> QED BY <1>2, <1>3, <1>13, <1>14 DEF less, n

\* Where the scan of a chunk is that has come to byte 4 * q + r, from byte s.
ScannedAt(acc, s, q, r) ==
  /\ acc \in Acc
  /\ \/ /\ r = 0 /\ acc.rest = <<>> /\ Counted(acc.lines, s \div 4, q)
        /\ 4 * q \notin {s, s + 1} => acc.lines # <<>> /\ Last(acc.lines) = <<>>
     \/ r = 1 /\ acc.rest = <<<<q + 1, 1>>>> /\ Counted(acc.lines, s \div 4, q)
     \/ r = 2 /\ acc.rest = LineOf(q + 1) /\ Counted(acc.lines, s \div 4, q)
     \/ r = 3 /\ 4 * q + 3 = s /\ acc.rest = LineOf(q + 1) /\ Counted(acc.lines, s \div 4, q)
     \/ /\ r = 3 /\ 4 * q + 3 # s /\ acc.rest = <<>> /\ Counted(acc.lines, s \div 4, q + 1)
        /\ acc.lines # <<>> /\ Last(acc.lines) = LineOf(q + 1)

LEMMA AppendPair ==
  ASSUME NEW x \in Bytes, NEW y \in Bytes
  PROVE  Append(<<x>>, y) = <<x, y>>
<1> DEFINE t == Append(<<x>>, y)
<1>1. <<x>> \in Seq(Bytes) /\ Len(<<x>>) = 1 /\ <<x>>[1] = x
  OBVIOUS
<1>2. t \in Seq(Bytes) /\ Len(t) = 2 /\ t[1] = x /\ t[2] = y
  BY <1>1
<1> HIDE DEF t
<1>3. t = <<x, y>>
  BY <1>2
<1> QED BY <1>3 DEF t

LEMMA ScanStep ==
  ASSUME NEW acc, NEW s \in Nat, NEW q \in Nat, NEW r \in 0..3, s <= 4 * q + r,
         ScannedAt(acc, s, q, r)
  PROVE  ScannedAt(Scan(acc, Byte(4 * q + r + 1)), s, IF r = 3 THEN q + 1 ELSE q, IF r = 3 THEN 0 ELSE r + 1)
<1> DEFINE b == Byte(4 * q + r + 1)
           next4 == Scan(acc, b)
           m == s \div 4
<1>1. b = (IF r >= 2 THEN NL ELSE <<q + 1, r + 1>>) /\ b \in Bytes
  BY ByteAt
<1>2. acc \in Acc /\ acc.lines \in Seq(Seq(Bytes)) /\ acc.rest \in Seq(Bytes)
  BY DEF ScannedAt, Acc
<1>3. <<q + 1, r + 1>> # NL /\ m \in Nat
  BY DEF NL
<1> HIDE DEF b, m
<1>4. /\ next4 \in Acc
      /\ b = NL => next4 = [lines |-> Append(acc.lines, acc.rest), rest |-> <<>>]
      /\ b # NL => next4 = [lines |-> acc.lines, rest |-> Append(acc.rest, b)]
  BY <1>1, <1>2, ScanTyped
<1> HIDE DEF next4
<1>5. CASE r = 0
  <2>1. acc.rest = <<>> /\ Counted(acc.lines, m, q)
    BY <1>5 DEF ScannedAt, m
  <2>2. b = <<q + 1, 1>> /\ b # NL
    BY <1>1, <1>3, <1>5
  <2>3. next4.lines = acc.lines /\ next4.rest = <<<<q + 1, 1>>>>
    BY <1>4, <2>1, <2>2
  <2> QED BY <2>1, <2>3, <1>4, <1>5 DEF ScannedAt, next4, m, b
<1>6. CASE r = 1
  <2>1. acc.rest = <<<<q + 1, 1>>>> /\ Counted(acc.lines, m, q)
    BY <1>6 DEF ScannedAt, m
  <2>2. b = <<q + 1, 2>> /\ b # NL
    BY <1>1, <1>3, <1>6
  <2>3. next4.lines = acc.lines /\ next4.rest = LineOf(q + 1)
    <3>1. next4.lines = acc.lines /\ next4.rest = Append(acc.rest, b)
      BY <1>4, <2>2
    <3>2. <<q + 1, 1>> \in Bytes /\ <<q + 1, 2>> \in Bytes
      BY DEF Bytes
    <3>3. Append(<<<<q + 1, 1>>>>, <<q + 1, 2>>) = <<<<q + 1, 1>>, <<q + 1, 2>>>>
      BY <3>2, AppendPair
    <3> QED BY <3>1, <3>2, <3>3, <2>1, <2>2 DEF LineOf
  <2> QED BY <2>1, <2>3, <1>4, <1>6 DEF ScannedAt, next4, m, b
<1>7. CASE r \in {2, 3} /\ acc.rest = LineOf(q + 1) /\ Counted(acc.lines, m, q)
  <2>1. b = NL
    BY <1>1, <1>7
  <2>2. next4.lines = Append(acc.lines, acc.rest) /\ next4.rest = <<>>
    BY <1>4, <1>7, <2>1
  <2>3. Counted(next4.lines, m, q + 1)
    <3>0. q + 1 \in Nat
      OBVIOUS
    <3>1. Counted(Append(acc.lines, acc.rest), m, q + 1)
      BY <3>0, <1>2, <1>3, <1>7, CountsMore
    <3> QED BY <3>1, <2>2
  <2>4. next4.lines # <<>> /\ Last(next4.lines) = LineOf(q + 1)
    <3>1. Append(acc.lines, acc.rest) # <<>> /\ Last(Append(acc.lines, acc.rest)) = acc.rest
      BY <1>2, AppendLast
    <3> QED BY <3>1, <2>2, <1>7
  <2>5. CASE r = 2
    <3>1. 4 * q + 3 # s
      BY <2>5
    <3> QED BY <2>2, <2>3, <2>4, <2>5, <3>1, <1>4 DEF ScannedAt, next4, m, b
  <2>6. CASE r = 3
    <3>1. acc.rest # <<>>
      BY <1>7 DEF LineOf
    <3>2. 4 * q + 3 = s
      BY <2>6, <3>1 DEF ScannedAt
    <3>3. 4 * (q + 1) = s + 1
      BY <3>2
    <3> QED BY <2>2, <2>3, <2>6, <3>3, <1>4 DEF ScannedAt, next4, m, b
  <2> QED BY <1>7, <2>5, <2>6
<1>8. CASE r = 3 /\ acc.rest = <<>> /\ Counted(acc.lines, m, q + 1)
  <2>1. b = NL
    BY <1>1, <1>8
  <2>2. next4.lines = Append(acc.lines, acc.rest) /\ next4.rest = <<>>
    BY <1>4, <1>8, <2>1
  <2>3. Counted(next4.lines, m, q + 1)
    <3>1. acc.rest = <<>> /\ q + 1 \in Nat
      BY <1>8
    <3> QED BY <3>1, <2>2, <1>2, <1>3, <1>8, CountsMore
  <2>4. next4.lines # <<>> /\ Last(next4.lines) = <<>>
    <3>1. Append(acc.lines, acc.rest) # <<>> /\ Last(Append(acc.lines, acc.rest)) = acc.rest
      BY <1>2, AppendLast
    <3> QED BY <3>1, <2>2, <1>8
  <2> QED BY <2>2, <2>3, <2>4, <1>4, <1>8 DEF ScannedAt, next4, m, b
<1> QED BY <1>5, <1>6, <1>7, <1>8 DEF ScannedAt, m

Arrived(s, n) == Partial(s) \o [j \in 1..(n - s) |-> Byte(s + j)]

LEMMA PartialIs ==
  ASSUME NEW q \in Nat, NEW r \in 0..3
  PROVE  /\ Partial(4 * q + r) = IF r = 0 THEN <<>> ELSE IF r = 1 THEN <<<<q + 1, 1>>>> ELSE LineOf(q + 1)
         /\ Partial(4 * q + r) \in Seq(Bytes)
<1>1. (4 * q + r) % 4 = r /\ (4 * q + r) \div 4 = q
  OBVIOUS
<1>2. Partial(4 * q + r) = IF r = 0 THEN <<>> ELSE IF r = 1 THEN <<<<q + 1, 1>>>> ELSE LineOf(q + 1)
  <2> DEFINE p == 4 * q + r
  <2> HIDE DEF p
  <2>1. p % 4 = r /\ p \div 4 = q
    BY <1>1 DEF p
  <2>2. Partial(p) = CASE r = 0 -> <<>> [] r = 1 -> <<<<q + 1, 1>>>> [] OTHER -> LineOf(q + 1)
    BY <2>1 DEF Partial
  <2>3. Partial(p) = IF r = 0 THEN <<>> ELSE IF r = 1 THEN <<<<q + 1, 1>>>> ELSE LineOf(q + 1)
    BY <2>2
  <2> QED BY <2>3 DEF p
<1>3. <<q + 1, 1>> \in Bytes /\ <<q + 1, 2>> \in Bytes
  BY DEF Bytes
<1>4. \A x, y \in Bytes : <<x>> \in Seq(Bytes) /\ <<x, y>> \in Seq(Bytes) /\ <<>> \in Seq(Bytes)
  OBVIOUS
<1>5. <<<<q + 1, 1>>>> \in Seq(Bytes) /\ LineOf(q + 1) \in Seq(Bytes) /\ <<>> \in Seq(Bytes)
  BY <1>3, <1>4 DEF LineOf
<1> QED BY <1>2, <1>5

\* What is left in the buffer is scanned first.
LEMMA ScanBuffer ==
  ASSUME NEW s \in Nat, NEW text \in Seq(Bytes), Len(Partial(s)) <= Len(text),
         \A k \in 1..Len(Partial(s)) : text[k] = Partial(s)[k],
         NEW q \in Nat, NEW r \in 0..3, s = 4 * q + r
  PROVE  ScannedAt(Scanning(text)[Len(Partial(s))], s, q, r)
<1> DEFINE a == Scanning(text)
           e == [lines |-> <<>>, rest |-> <<>>]
<1>1. /\ a \in [0..Len(text) -> Acc] /\ a[0] = e
      /\ \A k \in 1..Len(text) : a[k] = Scan(a[k - 1], text[k])
  BY ScanningIs
<1>2. Partial(s) = (IF r = 0 THEN <<>> ELSE IF r = 1 THEN <<<<q + 1, 1>>>> ELSE LineOf(q + 1))
  BY PartialIs
<1>3. Counted(<<>>, s \div 4, q)
  <2>1. s \div 4 = q
    OBVIOUS
  <2> QED BY <2>1, CountsNone
<1>4. <<q + 1, 1>> \in Bytes /\ <<q + 1, 2>> \in Bytes /\ <<q + 1, 1>> # NL /\ <<q + 1, 2>> # NL
  BY DEF Bytes, NL
<1>5. e \in Acc
  BY DEF Acc
<1> HIDE DEF a
<1>6. CASE r = 0
  <2>1. Len(Partial(s)) = 0
    BY <1>2, <1>6
  <2>2. 4 * q = s
    BY <1>6
  <2>3. ScannedAt(e, s, q, r)
    BY <1>3, <1>5, <1>6, <2>2 DEF ScannedAt
  <2> QED BY <1>1, <2>1, <2>3 DEF a
<1>7. ASSUME r \in 1..3 PROVE Len(text) >= 1 /\ a[1] = [lines |-> <<>>, rest |-> <<<<q + 1, 1>>>>] /\ a[1] \in Acc
  <2>1. Len(Partial(s)) >= 1 /\ Partial(s)[1] = <<q + 1, 1>>
    BY <1>2, <1>7 DEF LineOf
  <2>2. Len(text) \in Nat /\ Len(Partial(s)) \in Nat
    BY PartialIs
  <2>3. 1 \in 1..Len(text) /\ text[1] = <<q + 1, 1>> /\ 1 - 1 = 0
    BY <2>1, <2>2
  <2>4. a[1] = Scan(e, <<q + 1, 1>>)
    <3>1. a[1] = Scan(a[1 - 1], text[1])
      BY <2>3, <1>1
    <3> QED BY <3>1, <2>3, <1>1
  <2>5. Scan(e, <<q + 1, 1>>) = [lines |-> e.lines, rest |-> Append(e.rest, <<q + 1, 1>>)]
        /\ Scan(e, <<q + 1, 1>>) \in Acc
    <3> HIDE DEF e
    <3> QED BY <1>4, <1>5, ScanTyped
  <2> QED BY <2>3, <2>4, <2>5
<1>8. CASE r = 1
  <2>1. Len(Partial(s)) = 1
    BY <1>2, <1>8
  <2>2. a[1].lines = <<>> /\ a[1].rest = <<<<q + 1, 1>>>> /\ a[1] \in Acc
    BY <1>7, <1>8
  <2>3. Counted(a[1].lines, s \div 4, q)
    BY <2>2, <1>3
  <2>4. ScannedAt(a[1], s, q, r)
    BY <2>2, <2>3, <1>8 DEF ScannedAt
  <2> QED BY <2>1, <2>4 DEF a
<1>9. CASE r \in {2, 3}
  <2>1. Len(Partial(s)) = 2 /\ Partial(s)[2] = <<q + 1, 2>>
    BY <1>2, <1>9 DEF LineOf
  <2>2. 2 \in 1..Len(text) /\ text[2] = <<q + 1, 2>> /\ 2 - 1 = 1
    BY <2>1
  <2>3. a[2] = Scan(a[1], <<q + 1, 2>>)
    BY <2>2, <1>1
  <2> DEFINE a1 == a[1]
             a2 == a[2]
             y == <<q + 1, 2>>
  <2>6. r \in 1..3 /\ y \in Bytes /\ y # NL
    BY <1>4, <1>9
  <2>7. a1 = [lines |-> <<>>, rest |-> <<<<q + 1, 1>>>>] /\ a1 \in Acc
    BY <2>6, <1>7
  <2> HIDE DEF a1, a2, y
  <2>4. a2 = [lines |-> a1.lines, rest |-> Append(a1.rest, y)] /\ a2 \in Acc
    <3>1. a2 = Scan(a1, y)
      BY <2>3 DEF a1, a2, y
    <3>2. Scan(a1, y) = [lines |-> a1.lines, rest |-> Append(a1.rest, y)] /\ Scan(a1, y) \in Acc
      BY <2>6, <2>7, ScanTyped
    <3> QED BY <3>1, <3>2
  <2>5. a2.lines = <<>> /\ a2.rest = LineOf(q + 1)
    <3>1. a2.lines = <<>> /\ a2.rest = Append(<<<<q + 1, 1>>>>, <<q + 1, 2>>)
      BY <2>4, <2>7 DEF y
    <3>2. Append(<<<<q + 1, 1>>>>, <<q + 1, 2>>) = <<<<q + 1, 1>>, <<q + 1, 2>>>>
      BY <1>4, AppendPair
    <3> QED BY <3>1, <3>2 DEF LineOf
  <2>8. Counted(a2.lines, s \div 4, q) /\ (r = 3 => 4 * q + 3 = s)
    BY <2>5, <1>3
  <2>9. ScannedAt(a2, s, q, r)
    BY <2>4, <2>5, <2>8, <1>9 DEF ScannedAt
  <2> QED BY <2>1, <2>9 DEF a, a2
<1> QED BY <1>6, <1>8, <1>9

LEMMA ScannedWhole ==
  ASSUME NEW s \in Nat, NEW n \in Nat, s < n
  PROVE  /\ Arrived(s, n) \in Seq(Bytes)
         /\ \E q \in Nat : \E r \in 0..3 : /\ n = 4 * q + r
                                           /\ ScannedAt(Scanning(Arrived(s, n))[Len(Arrived(s, n))], s, q, r)
<1> DEFINE text == Arrived(s, n)
           b == Len(Partial(s))
           a == Scanning(text)
           new == [j \in 1..(n - s) |-> Byte(s + j)]
<1>1. PICK q0 \in Nat, r0 \in 0..3 : s = 4 * q0 + r0
  BY Quarters
<1>2. Partial(s) \in Seq(Bytes) /\ b \in Nat
  <2>1. Partial(4 * q0 + r0) \in Seq(Bytes)
    BY PartialIs
  <2> QED BY <2>1, <1>1
<1>3. new \in Seq(Bytes) /\ Len(new) = n - s /\ \A j \in 1..(n - s) : new[j] = Byte(s + j)
  <2>1. ASSUME NEW j \in 1..(n - s) PROVE Byte(s + j) \in Bytes
    <3>1. PICK q \in Nat, r \in 0..3 : s + j - 1 = 4 * q + r
      <4>1. s + j - 1 \in Nat
        OBVIOUS
      <4> QED BY <4>1, Quarters
    <3>2. s + j = 4 * q + r + 1
      BY <3>1
    <3> QED BY <3>2, ByteAt
  <2> QED BY <2>1
<1>4. /\ text \in Seq(Bytes) /\ Len(text) = b + (n - s)
      /\ \A k \in 1..b : text[k] = Partial(s)[k]
      /\ \A j \in 1..(n - s) : text[b + j] = Byte(s + j)
  <2> HIDE DEF new
  <2>1. text = Partial(s) \o new
    BY DEF Arrived, new
  <2>2. ASSUME NEW u \in Seq(Bytes), NEW v \in Seq(Bytes)
        PROVE  /\ u \o v \in Seq(Bytes) /\ Len(u \o v) = Len(u) + Len(v)
               /\ \A k \in 1..Len(u) : (u \o v)[k] = u[k]
               /\ \A j \in 1..Len(v) : (u \o v)[Len(u) + j] = v[j]
    OBVIOUS
  <2> DEFINE part == Partial(s)
  <2> HIDE DEF part
  <2>3. part \in Seq(Bytes) /\ new \in Seq(Bytes)
    BY <1>2, <1>3 DEF part
  <2>4. /\ part \o new \in Seq(Bytes) /\ Len(part \o new) = Len(part) + Len(new)
        /\ \A k \in 1..Len(part) : (part \o new)[k] = part[k]
        /\ \A j \in 1..Len(new) : (part \o new)[Len(part) + j] = new[j]
    BY <2>2, <2>3
  <2>5. \A j \in 1..(n - s) : (part \o new)[Len(part) + j] = Byte(s + j)
    BY <2>4, <1>3
  <2> HIDE DEF text
  <2> QED BY <2>1, <2>4, <2>5, <1>3 DEF part
<1> DEFINE Here(j) == \E q \in Nat : \E r \in 0..3 : s + j = 4 * q + r /\ ScannedAt(a[b + j], s, q, r)
           T == {j \in 0..(n - s) : Here(j)}
<1> HIDE DEF text, new
<1>5. Here(0)
  <2>1. ScannedAt(a[b], s, q0, r0)
    BY <1>1, <1>2, <1>4, ScanBuffer
  <2>2. s + 0 = 4 * q0 + r0 /\ b + 0 = b
    BY <1>1, <1>2
  <2> QED BY <2>1, <2>2
<1>6. ASSUME NEW j \in 1..(n - s), Here(j - 1) PROVE Here(j)
  <2>1. PICK q \in Nat, r \in 0..3 : s + (j - 1) = 4 * q + r /\ ScannedAt(a[b + (j - 1)], s, q, r)
    BY <1>6
  <2>2. s <= 4 * q + r /\ s + j = 4 * q + r + 1
    BY <2>1
  <2> DEFINE q1 == IF r = 3 THEN q + 1 ELSE q
             r1 == IF r = 3 THEN 0 ELSE r + 1
  <2>3. ScannedAt(Scan(a[b + (j - 1)], Byte(4 * q + r + 1)), s, q1, r1)
    BY <2>1, <2>2, ScanStep
  <2>4. a[b + j] = Scan(a[b + (j - 1)], Byte(4 * q + r + 1))
    <3>1. b + j \in 1..Len(text) /\ (b + j) - 1 = b + (j - 1)
      BY <1>2, <1>4
    <3>2. a[b + j] = Scan(a[(b + j) - 1], text[b + j])
      BY <3>1, <1>4, ScanningIs
    <3> QED BY <3>1, <3>2, <1>4, <2>2
  <2>5. q1 \in Nat /\ r1 \in 0..3 /\ s + j = 4 * q1 + r1
    BY <2>2
  <2> HIDE DEF q1, r1
  <2> QED BY <2>3, <2>4, <2>5
<1>7. Here(n - s)
  <2>1. 0 \in T
    BY <1>5
  <2>2. ASSUME NEW j \in 1..(n - s), j - 1 \in T PROVE j \in T
    <3>1. Here(j)
      <4> HIDE DEF Here
      <4> QED BY <2>2, <1>6
    <3> QED BY <3>1
  <2> HIDE DEF T
  <2>3. n - s \in Nat
    OBVIOUS
  <2>4. \A j \in 0..(n - s) : j \in T
    <3> DEFINE d == n - s
    <3> HIDE DEF d
    <3> QED BY <2>1, <2>2, <2>3, Induct DEF d
  <2>5. n - s \in T
    BY <2>3, <2>4
  <2> HIDE DEF Here
  <2> QED BY <2>5 DEF T
<1>8. s + (n - s) = n /\ b + (n - s) = Len(text)
  BY <1>2, <1>4
<1> QED BY <1>4, <1>7, <1>8 DEF text

\* The lines of a chunk: those of the events that have become complete, and
\* what has arrived of the next.
LEMMA LinesRead ==
  ASSUME NEW s \in Nat, NEW n \in Nat, s < n, ~(n = s + 1 /\ n % 4 = 0)
  PROVE  /\ Front(Lines(Arrived(s, n))) \in Seq(Seq(Bytes))
         /\ Last(Lines(Arrived(s, n))) = Partial(n)
         /\ Counted(Front(Lines(Arrived(s, n))), s \div 4, n \div 4)
<1> DEFINE text == Arrived(s, n)
           acc == Scanning(text)[Len(text)]
           m == s \div 4
<1>1. text \in Seq(Bytes)
  BY ScannedWhole
<1>2. PICK q \in Nat, r \in 0..3 : n = 4 * q + r /\ ScannedAt(acc, s, q, r)
  BY ScannedWhole
<1>3. Lines(text) = IF acc.rest = <<>> THEN acc.lines ELSE Append(acc.lines, acc.rest)
  BY <1>1, ScanningIs
<1>4. acc \in Acc /\ acc.lines \in Seq(Seq(Bytes)) /\ acc.rest \in Seq(Bytes)
  BY <1>2 DEF ScannedAt, Acc
<1>5. n \div 4 = q /\ n % 4 = r /\ m \in Nat
  BY <1>2
<1>6. Partial(n) = (IF r = 0 THEN <<>> ELSE IF r = 1 THEN <<<<q + 1, 1>>>> ELSE LineOf(q + 1))
  BY <1>2, PartialIs
<1>7. \A i : LineOf(i) # <<>> /\ <<<<i, 1>>>> # <<>>
  BY DEF LineOf
<1> DEFINE L == Lines(text)
<1> HIDE DEF text, acc, m
<1>8. CASE r \in {1, 2}
  <2>1. acc.rest = Partial(n) /\ acc.rest # <<>> /\ Counted(acc.lines, m, q)
    <3>1. CASE r = 1
      <4>1. acc.rest = <<<<q + 1, 1>>>> /\ Counted(acc.lines, m, q)
        BY <1>2, <3>1 DEF ScannedAt, m
      <4>2. Partial(n) = <<<<q + 1, 1>>>>
        BY <1>6, <3>1
      <4> QED BY <4>1, <4>2, <1>7
    <3>2. CASE r = 2
      <4>1. acc.rest = LineOf(q + 1) /\ Counted(acc.lines, m, q)
        BY <1>2, <3>2 DEF ScannedAt, m
      <4>2. Partial(n) = LineOf(q + 1)
        BY <1>6, <3>2
      <4> QED BY <4>1, <4>2, <1>7
    <3> QED BY <3>1, <3>2, <1>8
  <2>2. L = Append(acc.lines, acc.rest)
    BY <1>3, <2>1
  <2>3. Front(L) = acc.lines /\ Last(L) = acc.rest
    BY <2>2, <1>4, AppendLast
  <2> HIDE DEF L
  <2> QED BY <2>1, <2>3, <1>4, <1>5 DEF L, text, m
<1>9. CASE r = 0
  <2>1. acc.rest = <<>> /\ Counted(acc.lines, m, q) /\ 4 * q = n
    BY <1>2, <1>9 DEF ScannedAt, m
  <2>2. 4 * q \notin {s, s + 1}
    BY <2>1, <1>5, <1>9
  <2>3. acc.lines # <<>> /\ Last(acc.lines) = <<>>
    BY <1>2, <1>9, <2>2 DEF ScannedAt
  <2>4. Front(acc.lines) \in Seq(Seq(Bytes)) /\ Counted(Front(acc.lines), m, q)
    <3> DEFINE ls == acc.lines
    <3>1. ls \in Seq(Seq(Bytes)) /\ ls # <<>> /\ Counted(ls, m, q) /\ Last(ls) = <<>>
      BY <1>4, <2>1, <2>3
    <3> HIDE DEF ls
    <3>2. Front(ls) \in Seq(Seq(Bytes)) /\ (Last(ls) = <<>> => Counted(Front(ls), m, q))
      BY <1>5, <3>1, CountsLess
    <3> QED BY <3>1, <3>2 DEF ls
  <2>5. L = acc.lines
    BY <1>3, <2>1
  <2> HIDE DEF L
  <2>6. Partial(n) = <<>>
    BY <1>6, <1>9
  <2> QED BY <2>3, <2>4, <2>5, <2>6, <1>5 DEF L, text, m
<1>10. CASE r = 3
  <2>1. 4 * q + 3 # s
    BY <1>2, <1>10
  <2>2. /\ acc.rest = <<>> /\ Counted(acc.lines, m, q + 1)
        /\ acc.lines # <<>> /\ Last(acc.lines) = LineOf(q + 1)
    BY <1>2, <1>10, <2>1 DEF ScannedAt, m
  <2>3. q + 1 \in Nat /\ (q + 1) - 1 = q
    OBVIOUS
  <2>4. /\ Front(acc.lines) \in Seq(Seq(Bytes))
        /\ \A i \in Nat : Last(acc.lines) = LineOf(i) => Counted(Front(acc.lines), m, i - 1)
    BY <1>4, <1>5, <2>2, <2>3, CountsLess
  <2>5. Counted(Front(acc.lines), m, q)
    BY <2>2, <2>3, <2>4
  <2>6. L = acc.lines
    BY <1>3, <2>2
  <2> HIDE DEF L
  <2>7. Partial(n) = LineOf(q + 1)
    BY <1>6, <1>10
  <2>8. Last(L) = Partial(n) /\ Counted(Front(L), m, n \div 4) /\ Front(L) \in Seq(Seq(Bytes))
    BY <2>2, <2>4, <2>5, <2>6, <2>7, <1>5
  <2> QED BY <2>8 DEF L, text, m
<1> QED BY <1>8, <1>9, <1>10

-----------------------------------------------------------------------------
(* Events.                                                                 *)

Statuses   == {"none", "failed", "interrupted", "background"}
FrameTypes == {"stream.start", "mode.background", "content.delta", "passthrough", "stream.completed",
               "stream.failed", "stream.interrupted", "COMPLETED", "FAILED", "STOPPED"}
Frames     == [type : FrameTypes, seq : Nat, call : Nat, n : Nat]
Readings   == [got : Seq(Nat), wire : Seq(Frames), next : Nat, status : Statuses]

\* There is a current call, and it sends what may be sent.
Scripted == call \in Nat \ {0} /\ script \in Seq(LocalKinds \cup RemoteKinds)

Event(rd, n) == IF remote THEN RemoteEvent(rd, n) ELSE LocalEvent(rd, n)

LEMMA OneLineIs ==
  ASSUME Scripted, NEW rd
  PROVE  /\ OneLine(rd, <<>>) = rd
         /\ \A i \in Nat : OneLine(rd, LineOf(i)) =
              IF rd.status = "none" /\ i \in DOMAIN script THEN Event(rd, i) ELSE rd
         /\ \A line : OneLine(rd, line) = rd \/
              \E i \in DOMAIN script : rd.status = "none" /\ OneLine(rd, line) = Event(rd, i)
<1>1. Parsed(<<>>) = {}
  BY DEF Parsed
<1>2. \A i, j : LineOf(i) = LineOf(j) => i = j
  BY DEF LineOf
<1>3. \A i \in Nat : Parsed(LineOf(i)) = IF i \in DOMAIN script THEN {i} ELSE {}
  <2>1. \A line : Parsed(line) = {i \in DOMAIN script : line = LineOf(i)}
    BY DEF Parsed, LineOf
  <2> QED BY <2>1, <1>2
<1>4. \A line : Parsed(line) \subseteq DOMAIN script
  BY DEF Parsed
<1>5. \A line : OneLine(rd, line) =
        IF rd.status # "none" \/ Parsed(line) = {} THEN rd ELSE Event(rd, CHOOSE i \in Parsed(line) : TRUE)
  BY DEF OneLine, Event
<1>6. ASSUME NEW i \in Nat
      PROVE  OneLine(rd, LineOf(i)) = IF rd.status = "none" /\ i \in DOMAIN script THEN Event(rd, i) ELSE rd
  <2>1. (CHOOSE x \in {i} : TRUE) = i
    OBVIOUS
  <2>2. CASE i \in DOMAIN script
    <3>1. Parsed(LineOf(i)) = {i}
      BY <1>3, <2>2
    <3> QED BY <1>5, <2>1, <2>2, <3>1
  <2>3. CASE i \notin DOMAIN script
    BY <1>3, <1>5, <2>3
  <2> QED BY <2>2, <2>3
<1>7. ASSUME NEW line
      PROVE  OneLine(rd, line) = rd \/
               \E i \in DOMAIN script : rd.status = "none" /\ OneLine(rd, line) = Event(rd, i)
  <2>1. CASE rd.status # "none" \/ Parsed(line) = {}
    BY <1>5, <2>1
  <2>2. CASE rd.status = "none" /\ Parsed(line) # {}
    <3> DEFINE i == CHOOSE x \in Parsed(line) : TRUE
    <3>1. i \in Parsed(line)
      BY <2>2
    <3>2. OneLine(rd, line) = Event(rd, i)
      BY <1>5, <2>2
    <3> HIDE DEF i
    <3> QED BY <1>4, <2>2, <3>1, <3>2
  <2> QED BY <2>1, <2>2
<1> QED BY <1>1, <1>5, <1>6, <1>7

\* What an event adds: at most one chunk, and at most one frame.
EventOK(e, rd, n) ==
  /\ e \in Readings /\ e.got \in {rd.got, Append(rd.got, n)}
  /\ \/ e.wire = rd.wire /\ e.next = rd.next /\ script[n] # "text"
     \/ /\ ~(remote /\ delivery = "stream")
        /\ e.wire = Append(rd.wire, Frame("content.delta", rd.next, n)) /\ e.next = rd.next + 1
     \/ /\ remote /\ delivery = "stream" /\ script[n] # "start"
        /\ e.wire = Append(rd.wire, Frame("passthrough", n - 1, n))
        /\ e.next = IF n > rd.next THEN n ELSE rd.next
  /\ script[n] = "text" => e.status = "none" /\ e.got = Append(rd.got, n)
  /\ e.status \in {"none", "failed", "background"}
  /\ e.status = "background" => script[n] = "background"

LEMMA EventIs ==
  ASSUME Scripted, NEW rd \in Readings, rd.status = "none", NEW n \in DOMAIN script
  PROVE  EventOK(Event(rd, n), rd, n)
<1>1. n \in Nat \ {0} /\ script[n] \in LocalKinds \cup RemoteKinds /\ call \in Nat
  BY DEF Scripted
<1>2. /\ rd = [got |-> rd.got, wire |-> rd.wire, next |-> rd.next, status |-> "none"]
      /\ rd.got \in Seq(Nat) /\ rd.wire \in Seq(Frames) /\ rd.next \in Nat
  BY DEF Readings
<1> DEFINE fd == Frame("content.delta", rd.next, n)
           fp == Frame("passthrough", n - 1, n)
           more == Append(rd.got, n)
           Has(e, g, w, x, t) == e = [got |-> g, wire |-> w, next |-> x, status |-> t]
<1>3. fd \in Frames /\ fp \in Frames /\ (IF n > rd.next THEN n ELSE rd.next) \in Nat /\ rd.next + 1 \in Nat
  BY <1>1, <1>2 DEF Frame, Frames, FrameTypes
<1>4. more \in Seq(Nat) /\ Append(rd.wire, fd) \in Seq(Frames) /\ Append(rd.wire, fp) \in Seq(Frames)
  <2> HIDE DEF fd, fp
  <2> QED BY <1>1, <1>2, <1>3
\* The updates of a record.
<1>0. ASSUME NEW g, NEW w, NEW x, NEW t, NEW r, Has(r, g, w, x, t)
      PROVE  r.got = g /\ r.wire = w /\ r.next = x /\ r.status = t
  BY <1>0
<1>5. ASSUME NEW g, NEW w, NEW x, NEW t, NEW r, Has(r, g, w, x, t), NEW v
      PROVE  /\ Has([r EXCEPT !.got = v], v, w, x, t) /\ Has([r EXCEPT !.status = v], g, w, x, v)
             /\ \A u : Has([r EXCEPT !.wire = v, !.next = u], g, v, u, t)
  <2>1. Has([r EXCEPT !.got = v], v, w, x, t)
    BY <1>5
  <2>2. Has([r EXCEPT !.status = v], g, w, x, v)
    BY <1>5
  <2>3. ASSUME NEW u
        PROVE  Has([r EXCEPT !.wire = v, !.next = u], g, v, u, t)
    <3>1. [r EXCEPT !.wire = v] = [got |-> g, wire |-> v, next |-> x, status |-> t]
      BY <1>5
    <3>2. \A a : a = [got |-> g, wire |-> v, next |-> x, status |-> t] =>
                [a EXCEPT !.next = u] = [got |-> g, wire |-> v, next |-> u, status |-> t]
      OBVIOUS
    <3>3. [[r EXCEPT !.wire = v] EXCEPT !.next = u] = [got |-> g, wire |-> v, next |-> u, status |-> t]
      BY <3>1, <3>2, Zenon
    <3> QED BY <3>3
  <2> QED BY <2>1, <2>2, <2>3, Zenon
<1> DEFINE y == Yield(rd, n)
<1>6. Has(rd, rd.got, rd.wire, rd.next, "none") /\ Has(y, more, rd.wire, rd.next, "none")
  <2>1. y = [rd EXCEPT !.got = more]
    BY DEF Yield
  <2> HIDE DEF more
  <2> QED BY <2>1, <1>2, <1>5
<1>7. Has(Number(y, "content.delta", n), more, Append(rd.wire, fd), rd.next + 1, "none")
  <2>1. Number(y, "content.delta", n) =
          [y EXCEPT !.wire = Append(y.wire, Frame("content.delta", y.next, n)), !.next = y.next + 1]
    BY DEF Number
  <2> HIDE DEF more, y, Has
  <2>2. y.wire = rd.wire /\ y.next = rd.next
    BY <1>0, <1>6
  <2>3. Has([y EXCEPT !.wire = Append(rd.wire, fd), !.next = rd.next + 1],
            more, Append(rd.wire, fd), rd.next + 1, "none")
    BY <1>5, <1>6, Zenon
  <2> QED BY <2>1, <2>2, <2>3, Zenon
<1>8. Has(Pass(y, n), more, Append(rd.wire, fp), IF n > rd.next THEN n ELSE rd.next, "none")
  <2>1. Pass(y, n) = [y EXCEPT !.wire = Append(y.wire, fp), !.next = IF n > y.next THEN n ELSE y.next]
    BY DEF Pass
  <2> HIDE DEF more, y, Has, fp
  <2>2. y.wire = rd.wire /\ y.next = rd.next
    BY <1>0, <1>6
  <2>3. Has([y EXCEPT !.wire = Append(rd.wire, fp), !.next = IF n > rd.next THEN n ELSE rd.next],
            more, Append(rd.wire, fp), IF n > rd.next THEN n ELSE rd.next, "none")
    BY <1>5, <1>6, Zenon
  <2> QED BY <2>1, <2>2, <2>3, Zenon
<1>9. ASSUME NEW t
      PROVE  /\ Has(Return(y, t), more, rd.wire, rd.next, t)
             /\ Has(Return(rd, t), rd.got, rd.wire, rd.next, t)
  <2> HIDE DEF more, y, Has
  <2> QED BY <1>5, <1>6 DEF Return
<1>10. Deliver(y, n) = IF remote /\ delivery = "stream" THEN Pass(y, n)
                       ELSE IF script[n] \in {"text", "block"} THEN Number(y, "content.delta", n) ELSE y
  BY DEF Deliver
\* An event that makes no frame, and one that does.
<1>11. ASSUME NEW e, NEW g \in {rd.got, more}, NEW t \in {"none", "failed", "background"},
              Has(e, g, rd.wire, rd.next, t), script[n] # "text", t = "background" => script[n] = "background"
       PROVE  EventOK(e, rd, n)
  <2>1. e.got = g /\ e.wire = rd.wire /\ e.next = rd.next /\ e.status = t
    BY <1>11
  <2>2. e \in Readings
    BY <1>2, <1>4, <1>11 DEF Readings, Statuses
  <2> QED BY <2>1, <2>2, <1>11 DEF EventOK
<1>12. ASSUME NEW e, NEW x \in Nat, NEW f \in Frames, Has(e, more, Append(rd.wire, f), x, "none"),
              \/ ~(remote /\ delivery = "stream") /\ f = fd /\ x = rd.next + 1
              \/ /\ remote /\ delivery = "stream" /\ script[n] # "start"
                 /\ f = fp /\ x = IF n > rd.next THEN n ELSE rd.next
       PROVE  EventOK(e, rd, n)
  <2> HIDE DEF fd, fp
  <2>1. e.got = more /\ e.wire = Append(rd.wire, f) /\ e.next = x /\ e.status = "none"
    BY <1>12
  <2>2. Append(rd.wire, f) \in Seq(Frames)
    BY <1>2
  <2>3. e \in Readings
    BY <1>4, <1>12, <2>2 DEF Readings, Statuses
  <2> QED BY <2>1, <2>3, <1>12 DEF EventOK, fd, fp
<1> HIDE DEF y, fd, fp, more, Has
<1>13. EventOK(y, rd, n) \/ script[n] = "text"
  BY <1>6, <1>11
<1>14. ~(remote /\ delivery = "stream") => EventOK(Number(y, "content.delta", n), rd, n)
  BY <1>3, <1>7, <1>12
<1>15. remote /\ delivery = "stream" /\ script[n] # "start" => EventOK(Pass(y, n), rd, n)
  BY <1>3, <1>8, <1>12
<1>16. EventOK(Deliver(y, n), rd, n) \/ (remote /\ script[n] = "start")
  BY <1>10, <1>13, <1>14, <1>15
<1>17. script[n] # "text" => EventOK(rd, rd, n) /\ EventOK(Return(rd, "failed"), rd, n)
  BY <1>6, <1>9, <1>11
<1>18. script[n] = "background" => EventOK(Return(y, "background"), rd, n)
  BY <1>9, <1>11
<1>19. CASE remote
  <2>1. Event(rd, n) = RemoteEvent(rd, n)
    BY <1>19 DEF Event
  <2> QED BY <2>1, <1>13, <1>16, <1>17, <1>18 DEF RemoteEvent, y
<1>20. CASE ~remote
  <2>1. Event(rd, n) = LocalEvent(rd, n)
    BY <1>20 DEF Event
  <2> QED BY <2>1, <1>13, <1>16, <1>17, <1>20 DEF LocalEvent, y
<1> QED BY <1>19, <1>20

-----------------------------------------------------------------------------
(* Line by line.                                                           *)

\* What a line leads to is a reading again.
LEMMA OneLineTyped ==
  ASSUME Scripted, NEW rd \in Readings, NEW line
  PROVE  OneLine(rd, line) \in Readings
<1>1. CASE OneLine(rd, line) = rd
  BY <1>1
<1>2. CASE \E i \in DOMAIN script : rd.status = "none" /\ OneLine(rd, line) = Event(rd, i)
  BY <1>2, EventIs DEF EventOK
<1> QED BY <1>1, <1>2, OneLineIs

Readers(start, lines) ==
  CHOOSE rd : rd = [k \in 0..Len(lines) |-> IF k = 0 THEN start ELSE OneLine(rd[k - 1], lines[k])]

LEMMA EachLineIs ==
  ASSUME Scripted, NEW start \in Readings, NEW X, NEW lines \in Seq(X)
  PROVE  /\ EachLine(start, lines) = Readers(start, lines)[Len(lines)]
         /\ Readers(start, lines)[0] = start
         /\ \A k \in 1..Len(lines) : Readers(start, lines)[k] = OneLine(Readers(start, lines)[k - 1], lines[k])
<1> DEFINE n == Len(lines)
           F == [k \in 1..n |-> [a \in Readings |-> OneLine(a, lines[k])]]
           body(a) == [k \in 0..n |-> IF k = 0 THEN start ELSE OneLine(a[k - 1], lines[k])]
<1>1. n \in Nat
  OBVIOUS
<1>2. F \in [1..n -> [Readings -> Readings]]
  <2>1. ASSUME NEW k \in 1..n, NEW a \in Readings PROVE OneLine(a, lines[k]) \in Readings
    BY OneLineTyped
  <2> HIDE DEF n
  <2> QED BY <2>1
<1>3. PICK h \in [0..n -> Readings] : \A k \in 0..n : h[k] = IF k = 0 THEN start ELSE F[k][h[k - 1]]
  <2> HIDE DEF F, n
  <2>1. Result(n, Readings, start, F)
    BY <1>1, <1>2, Recursion DEF Steps
  <2> QED BY <2>1 DEF Result
<1>4. ASSUME NEW k \in 0..n PROVE h[k] = IF k = 0 THEN start ELSE OneLine(h[k - 1], lines[k])
  <2>1. CASE k = 0
    BY <1>3, <2>1
  <2>2. CASE k # 0
    <3>1. k \in 1..n /\ h[k - 1] \in Readings
      BY <2>2, <1>1, <1>3
    <3>2. F[k][h[k - 1]] = OneLine(h[k - 1], lines[k])
      BY <3>1
    <3> QED BY <2>2, <3>2, <1>3
  <2> QED BY <2>1, <2>2
<1>5. h = body(h)
  <2> HIDE DEF F, n
  <2> QED BY <1>3, <1>4
<1> DEFINE a == Readers(start, lines)
<1>6. a = body(a)
  <2>1. \E x : x = body(x)
    <3> HIDE DEF F, n, body
    <3> QED BY <1>5
  <2>2. a = CHOOSE x : x = body(x)
    BY DEF Readers
  <2> HIDE DEF a, body
  <2> QED BY <2>1, <2>2
<1>7. EachLine(start, lines) = a[n]
  BY DEF EachLine, Readers
<1> HIDE DEF a
<1>8. a[0] = start /\ \A k \in 1..n : a[k] = OneLine(a[k - 1], lines[k])
  <2>1. 0 \in 0..n /\ \A k \in 1..n : k \in 0..n /\ k # 0
    BY <1>1
  <2> QED BY <1>6, <2>1
<1> QED BY <1>7, <1>8 DEF a

\* What every event keeps, whatever the lines are.
LEMMA EachLineKeeps ==
  ASSUME Scripted, NEW H \in SUBSET Readings, NEW start \in H, NEW X, NEW lines \in Seq(X),
         \A rd \in H : \A n \in DOMAIN script : rd.status = "none" => Event(rd, n) \in H
  PROVE  EachLine(start, lines) \in H
<1> DEFINE a == Readers(start, lines)
           T == {k \in 0..Len(lines) : a[k] \in H}
<1>1. /\ EachLine(start, lines) = a[Len(lines)] /\ a[0] = start
      /\ \A k \in 1..Len(lines) : a[k] = OneLine(a[k - 1], lines[k])
  BY EachLineIs
<1>2. Len(lines) \in Nat
  OBVIOUS
<1> HIDE DEF a
<1>3. 0 \in T
  BY <1>1, <1>2
<1>4. ASSUME NEW k \in 1..Len(lines), k - 1 \in T PROVE k \in T
  <2> DEFINE rd == a[k - 1]
  <2>1. rd \in H /\ rd \in Readings /\ k \in 0..Len(lines)
    BY <1>2, <1>4
  <2>2. OneLine(rd, lines[k]) = rd \/
          \E i \in DOMAIN script : rd.status = "none" /\ OneLine(rd, lines[k]) = Event(rd, i)
    BY OneLineIs
  <2>3. OneLine(rd, lines[k]) \in H
    BY <2>1, <2>2
  <2> QED BY <1>1, <2>1, <2>3
<1>5. Len(lines) \in T
  <2> HIDE DEF T
  <2>1. \A k \in 0..Len(lines) : k \in T
    BY <1>2, <1>3, <1>4, Induct
  <2> QED BY <1>2, <2>1
<1> QED BY <1>1, <1>5

\* Lines that count from m to c take a reading from G[m] to G[c].
LEMMA EachLineAdvances ==
  ASSUME Scripted, NEW m \in 0..Len(script), NEW c \in 0..Len(script), NEW X, NEW lines \in Seq(X),
         Counted(lines, m, c), NEW G \in [0..Len(script) -> SUBSET Readings], NEW start \in G[m],
         \A j \in 1..Len(script) : \A rd \in G[j - 1] :
           (IF rd.status = "none" THEN Event(rd, j) ELSE rd) \in G[j]
  PROVE  EachLine(start, lines) \in G[c]
<1> DEFINE a == Readers(start, lines)
           l == Len(script)
           Wide == [j \in Nat |-> IF j <= l THEN G[j] ELSE Readings]
<1>0. l \in Nat /\ DOMAIN script = 1..l
  BY DEF Scripted
<1>1. start \in Readings
  OBVIOUS
<1>2. /\ EachLine(start, lines) = a[Len(lines)] /\ a[0] = start
      /\ \A k \in 1..Len(lines) : a[k] = OneLine(a[k - 1], lines[k])
  BY <1>1, EachLineIs
<1>3. Len(lines) \in Nat
  OBVIOUS
<1>4. PICK count : Counts(lines, m, count) /\ count[Len(lines)] = c
  BY DEF Counted
<1>5. /\ count \in [0..Len(lines) -> Nat] /\ count[0] = m
      /\ \A k \in 1..Len(lines) :
           \/ lines[k] = <<>> /\ count[k] = count[k - 1]
           \/ lines[k] = LineOf(count[k - 1] + 1) /\ count[k] = count[k - 1] + 1
  BY <1>4 DEF Counts
<1> HIDE DEF a, l
<1>6. \A j \in Nat : Wide[j] \in SUBSET Readings
  BY <1>0 DEF l
<1>7. ASSUME NEW j \in Nat, NEW rd \in Wide[j]
      PROVE  OneLine(rd, <<>>) \in Wide[j] /\ OneLine(rd, LineOf(j + 1)) \in Wide[j + 1]
  <2>1. rd \in Readings
    BY <1>6
  <2>2. OneLine(rd, <<>>) = rd
    BY OneLineIs
  <2>3. OneLine(rd, LineOf(j + 1)) =
          IF rd.status = "none" /\ j + 1 \in DOMAIN script THEN Event(rd, j + 1) ELSE rd
    BY OneLineIs
  <2>4. CASE j + 1 <= l
    <3>1. j + 1 \in 1..Len(script) /\ j + 1 \in DOMAIN script /\ (j + 1) - 1 = j /\ j <= l
      BY <2>4, <1>0 DEF l
    <3>2. rd \in G[j]
      BY <3>1
    <3>3. (IF rd.status = "none" THEN Event(rd, j + 1) ELSE rd) \in G[j + 1]
      BY <3>1, <3>2
    <3> QED BY <2>2, <2>3, <2>4, <3>1, <3>3
  <2>5. CASE ~(j + 1 <= l)
    <3>1. Wide[j + 1] = Readings
      BY <2>5
    <3> QED BY <2>1, <2>2, <3>1, OneLineTyped
  <2> QED BY <2>4, <2>5
<1> DEFINE T == {k \in 0..Len(lines) : a[k] \in Wide[count[k]]}
<1>8. 0 \in T
  <2>1. Wide[m] = G[m]
    BY <1>0 DEF l
  <2> HIDE DEF Wide
  <2> QED BY <1>2, <1>3, <1>5, <2>1
<1> HIDE DEF Wide
<1>9. ASSUME NEW k \in 1..Len(lines), k - 1 \in T PROVE k \in T
  <2>1. a[k - 1] \in Wide[count[k - 1]] /\ count[k - 1] \in Nat /\ k \in 0..Len(lines)
    BY <1>3, <1>5, <1>9
  <2>2. a[k] \in Wide[count[k]]
    <3>1. a[k] = OneLine(a[k - 1], lines[k])
      BY <1>2
    <3>2. CASE lines[k] = <<>> /\ count[k] = count[k - 1]
      BY <1>7, <2>1, <3>1, <3>2
    <3>3. CASE lines[k] = LineOf(count[k - 1] + 1) /\ count[k] = count[k - 1] + 1
      BY <1>7, <2>1, <3>1, <3>3
    <3> QED BY <1>5, <3>2, <3>3
  <2> QED BY <2>1, <2>2
<1>10. a[Len(lines)] \in Wide[c]
  <2> HIDE DEF T
  <2>1. \A k \in 0..Len(lines) : k \in T
    BY <1>3, <1>8, <1>9, Induct
  <2>2. Len(lines) \in T
    BY <1>3, <2>1
  <2> QED BY <2>2, <1>4 DEF T
<1>11. Wide[c] = G[c]
  BY <1>0 DEF Wide, l
<1> QED BY <1>2, <1>10, <1>11

\* The lines of a text that is not empty.
LEMMA LinesTyped ==
  ASSUME NEW text \in Seq(Bytes), text # <<>>
  PROVE  Front(Lines(text)) \in Seq(Seq(Bytes)) /\ Last(Lines(text)) \in Seq(Bytes)
<1> DEFINE n == Len(text)
           acc == Scanning(text)[n]
           prev == Scanning(text)[n - 1]
           L == Lines(text)
<1>1. n \in Nat /\ n \in 1..n /\ n - 1 \in 0..n /\ text[n] \in Bytes
  OBVIOUS
<1>2. acc = Scan(prev, text[n]) /\ prev \in Acc
  BY <1>1, ScanningIs
<1>3. L = IF acc.rest = <<>> THEN acc.lines ELSE Append(acc.lines, acc.rest)
  BY ScanningIs
<1> HIDE DEF n, acc, prev, L
<1>4. acc \in Acc /\ (acc = [lines |-> Append(prev.lines, prev.rest), rest |-> <<>>] \/
                      acc = [lines |-> prev.lines, rest |-> Append(prev.rest, text[n])])
  BY <1>1, <1>2, ScanTyped
<1>5. prev.lines \in Seq(Seq(Bytes)) /\ prev.rest \in Seq(Bytes) /\ acc.lines \in Seq(Seq(Bytes)) /\ acc.rest \in Seq(Bytes)
  BY <1>2, <1>4 DEF Acc
<1>6. \E ls \in Seq(Seq(Bytes)), r \in Seq(Bytes) : L = Append(ls, r)
  <2>1. CASE acc = [lines |-> Append(prev.lines, prev.rest), rest |-> <<>>]
    <3>1. acc.lines = Append(prev.lines, prev.rest) /\ acc.rest = <<>>
      BY <2>1
    <3> QED BY <3>1, <1>3, <1>5
  <2>2. CASE acc = [lines |-> prev.lines, rest |-> Append(prev.rest, text[n])]
    <3>1. acc.rest = Append(prev.rest, text[n])
      BY <2>2
    <3>2. \A x \in Bytes : \A t \in Seq(Bytes) : Append(t, x) # <<>>
      BY AppendLast
    <3>3. acc.rest # <<>>
      BY <3>1, <3>2, <1>1, <1>5
    <3> QED BY <3>3, <1>3, <1>5
  <2> QED BY <1>4, <2>1, <2>2
<1>7. PICK ls \in Seq(Seq(Bytes)), r \in Seq(Bytes) : L = Append(ls, r)
  BY <1>6
<1>8. Front(L) = ls /\ Last(L) = r
  BY <1>7, AppendLast
<1> QED BY <1>8 DEF L

-----------------------------------------------------------------------------
(* Texts: what a sequence of calls sends, and what frames carry of it.     *)

Pairs      == Nat \X Nat
LocalAsks  == [to : {"local", "sub"}, sends : LocalStreams]
RemoteAsks == [to : {"remote"}, sends : RemoteStreams]
Asks       == LocalAsks \cup RemoteAsks

Upto(j)          == [n \in 1..j |-> n]
Tag(c, ns)       == [i \in DOMAIN ns |-> <<c, ns[i]>>]
Tagged(fs)       == [i \in DOMAIN fs |-> <<fs[i].call, fs[i].n>>]
EventsIn(cs, c)  == {n \in DOMAIN cs[c].sends : cs[c].sends[n] = "text"}
TextsIn(cs, c)   == Tag(c, Picked(Upto(Len(cs[c].sends)), EventsIn(cs, c)))
SentUpto(cs, k)  == FlattenSeq([c \in 1..k |-> TextsIn(cs, c)])
Texting(cs)      == {f \in Frames : f.n # 0 /\ f.n \in EventsIn(cs, f.call)}
StreamedIn(cs, w) == Tagged(Picked(w, Texting(cs)))

LEMMA AsksAre ==
  ASSUME NEW a \in Asks
  PROVE  /\ a.to \in {"local", "sub", "remote"} /\ a.sends \in Seq(LocalKinds \cup RemoteKinds)
         /\ a.to # "remote" => a.sends \in LocalStreams
         /\ a.to = "remote" => a.sends \in RemoteStreams
<1>1. \A s \in Seq(LocalKinds) : s \in Seq(LocalKinds \cup RemoteKinds)
  OBVIOUS
<1>2. \A s \in Seq(RemoteKinds) : s \in Seq(LocalKinds \cup RemoteKinds)
  OBVIOUS
<1>3. CASE a \in LocalAsks
  <2>1. a.to \in {"local", "sub"} /\ a.sends \in LocalStreams
    BY <1>3 DEF LocalAsks
  <2> QED BY <2>1, <1>1, ReplyStreamAssumption
<1>4. CASE a \in RemoteAsks
  <2>1. a.to = "remote" /\ a.sends \in RemoteStreams
    BY <1>4 DEF RemoteAsks
  <2> QED BY <2>1, <1>2, ReplyStreamAssumption
<1> QED BY <1>3, <1>4 DEF Asks

LEMMA UptoIs ==
  ASSUME NEW j \in Nat
  PROVE  /\ Upto(j) \in Seq(Nat) /\ Len(Upto(j)) = j /\ Range(Upto(j)) = 1..j
         /\ Upto(0) = <<>> /\ Upto(j + 1) = Append(Upto(j), j + 1)
<1>1. \A k \in Nat : Upto(k) \in Seq(Nat) /\ Len(Upto(k)) = k /\ Upto(k) = [n \in 1..k |-> n]
  BY DEF Upto
<1>2. Range(Upto(j)) = 1..j
  BY DEF Upto, Range
<1>3. Upto(0) = <<>>
  BY DEF Upto
<1>4. Upto(j + 1) = Append(Upto(j), j + 1)
  BY DEF Upto
<1> QED BY <1>1, <1>2, <1>3, <1>4

Mapped(g, s) == [i \in DOMAIN s |-> g[s[i]]]
MapsOn(g, s, t, x) == Mapped(g, t) = Append(Mapped(g, s), g[x])

LEMMA MapAppend ==
  ASSUME NEW X, NEW Y, NEW g \in [X -> Y], NEW s \in Seq(X), NEW x \in X
  PROVE  /\ Mapped(g, s) \in Seq(Y)
         /\ MapsOn(g, s, Append(s, x), x)
<1> DEFINE t == Append(s, x)
           u == [i \in DOMAIN s |-> g[s[i]]]
           v == [i \in DOMAIN t |-> g[t[i]]]
           n == Len(s)
<1>1. /\ n \in Nat /\ DOMAIN s = 1..n /\ DOMAIN t = 1..(n + 1) /\ t[n + 1] = x
      /\ \A k \in 1..n : t[k] = s[k] /\ s[k] \in X
  OBVIOUS
<1>2. u \in Seq(Y) /\ Len(u) = n /\ g[x] \in Y /\ \A k \in 1..n : u[k] = g[s[k]]
  <2>1. u = [i \in 1..n |-> g[s[i]]]
    BY <1>1
  <2>2. \A k \in 1..n : g[s[k]] \in Y
    BY <1>1
  <2> HIDE DEF u, n
  <2> QED BY <2>1, <2>2, <1>1
<1> HIDE DEF t, n, u
<1>3. Append(u, g[x]) = [k \in 1..(n + 1) |-> IF k = n + 1 THEN g[x] ELSE u[k]]
  BY <1>2, <1>1
<1>4. v = [k \in 1..(n + 1) |-> g[t[k]]]
  BY <1>1
<1>5. \A k \in 1..(n + 1) : g[t[k]] = IF k = n + 1 THEN g[x] ELSE u[k]
  <2>1. \A k \in 1..(n + 1) : k = n + 1 \/ k \in 1..n
    BY <1>1
  <2> QED BY <2>1, <1>1, <1>2
<1> HIDE DEF v
<1>6. v = Append(u, g[x])
  BY <1>3, <1>4, <1>5
<1> QED BY <1>2, <1>6 DEF t, u, v, Mapped, MapsOn

LEMMA TagIs ==
  ASSUME NEW c \in Nat, NEW ns \in Seq(Nat), NEW n \in Nat
  PROVE  /\ Tag(c, ns) \in Seq(Pairs) /\ Tag(c, <<>>) = <<>>
         /\ Tag(c, Append(ns, n)) = Append(Tag(c, ns), <<c, n>>)
         /\ Range(Tag(c, ns)) = {<<c, m>> : m \in Range(ns)}
<1> DEFINE g == [m \in Nat |-> <<c, m>>]
           t == Append(ns, n)
<1>1. g \in [Nat -> Pairs]
  BY DEF Pairs
<1>2. \A s \in Seq(Nat) : Tag(c, s) = Mapped(g, s)
  BY DEF Tag, Mapped
<1>3. t \in Seq(Nat) /\ g[n] = <<c, n>>
  OBVIOUS
<1>4. Tag(c, <<>>) = <<>>
  BY DEF Tag
<1>5. Range(Tag(c, ns)) = {<<c, m>> : m \in Range(ns)}
  BY DEF Range, Tag
<1> HIDE DEF g
<1>6. Mapped(g, ns) \in Seq(Pairs) /\ Mapped(g, t) = Append(Mapped(g, ns), g[n])
  <2>1. Mapped(g, ns) \in Seq(Pairs)
    BY <1>1, MapAppend
  <2>2. MapsOn(g, ns, Append(ns, n), n)
    BY <1>1, MapAppend
  <2> QED BY <2>1, <2>2 DEF MapsOn
<1> HIDE DEF t
<1>7. Tag(c, ns) \in Seq(Pairs) /\ Tag(c, t) = Append(Tag(c, ns), <<c, n>>)
  BY <1>2, <1>3, <1>6
<1> QED BY <1>4, <1>5, <1>7 DEF t

LEMMA TaggedIs ==
  ASSUME NEW fs \in Seq(Frames), NEW f \in Frames
  PROVE  /\ Tagged(fs) \in Seq(Pairs) /\ Tagged(<<>>) = <<>>
         /\ Tagged(Append(fs, f)) = Append(Tagged(fs), <<f.call, f.n>>)
         /\ Range(Tagged(fs)) = {<<e.call, e.n>> : e \in Range(fs)}
<1> DEFINE g == [e \in Frames |-> <<e.call, e.n>>]
           t == Append(fs, f)
<1>1. g \in [Frames -> Pairs]
  BY DEF Pairs, Frames
<1>2. \A s \in Seq(Frames) : Tagged(s) = Mapped(g, s)
  BY DEF Tagged, Mapped
<1>3. t \in Seq(Frames) /\ g[f] = <<f.call, f.n>>
  OBVIOUS
<1>4. Tagged(<<>>) = <<>>
  BY DEF Tagged
<1>5. Range(Tagged(fs)) = {<<e.call, e.n>> : e \in Range(fs)}
  BY DEF Range, Tagged
<1> HIDE DEF g
<1>6. Mapped(g, fs) \in Seq(Pairs) /\ Mapped(g, t) = Append(Mapped(g, fs), g[f])
  <2>1. Mapped(g, fs) \in Seq(Pairs)
    BY <1>1, MapAppend
  <2>2. MapsOn(g, fs, Append(fs, f), f)
    BY <1>1, MapAppend
  <2> QED BY <2>1, <2>2 DEF MapsOn
<1> HIDE DEF t
<1>7. Tagged(fs) \in Seq(Pairs) /\ Tagged(t) = Append(Tagged(fs), <<f.call, f.n>>)
  BY <1>2, <1>3, <1>6
<1> QED BY <1>4, <1>5, <1>7 DEF t

\* The texts of one call.
LEMMA TextsTyped ==
  ASSUME NEW cs \in Seq(Asks), NEW c \in DOMAIN cs
  PROVE  /\ TextsIn(cs, c) \in Seq(Pairs)
         /\ Range(TextsIn(cs, c)) = {<<c, n>> : n \in EventsIn(cs, c)}
<1> DEFINE j == Len(cs[c].sends)
           p == Picked(Upto(j), EventsIn(cs, c))
<1>1. cs[c] \in Asks /\ c \in Nat
  OBVIOUS
<1>2. cs[c].sends \in Seq(LocalKinds \cup RemoteKinds)
  BY <1>1, AsksAre
<1>3. j \in Nat /\ DOMAIN cs[c].sends = 1..j
  BY <1>2
<1>4. EventsIn(cs, c) \subseteq 1..j
  BY <1>3 DEF EventsIn
<1> HIDE DEF j
<1>5. p \in Seq(Nat) /\ Range(p) = (1..j) \cap EventsIn(cs, c)
  <2> DEFINE s == Upto(j)
  <2>1. s \in Seq(Nat) /\ Range(s) = 1..j
    BY <1>3, UptoIs
  <2> HIDE DEF s
  <2>2. \A S : Picked(s, S) \in Seq(Nat) /\ Range(Picked(s, S)) = Range(s) \cap S
    BY <2>1, PickedElements
  <2> QED BY <2>1, <2>2 DEF s
<1> HIDE DEF p
<1>6. Tag(c, p) \in Seq(Pairs) /\ Range(Tag(c, p)) = {<<c, m>> : m \in Range(p)}
  BY <1>1, <1>3, <1>5, TagIs
<1>7. Range(p) = EventsIn(cs, c)
  BY <1>4, <1>5
<1>8. Range(Tag(c, p)) = {<<c, m>> : m \in EventsIn(cs, c)}
  BY <1>6, <1>7
<1> QED BY <1>6, <1>8 DEF TextsIn, p, j

\* The texts of the calls up to k.
LEMMA SentTyped ==
  ASSUME NEW cs \in Seq(Asks), NEW k \in 0..Len(cs)
  PROVE  /\ SentUpto(cs, k) \in Seq(Pairs) /\ SentUpto(cs, 0) = <<>>
         /\ \A e : e \in Range(SentUpto(cs, k)) <=> \E c \in 1..k : e \in Range(TextsIn(cs, c))
         /\ k < Len(cs) => SentUpto(cs, k + 1) = SentUpto(cs, k) \o TextsIn(cs, k + 1)
<1> DEFINE ss(m) == [c \in 1..m |-> TextsIn(cs, c)]
<1>0. Len(cs) \in Nat /\ DOMAIN cs = 1..Len(cs) /\ k \in Nat
  OBVIOUS
<1>1. \A c \in 1..Len(cs) : TextsIn(cs, c) \in Seq(Pairs)
  BY <1>0, TextsTyped
<1>2. ASSUME NEW m \in 0..Len(cs)
      PROVE  ss(m) \in Seq(Seq(Pairs)) /\ Len(ss(m)) = m
  <2>1. \A c \in 1..m : TextsIn(cs, c) \in Seq(Pairs)
    BY <1>0, <1>1
  <2> QED BY <2>1, <1>0
<1>3. ss(0) = <<>>
  OBVIOUS
<1>4. SentUpto(cs, 0) = <<>>
  BY <1>3, FlatEmpty DEF SentUpto
<1>5. /\ FlattenSeq(ss(k)) \in Seq(Pairs)
      /\ Range(FlattenSeq(ss(k))) = UNION {Range(ss(k)[c]) : c \in 1..Len(ss(k))}
  <2> HIDE DEF ss
  <2> QED BY <1>2, FlatElements
<1>6. UNION {Range(ss(k)[c]) : c \in 1..Len(ss(k))} = UNION {Range(TextsIn(cs, c)) : c \in 1..k}
  <2>1. Len(ss(k)) = k
    BY <1>2
  <2>2. \A c \in 1..k : ss(k)[c] = TextsIn(cs, c)
    OBVIOUS
  <2> HIDE DEF ss
  <2> QED BY <2>1, <2>2
<1>7. k < Len(cs) => ss(k + 1) = Append(ss(k), TextsIn(cs, k + 1))
  BY <1>0, <1>1, <1>2
<1>8. ASSUME k < Len(cs) PROVE SentUpto(cs, k + 1) = SentUpto(cs, k) \o TextsIn(cs, k + 1)
  <2>1. TextsIn(cs, k + 1) \in Seq(Pairs)
    BY <1>0, <1>1, <1>8
  <2>2. SentUpto(cs, k + 1) = FlattenSeq(ss(k + 1)) /\ SentUpto(cs, k) = FlattenSeq(ss(k))
    BY DEF SentUpto
  <2> HIDE DEF ss
  <2>3. FlattenSeq(Append(ss(k), TextsIn(cs, k + 1))) = FlattenSeq(ss(k)) \o TextsIn(cs, k + 1)
    BY <1>2, <2>1, FlatAppend
  <2> QED BY <2>2, <2>3, <1>7, <1>8
<1>9. SentUpto(cs, k) = FlattenSeq(ss(k))
  BY DEF SentUpto
<1>10. \A e : e \in Range(SentUpto(cs, k)) <=> \E c \in 1..k : e \in Range(TextsIn(cs, c))
  <2> HIDE DEF ss
  <2> QED BY <1>5, <1>6, <1>9
<1> HIDE DEF ss
<1> QED BY <1>4, <1>5, <1>8, <1>9, <1>10

\* Calls that agree up to k have sent the same up to k.
LEMMA SentSame ==
  ASSUME NEW cs, NEW ds, NEW k \in Nat, \A c \in 1..k : cs[c] = ds[c]
  PROVE  /\ \A c \in 1..k : EventsIn(cs, c) = EventsIn(ds, c) /\ TextsIn(cs, c) = TextsIn(ds, c)
         /\ SentUpto(cs, k) = SentUpto(ds, k)
<1>1. \A c \in 1..k : EventsIn(cs, c) = EventsIn(ds, c)
  BY DEF EventsIn
<1>2. \A c \in 1..k : TextsIn(cs, c) = TextsIn(ds, c)
  BY <1>1 DEF TextsIn
<1>3. [c \in 1..k |-> TextsIn(cs, c)] = [c \in 1..k |-> TextsIn(ds, c)]
  BY <1>2
<1> QED BY <1>1, <1>2, <1>3 DEF SentUpto

\* The frames of earlier calls carry what they did.
LEMMA StreamedSame ==
  ASSUME NEW cs, NEW ds, NEW k \in Nat, \A c \in 1..k : cs[c] = ds[c], NEW w \in Seq(Frames),
         \A i \in DOMAIN w : w[i].call <= k /\ (w[i].n # 0 => w[i].call # 0)
  PROVE  StreamedIn(cs, w) = StreamedIn(ds, w)
<1>1. \A c \in 1..k : EventsIn(cs, c) = EventsIn(ds, c)
  BY SentSame
<1>2. ASSUME NEW i \in 1..Len(w) PROVE w[i] \in Texting(cs) <=> w[i] \in Texting(ds)
  <2>0. w[i] \in Frames /\ i \in DOMAIN w
    OBVIOUS
  <2>1. w[i] \in Frames /\ w[i].call \in Nat /\ w[i].call <= k /\ (w[i].n # 0 => w[i].call # 0)
    BY <2>0 DEF Frames
  <2>2. w[i].n # 0 => w[i].call \in 1..k
    BY <2>1
  <2>3. w[i].n # 0 => EventsIn(cs, w[i].call) = EventsIn(ds, w[i].call)
    BY <1>1, <2>2
  <2> QED BY <2>1, <2>3 DEF Texting
<1>3. Picked(w, Texting(cs)) = Picked(w, Texting(ds))
  BY <1>2, PickedSame
<1> QED BY <1>3 DEF StreamedIn

LEMMA StreamedAppend ==
  ASSUME NEW cs, NEW w \in Seq(Frames), NEW f \in Frames
  PROVE  /\ StreamedIn(cs, w) \in Seq(Pairs) /\ StreamedIn(cs, <<>>) = <<>>
         /\ StreamedIn(cs, Append(w, f)) =
              IF f \in Texting(cs) THEN Append(StreamedIn(cs, w), <<f.call, f.n>>) ELSE StreamedIn(cs, w)
         /\ Range(StreamedIn(cs, w)) = {<<e.call, e.n>> : e \in Range(w) \cap Texting(cs)}
<1> DEFINE p == Picked(w, Texting(cs))
<1>1. p \in Seq(Frames) /\ Range(p) = Range(w) \cap Texting(cs)
  BY PickedElements
<1>2. Picked(Append(w, f), Texting(cs)) = IF f \in Texting(cs) THEN Append(p, f) ELSE p
  BY PickedAppend
<1> HIDE DEF p
<1>3. /\ Tagged(p) \in Seq(Pairs) /\ Tagged(<<>>) = <<>>
      /\ Tagged(Append(p, f)) = Append(Tagged(p), <<f.call, f.n>>)
      /\ Range(Tagged(p)) = {<<e.call, e.n>> : e \in Range(p)}
  BY <1>1, TaggedIs
<1>4. StreamedIn(cs, w) = Tagged(p)
  BY DEF StreamedIn, p
<1>5. StreamedIn(cs, <<>>) = <<>>
  BY <1>3, PickedEmpty DEF StreamedIn
<1>6. StreamedIn(cs, Append(w, f)) = IF f \in Texting(cs) THEN Append(Tagged(p), <<f.call, f.n>>) ELSE Tagged(p)
  BY <1>2, <1>3 DEF StreamedIn
<1> QED BY <1>1, <1>3, <1>4, <1>5, <1>6

-----------------------------------------------------------------------------
(* What is always so: the types, the course of a turn, and its frames.     *)

Places    == {"opening", "agent", "reading", "waiting", "values", "raised", "ended", "closed"}
OpenTypes == {"stream.start", "mode.background", "content.delta", "passthrough"}
Messages  == [text : Seq(Pairs), status : Statuses, tool : BOOLEAN]

Types ==
  /\ at \in Places /\ delivery \in {"stream", "background", "json"}
  /\ calls \in Seq(Asks) /\ Len(calls) <= Calls /\ read \in Nat /\ buffer \in Seq(Bytes)
  /\ got \in Seq(Nat) /\ tries \in 0..(MaxRetries - 1) /\ status \in Statuses
  /\ messages \in Seq(Messages) /\ wire \in Seq(Frames) /\ next \in Nat
  /\ stop \in {"no", "asked", "seen"} /\ history \in Seq(Messages)

Course ==
  /\ at = "opening" => calls = <<>> /\ wire = <<>> /\ messages = <<>> /\ next = 0
  /\ at \in {"reading", "waiting", "values", "raised", "ended"} => Len(calls) # 0
  /\ at \in {"reading", "waiting"} => Len(calls) = Len(messages) + 1
  /\ at \in {"opening", "agent", "values", "ended"} => Len(calls) = Len(messages)
  /\ Len(messages) <= Len(calls)
  /\ at = "waiting" => delivery = "json" /\ got = <<>>
  /\ at = "reading" => delivery # "json"
  /\ at # "closed" => history = <<>>

ChunksOK == \A i \in DOMAIN got : got[i] \in DOMAIN script

\* A frame of a turn with k calls, the next number being x.
FrameOK(f, x, k) ==
  /\ f.seq < x /\ f.call <= k /\ (f.n # 0 => f.call # 0)
  /\ delivery = "stream" /\ f.call = 0 => f.seq = 0

FramesOK ==
  \A i \in DOMAIN wire : FrameOK(wire[i], next, Len(calls)) /\ (at # "closed" => wire[i].type \in OpenTypes)

TextsOK ==
  /\ \A i \in DOMAIN messages : Range(messages[i].text) \subseteq Range(TextsIn(calls, i))
  /\ \A i \in DOMAIN history : Range(history[i].text) \subseteq Range(SentUpto(calls, Len(calls)))

Basics == Types /\ Course /\ ChunksOK /\ FramesOK /\ TextsOK

\* What a deep agent goes by names calls of the turn.
Deep == transfer \in 0..Len(calls) /\ dropped \subseteq DOMAIN calls

LEMMA ScriptIs ==
  ASSUME calls \in Seq(Asks), Len(calls) # 0
  PROVE  /\ Scripted /\ call = Len(calls) /\ calls[call] \in Asks /\ call \in DOMAIN calls
         /\ remote => script \in RemoteStreams
         /\ ~remote => script \in LocalStreams
<1>1. call \in Nat \ {0} /\ call = Len(calls) /\ calls[call] \in Asks /\ call \in DOMAIN calls
  BY DEF call
<1> HIDE DEF call
<1>2. calls[call].sends \in Seq(LocalKinds \cup RemoteKinds)
  BY <1>1, AsksAre
<1>3. Scripted
  BY <1>1, <1>2 DEF Scripted, script
<1>4. remote => script \in RemoteStreams
  BY <1>1, AsksAre DEF remote, script
<1>5. ~remote => script \in LocalStreams
  BY <1>1, AsksAre DEF remote, script
<1> QED BY <1>1, <1>3, <1>4, <1>5

\* The bytes that arrive, and the lines they make.
LEMMA ArrivingTyped ==
  ASSUME NEW b \in Seq(Bytes), NEW s \in Nat, NEW n \in Nat, s < n
  PROVE  /\ b \o [j \in 1..(n - s) |-> Byte(s + j)] \in Seq(Bytes)
         /\ b \o [j \in 1..(n - s) |-> Byte(s + j)] # <<>>
<1> DEFINE a == [j \in 1..(n - s) |-> Byte(s + j)]
<1>1. \A k \in Nat \ {0} : Byte(k) \in Bytes
  <2> TAKE k \in Nat \ {0}
  <2>0. k - 1 \in Nat
    OBVIOUS
  <2>1. PICK q \in Nat : \E r \in 0..3 : k - 1 = 4 * q + r
    BY <2>0, Quarters
  <2>2. PICK r \in 0..3 : k - 1 = 4 * q + r
    BY <2>1
  <2>3. k = 4 * q + r + 1
    BY <2>2
  <2> QED BY <2>3, ByteAt
<1>2. n - s \in Nat \ {0} /\ \A j \in 1..(n - s) : s + j \in Nat \ {0}
  OBVIOUS
<1>3. a \in Seq(Bytes) /\ Len(a) = n - s
  <2> DEFINE m == n - s
  <2>1. m \in Nat /\ \A j \in 1..m : Byte(s + j) \in Bytes
    BY <1>1, <1>2
  <2>2. a = [j \in 1..m |-> Byte(s + j)]
    OBVIOUS
  <2> HIDE DEF m, a
  <2>3. a \in Seq(Bytes) /\ Len(a) = m
    BY <2>1, <2>2
  <2> QED BY <2>3 DEF m
<1> HIDE DEF a
<1>4. b \o a \in Seq(Bytes) /\ Len(b \o a) = Len(b) + Len(a) /\ Len(b) \in Nat
  BY <1>3
<1>5. Len(b \o a) # 0
  BY <1>2, <1>3, <1>4
<1>6. b \o a # <<>>
  BY <1>5
<1> QED BY <1>4, <1>6 DEF a

\* What the events of a call keep.
Kept ==
  {rd \in Readings :
     /\ \A i \in DOMAIN rd.got : rd.got[i] \in DOMAIN script
     /\ \A i \in DOMAIN rd.wire : FrameOK(rd.wire[i], rd.next, call) /\ rd.wire[i].type \in OpenTypes}

LEMMA EventKeeps ==
  ASSUME Scripted, NEW rd \in Kept, NEW n \in DOMAIN script, rd.status = "none"
  PROVE  Event(rd, n) \in Kept
<1> DEFINE e == Event(rd, n)
<1>1. rd \in Readings /\ EventOK(e, rd, n)
  BY EventIs DEF Kept
<1>2. /\ rd.got \in Seq(Nat) /\ rd.wire \in Seq(Frames) /\ rd.next \in Nat
      /\ e \in Readings /\ n \in Nat \ {0} /\ call \in Nat \ {0}
  BY <1>1 DEF EventOK, Readings, Scripted
<1> HIDE DEF e
<1>3. ASSUME NEW i \in DOMAIN e.got PROVE e.got[i] \in DOMAIN script
  <2>1. CASE e.got = rd.got
    BY <2>1, <1>3 DEF Kept
  <2>2. CASE e.got = Append(rd.got, n)
    <3>1. (i \in DOMAIN rd.got /\ e.got[i] = rd.got[i]) \/ e.got[i] = n
      BY <2>2, <1>2, <1>3, AppendIs
    <3> QED BY <3>1 DEF Kept
  <2> QED BY <2>1, <2>2, <1>1 DEF EventOK
<1>4. ASSUME NEW f \in Frames, NEW x \in Nat, e.wire = Append(rd.wire, f), e.next = x, rd.next <= x,
             FrameOK(f, x, call), f.type \in OpenTypes
      PROVE  \A i \in DOMAIN e.wire : FrameOK(e.wire[i], e.next, call) /\ e.wire[i].type \in OpenTypes
  <2> TAKE i \in DOMAIN e.wire
  <2>1. (i \in DOMAIN rd.wire /\ e.wire[i] = rd.wire[i]) \/ e.wire[i] = f
    BY <1>2, <1>4, AppendIs
  <2>2. CASE i \in DOMAIN rd.wire /\ e.wire[i] = rd.wire[i]
    <3>1. FrameOK(rd.wire[i], rd.next, call) /\ rd.wire[i].type \in OpenTypes
      BY <2>2 DEF Kept
    <3>2. rd.wire[i] \in Frames
      BY <2>2, <1>2
    <3>3. rd.wire[i].seq \in Nat
      BY <3>2 DEF Frames
    <3>4. FrameOK(rd.wire[i], x, call)
      BY <3>1, <3>3, <1>2, <1>4 DEF FrameOK
    <3> QED BY <2>2, <3>1, <3>4, <1>4
  <2>3. CASE e.wire[i] = f
    BY <2>3, <1>4
  <2> QED BY <2>1, <2>2, <2>3
<1>5. \A i \in DOMAIN e.wire : FrameOK(e.wire[i], e.next, call) /\ e.wire[i].type \in OpenTypes
  <2>1. CASE e.wire = rd.wire /\ e.next = rd.next
    BY <2>1 DEF Kept
  <2>2. CASE e.wire = Append(rd.wire, Frame("content.delta", rd.next, n)) /\ e.next = rd.next + 1
    <3> DEFINE f == Frame("content.delta", rd.next, n)
    <3>1. f \in Frames /\ FrameOK(f, rd.next + 1, call) /\ f.type \in OpenTypes
      BY <1>2 DEF Frame, Frames, FrameTypes, FrameOK, OpenTypes
    <3> HIDE DEF f
    <3>2. e.wire = Append(rd.wire, f) /\ e.next = rd.next + 1 /\ rd.next <= rd.next + 1 /\ rd.next + 1 \in Nat
      BY <2>2, <1>2 DEF f
    <3> QED BY <3>1, <3>2, <1>4
  <2>3. CASE e.wire = Append(rd.wire, Frame("passthrough", n - 1, n)) /\ e.next = IF n > rd.next THEN n ELSE rd.next
    <3> DEFINE f == Frame("passthrough", n - 1, n)
               x == IF n > rd.next THEN n ELSE rd.next
    <3>1. x \in Nat /\ rd.next <= x /\ n - 1 < x /\ n - 1 \in Nat
      BY <1>2
    <3>2. f \in Frames /\ FrameOK(f, x, call) /\ f.type \in OpenTypes
      <4> HIDE DEF x
      <4> QED BY <1>2, <3>1 DEF Frame, Frames, FrameTypes, FrameOK, OpenTypes
    <3>3. e.wire = Append(rd.wire, f) /\ e.next = x
      BY <2>3
    <3> HIDE DEF f, x
    <3> QED BY <3>1, <3>2, <3>3, <1>4
  <2> QED BY <2>1, <2>2, <2>3, <1>1 DEF EventOK
<1>6. e \in Kept
  BY <1>2, <1>3, <1>5 DEF Kept
<1> QED BY <1>6 DEF e

\* The texts of the model, over its calls and its frames.
LEMMA TextsAre ==
  ASSUME calls \in Seq(Asks), wire \in Seq(Frames)
  PROVE  /\ \A c : TextEvents(c) = EventsIn(calls, c)
         /\ \A c \in DOMAIN calls : TextsOf(c) = TextsIn(calls, c)
         /\ Sent = SentUpto(calls, Len(calls))
         /\ Streamed = StreamedIn(calls, wire)
         /\ \A chunks : TextOf(chunks) = Tag(call, Picked(chunks, EventsIn(calls, call)))
<1>1. \A c : TextEvents(c) = EventsIn(calls, c)
  BY DEF TextEvents, EventsIn
<1>2. ASSUME NEW c \in DOMAIN calls PROVE TextsOf(c) = TextsIn(calls, c)
  <2>1. calls[c] \in Asks
    OBVIOUS
  <2>2. calls[c].sends \in Seq(LocalKinds \cup RemoteKinds)
    BY <2>1, AsksAre
  <2>3. [n \in DOMAIN calls[c].sends |-> n] = Upto(Len(calls[c].sends))
    BY <2>2 DEF Upto
  <2> QED BY <1>1, <2>3 DEF TextsOf, TextsIn, Tag
<1>3. [c \in DOMAIN calls |-> TextsOf(c)] = [c \in 1..Len(calls) |-> TextsIn(calls, c)]
  <2>1. DOMAIN calls = 1..Len(calls)
    OBVIOUS
  <2> QED BY <2>1, <1>2
<1>4. Sent = SentUpto(calls, Len(calls))
  BY <1>3 DEF Sent, SentUpto
<1>5. TextFrames = Picked(wire, Texting(calls))
  <2> DEFINE S == {f \in Range(wire) : f.n # 0 /\ f.n \in TextEvents(f.call)}
  <2>1. ASSUME NEW k \in 1..Len(wire) PROVE wire[k] \in S <=> wire[k] \in Texting(calls)
    <3>1. wire[k] \in Range(wire) /\ wire[k] \in Frames
      BY DEF Range
    <3> QED BY <3>1, <1>1 DEF Texting
  <2>2. Picked(wire, S) = Picked(wire, Texting(calls))
    <3> HIDE DEF S
    <3> QED BY <2>1, PickedSame
  <2> QED BY <2>2 DEF TextFrames
<1>6. Streamed = StreamedIn(calls, wire)
  BY <1>5 DEF Streamed, StreamedIn, Tagged
<1>7. \A chunks : TextOf(chunks) = Tag(call, Picked(chunks, EventsIn(calls, call)))
  BY <1>1 DEF TextOf, Tag
<1> QED BY <1>1, <1>2, <1>4, <1>6, <1>7

\* The text of a message of the current call.
LEMMA TextOfTyped ==
  ASSUME calls \in Seq(Asks), wire \in Seq(Frames), Len(calls) # 0, NEW chunks \in Seq(Nat)
  PROVE  TextOf(chunks) \in Seq(Pairs) /\ Range(TextOf(chunks)) \subseteq Range(TextsIn(calls, Len(calls)))
<1> DEFINE S == EventsIn(calls, call)
           p == Picked(chunks, S)
<1>1. call = Len(calls) /\ call \in DOMAIN calls /\ call \in Nat
  BY ScriptIs DEF Scripted
<1>2. TextOf(chunks) = Tag(call, p)
  BY TextsAre
<1>3. p \in Seq(Nat) /\ Range(p) = Range(chunks) \cap S
  <2> HIDE DEF S
  <2> QED BY PickedElements
<1> HIDE DEF p
<1>4. Tag(call, p) \in Seq(Pairs) /\ Range(Tag(call, p)) = {<<call, m>> : m \in Range(p)}
  <2>1. 0 \in Nat
    OBVIOUS
  <2> QED BY <2>1, <1>1, <1>3, TagIs
<1>5. Range(TextsIn(calls, call)) = {<<call, n>> : n \in S}
  BY <1>1, TextsTyped
<1> HIDE DEF S
<1>6. Range(Tag(call, p)) \subseteq Range(TextsIn(calls, call))
  BY <1>3, <1>4, <1>5
<1> QED BY <1>1, <1>2, <1>4, <1>6

\* What is sent bounds what the messages hold, and what is streamed.
LEMMA SentBounds ==
  ASSUME Basics
  PROVE  /\ \A i \in DOMAIN messages : Range(messages[i].text) \subseteq Range(SentUpto(calls, Len(calls)))
         /\ Streamed \in Seq(Pairs) /\ Range(Streamed) \subseteq Range(SentUpto(calls, Len(calls)))
<1>1. calls \in Seq(Asks) /\ wire \in Seq(Frames) /\ messages \in Seq(Messages) /\ Len(messages) <= Len(calls)
  BY DEF Basics, Types, Course
<1>2. Len(calls) \in 0..Len(calls) /\ Len(calls) \in Nat /\ DOMAIN calls = 1..Len(calls)
      /\ DOMAIN messages = 1..Len(messages) /\ Len(messages) \in Nat
  BY <1>1
<1>3. \A e : e \in Range(SentUpto(calls, Len(calls))) <=> \E c \in 1..Len(calls) : e \in Range(TextsIn(calls, c))
  BY <1>1, <1>2, SentTyped
<1>4. ASSUME NEW i \in DOMAIN messages
      PROVE  Range(messages[i].text) \subseteq Range(SentUpto(calls, Len(calls)))
  <2>1. i \in 1..Len(calls)
    BY <1>1, <1>2
  <2>2. Range(messages[i].text) \subseteq Range(TextsIn(calls, i))
    BY DEF Basics, TextsOK
  <2> QED BY <2>1, <2>2, <1>3
<1>5. Streamed = StreamedIn(calls, wire)
  BY <1>1, TextsAre
<1>6. StreamedIn(calls, wire) \in Seq(Pairs)
      /\ Range(StreamedIn(calls, wire)) = {<<e.call, e.n>> : e \in Range(wire) \cap Texting(calls)}
  <2>1. [type |-> "passthrough", seq |-> 0, call |-> 0, n |-> 0] \in Frames
    BY DEF Frames, FrameTypes
  <2> QED BY <2>1, <1>1, StreamedAppend
<1>7. ASSUME NEW e \in Range(wire) \cap Texting(calls)
      PROVE  <<e.call, e.n>> \in Range(SentUpto(calls, Len(calls)))
  <2>1. PICK i \in DOMAIN wire : wire[i] = e
    BY DEF Range
  <2>2. e \in Frames /\ e.n # 0 /\ e.n \in EventsIn(calls, e.call)
    BY <1>7 DEF Texting
  <2>3. e.call \in Nat
    BY <2>2 DEF Frames
  <2>4. e.call \in 1..Len(calls)
    BY <2>1, <2>2, <2>3, <1>2 DEF Basics, FramesOK, FrameOK
  <2>5. <<e.call, e.n>> \in Range(TextsIn(calls, e.call))
    BY <2>2, <2>4, <1>1, <1>2, TextsTyped
  <2> QED BY <2>4, <2>5, <1>3
<1>8. Range(StreamedIn(calls, wire)) \subseteq Range(SentUpto(calls, Len(calls)))
  BY <1>6, <1>7
<1> QED BY <1>4, <1>5, <1>6, <1>8

\* The invariant implies the type invariant.
LEMMA BasicsTyped == Basics /\ Deep => TypeOK
<1> SUFFICES ASSUME Basics, Deep PROVE TypeOK
  OBVIOUS
<1>1. Types /\ Course /\ ChunksOK /\ FramesOK /\ TextsOK
  BY DEF Basics
<1>2. /\ calls \in Seq(Asks) /\ wire \in Seq(Frames) /\ messages \in Seq(Messages) /\ history \in Seq(Messages)
      /\ Len(messages) <= Len(calls)
  BY <1>1 DEF Types, Course
<1>3. at \in Places /\ call <= Calls /\ tries \in 0..(MaxRetries - 1) /\ read \in Nat /\ next \in Nat
      /\ status \in Statuses /\ stop \in {"no", "asked", "seen"}
  BY <1>1 DEF Types, call
<1>4. ASSUME NEW c \in DOMAIN calls
      PROVE  \/ calls[c].to \in {"local", "sub"} /\ calls[c].sends \in LocalStreams
             \/ calls[c].to = "remote" /\ calls[c].sends \in RemoteStreams
  <2>1. calls[c] \in Asks
    BY <1>2
  <2> QED BY <2>1, AsksAre
<1>5. Sent = SentUpto(calls, Len(calls))
  BY <1>2, TextsAre
<1>6. ASSUME NEW ms \in Seq(Messages),
             \A i \in DOMAIN ms : Range(ms[i].text) \subseteq Range(Sent)
      PROVE  Range(TextIn(ms)) \subseteq Range(Sent)
  <2> DEFINE ts == [i \in DOMAIN ms |-> ms[i].text]
  <2>1. \A i \in DOMAIN ms : ms[i] \in Messages
    OBVIOUS
  <2>2. \A i \in DOMAIN ms : ms[i].text \in Seq(Pairs)
    BY <2>1 DEF Messages
  <2>3. ts \in Seq(Seq(Pairs)) /\ Len(ts) = Len(ms) /\ DOMAIN ms = 1..Len(ms)
    <3>1. DOMAIN ms = 1..Len(ms) /\ Len(ms) \in Nat
      OBVIOUS
    <3>2. ts = [i \in 1..Len(ms) |-> ms[i].text]
      BY <3>1
    <3> HIDE DEF ts
    <3> QED BY <3>1, <3>2, <2>2
  <2>4. \A i \in 1..Len(ts) : ts[i] = ms[i].text
    BY <2>3
  <2> HIDE DEF ts
  <2>5. Range(FlattenSeq(ts)) = UNION {Range(ts[i]) : i \in 1..Len(ts)}
    BY <2>3, FlatElements
  <2>6. \A i \in 1..Len(ts) : Range(ts[i]) \subseteq Range(Sent)
    BY <2>3, <2>4, <1>6
  <2>7. Range(FlattenSeq(ts)) \subseteq Range(Sent)
    BY <2>5, <2>6
  <2>8. TextIn(ms) = FlattenSeq(ts)
    BY DEF TextIn, ts
  <2> QED BY <2>7, <2>8
<1>7. Range(TextIn(messages)) \subseteq Range(Sent) /\ Range(TextIn(history)) \subseteq Range(Sent)
  <2>1. \A i \in DOMAIN messages : Range(messages[i].text) \subseteq Range(Sent)
    BY <1>5, SentBounds
  <2>2. \A i \in DOMAIN history : Range(history[i].text) \subseteq Range(Sent)
    BY <1>1, <1>5 DEF TextsOK
  <2> QED BY <2>1, <2>2, <1>2, <1>6
<1>8. \A i \in DOMAIN wire : wire[i].seq < next
  BY <1>1 DEF FramesOK, FrameOK
<1> QED BY <1>1, <1>3, <1>4, <1>7, <1>8 DEF TypeOK, Places, Statuses, ChunksOK, Deep, call

LEMMA BasicsInit == Init => Basics
<1> SUFFICES ASSUME Init PROVE Basics
  OBVIOUS
<1> USE DEF Init
<1>1. Types
  <2>1. <<>> \in Seq(Asks) /\ Len(<<>>) = 0 /\ <<>> \in Seq(Bytes) /\ <<>> \in Seq(Nat)
        /\ <<>> \in Seq(Messages) /\ <<>> \in Seq(Frames)
    OBVIOUS
  <2>2. 0 <= Calls /\ 0 \in 0..(MaxRetries - 1)
    BY ReplyStreamAssumption
  <2> QED BY <2>1, <2>2 DEF Types, Places, Statuses
<1>2. Course
  BY DEF Course
<1>3. ChunksOK /\ FramesOK /\ TextsOK
  BY DEF ChunksOK, FramesOK, TextsOK
<1> QED BY <1>1, <1>2, <1>3 DEF Basics

\* Steps that leave parts of the state alone.
LEMMA PartsSame ==
  ASSUME Basics
  PROVE  /\ UNCHANGED <<got, calls>> => ChunksOK'
         /\ UNCHANGED <<wire, next, calls, delivery>> /\ at # "closed" => FramesOK'
         /\ UNCHANGED <<messages, history, calls>> => TextsOK'
<1>1. UNCHANGED <<got, calls>> => ChunksOK'
  BY DEF Basics, ChunksOK, script, call
<1>2. UNCHANGED <<wire, next, calls, delivery>> /\ at # "closed" => FramesOK'
  BY DEF Basics, FramesOK, FrameOK
<1>3. UNCHANGED <<messages, history, calls>> => TextsOK'
  BY DEF Basics, TextsOK
<1> QED BY <1>1, <1>2, <1>3

LEMMA BasicsOpen == Basics /\ Open => Basics'
<1> SUFFICES ASSUME Basics, Open PROVE Basics'
  OBVIOUS
<1> DEFINE types == CASE delivery = "stream"     -> <<"stream.start">>
                      [] delivery = "background" -> <<"stream.start", "mode.background">>
                      [] OTHER                   -> <<>>
<1>1. /\ at = "opening" /\ at' = "agent" /\ calls = <<>> /\ messages = <<>> /\ history = <<>>
      /\ wire' = [i \in DOMAIN types |-> [type |-> types[i], seq |-> i - 1, call |-> 0, n |-> 0]]
      /\ next' = Len(types)
      /\ UNCHANGED <<delivery, calls, read, buffer, got, tries, status, messages, stop, history>>
  BY DEF Basics, Course, Open
<1>2. /\ types \in Seq({"stream.start", "mode.background"})
      /\ Len(types) \in Nat /\ DOMAIN types = 1..Len(types)
      /\ delivery = "stream" => Len(types) = 1
  <2>1. CASE delivery = "stream"
    <3>1. types = <<"stream.start">>
      BY <2>1
    <3> HIDE DEF types
    <3> QED BY <3>1
  <2>2. CASE delivery = "background"
    <3>1. types = <<"stream.start", "mode.background">>
      BY <2>2
    <3> HIDE DEF types
    <3>2. types \in Seq({"stream.start", "mode.background"}) /\ Len(types) = 2
      BY <3>1
    <3> QED BY <3>2, <2>2
  <2>3. CASE delivery \notin {"stream", "background"}
    <3>1. types = <<>>
      BY <2>3
    <3> HIDE DEF types
    <3> QED BY <3>1, <2>3
  <2> QED BY <2>1, <2>2, <2>3
<1> HIDE DEF types
<1>3. ASSUME NEW i \in DOMAIN types
      PROVE  /\ wire'[i] \in Frames /\ wire'[i].type \in OpenTypes /\ wire'[i].seq = i - 1
             /\ wire'[i].call = 0 /\ wire'[i].n = 0
  <2>1. types[i] \in {"stream.start", "mode.background"} /\ i - 1 \in Nat
    BY <1>2
  <2>2. wire'[i] = [type |-> types[i], seq |-> i - 1, call |-> 0, n |-> 0]
    BY <1>1
  <2> QED BY <2>1, <2>2 DEF Frames, FrameTypes, OpenTypes
<1>4. wire' \in Seq(Frames) /\ DOMAIN wire' = DOMAIN types
  <2>1. wire' = [i \in 1..Len(types) |-> wire'[i]]
    BY <1>1, <1>2
  <2> QED BY <2>1, <1>2, <1>3
<1>5. Types'
  BY <1>1, <1>2, <1>4 DEF Basics, Types, Places
<1>6. Course'
  BY <1>1 DEF Basics, Course
<1>7. FramesOK'
  <2> SUFFICES ASSUME NEW i \in DOMAIN wire'
               PROVE  FrameOK(wire[i], next, Len(calls))' /\ (at' # "closed" => wire'[i].type \in OpenTypes)
    BY DEF FramesOK
  <2>1. Len(calls') = 0 /\ i - 1 < next' /\ (delivery' = "stream" => i - 1 = 0)
    BY <1>1, <1>2, <1>4
  <2> QED BY <2>1, <1>3, <1>4 DEF FrameOK
<1> QED BY <1>1, <1>5, <1>6, <1>7, PartsSame DEF Basics

LEMMA BasicsInterrupt == Basics /\ Interrupt => Basics'
<1> SUFFICES ASSUME Basics, Interrupt PROVE Basics'
  OBVIOUS
<1>1. /\ at # "closed" /\ stop' \in {"no", "asked", "seen"}
      /\ UNCHANGED <<at, delivery, calls, read, buffer, got, tries, status, messages, wire, next, history>>
  BY DEF Interrupt
<1>2. Types'
  BY <1>1 DEF Basics, Types
<1>3. Course'
  BY <1>1 DEF Basics, Course
<1> QED BY <1>1, <1>2, <1>3, PartsSame DEF Basics

\* The texts and frames of earlier calls are what they were.
LEMMA BasicsCall ==
  ASSUME Basics, NEW to, NEW streams,
         <<to, streams>> \in {<<"local", LocalStreams>>, <<"sub", LocalStreams>>, <<"remote", RemoteStreams>>},
         Call(to, streams)
  PROVE  Basics'
<1>1. PICK s \in streams : calls' = Append(calls, [to |-> to, sends |-> s])
  BY DEF Call
<1> DEFINE a == [to |-> to, sends |-> s]
<1>2. a \in Asks
  BY DEF Asks, LocalAsks, RemoteAsks
<1>3. /\ at = "agent" /\ at' \in {"waiting", "reading"} /\ call < Calls
      /\ (at' = "waiting" <=> delivery = "json") /\ read' = 0 /\ buffer' = <<>> /\ got' = <<>> /\ tries' = 0 /\ status' = "none"
      /\ UNCHANGED <<delivery, messages, wire, next, stop, history>>
  BY DEF Call
<1>4. calls \in Seq(Asks) /\ Len(calls) = Len(messages) /\ Len(calls) < Calls /\ history = <<>>
      /\ Len(calls) \in Nat /\ DOMAIN calls = 1..Len(calls)
  BY <1>3 DEF Basics, Types, Course, call
<1> HIDE DEF a
<1>5. calls' \in Seq(Asks) /\ Len(calls') = Len(calls) + 1 /\ \A c \in 1..Len(calls) : calls[c] = calls'[c]
  BY <1>1, <1>2, <1>4, AppendIs DEF a
<1>6. Types'
  <2>1. <<>> \in Seq(Bytes) /\ <<>> \in Seq(Nat) /\ 0 \in 0..(MaxRetries - 1)
    BY ReplyStreamAssumption
  <2>2. Len(calls') <= Calls
    BY <1>4, <1>5, ReplyStreamAssumption
  <2> QED BY <1>3, <1>5, <2>1, <2>2 DEF Basics, Types, Places, Statuses
<1>7. Course'
  <2>1. Len(calls') # 0 /\ Len(calls') = Len(messages') + 1 /\ Len(messages') <= Len(calls')
    BY <1>3, <1>4, <1>5
  <2>2. at' = "waiting" => delivery' = "json" /\ got' = <<>>
    BY <1>3
  <2>3. at' = "reading" => delivery' # "json"
    BY <1>3
  <2> QED BY <2>1, <2>2, <2>3, <1>3, <1>4 DEF Course
<1>8. ChunksOK'
  BY <1>3 DEF ChunksOK
<1>9. FramesOK'
  <2> SUFFICES ASSUME NEW i \in DOMAIN wire
               PROVE  FrameOK(wire[i], next, Len(calls))' /\ (at' # "closed" => wire'[i].type \in OpenTypes)
    BY <1>3 DEF FramesOK
  <2>1. FrameOK(wire[i], next, Len(calls)) /\ wire[i].type \in OpenTypes /\ wire[i] \in Frames
    BY <1>3 DEF Basics, Types, FramesOK
  <2>2. wire[i].call \in Nat
    BY <2>1 DEF Frames
  <2> QED BY <1>3, <1>4, <1>5, <2>1, <2>2 DEF FrameOK
<1>10. TextsOK'
  <2>1. ASSUME NEW i \in DOMAIN messages
        PROVE  Range(messages[i].text) \subseteq Range(TextsIn(calls', i))
    <3>1. messages \in Seq(Messages)
      BY DEF Basics, Types
    <3>2. i \in 1..Len(calls)
      BY <3>1, <1>4
    <3>3. TextsIn(calls, i) = TextsIn(calls', i)
      BY <3>2, <1>4, <1>5, SentSame
    <3> QED BY <3>3 DEF Basics, TextsOK
  <2> QED BY <2>1, <1>3, <1>4 DEF TextsOK
<1> QED BY <1>6, <1>7, <1>8, <1>9, <1>10 DEF Basics

\* A reading of lines leaves the turn's basics in place.
LEMMA ReadingKept ==
  ASSUME Basics, at = "reading", status = "none"
  PROVE  [got |-> got, wire |-> wire, next |-> next, status |-> "none"] \in Kept
<1>1. got \in Seq(Nat) /\ wire \in Seq(Frames) /\ next \in Nat /\ "none" \in Statuses
  BY DEF Basics, Types, Statuses
<1>2. [got |-> got, wire |-> wire, next |-> next, status |-> "none"] \in Readings
  BY <1>1 DEF Readings
<1> QED BY <1>2 DEF Kept, Basics, ChunksOK, FramesOK, call

LEMMA BasicsRead == ASSUME Basics, NEW n, Read(n) PROVE Basics'
<1> DEFINE text == buffer \o [j \in 1..(n - read) |-> Byte(read + j)]
           start == [got |-> got, wire |-> wire, next |-> next, status |-> "none"]
           rd == EachLine(start, Front(Lines(text)))
<1>1. /\ at = "reading" /\ status = "none" /\ n \in (read + 1)..(4 * Len(script)) /\ read' = n
      /\ UNCHANGED <<at, delivery, calls, tries, messages, stop, history>>
      /\ \/ /\ stop = "seen" /\ status' = "interrupted" /\ UNCHANGED <<buffer, got, wire, next>>
         \/ /\ buffer' = Last(Lines(text))
            /\ got' = rd.got /\ wire' = rd.wire /\ next' = rd.next /\ status' = rd.status
  BY DEF Read
<1>2. read \in Nat /\ calls \in Seq(Asks) /\ Len(calls) # 0 /\ buffer \in Seq(Bytes)
  BY <1>1 DEF Basics, Types, Course
<1>3. Scripted /\ call = Len(calls)
  BY <1>2, ScriptIs
<1>4. n \in Nat /\ read < n
  <2>1. Len(script) \in Nat
    BY <1>3 DEF Scripted
  <2> QED BY <1>1, <1>2, <2>1
<1> HIDE DEF rd, text, start
<1>5. text \in Seq(Bytes) /\ text # <<>>
  BY <1>2, <1>4, ArrivingTyped DEF text
<1>6. Front(Lines(text)) \in Seq(Seq(Bytes)) /\ Last(Lines(text)) \in Seq(Bytes)
  BY <1>5, LinesTyped
<1>7. rd \in Kept
  <2>1. start \in Kept
    BY <1>1, ReadingKept DEF start
  <2>2. Kept \in SUBSET Readings
    BY DEF Kept
  <2>3. \A r \in Kept : \A k \in DOMAIN script : r.status = "none" => Event(r, k) \in Kept
    BY <1>3, EventKeeps
  <2> QED BY <1>3, <1>6, <2>1, <2>2, <2>3, EachLineKeeps DEF rd
<1>8. /\ rd.got \in Seq(Nat) /\ rd.wire \in Seq(Frames) /\ rd.next \in Nat /\ rd.status \in Statuses
      /\ \A i \in DOMAIN rd.got : rd.got[i] \in DOMAIN script
      /\ \A i \in DOMAIN rd.wire : FrameOK(rd.wire[i], rd.next, call) /\ rd.wire[i].type \in OpenTypes
  BY <1>7 DEF Kept, Readings
<1>9. Types'
  <2>1. buffer' \in Seq(Bytes) /\ got' \in Seq(Nat) /\ wire' \in Seq(Frames) /\ next' \in Nat /\ status' \in Statuses
    BY <1>1, <1>2, <1>6, <1>8 DEF Basics, Types, Statuses
  <2> QED BY <2>1, <1>1, <1>4 DEF Basics, Types
<1>10. Course'
  BY <1>1 DEF Basics, Course
<1>11. TextsOK'
  BY <1>1, PartsSame
<1>12. ChunksOK' /\ FramesOK'
  <2>1. CASE UNCHANGED <<buffer, got, wire, next>>
    BY <2>1, <1>1, PartsSame
  <2>2. CASE got' = rd.got /\ wire' = rd.wire /\ next' = rd.next
    <3>1. script' = script /\ Len(calls') = call
      BY <1>1, <1>3 DEF script, call
    <3>2. ChunksOK'
      BY <2>2, <3>1, <1>8 DEF ChunksOK
    <3>3. FramesOK'
      BY <2>2, <3>1, <1>1, <1>8 DEF FramesOK, FrameOK
    <3> QED BY <3>2, <3>3
  <2> QED BY <1>1, <2>1, <2>2
<1> QED BY <1>9, <1>10, <1>11, <1>12 DEF Basics

LEMMA MessageAdded ==
  ASSUME Basics, Len(calls) = Len(messages) + 1, NEW chunks \in Seq(Nat), NEW s \in Statuses, NEW t \in BOOLEAN,
         messages' = Append(messages, [text |-> TextOf(chunks), status |-> s, tool |-> t]),
         UNCHANGED <<calls, history>>
  PROVE  messages' \in Seq(Messages) /\ Len(messages') = Len(calls') /\ TextsOK'
<1> DEFINE m == [text |-> TextOf(chunks), status |-> s, tool |-> t]
<1>1. calls \in Seq(Asks) /\ wire \in Seq(Frames) /\ messages \in Seq(Messages) /\ Len(messages) \in Nat
  BY DEF Basics, Types
<1>2. Len(calls) # 0
  BY <1>1
<1>3. TextOf(chunks) \in Seq(Pairs) /\ Range(TextOf(chunks)) \subseteq Range(TextsIn(calls, Len(calls)))
  BY <1>1, <1>2, TextOfTyped
<1>4. m \in Messages /\ m.text = TextOf(chunks)
  BY <1>3 DEF Messages
<1> HIDE DEF m
<1>5. messages' = Append(messages, m)
  BY DEF m
<1>6. messages' \in Seq(Messages) /\ Len(messages') = Len(messages) + 1
  BY <1>1, <1>4, <1>5, AppendIs
<1>7. ASSUME NEW i \in DOMAIN messages' PROVE Range(messages'[i].text) \subseteq Range(TextsIn(calls, i))
  <2>1. (i \in DOMAIN messages /\ messages'[i] = messages[i]) \/ (i = Len(calls) /\ messages'[i] = m)
    BY <1>1, <1>4, <1>5, AppendIs
  <2> QED BY <2>1, <1>3, <1>4 DEF Basics, TextsOK
<1>8. TextsOK'
  BY <1>7 DEF Basics, TextsOK
<1> QED BY <1>6, <1>8

LEMMA BasicsDrops == Basics /\ Drops => Basics'
<1> SUFFICES ASSUME Basics, Drops PROVE Basics'
  OBVIOUS
<1>1. /\ at = "reading" /\ status' = "failed"
      /\ UNCHANGED <<at, delivery, calls, read, buffer, got, tries, messages, wire, next, stop, history>>
  BY DEF Drops
<1>2. Types'
  BY <1>1 DEF Basics, Types, Statuses
<1>3. Course'
  BY <1>1 DEF Basics, Course
<1> QED BY <1>1, <1>2, <1>3, PartsSame DEF Basics

LEMMA BasicsMerge == Basics /\ Merge => Basics'
<1> SUFFICES ASSUME Basics, Merge PROVE Basics'
  OBVIOUS
<1> DEFINE t == status = "none" /\ \E i \in DOMAIN got : script[got[i]] = "tool"
<1>1. /\ at = "reading"
      /\ \/ at' = "raised" /\ UNCHANGED messages
         \/ at' = "values" /\ messages' = Append(messages, [text |-> TextOf(got), status |-> status, tool |-> t])
      /\ UNCHANGED <<delivery, calls, read, buffer, got, tries, status, wire, next, stop, history>>
  BY DEF Merge, Generated
<1>2. t \in BOOLEAN /\ got \in Seq(Nat) /\ status \in Statuses /\ Len(calls) = Len(messages) + 1
      /\ Len(calls) # 0 /\ messages \in Seq(Messages) /\ Len(messages) \in Nat /\ Len(messages) <= Len(calls)
  BY <1>1 DEF Basics, Types, Course
<1> HIDE DEF t
<1>3. CASE at' = "raised" /\ UNCHANGED messages
  <2>1. Types'
    BY <1>1, <1>3 DEF Basics, Types, Places
  <2>2. Course'
    BY <1>1, <1>2, <1>3 DEF Basics, Course
  <2> QED BY <2>1, <2>2, <1>1, <1>3, PartsSame DEF Basics
<1>4. CASE at' = "values" /\ messages' = Append(messages, [text |-> TextOf(got), status |-> status, tool |-> t])
  <2>1. messages' \in Seq(Messages) /\ Len(messages') = Len(calls') /\ TextsOK'
    BY <1>1, <1>2, <1>4, MessageAdded
  <2>2. Types'
    BY <1>1, <1>4, <2>1 DEF Basics, Types, Places
  <2>3. Course'
    BY <1>1, <1>2, <1>4, <2>1 DEF Basics, Course
  <2> QED BY <2>1, <2>2, <2>3, <1>1, PartsSame DEF Basics
<1> QED BY <1>1, <1>3, <1>4

\* An answer of a call that does not stream.
LEMMA BasicsAnswer ==
  ASSUME Basics, at = "waiting", NEW chunks \in Seq(Nat), NEW s \in {"none", "failed"}, Answer(chunks, s),
         UNCHANGED <<delivery, calls, read, buffer, got, tries, wire, next, stop, history>>
  PROVE  Basics'
<1> DEFINE t == s = "none" /\ \E i \in DOMAIN chunks : script[chunks[i]] = "tool"
<1>1. /\ at' = "values" /\ status' = s
      /\ messages' = Append(messages, [text |-> TextOf(chunks), status |-> s, tool |-> t])
  BY DEF Answer
<1>2. t \in BOOLEAN /\ s \in Statuses /\ Len(calls) = Len(messages) + 1
      /\ Len(calls) # 0 /\ messages \in Seq(Messages)
  BY <1>1 DEF Basics, Types, Course, Statuses
<1> HIDE DEF t
<1>3. messages' \in Seq(Messages) /\ Len(messages') = Len(calls') /\ TextsOK'
  BY <1>1, <1>2, MessageAdded
<1>4. Types'
  BY <1>1, <1>2, <1>3 DEF Basics, Types, Places
<1>5. Course'
  <2>1. Len(messages') = Len(calls') /\ Len(messages') <= Len(calls') /\ Len(calls') # 0 /\ history' = <<>>
    <3>1. Len(calls) \in Nat
      BY DEF Basics, Types
    <3> QED BY <3>1, <1>2, <1>3 DEF Basics, Course
  <2> QED BY <2>1, <1>1 DEF Course
<1> QED BY <1>1, <1>3, <1>4, <1>5, PartsSame DEF Basics

LEMMA AllTyped == ASSUME Basics, Len(calls) # 0 PROVE All \in Seq(Nat) /\ <<>> \in Seq(Nat)
<1>1. Scripted
  BY ScriptIs DEF Basics, Types
<1>2. Len(script) \in Nat /\ DOMAIN script = 1..Len(script)
  BY <1>1 DEF Scripted
<1>3. All = Upto(Len(script))
  BY <1>2 DEF All, Upto
<1> QED BY <1>2, <1>3, UptoIs

LEMMA BasicsWaiting == Basics /\ (Answered \/ AnsweredError \/ Unanswered) => Basics'
<1> SUFFICES ASSUME Basics, Answered \/ AnsweredError \/ Unanswered PROVE Basics'
  OBVIOUS
<1>1. at = "waiting" /\ Len(calls) # 0
  BY DEF Answered, AnsweredError, Unanswered, Basics, Course
<1>2. CASE Answered
  BY <1>1, <1>2, AllTyped, BasicsAnswer DEF Answered
<1>3. CASE AnsweredError
  <2> DEFINE chunks == IF remote THEN All ELSE <<>>
  <2>1. chunks \in Seq(Nat)
    BY <1>1, AllTyped
  <2>2. Answer(chunks, "failed") /\ UNCHANGED <<delivery, calls, read, buffer, got, tries, wire, next, stop, history>>
    BY <1>3 DEF AnsweredError
  <2> HIDE DEF chunks
  <2> QED BY <2>1, <2>2, <1>1, BasicsAnswer
<1>4. CASE Unanswered
  <2>1. /\ at' = "raised"
        /\ UNCHANGED <<delivery, calls, read, buffer, got, tries, status, messages, wire, next, stop, history>>
    BY <1>4 DEF Unanswered
  <2>2. Types'
    BY <2>1 DEF Basics, Types, Places
  <2>3. Course'
    BY <2>1, <1>1 DEF Basics, Course
  <2> QED BY <1>1, <2>1, <2>2, <2>3, PartsSame DEF Basics
<1> QED BY <1>2, <1>3, <1>4

\* Asking again changes what the current call sends; no message has it yet.
LEMMA BasicsRetry == Basics /\ Retry => Basics'
<1> SUFFICES ASSUME Basics, Retry PROVE Basics'
  OBVIOUS
<1>1. /\ at = "waiting" /\ ~remote /\ tries + 1 < MaxRetries /\ tries' = tries + 1
      /\ UNCHANGED <<at, delivery, read, buffer, got, status, messages, wire, next, stop, history>>
  BY DEF Retry
<1>2. PICK s \in LocalStreams : calls' = [calls EXCEPT ![call].sends = s]
  BY DEF Retry
<1>3. /\ calls \in Seq(Asks) /\ Len(calls) # 0 /\ Len(calls) \in Nat /\ call = Len(calls) /\ call \in DOMAIN calls
      /\ Len(calls) = Len(messages) + 1 /\ Len(calls) <= Calls /\ messages \in Seq(Messages) /\ history = <<>> /\ got = <<>>
      /\ DOMAIN calls = 1..Len(calls) /\ DOMAIN messages = 1..Len(messages) /\ Len(messages) \in Nat
  BY <1>1 DEF Basics, Types, Course, call
<1> HIDE DEF call
<1>4. calls[call] \in LocalAsks
  <2>1. calls[call] \in Asks
    BY <1>3
  <2>2. calls[call].to # "remote"
    BY <1>1 DEF remote
  <2> QED BY <2>1, <2>2 DEF Asks, RemoteAsks
<1> DEFINE a == [calls[call] EXCEPT !.sends = s]
<1>5. a \in Asks
  BY <1>4 DEF LocalAsks, Asks
<1>6. calls' = [calls EXCEPT ![call] = a]
  BY <1>2, <1>3
<1> HIDE DEF a
<1>7. calls' \in Seq(Asks) /\ Len(calls') = Len(calls) /\ \A c \in 1..Len(messages) : calls[c] = calls'[c]
  <2>1. calls' \in [1..Len(calls) -> Asks]
    BY <1>3, <1>5, <1>6
  <2>2. calls' \in Seq(Asks) /\ Len(calls') = Len(calls)
    BY <2>1, <1>3
  <2>3. ASSUME NEW c \in 1..Len(messages) PROVE calls[c] = calls'[c]
    <3>1. c \in DOMAIN calls /\ c # call
      BY <1>3
    <3> QED BY <3>1, <1>6
  <2> QED BY <2>2, <2>3
<1>8. Types'
  BY <1>1, <1>3, <1>7, ReplyStreamAssumption DEF Basics, Types
<1>9. Course'
  BY <1>1, <1>3, <1>7 DEF Basics, Course
<1>10. ChunksOK'
  BY <1>1, <1>3 DEF ChunksOK
<1>11. FramesOK'
  BY <1>1, <1>7 DEF Basics, FramesOK, FrameOK
<1>12. TextsOK'
  <2>1. ASSUME NEW i \in DOMAIN messages
        PROVE  Range(messages[i].text) \subseteq Range(TextsIn(calls', i))
    <3>0. \A c \in 1..Len(messages) : TextsIn(calls, c) = TextsIn(calls', c)
      BY <1>3, <1>7, SentSame
    <3>1. TextsIn(calls, i) = TextsIn(calls', i)
      BY <3>0, <1>3
    <3> QED BY <3>1 DEF Basics, TextsOK
  <2> QED BY <2>1, <1>1, <1>3 DEF TextsOK
<1> QED BY <1>8, <1>9, <1>10, <1>11, <1>12 DEF Basics

LEMMA BasicsGoesOn == Basics /\ (GoesOn \/ Discard) => Basics'
<1> SUFFICES ASSUME Basics, GoesOn \/ Discard PROVE Basics'
  OBVIOUS
<1>1. /\ at = "values" /\ at' \in {"agent", "raised", "ended"}
      /\ UNCHANGED <<delivery, calls, read, buffer, got, tries, status, messages, wire, next, stop, history>>
  BY DEF GoesOn, Discard, Passes, Onward
<1>2. Types'
  BY <1>1 DEF Basics, Types, Places
<1>3. Course'
  BY <1>1 DEF Basics, Course
<1> QED BY <1>1, <1>2, <1>3, PartsSame DEF Basics

\* The end of a turn.
LEMMA Closes ==
  ASSUME Basics, at # "closed", NEW type \in FrameTypes, Close(type), Len(calls) # 0 \/ delivery = "json",
         history' \in Seq(Messages),
         \A i \in DOMAIN history' : Range(history'[i].text) \subseteq Range(SentUpto(calls, Len(calls)))
  PROVE  Basics'
<1> DEFINE f == Terminal(type)
<1>1. /\ at' = "closed" /\ wire' = Append(wire, f) /\ next' = next + 1
      /\ UNCHANGED <<delivery, calls, read, buffer, got, tries, status, messages, stop>>
  BY DEF Close
<1>2. wire \in Seq(Frames) /\ next \in Nat /\ calls \in Seq(Asks) /\ Len(calls) \in Nat
  BY DEF Basics, Types
<1>3. f \in Frames /\ f.seq = next /\ f.call = Len(calls) /\ f.n = 0
  BY <1>2 DEF Terminal, Frame, Frames, call
<1> HIDE DEF f
<1>4. Types'
  <2>1. wire' \in Seq(Frames) /\ next' \in Nat
    BY <1>1, <1>2, <1>3, AppendIs
  <2> QED BY <2>1, <1>1 DEF Basics, Types, Places
<1>5. Course'
  BY <1>1 DEF Basics, Course
<1>6. ChunksOK' /\ (UNCHANGED <<messages, history, calls>> => TextsOK')
  BY <1>1, PartsSame
<1>7. TextsOK'
  BY <1>1 DEF Basics, TextsOK
<1>8. FramesOK'
  <2> SUFFICES ASSUME NEW i \in DOMAIN wire' PROVE FrameOK(wire'[i], next + 1, Len(calls))
    BY <1>1 DEF FramesOK, FrameOK
  <2>1. (i \in DOMAIN wire /\ wire'[i] = wire[i]) \/ wire'[i] = f
    BY <1>1, <1>2, <1>3, AppendIs
  <2>2. CASE i \in DOMAIN wire /\ wire'[i] = wire[i]
    <3>1. wire[i] \in Frames
      BY <2>2, <1>2
    <3>2. wire[i].seq \in Nat
      BY <3>1 DEF Frames
    <3> QED BY <2>2, <3>2, <1>2 DEF Basics, FramesOK, FrameOK
  <2>3. CASE wire'[i] = f
    BY <2>3, <1>2, <1>3 DEF FrameOK
  <2> QED BY <2>1, <2>2, <2>3
<1> QED BY <1>4, <1>5, <1>6, <1>7, <1>8 DEF Basics

\* What the state holds are messages of calls.
LEMMA MessagesAre ==
  ASSUME messages \in Seq(Messages), NEW S
  PROVE  /\ Own(S) \in Seq(Nat) /\ Range(Own(S)) = DOMAIN messages \cap S
         /\ \A i \in DOMAIN Own(S) : Own(S)[i] \in DOMAIN messages \cap S
         /\ MessagesOf(S) \in Seq(Messages) /\ DOMAIN MessagesOf(S) = DOMAIN Own(S)
         /\ \A i \in DOMAIN MessagesOf(S) : MessagesOf(S)[i] = messages[Own(S)[i]]
<1> DEFINE u == [i \in DOMAIN messages |-> i]
           own == Own(S)
           ms == MessagesOf(S)
<1>1. DOMAIN messages = 1..Len(messages) /\ Len(messages) \in Nat
  OBVIOUS
<1>2. u \in Seq(Nat) /\ Range(u) = DOMAIN messages
  <2>1. u = Upto(Len(messages))
    BY <1>1 DEF Upto
  <2> HIDE DEF u
  <2> QED BY <2>1, <1>1, UptoIs
<1>3. own = Picked(u, S)
  BY DEF Own
<1> HIDE DEF u
<1>4. own \in Seq(Nat) /\ Range(own) = DOMAIN messages \cap S
  BY <1>2, <1>3, PickedElements
<1>5. ms = [i \in DOMAIN own |-> messages[own[i]]]
  BY DEF MessagesOf
<1> HIDE DEF own, ms
<1>6. \A i \in DOMAIN own : own[i] \in DOMAIN messages \cap S
  BY <1>4 DEF Range
<1>7. DOMAIN own = 1..Len(own) /\ Len(own) \in Nat
  BY <1>4
<1>8. \A i \in 1..Len(own) : messages[own[i]] \in Messages
  BY <1>6, <1>7
<1>9. ms \in Seq(Messages) /\ DOMAIN ms = DOMAIN own
  BY <1>5, <1>7, <1>8
<1> QED BY <1>4, <1>5, <1>6, <1>9 DEF own, ms

\* A turn keeps messages of its own, the folded ones, or nothing.
LEMMA Histories ==
  ASSUME Basics, at # "closed", history' \in {history, State, Value, Folded}
  PROVE  /\ history' \in Seq(Messages)
         /\ \A i \in DOMAIN history' : Range(history'[i].text) \subseteq Range(SentUpto(calls, Len(calls)))
<1>1. /\ \A i \in DOMAIN messages : Range(messages[i].text) \subseteq Range(SentUpto(calls, Len(calls)))
      /\ Streamed \in Seq(Pairs) /\ Range(Streamed) \subseteq Range(SentUpto(calls, Len(calls)))
  BY SentBounds
<1>2. messages \in Seq(Messages) /\ history = <<>>
  BY DEF Basics, Types, Course
<1>3. ASSUME NEW S
      PROVE  /\ MessagesOf(S) \in Seq(Messages)
             /\ \A i \in DOMAIN MessagesOf(S) :
                  Range(MessagesOf(S)[i].text) \subseteq Range(SentUpto(calls, Len(calls)))
  <2>1. MessagesOf(S) \in Seq(Messages)
    BY <1>2, MessagesAre
  <2>2. ASSUME NEW i \in DOMAIN MessagesOf(S)
        PROVE  \E c \in DOMAIN messages : MessagesOf(S)[i] = messages[c]
    BY <1>2, MessagesAre
  <2> QED BY <2>1, <2>2, <1>1
<1>4. State = MessagesOf(Staying) /\ (Value = State \/ Value = MessagesOf(Inside))
  BY DEF State, Value
<1>5. CASE history' \in {State, Value}
  BY <1>3, <1>4, <1>5
<1>6. CASE history' = history
  BY <1>2, <1>6
<1>7. CASE history' = Folded
  <2>1. CASE Folded = State
    BY <2>1, <1>3, <1>4, <1>7
  <2>2. CASE Folded = [State EXCEPT ![Len(State)].text = Streamed]
    <3> DEFINE ms == State
               k == Len(ms)
               m == [ms[k] EXCEPT !.text = Streamed]
    <3>1. /\ ms \in Seq(Messages)
          /\ \A i \in DOMAIN ms : Range(ms[i].text) \subseteq Range(SentUpto(calls, Len(calls)))
      BY <1>3, <1>4
    <3>2. history' = [ms EXCEPT ![k] = m]
      BY <2>2, <1>7
    <3> HIDE DEF ms
    <3>3. k \in DOMAIN ms => m \in Messages /\ m.text = Streamed
      <4>1. k \in DOMAIN ms => ms[k] \in Messages
        BY <3>1
      <4> QED BY <4>1, <1>1 DEF Messages
    <3> HIDE DEF m, k
    <3>4. DOMAIN history' = DOMAIN ms /\ \A i \in DOMAIN ms : history'[i] = IF i = k THEN m ELSE ms[i]
      BY <3>2
    <3>5. DOMAIN ms = 1..Len(ms) /\ Len(ms) \in Nat
      BY <3>1
    <3>6. \A i \in DOMAIN ms : history'[i] \in Messages
      BY <3>1, <3>3, <3>4
    <3>7. history' \in Seq(Messages)
      <4>1. history' = [i \in 1..Len(ms) |-> history'[i]]
        BY <3>2, <3>4, <3>5
      <4> QED BY <4>1, <3>5, <3>6
    <3>8. \A i \in DOMAIN history' : Range(history'[i].text) \subseteq Range(SentUpto(calls, Len(calls)))
      BY <3>1, <3>3, <3>4, <1>1
    <3> QED BY <3>7, <3>8
  <2> QED BY <2>1, <2>2 DEF Folded
<1> QED BY <1>5, <1>6, <1>7

\* A live stream whose agent raises may stay without a terminal frame.
Breaks ==
  /\ at = "raised" /\ at' = "closed"
  /\ UNCHANGED <<delivery, calls, read, buffer, got, tries, status, messages, wire, next, stop, history>>

LEMMA BasicsBreaks == Basics /\ Breaks => Basics'
<1> SUFFICES ASSUME Basics, Breaks PROVE Basics'
  OBVIOUS
<1>1. Types'
  BY DEF Basics, Types, Breaks, Places
<1>2. Course'
  BY DEF Basics, Course, Breaks
<1>3. FramesOK'
  BY DEF Basics, FramesOK, FrameOK, Breaks
<1> QED BY <1>1, <1>2, <1>3, PartsSame DEF Basics, Breaks

LEMMA RaisedIs ==
  ASSUME Raised
  PROVE  Breaks \/ (\E type \in {"stream.interrupted", "stream.failed"} : Close(type))
BY DEF Raised, Breaks

LEMMA BasicsCloses ==
  Basics /\ (Interrupted \/ Failed \/ Cancel \/ Raised \/ HandOff \/ Finalize \/ Respond) => Basics'
<1> SUFFICES ASSUME Basics, Interrupted \/ Failed \/ Cancel \/ Raised \/ HandOff \/ Finalize \/ Respond
             PROVE  Basics'
  OBVIOUS
<1>1. /\ at # "closed" /\ (at \in {"values", "raised", "ended"} \/ delivery = "json")
      /\ Breaks \/ (history' \in {history, State, Value, Folded} /\ \E type \in FrameTypes : Close(type))
  BY DEF Interrupted, Failed, Cancel, Raised, Breaks, HandOff, Finalize, Respond, FrameTypes
<1>2. Len(calls) # 0 \/ delivery = "json"
  BY <1>1 DEF Basics, Course
<1>3. CASE Breaks
  BY <1>3, BasicsBreaks
<1>4. CASE history' \in {history, State, Value, Folded} /\ \E type \in FrameTypes : Close(type)
  <2>1. /\ history' \in Seq(Messages)
        /\ \A i \in DOMAIN history' : Range(history'[i].text) \subseteq Range(SentUpto(calls, Len(calls)))
    BY <1>1, <1>4, Histories
  <2> QED BY <1>1, <1>2, <1>4, <2>1, Closes
<1> QED BY <1>1, <1>3, <1>4

LEMMA BasicsStep == Basics /\ [Next]_vars => Basics'
<1> SUFFICES ASSUME Basics, [Next]_vars PROVE Basics'
  OBVIOUS
<1>1. CASE UNCHANGED vars
  <2> USE <1>1 DEF vars
  <2>1. Types'
    BY DEF Basics, Types
  <2>2. Course'
    BY DEF Basics, Course
  <2>3. ChunksOK'
    BY DEF Basics, ChunksOK, script, call
  <2>4. FramesOK'
    BY DEF Basics, FramesOK, FrameOK
  <2>5. TextsOK'
    BY DEF Basics, TextsOK
  <2> QED BY <2>1, <2>2, <2>3, <2>4, <2>5 DEF Basics
<1>2. CASE CallLocal
  <2>1. Call("local", LocalStreams)
    BY <1>2 DEF CallLocal
  <2> QED BY <2>1, BasicsCall
<1>3. CASE CallSub \/ CallRemote
  <2>1. Call("sub", LocalStreams) \/ Call("remote", RemoteStreams)
    BY <1>3 DEF CallSub, CallRemote
  <2> QED BY <2>1, BasicsCall
<1>4. CASE \E n \in 1..(IF calls = <<>> THEN 0 ELSE 4 * Len(script)) : Read(n)
  BY <1>4, BasicsRead
<1>5. CASE \/ Open \/ Interrupt \/ Drops \/ Merge \/ Answered \/ Retry \/ AnsweredError \/ Unanswered
           \/ GoesOn \/ Discard
  BY <1>5, BasicsOpen, BasicsInterrupt, BasicsDrops, BasicsMerge, BasicsWaiting, BasicsRetry, BasicsGoesOn
<1>6. CASE Interrupted \/ Failed \/ Cancel \/ Raised \/ HandOff \/ Finalize \/ Respond
  BY <1>6, BasicsCloses
<1> QED BY <1>1, <1>2, <1>3, <1>4, <1>5, <1>6 DEF Next

LEMMA DeepStep == Basics /\ Deep /\ [Next]_vars => Deep'
<1> SUFFICES ASSUME Basics, Deep, [Next]_vars PROVE Deep'
  OBVIOUS
<1>1. calls \in Seq(Asks) /\ Len(calls) \in Nat /\ DOMAIN calls = 1..Len(calls) /\ call = Len(calls)
  BY DEF Basics, Types, call
<1>2. ASSUME UNCHANGED <<deep, calls>> PROVE Deep'
  BY <1>2 DEF Deep, deep
<1>3. ASSUME NEW to, NEW streams, Call(to, streams) PROVE Deep'
  <2>1. PICK s \in streams : calls' = Append(calls, [to |-> to, sends |-> s])
    BY <1>3 DEF Call
  <2>2. UNCHANGED <<transfer, dropped>>
    BY <1>3 DEF Call, deep
  <2>3. DOMAIN calls' = 1..(Len(calls) + 1) /\ Len(calls') = Len(calls) + 1
    BY <2>1, <1>1
  <2> QED BY <2>2, <2>3, <1>1 DEF Deep
<1>4. CASE CallLocal \/ CallSub \/ CallRemote
  BY <1>3, <1>4 DEF CallLocal, CallSub, CallRemote
<1>5. CASE Retry
  <2>1. UNCHANGED <<transfer, dropped>> /\ \E s \in LocalStreams : calls' = [calls EXCEPT ![call].sends = s]
    BY <1>5 DEF Retry, deep
  <2>2. DOMAIN calls' = 1..Len(calls) /\ Len(calls') = Len(calls)
    BY <2>1, <1>1
  <2> QED BY <2>1, <2>2, <1>1 DEF Deep
<1>6. CASE GoesOn
  <2>1. UNCHANGED <<dropped, calls>> /\ transfer' \in {transfer, 0, Len(calls)}
    BY <1>6, <1>1 DEF GoesOn
  <2> QED BY <2>1, <1>1 DEF Deep
<1>7. CASE Discard
  <2>1. UNCHANGED calls /\ transfer' = 0 /\ dropped' \subseteq dropped \cup DOMAIN calls
    BY <1>7 DEF Discard
  <2> QED BY <2>1, <1>1 DEF Deep
<1>8. CASE \E n \in 1..(IF calls = <<>> THEN 0 ELSE 4 * Len(script)) : Read(n)
  BY <1>2, <1>8 DEF Read, deep
<1>9. CASE Open \/ Interrupt \/ Drops \/ Merge \/ Answered \/ AnsweredError \/ Unanswered
  BY <1>2, <1>9 DEF Open, Interrupt, Drops, Merge, Answered, AnsweredError, Unanswered, deep
<1>10. CASE Interrupted \/ Failed \/ Cancel \/ Raised \/ HandOff \/ Finalize \/ Respond
  BY <1>2, <1>10 DEF Interrupted, Failed, Cancel, Raised, HandOff, Finalize, Respond, Close, deep
<1>11. CASE UNCHANGED vars
  BY <1>2, <1>11 DEF vars, deep
<1> QED BY <1>4, <1>5, <1>6, <1>7, <1>8, <1>9, <1>10, <1>11 DEF Next

LEMMA BasicsHold == Spec => []Basics
BY BasicsInit, BasicsStep, PTL DEF Spec

LEMMA DeepHolds == Spec => []Deep
<1>1. Init => Deep
  BY DEF Init, Deep
<1> QED BY <1>1, BasicsHold, DeepStep, PTL DEF Spec

\* Every variable keeps its type, and whatever a message or the history holds
\* is text that a model has sent, in whatever way the network cuts the streams.
THEOREM StreamTypes == Spec => []TypeOK
BY BasicsHold, DeepHolds, BasicsTyped, PTL

-----------------------------------------------------------------------------
(* The numbers of the frames.  That an event is read once, and in order,   *)
(* needs every event's line to end where its line does.                    *)

\* The buffer holds the part of a line that has arrived.
Cut == at = "reading" /\ status = "none" => buffer = Partial(read)

Increasing(w) ==
  \A j \in DOMAIN w : \A i \in 1..(j - 1) :
    \/ w[i].seq < w[j].seq
    \/ w[j].type = "passthrough" /\ w[j].call > 1 /\ w[i].call < w[j].call

\* No frame of call c has a number from j on.
Passed(w, c, j) == \A i \in DOMAIN w : w[i].call = c => w[i].seq < j

Forwards == remote /\ delivery = "stream"

Orders ==
  /\ Cut /\ Increasing(wire)
  /\ at = "reading" /\ status = "none" /\ Forwards => Passed(wire, call, read \div 4)

\* What a chunk has come to when the events up to j have been read.
Ordering(j) == {rd \in Kept : Increasing(rd.wire) /\ (Forwards => Passed(rd.wire, call, j))}

LEMMA IncreasingAppend ==
  ASSUME NEW w \in Seq(Frames), NEW f \in Frames, Increasing(w),
         \A i \in DOMAIN w : w[i].seq < f.seq \/ (f.type = "passthrough" /\ f.call > 1 /\ w[i].call < f.call)
  PROVE  Increasing(Append(w, f))
<1> DEFINE t == Append(w, f)
<1>1. /\ Len(w) \in Nat /\ DOMAIN w = 1..Len(w) /\ t[Len(w) + 1] = f
      /\ \A i \in DOMAIN w : t[i] = w[i]
      /\ \A i \in DOMAIN t : (i \in DOMAIN w /\ i < Len(w) + 1) \/ i = Len(w) + 1
  BY AppendIs
<1> HIDE DEF t
<1>2. ASSUME NEW j \in DOMAIN t, NEW i \in 1..(j - 1)
      PROVE  t[i].seq < t[j].seq \/ (t[j].type = "passthrough" /\ t[j].call > 1 /\ t[i].call < t[j].call)
  <2>1. CASE j \in DOMAIN w
    <3>1. i \in DOMAIN w
      BY <2>1, <1>1
    <3>2. t[i] = w[i] /\ t[j] = w[j]
      BY <2>1, <3>1, <1>1
    <3> QED BY <2>1, <3>2 DEF Increasing
  <2>2. CASE j = Len(w) + 1
    <3>1. i \in DOMAIN w /\ t[i] = w[i] /\ t[j] = f
      BY <2>2, <1>1
    <3> QED BY <3>1
  <2> QED BY <2>1, <2>2, <1>1
<1>3. Increasing(t)
  BY <1>2 DEF Increasing
<1> QED BY <1>3 DEF t

LEMMA EventOrders ==
  ASSUME Scripted, remote => script \in RemoteStreams, NEW j \in 1..Len(script), NEW rd \in Ordering(j - 1)
  PROVE  (IF rd.status = "none" THEN Event(rd, j) ELSE rd) \in Ordering(j)
<1> DEFINE e == Event(rd, j)
<1>1. /\ rd \in Kept /\ rd \in Readings /\ Increasing(rd.wire) /\ (Forwards => Passed(rd.wire, call, j - 1))
      /\ rd.wire \in Seq(Frames) /\ rd.next \in Nat /\ j \in DOMAIN script /\ call \in Nat \ {0} /\ j \in Nat \ {0}
  BY DEF Ordering, Kept, Readings, Scripted
<1>2. ASSUME NEW i \in DOMAIN rd.wire
      PROVE  /\ rd.wire[i].seq \in Nat /\ rd.wire[i].seq < rd.next /\ rd.wire[i].call \in Nat
             /\ rd.wire[i].call <= call /\ (delivery = "stream" /\ rd.wire[i].call = 0 => rd.wire[i].seq = 0)
  <2>1. rd.wire[i] \in Frames
    BY <1>1
  <2>2. rd.wire[i].seq \in Nat /\ rd.wire[i].call \in Nat
    BY <2>1 DEF Frames
  <2> QED BY <2>2, <1>1 DEF Kept, FrameOK
<1>3. Passed(rd.wire, call, j - 1) => Passed(rd.wire, call, j)
  BY <1>2 DEF Passed
<1>4. rd \in Ordering(j)
  BY <1>1, <1>3 DEF Ordering
<1>5. ASSUME rd.status = "none" PROVE e \in Ordering(j)
  <2>1. e \in Kept /\ EventOK(e, rd, j)
    BY <1>1, <1>5, EventKeeps, EventIs
  <2> HIDE DEF e
  <2>2. CASE e.wire = rd.wire
    BY <2>1, <2>2, <1>1, <1>3 DEF Ordering
  <2>3. CASE ~Forwards /\ e.wire = Append(rd.wire, Frame("content.delta", rd.next, j))
    <3> DEFINE f == Frame("content.delta", rd.next, j)
    <3>1. f \in Frames /\ f.seq = rd.next
      BY <1>1 DEF Frame, Frames, FrameTypes
    <3> HIDE DEF f
    <3>2. Increasing(Append(rd.wire, f))
      BY <3>1, <1>1, <1>2, IncreasingAppend
    <3> QED BY <2>1, <2>3, <3>2 DEF Ordering, f
  <2>4. CASE Forwards /\ script[j] # "start" /\ e.wire = Append(rd.wire, Frame("passthrough", j - 1, j))
    <3> DEFINE f == Frame("passthrough", j - 1, j)
    <3>1. f \in Frames /\ f.seq = j - 1 /\ f.type = "passthrough" /\ f.call = call
      BY <1>1 DEF Frame, Frames, FrameTypes
    <3> HIDE DEF f
    <3>2. j > 1
      <4>1. script = <<>> \/ script[1] = "start"
        BY <2>4, ReplyStreamAssumption DEF Forwards
      <4>2. script # <<>>
        BY <1>1
      <4> QED BY <4>1, <4>2, <2>4, <1>1
    <3>3. ASSUME NEW i \in DOMAIN rd.wire
          PROVE  rd.wire[i].seq < j - 1 \/ (call > 1 /\ rd.wire[i].call < call)
      <4>1. CASE rd.wire[i].call = call
        BY <4>1, <2>4, <1>1 DEF Passed
      <4>2. CASE rd.wire[i].call # call /\ call > 1
        BY <4>2, <1>1, <1>2
      <4>3. CASE rd.wire[i].call # call /\ call = 1
        <5>1. rd.wire[i].call = 0
          BY <4>3, <1>2
        <5>2. rd.wire[i].seq = 0
          BY <5>1, <2>4, <1>2 DEF Forwards
        <5> QED BY <5>2, <3>2
      <4> QED BY <4>1, <4>2, <4>3, <1>1
    <3>4. Increasing(Append(rd.wire, f))
      BY <3>1, <3>3, <1>1, IncreasingAppend
    <3>5. Passed(Append(rd.wire, f), call, j)
      <4> SUFFICES ASSUME NEW i \in DOMAIN Append(rd.wire, f), Append(rd.wire, f)[i].call = call
                   PROVE  Append(rd.wire, f)[i].seq < j
        BY DEF Passed
      <4>1. (i \in DOMAIN rd.wire /\ Append(rd.wire, f)[i] = rd.wire[i]) \/ Append(rd.wire, f)[i] = f
        BY <3>1, <1>1, AppendIs
      <4>2. CASE i \in DOMAIN rd.wire /\ Append(rd.wire, f)[i] = rd.wire[i]
        <5>1. rd.wire[i].seq < j - 1 /\ rd.wire[i].seq \in Nat
          BY <4>2, <2>4, <1>1, <1>2 DEF Passed
        <5> QED BY <4>2, <5>1, <1>1
      <4>3. CASE Append(rd.wire, f)[i] = f
        BY <4>3, <3>1, <1>1
      <4> QED BY <4>1, <4>2, <4>3
    <3> QED BY <2>1, <2>4, <3>4, <3>5 DEF Ordering, f
  <2> QED BY <2>1, <2>2, <2>3, <2>4 DEF EventOK, Forwards
<1> QED BY <1>4, <1>5

\* A chunk that is not looked at by the interrupt takes the count of events on.
LEMMA ReadAdvances ==
  ASSUME ~LoneNewlines, Basics, Cut, NEW n, Read(n), stop # "seen",
         NEW G \in [0..Len(script) -> SUBSET Readings],
         [got |-> got, wire |-> wire, next |-> next, status |-> "none"] \in G[read \div 4],
         \A j \in 1..Len(script) : \A rd \in G[j - 1] :
           (IF rd.status = "none" THEN Event(rd, j) ELSE rd) \in G[j]
  PROVE  /\ buffer' = Partial(n) /\ n \in Nat /\ n \div 4 \in 0..Len(script) /\ read' = n
         /\ \E rd \in G[n \div 4] : got' = rd.got /\ wire' = rd.wire /\ next' = rd.next /\ status' = rd.status
<1> DEFINE text == buffer \o [j \in 1..(n - read) |-> Byte(read + j)]
           start == [got |-> got, wire |-> wire, next |-> next, status |-> "none"]
           lines == Front(Lines(text))
           l == Len(script)
<1>1. /\ at = "reading" /\ status = "none" /\ n \in (read + 1)..(4 * l) /\ read' = n
      /\ ~(n = read + 1 /\ n % 4 = 0)
      /\ buffer' = Last(Lines(text))
      /\ got' = EachLine(start, lines).got /\ wire' = EachLine(start, lines).wire
      /\ next' = EachLine(start, lines).next /\ status' = EachLine(start, lines).status
  BY DEF Read
<1>2. read \in Nat /\ Scripted
  BY <1>1, ScriptIs DEF Basics, Types, Course
<1>3. l \in Nat
  BY <1>2 DEF Scripted
<1>4. n \in Nat /\ read < n /\ n <= 4 * l
  BY <1>1, <1>2, <1>3
<1>5. read \div 4 \in 0..l /\ n \div 4 \in 0..l
  <2> HIDE DEF l
  <2> QED BY <1>2, <1>3, <1>4
<1>6. text = Arrived(read, n)
  BY <1>1 DEF Cut, Arrived
<1> HIDE DEF text, start, l
<1>7. lines \in Seq(Seq(Bytes)) /\ Last(Lines(text)) = Partial(n) /\ Counted(lines, read \div 4, n \div 4)
  BY <1>1, <1>2, <1>4, <1>6, LinesRead
<1> HIDE DEF lines
<1>8. EachLine(start, lines) \in G[n \div 4]
  BY <1>2, <1>5, <1>7, EachLineAdvances DEF start, l
<1> QED BY <1>1, <1>4, <1>5, <1>7, <1>8 DEF l

LEMMA OrdersRead == ASSUME ~LoneNewlines, Basics, Orders, NEW n, Read(n) PROVE Orders'
<1>1. /\ at = "reading" /\ status = "none" /\ UNCHANGED <<delivery, calls>>
      /\ stop = "seen" => status' = "interrupted" /\ UNCHANGED wire
  BY DEF Read
<1>2. call' = call /\ Forwards' = Forwards
  BY <1>1 DEF call, Forwards, remote
<1>3. CASE stop = "seen"
  BY <1>1, <1>3 DEF Orders, Cut
<1>4. CASE stop # "seen"
  <2> DEFINE G == [j \in 0..Len(script) |-> Ordering(j)]
             start == [got |-> got, wire |-> wire, next |-> next, status |-> "none"]
  <2>1. Scripted /\ (remote => script \in RemoteStreams) /\ read \in Nat
    BY <1>1, ScriptIs DEF Basics, Types, Course
  <2>2. Len(script) \in Nat
    BY <2>1 DEF Scripted
  <2>3. G \in [0..Len(script) -> SUBSET Readings]
    BY DEF Ordering, Kept
  <2>4. start \in Ordering(read \div 4)
    <3>1. start \in Kept /\ start.wire = wire
      BY <1>1, ReadingKept
    <3> HIDE DEF start
    <3> QED BY <3>1, <1>1 DEF Ordering, Orders
  <2>5. read \div 4 \in 0..Len(script)
    <3>1. n \in (read + 1)..(4 * Len(script))
      BY DEF Read
    <3> QED BY <3>1, <2>1, <2>2
  <2>6. start \in G[read \div 4]
    BY <2>4, <2>5
  <2>7. ASSUME NEW j \in 1..Len(script), NEW rd \in G[j - 1]
        PROVE  (IF rd.status = "none" THEN Event(rd, j) ELSE rd) \in G[j]
    <3>1. j - 1 \in 0..Len(script) /\ j \in 0..Len(script)
      BY <2>2
    <3>2. rd \in Ordering(j - 1)
      BY <3>1
    <3>3. (IF rd.status = "none" THEN Event(rd, j) ELSE rd) \in Ordering(j)
      BY <3>2, <2>1, EventOrders
    <3> QED BY <3>1, <3>3
  <2> HIDE DEF G
  <2>8. /\ buffer' = Partial(n) /\ n \in Nat /\ n \div 4 \in 0..Len(script) /\ read' = n
        /\ \E rd \in G[n \div 4] : got' = rd.got /\ wire' = rd.wire /\ next' = rd.next /\ status' = rd.status
    BY <1>4, <2>3, <2>6, <2>7, ReadAdvances DEF Orders
  <2>9. PICK rd \in Ordering(n \div 4) : wire' = rd.wire
    BY <2>8 DEF G
  <2>10. Increasing(wire') /\ (Forwards => Passed(wire', call, n \div 4))
    BY <2>9 DEF Ordering
  <2> QED BY <2>8, <2>10, <1>2 DEF Orders, Cut
<1> QED BY <1>3, <1>4

LEMMA OrdersInit == Init => Orders
BY DEF Init, Orders, Cut, Increasing

\* Steps that write no frame and do not read on.
LEMMA OrdersSame ==
  ASSUME Orders, UNCHANGED <<calls, delivery, wire>>,
         at' = "reading" /\ status' = "none" =>
           at = "reading" /\ status = "none" /\ UNCHANGED <<buffer, read>>
  PROVE  Orders'
<1>1. call' = call /\ Forwards' = Forwards
  BY DEF call, Forwards, remote
<1> QED BY <1>1 DEF Orders, Cut

LEMMA OrdersOpen == Basics /\ Open => Orders'
<1> SUFFICES ASSUME Basics, Open PROVE Orders'
  OBVIOUS
<1> DEFINE types == CASE delivery = "stream"     -> <<"stream.start">>
                      [] delivery = "background" -> <<"stream.start", "mode.background">>
                      [] OTHER                   -> <<>>
<1>1. at' = "agent" /\ wire' = [i \in DOMAIN types |-> [type |-> types[i], seq |-> i - 1, call |-> 0, n |-> 0]]
  BY DEF Open
<1>2. DOMAIN types = 1..Len(types) /\ Len(types) \in Nat
  <2> HIDE DEF types
  <2>1. types \in {<<"stream.start">>, <<"stream.start", "mode.background">>, <<>>}
    BY DEF types
  <2> QED BY <2>1
<1> HIDE DEF types
<1>3. Increasing(wire')
  <2> SUFFICES ASSUME NEW j \in DOMAIN wire', NEW i \in 1..(j - 1) PROVE wire'[i].seq < wire'[j].seq
    BY DEF Increasing
  <2>1. DOMAIN wire' = DOMAIN types /\ DOMAIN wire' = 1..Len(types) /\ Len(types) \in Nat
    BY <1>1, <1>2
  <2>2. i \in DOMAIN wire' /\ i < j /\ i \in Nat /\ j \in Nat
    BY <2>1
  <2> QED BY <2>1, <2>2, <1>1
<1> QED BY <1>1, <1>3 DEF Orders, Cut

\* A new call has not passed a frame on yet.
LEMMA OrdersCall ==
  ASSUME Basics, Orders, NEW to, NEW streams, Call(to, streams)
  PROVE  Orders'
<1>1. PICK s \in streams : calls' = Append(calls, [to |-> to, sends |-> s])
  BY DEF Call
<1>2. read' = 0 /\ buffer' = <<>> /\ UNCHANGED wire /\ calls \in Seq(Asks) /\ wire \in Seq(Frames) /\ Len(calls) \in Nat
  BY DEF Call, Basics, Types
<1>3. call' = Len(calls) + 1
  BY <1>1, <1>2 DEF call
<1>4. Partial(0) = <<>> /\ 0 \div 4 = 0
  <2>1. Partial(4 * 0 + 0) = <<>>
    BY PartialIs
  <2> QED BY <2>1
<1>5. Passed(wire, Len(calls) + 1, 0)
  <2> SUFFICES ASSUME NEW i \in DOMAIN wire PROVE wire[i].call # Len(calls) + 1
    BY DEF Passed
  <2>1. wire[i] \in Frames /\ wire[i].call <= Len(calls)
    BY <1>2 DEF Basics, FramesOK, FrameOK
  <2>2. wire[i].call \in Nat
    BY <2>1 DEF Frames
  <2> QED BY <2>1, <2>2, <1>2
<1> QED BY <1>2, <1>3, <1>4, <1>5 DEF Orders, Cut

\* The last frame has the number after all.
LEMMA OrdersClose == ASSUME Basics, Orders, NEW type, Close(type), type \in FrameTypes PROVE Orders'
<1> DEFINE f == Terminal(type)
<1>1. at' = "closed" /\ wire' = Append(wire, f) /\ wire \in Seq(Frames) /\ next \in Nat /\ calls \in Seq(Asks)
  BY DEF Close, Basics, Types
<1>2. f \in Frames /\ f.seq = next
  BY <1>1 DEF Terminal, Frame, Frames, call
<1>3. \A i \in DOMAIN wire : wire[i].seq < next
  BY DEF Basics, FramesOK, FrameOK
<1> HIDE DEF f
<1>4. Increasing(Append(wire, f))
  BY <1>1, <1>2, <1>3, IncreasingAppend DEF Orders
<1> QED BY <1>1, <1>4 DEF Orders, Cut

LEMMA OrdersStep == ASSUME ~LoneNewlines PROVE Basics /\ Orders /\ [Next]_vars => Orders'
<1> SUFFICES ASSUME Basics, Orders, [Next]_vars PROVE Orders'
  OBVIOUS
<1>1. CASE UNCHANGED vars
  BY <1>1, OrdersSame DEF vars
<1>2. CASE CallLocal \/ CallSub \/ CallRemote
  BY <1>2, OrdersCall DEF CallLocal, CallSub, CallRemote
<1>3. CASE \E n \in 1..(IF calls = <<>> THEN 0 ELSE 4 * Len(script)) : Read(n)
  BY <1>3, OrdersRead
<1>4. CASE Open
  BY <1>4, OrdersOpen
<1>5. CASE \/ Interrupt \/ Drops \/ Merge \/ Answered \/ AnsweredError \/ Unanswered
           \/ GoesOn \/ Discard
  <2>1. /\ UNCHANGED <<calls, delivery, wire>>
        /\ at' = "reading" /\ status' = "none" =>
             at = "reading" /\ status = "none" /\ UNCHANGED <<buffer, read>>
    BY <1>5 DEF Interrupt, Drops, Merge, Answered, AnsweredError, Unanswered, GoesOn, Discard, Answer, Passes, Onward
  <2> QED BY <2>1, OrdersSame
<1>6. CASE Retry
  BY <1>6 DEF Retry, Orders, Cut
<1>7. CASE Interrupted \/ Failed \/ Cancel \/ Raised \/ HandOff \/ Finalize \/ Respond
  <2>1. Breaks \/ \E type \in FrameTypes : Close(type)
    BY <1>7, RaisedIs DEF Interrupted, Failed, Cancel, HandOff, Finalize, Respond, FrameTypes
  <2>2. CASE Breaks
    BY <2>2, OrdersSame DEF Breaks
  <2> QED BY <2>1, <2>2, OrdersClose
<1> QED BY <1>1, <1>2, <1>3, <1>4, <1>5, <1>6, <1>7 DEF Next

LEMMA OrdersHold == ASSUME ~LoneNewlines PROVE Spec => []Orders
<1>1. Basics /\ Orders /\ [Next]_vars => Orders'
  BY OrdersStep
<1> QED BY <1>1, OrdersInit, BasicsHold, PTL DEF Spec

\* The numbers of a turn's frames increase, but for those a remote has given
\* to frames of a call that is not the first: the handler's cursor
\* (_take_sequence, consume_passthrough_sse) stays ahead of every frame of the
\* call it forwards.
THEOREM StreamOrder == ASSUME ~LoneNewlines PROVE Spec => []SequencesIncrease
<1>1. Orders => SequencesIncrease
  BY DEF Orders, Increasing, SequencesIncrease
<1> QED BY <1>1, OrdersHold, PTL

-----------------------------------------------------------------------------
(* What a turn has streamed and gathered.                                  *)

AllNone(ms) == \A i \in DOMAIN ms : ms[i].status = "none"
Polled(ms)  == \E i \in DOMAIN ms : ms[i].status = "background"

\* The texts of call c among its first j events.
Prefix(c, j) == Tag(c, Picked(Upto(j), EventsIn(calls, c)))

\* How a stream has ended is known to the message it became.
Reporting ==
  /\ status = "interrupted" => stop = "seen"
  /\ \A i \in DOMAIN messages :
       /\ delivery = "json" => messages[i].status \in {"none", "failed"}
       /\ delivery # "json" /\ (i < Len(messages) \/ at \in {"agent", "reading"}) =>
            messages[i].status \in {"none", "background"}
  /\ delivery # "json" /\ at \in {"values", "ended"} => messages[Len(messages)].status = status
  /\ delivery # "json" /\ at = "ended" => status # "failed"

\* A message without a status has all the text of its call.
WholeMessages == \A i \in DOMAIN messages : messages[i].status = "none" => messages[i].text = TextsIn(calls, i)

\* As far as a call has been read its texts have been gathered, and streamed;
\* of a remote's stream that went to the background the rest has not been read.
Gathered ==
  at = "reading" /\ status = "none" =>
    /\ Picked(got, EventsIn(calls, call)) = Picked(Upto(read \div 4), EventsIn(calls, call))
    /\ AllNone(messages) => StreamedIn(calls, wire) = SentUpto(calls, call - 1) \o Prefix(call, read \div 4)

WholeStream ==
  at \in {"opening", "agent", "values", "ended"} /\ delivery # "json" /\ AllNone(messages) =>
    StreamedIn(calls, wire) = SentUpto(calls, Len(calls))

Faithful ==
  ~Polled(messages) =>
    /\ \A i \in DOMAIN messages : i \in Staying \/ delivery # "json" => messages[i].status = "none"
    /\ delivery # "json" => StreamedIn(calls, wire) = SentUpto(calls, Len(calls))
    /\ \/ delivery = "background" /\ Last(State).text = <<>>
       \/ TextIn(history) = SentToState

Wholeness ==
  Reporting /\ WholeMessages /\ Gathered /\ WholeStream /\ (at = "closed" /\ Completed => Faithful)

\* What a chunk has come to when the events up to j have been read.
Gathering(j) ==
  {rd \in Kept :
     /\ rd.status \in {"none", "failed", "background"}
     /\ rd.status = "none" =>
          /\ Picked(rd.got, EventsIn(calls, call)) = Picked(Upto(j), EventsIn(calls, call))
          /\ AllNone(messages) => StreamedIn(calls, rd.wire) = SentUpto(calls, call - 1) \o Prefix(call, j)}

LEMMA PrefixIs ==
  ASSUME calls \in Seq(Asks), Len(calls) # 0, NEW j \in Nat
  PROVE  /\ Picked(Upto(j), EventsIn(calls, call)) \in Seq(Nat)
         /\ Prefix(call, j) \in Seq(Pairs) /\ Prefix(call, 0) = <<>>
         /\ SentUpto(calls, call - 1) \in Seq(Pairs)
         /\ Prefix(call, Len(script)) = TextsIn(calls, call)
         /\ SentUpto(calls, Len(calls)) = SentUpto(calls, call - 1) \o TextsIn(calls, call)
<1> DEFINE E == EventsIn(calls, call)
           u == Upto(j)
<1>1. call = Len(calls) /\ call \in Nat \ {0} /\ call \in DOMAIN calls
  BY ScriptIs DEF Scripted
<1>2. u \in Seq(Nat) /\ Upto(0) = <<>>
  BY UptoIs
<1> HIDE DEF E, u
<1>3. Picked(u, E) \in Seq(Nat)
  BY <1>2, PickedElements
<1>4. Tag(call, Picked(u, E)) \in Seq(Pairs) /\ Tag(call, <<>>) = <<>>
  <2>1. 0 \in Nat
    OBVIOUS
  <2> QED BY <2>1, <1>1, <1>3, TagIs
<1>5. Prefix(call, 0) = <<>>
  BY <1>2, <1>4, PickedEmpty DEF Prefix
<1>6. Prefix(call, Len(script)) = TextsIn(calls, call)
  BY DEF Prefix, TextsIn, script
<1>7. call - 1 \in 0..Len(calls) /\ call - 1 < Len(calls) /\ (call - 1) + 1 = call
  BY <1>1
<1>8. /\ SentUpto(calls, call - 1) \in Seq(Pairs)
      /\ SentUpto(calls, call) = SentUpto(calls, call - 1) \o TextsIn(calls, call)
  <2> DEFINE k == call - 1
  <2>1. k \in 0..Len(calls) /\ k < Len(calls) /\ k + 1 = call
    BY <1>7
  <2> HIDE DEF k
  <2>2. SentUpto(calls, k) \in Seq(Pairs) /\ SentUpto(calls, k + 1) = SentUpto(calls, k) \o TextsIn(calls, k + 1)
    BY <2>1, SentTyped
  <2> QED BY <2>1, <2>2 DEF k
<1> QED BY <1>1, <1>3, <1>4, <1>5, <1>6, <1>8 DEF Prefix, E, u

LEMMA PrefixNext ==
  ASSUME calls \in Seq(Asks), Len(calls) # 0, NEW j \in Nat \ {0}
  PROVE  /\ j \in EventsIn(calls, call) =>
              /\ Picked(Upto(j), EventsIn(calls, call)) = Append(Picked(Upto(j - 1), EventsIn(calls, call)), j)
              /\ Prefix(call, j) = Append(Prefix(call, j - 1), <<call, j>>)
         /\ j \notin EventsIn(calls, call) =>
              /\ Picked(Upto(j), EventsIn(calls, call)) = Picked(Upto(j - 1), EventsIn(calls, call))
              /\ Prefix(call, j) = Prefix(call, j - 1)
<1> DEFINE E == EventsIn(calls, call)
           u == Upto(j - 1)
           p == Picked(u, E)
<1>1. call \in Nat /\ j - 1 \in Nat /\ (j - 1) + 1 = j /\ j \in Nat
  BY ScriptIs DEF Scripted
<1>2. u \in Seq(Nat) /\ Upto(j) = Append(u, j)
  <2> DEFINE k == j - 1
  <2>1. k \in Nat /\ k + 1 = j
    BY <1>1
  <2> HIDE DEF k
  <2>2. Upto(k) \in Seq(Nat) /\ Upto(k + 1) = Append(Upto(k), k + 1)
    BY <2>1, UptoIs
  <2> QED BY <2>1, <2>2 DEF k
<1> HIDE DEF E, u
<1>3. p \in Seq(Nat)
  BY <1>2, PickedElements
<1>4. Picked(Append(u, j), E) = IF j \in E THEN Append(p, j) ELSE p
  BY <1>1, <1>2, PickedAppend
<1>5. Picked(Upto(j), E) = IF j \in E THEN Append(p, j) ELSE p
  BY <1>2, <1>4
<1> HIDE DEF p
<1>6. Tag(call, Append(p, j)) = Append(Tag(call, p), <<call, j>>)
  BY <1>1, <1>3, TagIs
<1>7. Prefix(call, j - 1) = Tag(call, p) /\ Prefix(call, j) = Tag(call, Picked(Upto(j), E))
  BY DEF Prefix, p, u, E
<1>8. CASE j \in E
  <2>1. Picked(Upto(j), E) = Append(p, j)
    BY <1>5, <1>8
  <2>2. Prefix(call, j) = Append(Prefix(call, j - 1), <<call, j>>)
    BY <2>1, <1>6, <1>7
  <2> QED BY <1>8, <2>1, <2>2 DEF p, u, E
<1>9. CASE j \notin E
  <2>1. Picked(Upto(j), E) = p
    BY <1>5, <1>9
  <2>2. Prefix(call, j) = Prefix(call, j - 1)
    BY <2>1, <1>7
  <2> QED BY <1>9, <2>1, <2>2 DEF p, u, E
<1> QED BY <1>8, <1>9

LEMMA EventGathers ==
  ASSUME calls \in Seq(Asks), Len(calls) # 0,
         NEW j \in 1..Len(script), NEW rd \in Gathering(j - 1)
  PROVE  (IF rd.status = "none" THEN Event(rd, j) ELSE rd) \in Gathering(j)
<1> DEFINE e == Event(rd, j)
           E == EventsIn(calls, call)
           p == Picked(Upto(j - 1), E)
           a == SentUpto(calls, call - 1)
           b == Prefix(call, j - 1)
           x == <<call, j>>
<1>1. /\ Scripted /\ rd \in Kept /\ rd \in Readings /\ rd.wire \in Seq(Frames) /\ rd.got \in Seq(Nat) /\ rd.next \in Nat
      /\ j \in DOMAIN script /\ call \in Nat \ {0} /\ j \in Nat \ {0} /\ j - 1 \in Nat
  BY ScriptIs DEF Gathering, Kept, Readings, Scripted
<1>2. rd.status # "none" => rd \in Gathering(j)
  BY DEF Gathering
<1>3. ASSUME rd.status = "none" PROVE e \in Gathering(j)
  <2>1. e \in Kept /\ EventOK(e, rd, j)
    BY <1>1, <1>3, EventKeeps, EventIs
  <2>2. Picked(rd.got, E) = p /\ (AllNone(messages) => StreamedIn(calls, rd.wire) = a \o b)
    BY <1>3 DEF Gathering
  <2>3. p \in Seq(Nat) /\ a \in Seq(Pairs) /\ b \in Seq(Pairs) /\ x \in Pairs
    BY <1>1, PrefixIs DEF Pairs
  <2>4. j \in E <=> script[j] = "text"
    BY <1>1 DEF EventsIn, script
  <2>5. /\ j \in E => Picked(Upto(j), E) = Append(p, j) /\ Prefix(call, j) = Append(b, x)
        /\ j \notin E => Picked(Upto(j), E) = p /\ Prefix(call, j) = b
    BY <1>1, PrefixNext
  <2> HIDE DEF e, E, p, a, b, x
  <2>7. Picked(e.got, E) = Picked(Upto(j), E)
    <3>1. Picked(Append(rd.got, j), E) = IF j \in E THEN Append(Picked(rd.got, E), j) ELSE Picked(rd.got, E)
      BY <1>1, PickedAppend
    <3>2. CASE e.got = rd.got /\ j \notin E
      BY <3>2, <2>2, <2>5
    <3>3. CASE e.got = Append(rd.got, j)
      BY <3>1, <3>3, <2>2, <2>5
    <3> QED BY <3>2, <3>3, <2>1, <2>4 DEF EventOK
  <2>8. ASSUME AllNone(messages) PROVE StreamedIn(calls, e.wire) = a \o Prefix(call, j)
    <3>1. CASE e.wire = rd.wire /\ j \notin E
      BY <3>1, <2>2, <2>5, <2>8
    <3>2. ASSUME NEW f \in Frames, f.call = call, f.n = j, e.wire = Append(rd.wire, f)
          PROVE  StreamedIn(calls, e.wire) = a \o Prefix(call, j)
      <4>1. f \in Texting(calls) <=> j \in E
        BY <1>1, <3>2 DEF Texting, E
      <4>2. StreamedIn(calls, Append(rd.wire, f)) =
              IF f \in Texting(calls) THEN Append(StreamedIn(calls, rd.wire), <<f.call, f.n>>)
              ELSE StreamedIn(calls, rd.wire)
        BY <1>1, StreamedAppend
      <4>3. <<f.call, f.n>> = x
        BY <3>2 DEF x
      <4>4. CASE j \in E
        <5>1. StreamedIn(calls, e.wire) = Append(a \o b, x)
          BY <3>2, <4>1, <4>2, <4>3, <4>4, <2>2, <2>8
        <5>2. Append(a \o b, x) = a \o Append(b, x)
          <6>1. Appends(a \o b, x, a \o Append(b, x))
            BY <2>3, ConcatAppend
          <6> QED BY <6>1 DEF Appends
        <5> QED BY <5>1, <5>2, <4>4, <2>5
      <4>5. CASE j \notin E
        BY <3>2, <4>1, <4>2, <4>5, <2>2, <2>5, <2>8
      <4> QED BY <4>4, <4>5
    <3>3. CASE e.wire = Append(rd.wire, Frame("content.delta", rd.next, j))
      <4> DEFINE f == Frame("content.delta", rd.next, j)
      <4>1. f \in Frames /\ f.call = call /\ f.n = j
        BY <1>1 DEF Frame, Frames, FrameTypes
      <4> HIDE DEF f
      <4> QED BY <4>1, <3>2, <3>3 DEF f
    <3>4. CASE e.wire = Append(rd.wire, Frame("passthrough", j - 1, j))
      <4> DEFINE f == Frame("passthrough", j - 1, j)
      <4>1. f \in Frames /\ f.call = call /\ f.n = j
        BY <1>1 DEF Frame, Frames, FrameTypes
      <4> HIDE DEF f
      <4> QED BY <4>1, <3>2, <3>4 DEF f
    <3> QED BY <3>1, <3>3, <3>4, <2>1, <2>4 DEF EventOK
  <2>9. e.status \in {"none", "failed", "background"}
    BY <2>1 DEF EventOK
  <2> QED BY <2>1, <2>7, <2>8, <2>9 DEF Gathering, E, a
<1> QED BY <1>2, <1>3

LEMMA WholenessInit == Init => Wholeness
<1> SUFFICES ASSUME Init PROVE Wholeness
  OBVIOUS
<1>1. StreamedIn(calls, <<>>) = <<>>
  <2>1. [type |-> "passthrough", seq |-> 0, call |-> 0, n |-> 0] \in Frames /\ <<>> \in Seq(Frames)
    BY DEF Frames, FrameTypes
  <2> QED BY <2>1, StreamedAppend
<1>2. SentUpto(<<>>, 0) = <<>>
  <2>1. <<>> \in Seq(Asks) /\ Len(<<>>) = 0 /\ 0 \in 0..0
    OBVIOUS
  <2> QED BY <2>1, SentTyped
<1>3. WholeStream
  BY <1>1, <1>2 DEF Init, WholeStream
<1> QED BY <1>3 DEF Init, Wholeness, Reporting, WholeMessages, Gathered, Completed

\* Until the turn is closed no frame reports its end.
LEMMA NotCompleted == ASSUME Basics, at # "closed" PROVE ~Completed
<1> SUFFICES ASSUME wire # <<>> PROVE Last(wire).type \in OpenTypes
  BY DEF Completed, OpenTypes
<1>1. wire \in Seq(Frames)
  BY DEF Basics, Types
<1>2. Len(wire) \in DOMAIN wire /\ Last(wire) = wire[Len(wire)]
  BY <1>1 DEF Last
<1> QED BY <1>2 DEF Basics, FramesOK

\* Steps that write no frame, add no message and change no call.
LEMMA WholenessSame ==
  ASSUME Basics, Wholeness, UNCHANGED <<delivery, calls, messages, wire>>, at' # "closed", at # "closed",
         Reporting', at' \in {"opening", "agent", "values", "ended"} => at \in {"opening", "agent", "values", "ended"},
         at' = "reading" /\ status' = "none" =>
           at = "reading" /\ status = "none" /\ UNCHANGED <<read, got>>
  PROVE  Wholeness'
<1>1. call' = call /\ \A c, j : Prefix(c, j)' = Prefix(c, j)
  BY DEF call, Prefix
<1>2. WholeMessages' /\ WholeStream'
  BY DEF Wholeness, WholeMessages, WholeStream
<1>3. Gathered'
  BY <1>1 DEF Wholeness, Gathered, Prefix
<1> QED BY <1>2, <1>3 DEF Wholeness

LEMMA WholenessOpen == Basics /\ Basics' /\ Wholeness /\ Open => Wholeness'
<1> SUFFICES ASSUME Basics, Basics', Wholeness, Open PROVE Wholeness'
  OBVIOUS
<1>1. /\ at = "opening" /\ at' = "agent" /\ calls = <<>> /\ messages = <<>>
      /\ UNCHANGED <<delivery, calls, status, messages, stop>>
  BY DEF Basics, Course, Open
<1>2. calls' = <<>> /\ wire' \in Seq(Frames) /\ \A i \in DOMAIN wire' : wire'[i].n = 0
  <2> DEFINE types == CASE delivery = "stream"     -> <<"stream.start">>
                        [] delivery = "background" -> <<"stream.start", "mode.background">>
                        [] OTHER                   -> <<>>
  <2>1. wire' = [i \in DOMAIN types |-> [type |-> types[i], seq |-> i - 1, call |-> 0, n |-> 0]]
    BY DEF Open
  <2> HIDE DEF types
  <2>2. \A i \in DOMAIN wire' : wire'[i].n = 0
    BY <2>1
  <2> QED BY <2>2, <1>1 DEF Basics, Types
<1>3. StreamedIn(calls', wire') = <<>>
  <2>1. [type |-> "passthrough", seq |-> 0, call |-> 0, n |-> 0] \in Frames
    BY DEF Frames, FrameTypes
  <2>2. /\ StreamedIn(calls', wire') \in Seq(Pairs)
        /\ Range(StreamedIn(calls', wire')) = {<<e.call, e.n>> : e \in Range(wire') \cap Texting(calls')}
    BY <2>1, <1>2, StreamedAppend
  <2>3. Range(wire') \cap Texting(calls') = {}
    BY <1>2 DEF Range, Texting
  <2> DEFINE z == StreamedIn(calls', wire')
  <2>4. Range(z) = {}
    BY <2>2, <2>3
  <2>5. z \in Seq(Pairs)
    BY <2>2
  <2> HIDE DEF z
  <2>6. \A i \in 1..Len(z) : z[i] \in Range(z)
    BY <2>5 DEF Range
  <2>7. Len(z) \in Nat /\ (Len(z) = 0 => z = <<>>)
    BY <2>5
  <2>8. Len(z) = 0
    BY <2>4, <2>6, <2>7
  <2> QED BY <2>7, <2>8 DEF z
<1>4. SentUpto(<<>>, 0) = <<>>
  <2>1. <<>> \in Seq(Asks) /\ Len(<<>>) = 0 /\ 0 \in 0..0
    OBVIOUS
  <2> QED BY <2>1, SentTyped
<1>5. WholeStream'
  BY <1>1, <1>2, <1>3, <1>4 DEF WholeStream
<1>6. Reporting' /\ WholeMessages' /\ Gathered'
  BY <1>1 DEF Wholeness, Reporting, WholeMessages, Gathered
<1> QED BY <1>1, <1>5, <1>6 DEF Wholeness

LEMMA WholenessInterrupt == Basics /\ Wholeness /\ Interrupt => Wholeness'
<1> SUFFICES ASSUME Basics, Wholeness, Interrupt PROVE Wholeness'
  OBVIOUS
<1>1. /\ at # "closed" /\ (stop = "seen" => stop' = "seen")
      /\ UNCHANGED <<at, delivery, calls, read, buffer, got, tries, status, messages, wire, next, history>>
  BY DEF Interrupt
<1>2. script' = script
  BY <1>1 DEF script, call
<1>3. Reporting'
  BY <1>1, <1>2 DEF Wholeness, Reporting
<1> QED BY <1>1, <1>3, WholenessSame

\* A new call starts where the earlier ones have ended.
LEMMA WholenessCall ==
  ASSUME Basics, Basics', Wholeness, NEW to, NEW streams, Call(to, streams)
  PROVE  Wholeness'
<1>1. PICK s \in streams : calls' = Append(calls, [to |-> to, sends |-> s])
  BY DEF Call
<1>2. /\ at = "agent" /\ at' = (IF delivery = "json" THEN "waiting" ELSE "reading")
      /\ read' = 0 /\ got' = <<>> /\ status' = "none"
      /\ UNCHANGED <<delivery, messages, wire, next, stop, history>>
  BY DEF Call
<1>3. /\ calls \in Seq(Asks) /\ calls' \in Seq(Asks) /\ wire \in Seq(Frames) /\ messages \in Seq(Messages)
      /\ Len(calls) = Len(messages) /\ Len(calls) \in Nat
  BY <1>2 DEF Basics, Types, Course
<1> DEFINE a == [to |-> to, sends |-> s]
           k == Len(calls)
<1>4. /\ Len(calls') = k + 1 /\ calls'[k + 1] = a /\ \A c \in 1..k : calls[c] = calls'[c]
  BY <1>1, <1>3
<1>5. call' = k + 1 /\ script' = s
  <2>1. call' = k + 1
    BY <1>4 DEF call
  <2>2. a.sends = s
    OBVIOUS
  <2> HIDE DEF a
  <2>3. script' = calls'[k + 1].sends
    BY <2>1 DEF script
  <2> QED BY <2>1, <2>2, <2>3, <1>4
<1> HIDE DEF a, k
<1>6. Reporting'
  BY <1>1, <1>2, <1>5 DEF Wholeness, Reporting
<1>7. k \in Nat /\ k = Len(messages)
  BY <1>3 DEF k
<1>8. /\ \A c \in 1..k : TextsIn(calls, c) = TextsIn(calls', c)
      /\ SentUpto(calls, k) = SentUpto(calls', k)
  BY <1>4, <1>7, SentSame
<1>9. WholeMessages'
  <2>1. \A i \in DOMAIN messages : i \in 1..k
    BY <1>3, <1>7
  <2> QED BY <2>1, <1>2, <1>8 DEF Wholeness, WholeMessages
<1>10. StreamedIn(calls, wire) = StreamedIn(calls', wire)
  <2>1. \A i \in DOMAIN wire : wire[i].call <= k /\ (wire[i].n # 0 => wire[i].call # 0)
    BY DEF Basics, FramesOK, FrameOK, k
  <2> QED BY <2>1, <1>3, <1>4, <1>7, StreamedSame
<1>11. Gathered'
  <2> SUFFICES ASSUME at' = "reading"
               PROVE  /\ Picked(got', EventsIn(calls', call')) = Picked(Upto(read' \div 4), EventsIn(calls', call'))
                      /\ AllNone(messages) =>
                           StreamedIn(calls', wire') = SentUpto(calls', call' - 1) \o Prefix(call, read \div 4)'
    BY <1>2 DEF Gathered, AllNone
  <2>1. delivery # "json"
    BY <1>2
  <2>3. AllNone(messages) => StreamedIn(calls, wire) = SentUpto(calls, k)
    BY <1>2, <2>1 DEF Wholeness, WholeStream, k
  <2>4. read' \div 4 = 0 /\ call' - 1 = k /\ k \in 0..Len(calls)
    BY <1>2, <1>3, <1>5, <1>7 DEF k
  <2>5. Upto(0) = <<>>
    BY UptoIs
  <2>6. Prefix(call, read \div 4)' = Tag(call', Picked(Upto(0), EventsIn(calls', call')))
    BY <2>4 DEF Prefix
  <2>7. Tag(call', <<>>) = <<>>
    BY DEF Tag
  <2>8. SentUpto(calls, k) \in Seq(Pairs)
    BY <2>4, <1>3, SentTyped
  <2>9. SentUpto(calls', k) \o <<>> = SentUpto(calls', k)
    BY <2>8, <1>8
  <2> QED BY <1>2, <1>8, <1>10, <2>3, <2>4, <2>5, <2>6, <2>7, <2>9, PickedEmpty
<1>12. WholeStream'
  BY <1>2 DEF WholeStream
<1> QED BY <1>2, <1>6, <1>9, <1>11, <1>12 DEF Wholeness

LEMMA WholenessRead ==
  ASSUME ~LoneNewlines, Basics, Orders, Wholeness, NEW n, Read(n) PROVE Wholeness'
<1>1. /\ at = "reading" /\ status = "none" /\ UNCHANGED <<at, delivery, calls, messages, stop>>
      /\ stop = "seen" => status' = "interrupted" /\ UNCHANGED wire
  BY DEF Read
<1>2. call' = call /\ script' = script /\ \A c, j : Prefix(c, j)' = Prefix(c, j)
  BY <1>1 DEF call, script, Prefix
<1>3. WholeMessages' /\ WholeStream' /\ at' # "closed"
  BY <1>1 DEF Wholeness, WholeMessages, WholeStream
<1>4. CASE stop = "seen"
  <2>1. Reporting' /\ Gathered'
    BY <1>1, <1>2, <1>4 DEF Wholeness, Reporting, Gathered
  <2> QED BY <2>1, <1>3 DEF Wholeness
<1>5. CASE stop # "seen"
  <2> DEFINE G == [j \in 0..Len(script) |-> Gathering(j)]
             start == [got |-> got, wire |-> wire, next |-> next, status |-> "none"]
  <2>1. calls \in Seq(Asks) /\ Len(calls) # 0 /\ Scripted /\ read \in Nat
    BY <1>1, ScriptIs DEF Basics, Types, Course
  <2>2. Len(script) \in Nat
    BY <2>1 DEF Scripted
  <2>3. G \in [0..Len(script) -> SUBSET Readings]
    BY DEF Gathering, Kept
  <2>4. start \in Gathering(read \div 4)
    <3>1. start \in Kept /\ start.wire = wire /\ start.got = got /\ start.status = "none"
      BY <1>1, ReadingKept
    <3> HIDE DEF start
    <3> QED BY <3>1, <1>1 DEF Gathering, Wholeness, Gathered
  <2>5. read \div 4 \in 0..Len(script)
    <3>1. n \in (read + 1)..(4 * Len(script))
      BY DEF Read
    <3> QED BY <3>1, <2>1, <2>2
  <2>6. start \in G[read \div 4]
    BY <2>4, <2>5
  <2>8. ASSUME NEW j \in 1..Len(script), NEW rd \in G[j - 1]
        PROVE  (IF rd.status = "none" THEN Event(rd, j) ELSE rd) \in G[j]
    <3>1. j - 1 \in 0..Len(script) /\ j \in 0..Len(script)
      BY <2>2
    <3>2. rd \in Gathering(j - 1)
      BY <3>1
    <3>3. (IF rd.status = "none" THEN Event(rd, j) ELSE rd) \in Gathering(j)
      BY <3>2, <2>1, EventGathers
    <3> QED BY <3>1, <3>3
  <2> HIDE DEF G
  <2>9. /\ n \in Nat /\ n \div 4 \in 0..Len(script) /\ read' = n
        /\ \E rd \in G[n \div 4] : got' = rd.got /\ wire' = rd.wire /\ next' = rd.next /\ status' = rd.status
    BY <1>5, <2>3, <2>6, <2>8, ReadAdvances DEF Orders
  <2>10. PICK rd \in Gathering(n \div 4) : got' = rd.got /\ wire' = rd.wire /\ status' = rd.status
    BY <2>9 DEF G
  <2>11. Reporting'
    BY <2>10, <1>1, <1>2 DEF Wholeness, Reporting, Gathering
  <2>12. Gathered'
    <3>1. status' = "none" =>
            /\ Picked(got', EventsIn(calls, call)) = Picked(Upto(n \div 4), EventsIn(calls, call))
            /\ AllNone(messages) => StreamedIn(calls, wire') = SentUpto(calls, call - 1) \o Prefix(call, n \div 4)
      BY <2>10 DEF Gathering
    <3> QED BY <3>1, <2>9, <1>1, <1>2 DEF Gathered, Prefix, AllNone
  <2> QED BY <2>11, <2>12, <1>3 DEF Wholeness
<1> QED BY <1>4, <1>5

LEMMA WholeAdded ==
  ASSUME Basics, WholeMessages, Len(calls) = Len(messages) + 1, NEW m \in Messages,
         messages' = Append(messages, m), UNCHANGED calls,
         m.status = "none" => m.text = TextsIn(calls, Len(calls))
  PROVE  /\ WholeMessages'
         /\ Len(messages') = Len(messages) + 1 /\ Len(messages') \in DOMAIN messages' /\ messages'[Len(messages')] = m
         /\ \A i \in DOMAIN messages : i \in DOMAIN messages' /\ messages'[i] = messages[i]
         /\ \A i \in DOMAIN messages' : i \in DOMAIN messages \/ i = Len(messages')
         /\ \A i \in DOMAIN messages' : i < Len(messages') => i \in DOMAIN messages
<1>1. messages \in Seq(Messages) /\ Len(messages) \in Nat /\ DOMAIN messages = 1..Len(messages)
  BY DEF Basics, Types
<1>2. /\ Len(messages') = Len(messages) + 1 /\ Len(messages') \in DOMAIN messages' /\ messages'[Len(messages')] = m
      /\ \A i \in DOMAIN messages : i \in DOMAIN messages' /\ messages'[i] = messages[i]
      /\ \A i \in DOMAIN messages' : i \in DOMAIN messages \/ i = Len(messages')
  <2>1. /\ Len(Append(messages, m)) = Len(messages) + 1
        /\ Len(messages) + 1 \in DOMAIN Append(messages, m) /\ Append(messages, m)[Len(messages) + 1] = m
        /\ \A i \in DOMAIN messages : i \in DOMAIN Append(messages, m) /\ Append(messages, m)[i] = messages[i]
        /\ \A i \in DOMAIN Append(messages, m) :
             (i \in DOMAIN messages /\ i < Len(messages) + 1) \/ i = Len(messages) + 1
    BY <1>1, AppendIs
  <2> QED BY <2>1
<1>3. \A i \in DOMAIN messages' : i < Len(messages') => i \in DOMAIN messages
  BY <1>1, <1>2
<1>4. ASSUME NEW i \in DOMAIN messages', messages'[i].status = "none"
      PROVE  messages'[i].text = TextsIn(calls, i)
  <2>1. CASE i \in DOMAIN messages
    BY <2>1, <1>2, <1>4 DEF WholeMessages
  <2>2. CASE i = Len(messages')
    BY <2>2, <1>2, <1>4
  <2> QED BY <2>1, <2>2, <1>2
<1> QED BY <1>2, <1>3, <1>4 DEF WholeMessages

LEMMA WholenessDrops == Basics /\ Wholeness /\ Drops => Wholeness'
<1> SUFFICES ASSUME Basics, Wholeness, Drops PROVE Wholeness'
  OBVIOUS
<1>1. /\ at = "reading" /\ status' = "failed"
      /\ UNCHANGED <<at, delivery, calls, read, buffer, got, tries, messages, wire, next, stop, history>>
  BY DEF Drops
<1>2. script' = script
  BY <1>1 DEF script, call
<1>3. Reporting'
  BY <1>1, <1>2 DEF Wholeness, Reporting
<1> QED BY <1>1, <1>3, WholenessSame

\* A stream that was read to its end becomes a message with all its text.
LEMMA WholenessMerge == Basics /\ Wholeness /\ Merge => Wholeness'
<1> SUFFICES ASSUME Basics, Wholeness, Merge PROVE Wholeness'
  OBVIOUS
<1> DEFINE t == status = "none" /\ \E i \in DOMAIN got : script[got[i]] = "tool"
           m == [text |-> TextOf(got), status |-> status, tool |-> t]
<1>1. /\ at = "reading" /\ (status # "none" \/ read = 4 * Len(script))
      /\ \/ at' = "raised" /\ UNCHANGED messages
         \/ at' = "values" /\ messages' = Append(messages, m)
      /\ UNCHANGED <<delivery, calls, read, buffer, got, tries, status, wire, next, stop, history>>
  BY DEF Merge, Generated
<1>2. /\ t \in BOOLEAN /\ got \in Seq(Nat) /\ status \in Statuses /\ Len(calls) = Len(messages) + 1 /\ Len(calls) # 0
      /\ calls \in Seq(Asks) /\ wire \in Seq(Frames) /\ messages \in Seq(Messages) /\ delivery # "json" /\ Len(calls) \in Nat
  BY <1>1 DEF Basics, Types, Course
<1>3. Scripted /\ call = Len(calls)
  BY <1>2, ScriptIs
<1>4. CASE at' = "raised" /\ UNCHANGED messages
  <2>1. Reporting'
    BY <1>1, <1>4 DEF Wholeness, Reporting
  <2> QED BY <2>1, <1>1, <1>4, WholenessSame
<1>5. CASE at' = "values" /\ messages' = Append(messages, m)
  <2>1. TextOf(got) = Tag(call, Picked(got, EventsIn(calls, call))) /\ TextOf(got) \in Seq(Pairs)
    BY <1>2, TextsAre, TextOfTyped
  <2>2. m \in Messages /\ m.status = status /\ m.text = TextOf(got)
    <3> HIDE DEF t
    <3> QED BY <2>1, <1>2 DEF Messages
  <2> HIDE DEF m
  <2>3. ASSUME status = "none"
        PROVE  /\ TextOf(got) = TextsIn(calls, call)
               /\ AllNone(messages) => StreamedIn(calls, wire) = SentUpto(calls, Len(calls))
    <3>1. read = 4 * Len(script) /\ Len(script) \in Nat
      BY <1>1, <1>3, <2>3 DEF Scripted
    <3>2. read \div 4 = Len(script)
      BY <3>1
    <3>3. /\ Picked(got, EventsIn(calls, call)) = Picked(Upto(Len(script)), EventsIn(calls, call))
          /\ AllNone(messages) => StreamedIn(calls, wire) = SentUpto(calls, call - 1) \o Prefix(call, Len(script))
      BY <1>1, <2>3, <3>2 DEF Wholeness, Gathered
    <3>4. /\ Prefix(call, Len(script)) = TextsIn(calls, call)
          /\ SentUpto(calls, Len(calls)) = SentUpto(calls, call - 1) \o TextsIn(calls, call)
      BY <1>2, <3>1, PrefixIs
    <3> QED BY <2>1, <3>3, <3>4 DEF Prefix
  <2>4. /\ WholeMessages'
        /\ Len(messages') = Len(messages) + 1 /\ Len(messages') \in DOMAIN messages' /\ messages'[Len(messages')] = m
        /\ \A i \in DOMAIN messages : i \in DOMAIN messages' /\ messages'[i] = messages[i]
        /\ \A i \in DOMAIN messages' : i < Len(messages') => i \in DOMAIN messages
    BY <1>1, <1>2, <1>3, <1>5, <2>2, <2>3, WholeAdded DEF Wholeness
  <2>5. Reporting'
    <3>1. \A i \in DOMAIN messages : messages[i].status \in {"none", "background"}
      BY <1>1, <1>2 DEF Wholeness, Reporting
    <3>2. \A i \in DOMAIN messages' : i < Len(messages') => messages'[i].status \in {"none", "background"}
      BY <3>1, <2>4
    <3> QED BY <3>2, <1>1, <1>2, <1>5, <2>2, <2>4 DEF Wholeness, Reporting
  <2>6. WholeStream'
    <3>1. AllNone(messages') => status = "none" /\ AllNone(messages)
      BY <2>2, <2>4 DEF AllNone
    <3> QED BY <3>1, <1>1, <2>3 DEF WholeStream
  <2>7. Gathered' /\ at' # "closed"
    BY <1>5 DEF Gathered
  <2> QED BY <2>4, <2>5, <2>6, <2>7 DEF Wholeness
<1> QED BY <1>1, <1>4, <1>5

\* So does an answer that comes in one piece.
LEMMA WholenessAnswer ==
  ASSUME Basics, Wholeness, at = "waiting", NEW chunks \in Seq(Nat), NEW s \in {"none", "failed"}, Answer(chunks, s),
         s = "none" => chunks = All,
         UNCHANGED <<delivery, calls, read, buffer, got, tries, wire, next, stop, history>>
  PROVE  Wholeness'
<1> DEFINE t == s = "none" /\ \E i \in DOMAIN chunks : script[chunks[i]] = "tool"
           m == [text |-> TextOf(chunks), status |-> s, tool |-> t]
<1>1. at' = "values" /\ status' = s /\ messages' = Append(messages, m)
  BY DEF Answer
<1>2. /\ t \in BOOLEAN /\ s \in Statuses /\ Len(calls) = Len(messages) + 1 /\ Len(calls) # 0 /\ delivery = "json"
      /\ calls \in Seq(Asks) /\ wire \in Seq(Frames) /\ messages \in Seq(Messages)
  BY DEF Basics, Types, Course, Statuses
<1>3. Scripted /\ call = Len(calls)
  BY <1>2, ScriptIs
<1>4. TextOf(chunks) = Tag(call, Picked(chunks, EventsIn(calls, call))) /\ TextOf(chunks) \in Seq(Pairs)
  BY <1>2, TextsAre, TextOfTyped
<1>5. m \in Messages /\ m.status = s /\ m.text = TextOf(chunks)
  <2> HIDE DEF t
  <2> QED BY <1>2, <1>4 DEF Messages
<1> HIDE DEF m, t
<1>6. s = "none" => TextOf(chunks) = TextsIn(calls, call)
  <2>1. All = Upto(Len(calls[call].sends))
    BY <1>3 DEF All, Upto, Scripted, script
  <2> QED BY <2>1, <1>4 DEF TextsIn
<1>7. /\ WholeMessages'
      /\ Len(messages') = Len(messages) + 1 /\ Len(messages') \in DOMAIN messages' /\ messages'[Len(messages')] = m
      /\ \A i \in DOMAIN messages : i \in DOMAIN messages' /\ messages'[i] = messages[i]
      /\ \A i \in DOMAIN messages' : i \in DOMAIN messages \/ i = Len(messages')
  BY <1>1, <1>2, <1>3, <1>5, <1>6, WholeAdded DEF Wholeness
<1>8. \A i \in DOMAIN messages' : messages'[i].status \in {"none", "failed"}
  BY <1>2, <1>5, <1>7 DEF Wholeness, Reporting
<1>9. Reporting' /\ WholeStream' /\ Gathered'
  BY <1>1, <1>2, <1>8 DEF Reporting, WholeStream, Gathered
<1> QED BY <1>1, <1>7, <1>9 DEF Wholeness

LEMMA WholenessWaiting == Basics /\ Wholeness /\ (Answered \/ AnsweredError \/ Unanswered) => Wholeness'
<1> SUFFICES ASSUME Basics, Wholeness, Answered \/ AnsweredError \/ Unanswered PROVE Wholeness'
  OBVIOUS
<1>1. at = "waiting" /\ Len(calls) # 0
  BY DEF Answered, AnsweredError, Unanswered, Basics, Course
<1>2. CASE Answered
  BY <1>1, <1>2, AllTyped, WholenessAnswer DEF Answered
<1>3. CASE AnsweredError
  <2> DEFINE chunks == IF remote THEN All ELSE <<>>
  <2>1. chunks \in Seq(Nat)
    BY <1>1, AllTyped
  <2>2. Answer(chunks, "failed") /\ UNCHANGED <<delivery, calls, read, buffer, got, tries, wire, next, stop, history>>
    BY <1>3 DEF AnsweredError
  <2> HIDE DEF chunks
  <2> QED BY <2>1, <2>2, <1>1, WholenessAnswer
<1>4. CASE Unanswered
  <2>1. /\ at' = "raised"
        /\ UNCHANGED <<delivery, calls, read, buffer, got, tries, status, messages, wire, next, stop, history>>
    BY <1>4 DEF Unanswered
  <2>2. Reporting'
    BY <1>1, <2>1 DEF Wholeness, Reporting, Basics, Course
  <2> QED BY <1>1, <2>1, <2>2, WholenessSame
<1> QED BY <1>2, <1>3, <1>4

LEMMA WholenessRetry == Basics /\ Wholeness /\ Retry => Wholeness'
<1> SUFFICES ASSUME Basics, Wholeness, Retry PROVE Wholeness'
  OBVIOUS
<1>1. /\ at = "waiting" /\ UNCHANGED <<at, delivery, read, buffer, got, status, messages, wire, next, stop, history>>
  BY DEF Retry
<1>2. PICK s \in LocalStreams : calls' = [calls EXCEPT ![call].sends = s]
  BY DEF Retry
<1>3. /\ calls \in Seq(Asks) /\ Len(calls) = Len(messages) + 1 /\ messages \in Seq(Messages) /\ Len(messages) \in Nat
      /\ call = Len(calls) /\ DOMAIN calls = 1..Len(calls) /\ DOMAIN messages = 1..Len(messages) /\ delivery = "json"
  BY <1>1 DEF Basics, Types, Course, call
<1> HIDE DEF call
<1>4. ASSUME NEW c \in 1..Len(messages) PROVE calls[c] = calls'[c]
  <2>1. c \in DOMAIN calls /\ c # call
    BY <1>3
  <2> QED BY <2>1, <1>2
<1>5. \A c \in 1..Len(messages) : TextsIn(calls, c) = TextsIn(calls', c)
  BY <1>3, <1>4, SentSame
<1>6. WholeMessages'
  BY <1>1, <1>3, <1>5 DEF Wholeness, WholeMessages
<1>7. Reporting' /\ WholeStream' /\ Gathered'
  BY <1>1, <1>3 DEF Wholeness, Reporting, WholeStream, Gathered
<1> QED BY <1>1, <1>6, <1>7 DEF Wholeness

\* The agent goes on only with a whole reply, or with one that is to be polled.
LEMMA WholenessGoesOn == Basics /\ Wholeness /\ (GoesOn \/ Discard) => Wholeness'
<1> SUFFICES ASSUME Basics, Wholeness, GoesOn \/ Discard PROVE Wholeness'
  OBVIOUS
<1>1. /\ at = "values" /\ stop # "seen" /\ (delivery = "json" \/ Last(messages).status # "failed")
      /\ at' \in {"agent", "raised", "ended"}
      /\ UNCHANGED <<delivery, calls, read, buffer, got, tries, status, messages, wire, next, stop, history>>
  BY DEF GoesOn, Discard, Passes, Onward
<1>2. messages \in Seq(Messages) /\ Last(messages) = messages[Len(messages)] /\ status \in Statuses /\ Len(messages) \in Nat
      /\ DOMAIN messages = 1..Len(messages)
  BY DEF Last, Basics, Types
<1>3. delivery # "json" => messages[Len(messages)].status = status /\ status \in {"none", "background"}
  BY <1>1, <1>2 DEF Wholeness, Reporting, Statuses
<1>4. Reporting'
  <2>1. ASSUME NEW i \in DOMAIN messages, delivery # "json"
        PROVE  messages[i].status \in {"none", "background"}
    <3>1. CASE i < Len(messages)
      BY <3>1, <2>1 DEF Wholeness, Reporting
    <3>2. CASE i = Len(messages)
      BY <3>2, <2>1, <1>3
    <3> QED BY <3>1, <3>2, <2>1, <1>2
  <2> QED BY <2>1, <1>1, <1>3 DEF Wholeness, Reporting
<1> QED BY <1>1, <1>4, WholenessSame

\* The texts of whole messages are those of the calls.
LEMMA StateTexts ==
  ASSUME Basics, WholeMessages, Len(calls) = Len(messages),
         \A i \in DOMAIN messages : i \in Staying => messages[i].status = "none"
  PROVE  TextIn(State) = SentToState
<1> DEFINE own == Own(Staying)
           ms == MessagesOf(Staying)
<1>1. messages \in Seq(Messages) /\ calls \in Seq(Asks) /\ wire \in Seq(Frames) /\ DOMAIN messages = DOMAIN calls
  BY DEF Basics, Types
<1>2. /\ DOMAIN ms = DOMAIN own /\ \A i \in DOMAIN own : own[i] \in DOMAIN messages \cap Staying
      /\ \A i \in DOMAIN own : ms[i] = messages[own[i]]
  BY <1>1, MessagesAre
<1> HIDE DEF own, ms
<1>3. \A i \in DOMAIN own : ms[i].text = TextsIn(calls, own[i])
  BY <1>2 DEF WholeMessages
<1>4. \A i \in DOMAIN own : TextsOf(own[i]) = TextsIn(calls, own[i])
  BY <1>1, <1>2, TextsAre
<1>5. [i \in DOMAIN ms |-> ms[i].text] = [i \in DOMAIN own |-> TextsOf(own[i])]
  BY <1>2, <1>3, <1>4
<1> QED BY <1>5 DEF TextIn, State, SentToState, own, ms

\* What a history is compared with does not change when the turn ends.
LEMMA ClosedSame ==
  ASSUME UNCHANGED <<transfer, dropped, calls, messages>>
  PROVE  Staying' = Staying /\ State' = State /\ SentToState' = SentToState
<1>1. Staying' = Staying
  BY DEF Staying
<1>2. State' = State
  BY <1>1 DEF State, MessagesOf, Own
<1>3. \A c : TextsOf(c)' = TextsOf(c)
  BY DEF TextsOf, TextEvents
<1>4. SentToState' = SentToState
  BY <1>1, <1>3 DEF SentToState, Own, TextsOf, TextEvents
<1> QED BY <1>1, <1>2, <1>4

\* A turn ends without a report of its completion, or with all it was sent.
LEMMA WholenessClose ==
  ASSUME Basics, Wholeness, at # "closed", NEW type \in FrameTypes, Close(type),
         type \in {"stream.completed", "COMPLETED"} =>
           /\ at = "ended" /\ stop = "no" /\ (delivery = "json" => ~AnyError)
           /\ history' = IF delivery = "json" THEN State ELSE Folded
  PROVE  Wholeness'
<1> DEFINE f == Terminal(type)
<1>1. /\ at' = "closed" /\ wire' = Append(wire, f)
      /\ UNCHANGED <<transfer, dropped, delivery, calls, read, buffer, got, tries, status, messages, stop>>
  BY DEF Close, deep
<1>2. wire \in Seq(Frames) /\ next \in Nat /\ calls \in Seq(Asks) /\ Len(calls) \in Nat /\ messages \in Seq(Messages)
  BY DEF Basics, Types
<1>3. f \in Frames /\ f.n = 0 /\ f.type = type
  BY <1>2 DEF Terminal, Frame, Frames, call
<1> HIDE DEF f
<1>4. wire' # <<>> /\ Last(wire') = f
  BY <1>1, <1>2, <1>3, AppendLast
<1>5. Completed' => type \in {"stream.completed", "COMPLETED"}
  BY <1>3, <1>4 DEF Completed
<1>6. StreamedIn(calls, wire') = StreamedIn(calls, wire)
  <2>1. f \notin Texting(calls)
    BY <1>3 DEF Texting
  <2> QED BY <2>1, <1>1, <1>2, <1>3, StreamedAppend
<1>7. Reporting' /\ WholeMessages' /\ Gathered' /\ WholeStream'
  BY <1>1 DEF Wholeness, Reporting, WholeMessages, Gathered, WholeStream
<1>8. ASSUME type \in {"stream.completed", "COMPLETED"}, ~Polled(messages) PROVE Faithful'
  <2>1. /\ at = "ended" /\ stop = "no" /\ (delivery = "json" => ~AnyError)
        /\ history' = (IF delivery = "json" THEN State ELSE Folded)
        /\ Len(calls) = Len(messages) /\ Len(messages) # 0
    BY <1>8 DEF Basics, Course
  <2>2. \A i \in DOMAIN messages : messages[i].status # "background"
    BY <1>8 DEF Polled
  <2>3. ASSUME delivery # "json" PROVE AllNone(messages)
    <3>1. status = messages[Len(messages)].status /\ status \in Statuses /\ status \notin {"failed", "interrupted"}
      BY <2>1, <2>3 DEF Wholeness, Reporting, Basics, Types
    <3>2. DOMAIN messages = 1..Len(messages) /\ Len(messages) \in DOMAIN messages
      BY <1>2, <2>1
    <3>3. messages[Len(messages)].status = "none"
      BY <3>1, <3>2, <2>2 DEF Statuses
    <3>4. ASSUME NEW i \in DOMAIN messages PROVE messages[i].status = "none"
      <4>1. CASE i < Len(messages)
        BY <4>1, <2>2, <2>3 DEF Wholeness, Reporting
      <4>2. CASE i = Len(messages)
        BY <4>2, <3>3
      <4> QED BY <4>1, <4>2, <3>2
    <3> QED BY <3>4 DEF AllNone
  <2>4. ASSUME delivery = "json", NEW i \in DOMAIN messages, i \in Staying PROVE messages[i].status = "none"
    <3>1. /\ Range(Own(Staying)) = DOMAIN messages \cap Staying
          /\ State = MessagesOf(Staying) /\ DOMAIN State = DOMAIN Own(Staying)
          /\ \A k \in DOMAIN State : State[k] = messages[Own(Staying)[k]]
      BY <1>2, MessagesAre DEF State
    <3>2. i \in Range(Own(Staying))
      BY <3>1, <2>4
    <3>3. PICK k \in DOMAIN Own(Staying) : Own(Staying)[k] = i
      BY <3>2 DEF Range
    <3>4. messages[i].status # "failed"
      BY <3>1, <3>3, <2>1, <2>4 DEF AnyError
    <3> QED BY <3>4, <2>4 DEF Wholeness, Reporting
  <2>5. \A i \in DOMAIN messages : i \in Staying \/ delivery # "json" => messages[i].status = "none"
    BY <2>3, <2>4 DEF AllNone
  <2>6. TextIn(State) = SentToState
    BY <2>1, <2>5, StateTexts DEF Wholeness
  <2>7. delivery # "json" => StreamedIn(calls, wire) = SentUpto(calls, Len(calls))
    BY <2>1, <2>3 DEF Wholeness, WholeStream
  <2>8. history' = State \/ (delivery = "background" /\ Last(State).text = <<>>)
    BY <2>1 DEF Folded
  <2>9. TextIn(history') = SentToState \/ (delivery = "background" /\ Last(State).text = <<>>)
    BY <2>6, <2>8
  <2>10. TextIn(history)' = TextIn(history')
    BY DEF TextIn
  <2>11. Staying' = Staying /\ State' = State /\ SentToState' = SentToState
    BY <1>1, ClosedSame
  <2> QED BY <2>5, <2>7, <2>9, <2>10, <2>11, <1>1, <1>6 DEF Faithful
<1>9. Completed' => Faithful'
  <2>1. Polled(messages) => Faithful'
    BY <1>1 DEF Faithful, Polled
  <2> QED BY <2>1, <1>5, <1>8
<1> QED BY <1>1, <1>7, <1>9 DEF Wholeness

LEMMA WholenessBreaks == Basics /\ Wholeness /\ Breaks => Wholeness'
<1> SUFFICES ASSUME Basics, Wholeness, Breaks PROVE Wholeness'
  OBVIOUS
<1>1. /\ at = "raised" /\ at' = "closed"
      /\ UNCHANGED <<delivery, calls, read, buffer, got, tries, status, messages, wire, next, stop, history>>
  BY DEF Breaks
<1>2. ~Completed'
  <2>1. ~Completed
    BY <1>1, NotCompleted
  <2> QED BY <2>1, <1>1 DEF Completed
<1>3. Reporting' /\ WholeMessages' /\ Gathered' /\ WholeStream'
  BY <1>1 DEF Wholeness, Reporting, WholeMessages, Gathered, WholeStream
<1> QED BY <1>2, <1>3 DEF Wholeness

LEMMA WholenessCloses ==
  Basics /\ Wholeness /\ (Interrupted \/ Failed \/ Cancel \/ Raised \/ HandOff \/ Finalize \/ Respond) => Wholeness'
<1> SUFFICES ASSUME Basics, Wholeness,
                    Interrupted \/ Failed \/ Cancel \/ Raised \/ HandOff \/ Finalize \/ Respond
             PROVE  Wholeness'
  OBVIOUS
<1> DEFINE open == FrameTypes \ {"stream.completed", "COMPLETED"}
<1>1. ASSUME NEW type \in open, Close(type), at # "closed" PROVE Wholeness'
  BY <1>1, WholenessClose
<1>2. CASE Interrupted \/ Failed \/ Cancel \/ HandOff
  <2>1. at # "closed" /\ \E type \in open : Close(type)
    BY <1>2 DEF Interrupted, Failed, Cancel, HandOff, FrameTypes
  <2> HIDE DEF open
  <2> QED BY <2>1, <1>1
<1>3. CASE Raised
  <2>1. Breaks \/ \E type \in open : Close(type)
    BY <1>3, RaisedIs DEF FrameTypes
  <2>2. at # "closed"
    BY <1>3 DEF Raised
  <2> HIDE DEF open
  <2> QED BY <2>1, <2>2, <1>1, WholenessBreaks
<1>4. CASE Finalize
  <2>1. at = "ended" /\ delivery # "json"
    BY <1>4 DEF Finalize
  <2>2. CASE stop # "no"
    <3>1. Close("stream.failed") /\ "stream.failed" \in open
      BY <1>4, <2>2 DEF Finalize, FrameTypes
    <3> HIDE DEF open
    <3> QED BY <3>1, <2>1, <1>1
  <2>3. CASE stop = "no"
    <3>1. Close("stream.completed") /\ history' = Folded /\ "stream.completed" \in FrameTypes
      BY <1>4, <2>3 DEF Finalize, FrameTypes
    <3> QED BY <3>1, <2>1, <2>3, WholenessClose
  <2> QED BY <2>2, <2>3
<1>5. CASE Respond
  <2>1. at = "ended" /\ delivery = "json"
    BY <1>5 DEF Respond
  <2>2. CASE stop # "no" \/ AnyError
    <3>1. \E type \in {"STOPPED", "FAILED"} : Close(type)
      BY <1>5, <2>2 DEF Respond
    <3>2. \E type \in open : Close(type)
      BY <3>1 DEF FrameTypes
    <3> HIDE DEF open
    <3> QED BY <3>2, <2>1, <1>1
  <2>3. CASE stop = "no" /\ ~AnyError
    <3>1. Close("COMPLETED") /\ history' = State /\ "COMPLETED" \in FrameTypes
      BY <1>5, <2>3 DEF Respond, FrameTypes
    <3> QED BY <3>1, <2>1, <2>3, WholenessClose
  <2> QED BY <2>2, <2>3
<1> QED BY <1>2, <1>3, <1>4, <1>5

LEMMA WholenessStep ==
  ASSUME ~LoneNewlines
  PROVE  Basics /\ Basics' /\ Orders /\ Wholeness /\ [Next]_vars => Wholeness'
<1> SUFFICES ASSUME Basics, Basics', Orders, Wholeness, [Next]_vars PROVE Wholeness'
  OBVIOUS
<1>1. CASE UNCHANGED vars
  <2> USE <1>1 DEF vars
  <2>1. call' = call /\ script' = script
    BY DEF call, script
  <2>2. Reporting' /\ WholeMessages' /\ WholeStream'
    BY <2>1 DEF Wholeness, Reporting, WholeMessages, WholeStream, AllNone
  <2>3. Gathered'
    BY <2>1 DEF Wholeness, Gathered, Prefix, AllNone
  <2>4. at' = "closed" /\ Completed' => Faithful'
    <3>1. Staying' = Staying /\ State' = State /\ SentToState' = SentToState
      BY ClosedSame
    <3>2. TextIn(history)' = TextIn(history) /\ Completed' = Completed /\ Polled(messages)' = Polled(messages)
      BY DEF TextIn, Completed, Polled
    <3> QED BY <3>1, <3>2 DEF Wholeness, Faithful
  <2> QED BY <2>2, <2>3, <2>4 DEF Wholeness
<1>2. CASE CallLocal \/ CallSub \/ CallRemote
  BY <1>2, WholenessCall DEF CallLocal, CallSub, CallRemote
<1>4. CASE \E n \in 1..(IF calls = <<>> THEN 0 ELSE 4 * Len(script)) : Read(n)
  BY <1>4, WholenessRead
<1>5. CASE Open \/ Interrupt \/ Drops \/ Merge \/ GoesOn \/ Discard
  BY <1>5, WholenessOpen, WholenessInterrupt, WholenessDrops, WholenessMerge, WholenessGoesOn
<1>6. CASE Answered \/ Retry \/ AnsweredError \/ Unanswered
  BY <1>6, WholenessWaiting, WholenessRetry
<1>7. CASE Interrupted \/ Failed \/ Cancel \/ Raised \/ HandOff \/ Finalize \/ Respond
  BY <1>7, WholenessCloses
<1> QED BY <1>1, <1>2, <1>4, <1>5, <1>6, <1>7 DEF Next

LEMMA WholenessHolds == ASSUME ~LoneNewlines PROVE Spec => []Wholeness
<1>1. Basics /\ Basics' /\ Orders /\ Wholeness /\ [Next]_vars => Wholeness'
  BY WholenessStep
<1>2. Spec => []Orders
  BY OrdersHold
<1> QED BY <1>1, <1>2, WholenessInit, BasicsHold, PTL DEF Spec

\* When no chunk is a lone newline, a turn that reports its completion
\* (_build_terminal_frame, state_to_response) and was not handed off by a
\* remote has given the client all that its models sent, in order and once,
\* and the history all that its tasks' models sent, but for what a deep agent
\* has removed and for a background turn whose last message was empty: however
\* its streams are cut into chunks otherwise, interrupted or broken off.
THEOREM StreamWhole == ASSUME ~LoneNewlines PROVE Spec => []CompletedReplyWhole
<1>1. Basics /\ Wholeness => CompletedReplyWhole
  <2> SUFFICES ASSUME Basics, Wholeness PROVE CompletedReplyWhole
    OBVIOUS
  <2>1. Completed => Faithful
    BY NotCompleted DEF Wholeness
  <2>2. Sent = SentUpto(calls, Len(calls)) /\ Streamed = StreamedIn(calls, wire)
    BY TextsAre DEF Basics, Types
  <2>3. Polled(messages) <=> ~\A i \in DOMAIN messages : messages[i].status # "background"
    BY DEF Polled
  <2> QED BY <2>1, <2>2, <2>3 DEF Faithful, CompletedReplyWhole
<1>2. Spec => []Wholeness
  BY WholenessHolds
<1> QED BY <1>1, <1>2, BasicsHold, PTL
=============================================================================
