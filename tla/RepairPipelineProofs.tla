------------------------ MODULE RepairPipelineProofs -------------------------
(***************************************************************************)
(* For any tests, files, branches, analyses and patches, and wherever the  *)
(* runs break off: every variable keeps its type, patches land in their    *)
(* lines, those that failed can be taken back by themselves, and a commit  *)
(* changes the file of its group only.                                     *)
(***************************************************************************)
EXTENDS RepairPipeline, ListLemmas

-----------------------------------------------------------------------------
(* The file that is meant, line by line.                                   *)

Piece(lines, P, i) ==
  IF \E p \in P : p.start = i THEN (CHOOSE p \in P : p.start = i).replacement
  ELSE IF \E p \in P : p.start < i /\ i <= p.end THEN <<>> ELSE <<lines[i]>>

\* What the first k lines become.
Upper(lines, P, k) == FlattenSeq([i \in 1..k |-> Piece(lines, P, i)])

\* Patches of lines that the file has, and that do not overlap.
Fit(P, lines, X) ==
  /\ lines \in Seq(X) /\ Apart(P)
  /\ \A p \in P : /\ p.start \in 1..Len(lines) /\ p.end \in p.start..Len(lines)
                  /\ p.replacement \in Seq(X)

\* What a line becomes.
LEMMA PieceIs ==
  ASSUME NEW X, NEW lines, NEW P, Fit(P, lines, X), NEW i \in 1..Len(lines)
  PROVE  /\ Piece(lines, P, i) \in Seq(X)
         /\ \A p \in P : /\ p.start = i => Piece(lines, P, i) = p.replacement
                         /\ p.start < i /\ i <= p.end => Piece(lines, P, i) = <<>>
         /\ (\A p \in P : i < p.start \/ p.end < i) => Piece(lines, P, i) = <<lines[i]>>
<1>1. /\ lines \in Seq(X) /\ Len(lines) \in Nat /\ <<>> \in Seq(X) /\ <<lines[i]>> \in Seq(X)
      /\ \A p \in P : p.start \in Nat /\ p.end \in Nat /\ p.start <= p.end /\ p.replacement \in Seq(X)
      /\ \A p, q \in P : p = q \/ p.end < q.start \/ q.end < p.start
  <2>1. lines \in Seq(X)
    BY DEF Fit
  <2>2. Len(lines) \in Nat /\ <<>> \in Seq(X) /\ <<lines[i]>> \in Seq(X)
    BY <2>1
  <2> QED BY <2>1, <2>2 DEF Fit, Apart
<1>2. CASE \E p \in P : p.start = i
  <2>1. PICK p \in P : p.start = i
    BY <1>2
  <2>2. \A q \in P : q.start = i => q = p
    BY <1>1, <2>1
  <2>3. (CHOOSE q \in P : q.start = i) = p
    BY <2>1, <2>2
  <2>4. Piece(lines, P, i) = p.replacement
    BY <1>2, <2>3 DEF Piece
  <2>5. \A q \in P : ~(q.start < i /\ i <= q.end)
    BY <1>1, <2>1
  <2> QED BY <1>1, <2>1, <2>2, <2>4, <2>5
<1>3. CASE ~(\E p \in P : p.start = i)
  <2>1. Piece(lines, P, i) = IF \E p \in P : p.start < i /\ i <= p.end THEN <<>> ELSE <<lines[i]>>
    BY <1>3 DEF Piece
  <2> QED BY <1>1, <1>3, <2>1
<1> QED BY <1>2, <1>3

\* One line more.
LEMMA UpperIs ==
  ASSUME NEW X, NEW lines, NEW P, Fit(P, lines, X)
  PROVE  /\ Upper(lines, P, 0) = <<>>
         /\ \A k \in 0..Len(lines) : Upper(lines, P, k) \in Seq(X)
         /\ \A k \in 1..Len(lines) : Upper(lines, P, k) = Upper(lines, P, k - 1) \o Piece(lines, P, k)
         /\ Meant(lines, P) = Upper(lines, P, Len(lines))
<1> DEFINE W(k) == [i \in 1..k |-> Piece(lines, P, i)]
<1>1. lines \in Seq(X) /\ Len(lines) \in Nat /\ DOMAIN lines = 1..Len(lines)
  <2>1. lines \in Seq(X)
    BY DEF Fit
  <2> QED BY <2>1
<1>2. \A i \in 1..Len(lines) : Piece(lines, P, i) \in Seq(X)
  BY PieceIs
<1>3. ASSUME NEW k \in 0..Len(lines) PROVE W(k) \in Seq(Seq(X)) /\ Len(W(k)) = k
  <2>1. \A i \in 1..k : Piece(lines, P, i) \in Seq(X)
    BY <1>1, <1>2
  <2> QED BY <2>1
<1>4. Upper(lines, P, 0) = <<>>
  <2>1. W(0) = <<>>
    OBVIOUS
  <2> QED BY <2>1, FlatEmpty DEF Upper
<1>5. ASSUME NEW k \in 0..Len(lines) PROVE Upper(lines, P, k) \in Seq(X)
  <2> HIDE DEF W
  <2>1. FlattenSeq(W(k)) \in Seq(X)
    BY <1>3, FlatElements
  <2> QED BY <2>1 DEF Upper, W
<1>6. ASSUME NEW k \in 1..Len(lines)
      PROVE  Upper(lines, P, k) = Upper(lines, P, k - 1) \o Piece(lines, P, k)
  <2> DEFINE u == W(k - 1)
             x == Piece(lines, P, k)
  <2>1. k \in 0..Len(lines) /\ k - 1 \in 0..Len(lines) /\ x \in Seq(X)
    BY <1>1, <1>2
  <2>2. u \in Seq(Seq(X)) /\ Len(u) = k - 1 /\ W(k) \in Seq(Seq(X)) /\ Len(W(k)) = k
    BY <1>3, <2>1
  <2>3. W(k) = Append(u, x)
    <3>1. \A i \in 1..(k - 1) : u[i] = Piece(lines, P, i)
      OBVIOUS
    <3>2. \A i \in 1..k : W(k)[i] = Piece(lines, P, i)
      OBVIOUS
    <3> HIDE DEF u, W
    <3>3. \A i \in 1..k : W(k)[i] = Append(u, x)[i]
      <4> HIDE DEF x
      <4>1. \A i \in 1..k : Append(u, x)[i] = IF i = k THEN x ELSE u[i]
        BY <2>1, <2>2
      <4>2. \A i \in 1..k : i = k \/ i \in 1..(k - 1)
        BY <2>1
      <4>3. \A i \in 1..(k - 1) : i # k
        BY <2>1
      <4> QED BY <4>1, <4>2, <4>3, <3>1, <3>2, Zenon DEF x
    <3>4. Append(u, x) \in Seq(Seq(X)) /\ Len(Append(u, x)) = k
      <4> HIDE DEF x
      <4>1. Len(u) + 1 = k
        BY <2>1, <2>2
      <4> QED BY <4>1, <2>1, <2>2
    <3> HIDE DEF x
    <3> QED BY <2>2, <3>3, <3>4
  <2> HIDE DEF W, x, u
  <2>4. FlattenSeq(Append(u, x)) = FlattenSeq(u) \o x
    BY <2>1, <2>2, FlatAppend
  <2>5. FlattenSeq(W(k)) = FlattenSeq(u) \o x
    BY <2>3, <2>4
  <2> QED BY <2>5, Zenon DEF Upper, W, x, u
<1>7. Meant(lines, P) = Upper(lines, P, Len(lines))
  BY <1>1 DEF Meant, Upper, Piece
<1> QED BY <1>4, <1>5, <1>6, <1>7


\* Some of the patches fit as well.
LEMMA FitPart ==
  ASSUME NEW X, NEW lines, NEW P, Fit(P, lines, X), NEW Q \in SUBSET P
  PROVE  Fit(Q, lines, X)
BY DEF Fit, Apart

\* A patch matters only in its own lines...
LEMMA PieceAgrees ==
  ASSUME NEW X, NEW lines, NEW P, NEW Q, Fit(P, lines, X), Fit(Q, lines, X), NEW i \in 1..Len(lines),
         \A p \in (P \ Q) \cup (Q \ P) : i < p.start \/ p.end < i
  PROVE  Piece(lines, P, i) = Piece(lines, Q, i)
<1>0. /\ Len(lines) \in Nat
      /\ \A p \in P \cup Q : p.start \in Nat /\ p.end \in Nat /\ p.start <= p.end
  <2>1. lines \in Seq(X)
    BY DEF Fit
  <2>2. Len(lines) \in Nat
    BY <2>1
  <2> QED BY <2>2 DEF Fit
<1> DEFINE Is(R) ==
      /\ \A q \in R : /\ q.start = i => Piece(lines, R, i) = q.replacement
                      /\ q.start < i /\ i <= q.end => Piece(lines, R, i) = <<>>
      /\ (\A q \in R : i < q.start \/ q.end < i) => Piece(lines, R, i) = <<lines[i]>>
<1>1. Is(P)
  BY PieceIs
<1>2. Is(Q)
  BY PieceIs
<1>3. CASE \E p \in P \cap Q : p.start = i \/ (p.start < i /\ i <= p.end)
  <2>1. PICK p \in P \cap Q : p.start = i \/ (p.start < i /\ i <= p.end)
    BY <1>3
  <2>2. p \in P /\ p \in Q
    OBVIOUS
  <2>3. CASE p.start = i
    <3>1. Piece(lines, P, i) = p.replacement
      BY <2>2, <2>3, <1>1
    <3>2. Piece(lines, Q, i) = p.replacement
      BY <2>2, <2>3, <1>2
    <3> QED BY <3>1, <3>2
  <2>4. CASE p.start < i /\ i <= p.end
    <3>1. Piece(lines, P, i) = <<>>
      BY <2>2, <2>4, <1>1
    <3>2. Piece(lines, Q, i) = <<>>
      BY <2>2, <2>4, <1>2
    <3> QED BY <3>1, <3>2
  <2> QED BY <2>1, <2>3, <2>4
<1>4. CASE \A p \in P \cap Q : ~(p.start = i \/ (p.start < i /\ i <= p.end))
  <2>1. (\A p \in P : i < p.start \/ p.end < i) /\ (\A p \in Q : i < p.start \/ p.end < i)
    BY <1>4, <1>0
  <2> QED BY <2>1, <1>1, <1>2, Zenon
<1> QED BY <1>3, <1>4

\* ... so not in what is above it.
LEMMA UpperAgrees ==
  ASSUME NEW X, NEW lines, NEW P, NEW Q, Fit(P, lines, X), Fit(Q, lines, X), NEW k \in 0..Len(lines),
         \A p \in (P \ Q) \cup (Q \ P) : k < p.start
  PROVE  Upper(lines, P, k) = Upper(lines, Q, k)
<1>0. Len(lines) \in Nat /\ \A p \in P \cup Q : p.start \in Nat /\ p.end \in Nat
  <2>1. lines \in Seq(X)
    BY DEF Fit
  <2>2. Len(lines) \in Nat
    BY <2>1
  <2> QED BY <2>2 DEF Fit
<1>1. ASSUME NEW i \in 1..k PROVE Piece(lines, P, i) = Piece(lines, Q, i)
  <2>1. i \in 1..Len(lines) /\ \A p \in (P \ Q) \cup (Q \ P) : i < p.start \/ p.end < i
    BY <1>0
  <2> QED BY <2>1, PieceAgrees
<1>2. [i \in 1..k |-> Piece(lines, P, i)] = [i \in 1..k |-> Piece(lines, Q, i)]
  BY <1>1
<1> QED BY <1>2 DEF Upper

LEMMA Associative ==
  ASSUME NEW X
  PROVE  \A r, s, t \in Seq(X) : (r \o s) \o t = r \o (s \o t)
BY ConcatAssociative

\* Making one patch more replaces its lines in the file that is meant.
Joined(a, x, b) == (a \o x) \o b

Exchanged(a, from, to, b, old, new) == old = Joined(a, from, b) /\ new = Joined(a, to, b)

\* One patch more exchanges its lines and leaves what is above and below.
LEMMA OneMore ==
  ASSUME NEW X, NEW lines, NEW Q, NEW p, p \notin Q, Fit(Q \cup {p}, lines, X), NEW j \in p.end..Len(lines)
  PROVE  \E b \in Seq(X) :
           Exchanged(Upper(lines, Q, p.start - 1), SubSeq(lines, p.start, p.end), p.replacement, b,
                     Upper(lines, Q, j), Upper(lines, Q \cup {p}, j))
<1> DEFINE R == Q \cup {p}
           n == Len(lines)
           s == p.start
           e == p.end
           r == p.replacement
           a == Upper(lines, Q, s - 1)
<1>1. Fit(Q, lines, X) /\ Fit(R, lines, X)
  BY FitPart
<1>2. /\ lines \in Seq(X) /\ n \in Nat /\ s \in Nat /\ e \in Nat /\ 1 <= s /\ s <= e /\ e <= n
      /\ r \in Seq(X)
      /\ \A q \in Q : /\ q.start \in Nat /\ q.end \in Nat
                      /\ q.end < s \/ e < q.start
  <2>1. lines \in Seq(X)
    BY DEF Fit
  <2>2. n \in Nat
    BY <2>1
  <2> QED BY <2>1, <2>2 DEF Fit, Apart
<1>3. \A x, y, z \in Seq(X) : (x \o y) \o z = x \o (y \o z)
  BY Associative
<1>4. /\ \A k \in 0..n : Upper(lines, Q, k) \in Seq(X)
      /\ \A k \in 1..n : Upper(lines, Q, k) = Upper(lines, Q, k - 1) \o Piece(lines, Q, k)
  BY <1>1, UpperIs
<1>5. \A k \in 1..n : Upper(lines, R, k) = Upper(lines, R, k - 1) \o Piece(lines, R, k)
  BY <1>1, UpperIs
<1>6. a \in Seq(X) /\ Upper(lines, R, s - 1) = a
  <2>1. s - 1 \in 0..n /\ \A q \in (R \ Q) \cup (Q \ R) : s - 1 < q.start
    BY <1>2
  <2>2. Upper(lines, R, s - 1) = Upper(lines, Q, s - 1)
    <3> HIDE DEF R
    <3> QED BY <2>1, <1>1, UpperAgrees
  <2> QED BY <2>1, <2>2, <1>4
<1>7. \A i \in s..e : Piece(lines, Q, i) = <<lines[i]>>
  <2> TAKE i \in s..e
  <2>1. i \in 1..Len(lines) /\ \A q \in Q : i < q.start \/ q.end < i
    BY <1>2
  <2>2. (\A q \in Q : i < q.start \/ q.end < i) => Piece(lines, Q, i) = <<lines[i]>>
    BY <2>1, <1>1, PieceIs
  <2> QED BY <2>1, <2>2, Zenon
<1>8. Piece(lines, R, s) = r /\ \A i \in (s + 1)..e : Piece(lines, R, i) = <<>>
  <2>1. \A i \in s..e : /\ p.start = i => Piece(lines, R, i) = p.replacement
                        /\ p.start < i /\ i <= p.end => Piece(lines, R, i) = <<>>
    <3> TAKE i \in s..e
    <3>1. i \in 1..Len(lines) /\ p \in R
      BY <1>2
    <3> HIDE DEF R
    <3> QED BY <3>1, <1>1, PieceIs
  <2> HIDE DEF R
  <2> QED BY <2>1, <1>2
<1>9. \A i \in (e + 1)..n : Piece(lines, R, i) = Piece(lines, Q, i) /\ Piece(lines, Q, i) \in Seq(X)
  <2> TAKE i \in (e + 1)..n
  <2>1. i \in 1..Len(lines) /\ \A q \in (R \ Q) \cup (Q \ R) : i < q.start \/ q.end < i
    BY <1>2
  <2>2. Piece(lines, Q, i) \in Seq(X)
    BY <1>1, <2>1, PieceIs
  <2> HIDE DEF R
  <2> QED BY <2>1, <2>2, <1>1, PieceAgrees
<1> HIDE DEF n, R, a
<1>10. Upper(lines, Q, e) = a \o SubSeq(lines, s, e)
  <2> DEFINE m == e - (s - 1)
             T == {d \in 0..m : Upper(lines, Q, (s - 1) + d) = a \o SubSeq(lines, s, (s - 1) + d)}
  <2>1. 0 \in T
    <3>1. SubSeq(lines, s, s - 1) = <<>> /\ a \o <<>> = a
      BY <1>2, <1>6, SubSeqEmpty, ConcatEmptySeq
    <3>2. 0 \in 0..m /\ (s - 1) + 0 = s - 1
      BY <1>2
    <3>3. Upper(lines, Q, (s - 1) + 0) = a \o SubSeq(lines, s, (s - 1) + 0)
      BY <3>1, <3>2 DEF a
    <3> QED BY <3>2, <3>3
  <2>2. ASSUME NEW d \in 1..m, d - 1 \in T PROVE d \in T
    <3> DEFINE i == (s - 1) + d
               x == SubSeq(lines, s, i - 1)
               y == <<lines[i]>>
    <3>1. i \in 1..n /\ i \in s..e /\ d \in 0..m /\ (s - 1) + (d - 1) = i - 1 /\ s \in 1..Len(lines)
          /\ i \in s..Len(lines)
      BY <1>2 DEF n
    <3>2. Upper(lines, Q, i - 1) = a \o x
      BY <2>2, <3>1
    <3>3. Upper(lines, Q, i) = Upper(lines, Q, i - 1) \o y
      BY <3>1, <1>4, <1>7
    <3>4. SubSeq(lines, s, i) = x \o y
      BY <3>1, <1>2, SubSeqRecursiveSecond
    <3>5. x \in Seq(X) /\ y \in Seq(X)
      <4>1. \A k \in 1..Len(lines) : lines[k] \in X
        BY <1>2
      <4>2. \A k \in s..(i - 1) : lines[k] \in X
        BY <4>1, <3>1
      <4>3. s \in Int /\ i - 1 \in Int
        BY <3>1
      <4>4. x \in Seq(X)
        BY <4>2, <4>3, SubSeqProperties
      <4>5. y \in Seq(X)
        BY <4>1, <3>1
      <4> QED BY <4>4, <4>5
    <3> HIDE DEF x, y, i
    <3>6. (a \o x) \o y = a \o (x \o y)
      BY <3>5, <1>3, <1>6, Zenon
    <3>7. Upper(lines, Q, i) = a \o SubSeq(lines, s, i)
      BY <3>2, <3>3, <3>4, <3>6, Zenon
    <3> QED BY <3>1, <3>7 DEF i
  <2>3. m \in Nat /\ (s - 1) + m = e
    BY <1>2
  <2> HIDE DEF T, m
  <2>4. \A d \in 0..m : d \in T
    BY <2>1, <2>2, <2>3, Induct
  <2>5. Upper(lines, Q, (s - 1) + m) = a \o SubSeq(lines, s, (s - 1) + m)
    <3>1. m \in T
      BY <2>3, <2>4
    <3> QED BY <3>1 DEF T
  <2> QED BY <2>3, <2>5
<1>11. Upper(lines, R, e) = a \o r
  <2> DEFINE m == e - s
             T == {d \in 0..m : Upper(lines, R, s + d) = a \o r}
  <2>1. 0 \in T
    <3>1. s \in 1..n /\ 0 \in 0..m /\ s + 0 = s
      BY <1>2
    <3>2. Upper(lines, R, s) = a \o r
      BY <3>1, <1>5, <1>6, <1>8
    <3> QED BY <3>1, <3>2
  <2>2. ASSUME NEW d \in 1..m, d - 1 \in T PROVE d \in T
    <3>0. d \in Int /\ 1 <= d /\ d <= e - s
      BY <1>2
    <3>1. s + d \in 1..n /\ s + d \in (s + 1)..e /\ d \in 0..m /\ (s + d) - 1 = s + (d - 1)
      <4>1. s \in Int /\ e \in Int /\ n \in Int /\ 1 <= s /\ s <= e /\ e <= n
        BY <1>2
      <4>2. s + d \in 1..n /\ (s + d) - 1 = s + (d - 1)
        BY <3>0, <4>1
      <4>3. s + d \in (s + 1)..e
        BY <3>0, <4>1
      <4> QED BY <4>2, <4>3
    <3>2. Upper(lines, R, s + d) = Upper(lines, R, s + (d - 1)) \o <<>>
      BY <3>1, <1>5, <1>8
    <3>3. (a \o r) \o <<>> = a \o r
      <4>1. a \o r \in Seq(X)
        BY <1>2, <1>6, ConcatProperties
      <4> QED BY <4>1, ConcatEmptySeq
    <3>4. Upper(lines, R, s + d) = a \o r
      BY <3>2, <3>3, <2>2
    <3> QED BY <3>1, <3>4
  <2>3. m \in Nat /\ s + m = e
    BY <1>2
  <2> HIDE DEF T, m
  <2>4. \A d \in 0..m : d \in T
    BY <2>1, <2>2, <2>3, Induct
  <2>5. Upper(lines, R, s + m) = a \o r
    <3>1. m \in T
      BY <2>3, <2>4
    <3> QED BY <3>1 DEF T
  <2> QED BY <2>3, <2>5
<1> DEFINE o == SubSeq(lines, s, e)
           G(k) == \E b \in Seq(X) : Exchanged(a, o, r, b, Upper(lines, Q, k), Upper(lines, R, k))
           T == {d \in 0..(n - e) : G(e + d)}
<1>12. a \o o \in Seq(X) /\ a \o r \in Seq(X)
  <2>1. Upper(lines, Q, e) \in Seq(X)
    BY <1>2, <1>4
  <2>2. a \o r \in Seq(X)
    BY <1>2, <1>6, ConcatProperties
  <2> QED BY <2>1, <2>2, <1>10
<1> HIDE DEF o
<1>13. 0 \in T
  <2>1. Exchanged(a, o, r, <<>>, Upper(lines, Q, e), Upper(lines, R, e))
    <3>1. (a \o o) \o <<>> = a \o o /\ (a \o r) \o <<>> = a \o r
      BY <1>12, ConcatEmptySeq
    <3> QED BY <3>1, <1>10, <1>11, Zenon DEF Exchanged, Joined, o
  <2>2. 0 \in 0..(n - e) /\ e + 0 = e /\ <<>> \in Seq(X)
    BY <1>2
  <2>3. G(e)
    BY <2>1, <2>2
  <2> HIDE DEF G
  <2> QED BY <2>2, <2>3
<1>14. ASSUME NEW d \in 1..(n - e), d - 1 \in T PROVE d \in T
  <2> DEFINE i == e + d
             x == Piece(lines, Q, i)
  <2>1. i \in 1..n /\ i \in (e + 1)..n /\ d \in 0..(n - e) /\ e + (d - 1) = i - 1
    BY <1>2
  <2>2. x \in Seq(X) /\ Upper(lines, Q, i) = Upper(lines, Q, i - 1) \o x
        /\ Upper(lines, R, i) = Upper(lines, R, i - 1) \o x
    BY <2>1, <1>4, <1>5, <1>9
  <2> HIDE DEF x, i
  <2>3. G(i - 1)
    <3> HIDE DEF G
    <3> QED BY <1>14, <2>1
  <2>4. PICK b \in Seq(X) : Exchanged(a, o, r, b, Upper(lines, Q, i - 1), Upper(lines, R, i - 1))
    BY <2>3
  <2>5. b \o x \in Seq(X)
    BY <2>2, ConcatProperties
  <2>6. ((a \o o) \o b) \o x = (a \o o) \o (b \o x) /\ ((a \o r) \o b) \o x = (a \o r) \o (b \o x)
    BY <2>2, <1>3, <1>12, Zenon
  <2>7. Exchanged(a, o, r, b \o x, Upper(lines, Q, i), Upper(lines, R, i))
    BY <2>2, <2>4, <2>6, Zenon DEF Exchanged, Joined
  <2>8. G(i)
    BY <2>5, <2>7
  <2> HIDE DEF G
  <2> QED BY <2>1, <2>8 DEF i
<1>15. G(j)
  <2>1. n - e \in Nat /\ j - e \in 0..(n - e) /\ e + (j - e) = j
    BY <1>2 DEF n
  <2> DEFINE m == n - e
  <2>2. m \in Nat /\ \A k \in 1..m : k - 1 \in T => k \in T
    BY <2>1, <1>14
  <2> HIDE DEF T, m
  <2>3. \A d \in 0..m : d \in T
    BY <2>2, <1>13, Induct
  <2>4. j - e \in T
    BY <2>1, <2>3 DEF m
  <2> HIDE DEF G
  <2> QED BY <2>1, <2>4 DEF T
<1> QED BY <1>15 DEF a, o, R

-----------------------------------------------------------------------------
(* replace_lines.                                                          *)

\* What the slices of the code make of that.
LEMMA SplicedIs ==
  ASSUME NEW X, NEW a \in Seq(X), NEW x \in Seq(X), NEW y \in Seq(X), NEW b \in Seq(X)
  PROVE  Spliced(Joined(a, x, b), Len(a), Len(a) + Len(x), y) = Joined(a, y, b)
<1>0. \A r, s \in Seq(X) :
        /\ r \o s \in Seq(X) /\ Len(r \o s) = Len(r) + Len(s)
        /\ \A i \in 1..(Len(r) + Len(s)) : (r \o s)[i] = IF i <= Len(r) THEN r[i] ELSE s[i - Len(r)]
  BY ConcatProperties
<1> DEFINE t == (a \o x) \o b
           n == Len(a)
           d == Len(x)
           w == Len(b)
<1>1. n \in Nat /\ d \in Nat /\ w \in Nat
  OBVIOUS
<1>2. a \o x \in Seq(X) /\ Len(a \o x) = n + d
      /\ \A i \in 1..(n + d) : (a \o x)[i] = IF i <= n THEN a[i] ELSE x[i - n]
  BY ConcatProperties
<1>3. t \in Seq(X) /\ Len(t) = (n + d) + w
      /\ \A i \in 1..((n + d) + w) : t[i] = IF i <= n + d THEN (a \o x)[i] ELSE b[i - (n + d)]
  <2> DEFINE u == a \o x
  <2>1. u \in Seq(X) /\ Len(u) = n + d
    BY <1>2
  <2> HIDE DEF u
  <2>2. /\ u \o b \in Seq(X) /\ Len(u \o b) = Len(u) + Len(b)
        /\ \A i \in 1..(Len(u) + Len(b)) : (u \o b)[i] = IF i <= Len(u) THEN u[i] ELSE b[i - Len(u)]
    BY <2>1, <1>0, Zenon
  <2> QED BY <2>1, <2>2 DEF u
<1> HIDE DEF t
<1>4. \A i \in 1..((n + d) + w) : t[i] \in X
  BY <1>3
<1>5. SubSeq(t, 1, n) = a
  <2>1. SubSeq(t, 1, n) \in Seq(X) /\ Len(SubSeq(t, 1, n)) = n
        /\ \A i \in 1..n : SubSeq(t, 1, n)[i] = t[i]
    <3>1. \A i \in 1..n : t[i] \in X
      BY <1>1, <1>4
    <3>2. 1 \in Int /\ n \in Int /\ (n - 1) + 1 = n
      BY <1>1
    <3>3. /\ SubSeq(t, 1, n) \in Seq(X)
          /\ Len(SubSeq(t, 1, n)) = IF 1 <= n THEN (n - 1) + 1 ELSE 0
          /\ \A i \in 1..((n - 1) + 1) : SubSeq(t, 1, n)[i] = t[(1 + i) - 1]
      BY <3>1, <3>2, SubSeqProperties
    <3>4. \A i \in 1..n : (1 + i) - 1 = i
      BY <1>1
    <3> HIDE DEF n
    <3> QED BY <3>2, <3>3, <3>4, <1>1
  <2>2. \A i \in 1..n : t[i] = a[i]
    <3>1. \A i \in 1..n : i \in 1..((n + d) + w) /\ i \in 1..(n + d) /\ i <= n /\ i <= n + d
      BY <1>1
    <3> QED BY <3>1, <1>2, <1>3
  <2> QED BY <2>1, <2>2, SeqEqual
<1>6. UpTo(t, n) = a
  <2>1. n < Len(t) \/ n = Len(t)
    BY <1>1, <1>3
  <2> QED BY <2>1, <1>5 DEF UpTo
<1>7. SubSeq(t, (n + d) + 1, Len(t)) = b
  <2> DEFINE v == SubSeq(t, (n + d) + 1, (n + d) + w)
  <2>1. v \in Seq(X) /\ Len(v) = w /\ \A i \in 1..w : v[i] = t[(n + d) + i]
    <3>1. \A i \in ((n + d) + 1)..((n + d) + w) : t[i] \in X
      BY <1>1, <1>4
    <3>2. (n + d) + 1 \in Int /\ (n + d) + w \in Int /\ (((n + d) + w) - ((n + d) + 1)) + 1 = w
          /\ ((n + d) + 1 <= (n + d) + w <=> w # 0)
      BY <1>1
    <3>3. /\ v \in Seq(X)
          /\ Len(v) = IF (n + d) + 1 <= (n + d) + w
                      THEN (((n + d) + w) - ((n + d) + 1)) + 1 ELSE 0
          /\ \A i \in 1..((((n + d) + w) - ((n + d) + 1)) + 1) : v[i] = t[(((n + d) + 1) + i) - 1]
      BY <3>1, <3>2, SubSeqProperties
    <3>4. \A i \in 1..w : (((n + d) + 1) + i) - 1 = (n + d) + i
      BY <1>1
    <3> HIDE DEF v, n, d, w
    <3> QED BY <3>2, <3>3, <3>4, <1>1
  <2>2. \A i \in 1..w : t[(n + d) + i] = b[i]
    <3>1. \A i \in 1..w : /\ (n + d) + i \in 1..((n + d) + w) /\ ~((n + d) + i <= n + d)
                          /\ ((n + d) + i) - (n + d) = i
      BY <1>1
    <3> QED BY <3>1, <1>3
  <2> HIDE DEF v
  <2>3. v = b
    BY <2>1, <2>2, SeqEqual
  <2> QED BY <2>3, <1>3 DEF v
<1>8. Spliced(t, n, n + d, y) = (a \o y) \o b
  BY <1>6, <1>7 DEF Spliced
<1> QED BY <1>8 DEF t, Joined

\* What the order of the patches rests on.
Spans(P) ==
  /\ IsFiniteSet(P) /\ Apart(P)
  /\ \A p \in P : p.start \in Nat /\ p.end \in Nat /\ p.start <= p.end

LEMMA FitSpans ==
  ASSUME NEW X, NEW lines, NEW P, Fit(P, lines, X)
  PROVE  Spans(P)
<1> DEFINE f == [p \in P |-> p.start]
<1>1. \A p, q \in P : p.start = q.start => p = q
  <2>1. /\ \A p \in P : p.start \in Nat /\ p.end \in Nat /\ p.start <= p.end
        /\ \A p, q \in P : p = q \/ p.end < q.start \/ q.end < p.start
    BY DEF Fit, Apart
  <2> QED BY <2>1
<1>2. f \in [P -> 1..Len(lines)]
  BY DEF Fit
<1>3. f \in Injection(P, 1..Len(lines))
  BY <1>1, <1>2 DEF Injection, IsInjective
<1>4. IsFiniteSet(1..Len(lines))
  <2>1. lines \in Seq(X)
    BY DEF Fit
  <2>2. Len(lines) \in Int /\ 1 \in Int
    BY <2>1
  <2> QED BY <2>2, FS_Interval
<1> HIDE DEF f
<1>5. IsFiniteSet(P)
  BY <1>3, <1>4, FS_Injection
<1>6. \A p \in P : p.start \in Nat /\ p.end \in Nat /\ p.start <= p.end
  BY DEF Fit
<1>7. Apart(P)
  BY DEF Fit
<1> QED BY <1>5, <1>6, <1>7 DEF Spans

\* Without patches the file stays.
LEMMA UpperNone ==
  ASSUME NEW X, NEW lines \in Seq(X)
  PROVE  /\ Fit({}, lines, X) /\ Meant(lines, {}) = lines
         /\ \A k \in 0..Len(lines) : Len(Upper(lines, {}, k)) = k
<1>1. Fit({}, lines, X)
  BY DEF Fit, Apart
<1>2. Len(lines) \in Nat /\ \A i \in 1..Len(lines) : lines[i] \in X
  OBVIOUS
<1>3. ASSUME NEW k \in 0..Len(lines) PROVE Upper(lines, {}, k) = [i \in 1..k |-> lines[i]]
  <2> DEFINE f == [i \in 1..k |-> lines[i]]
  <2>1. f \in Seq(X) /\ Len(f) = k
    BY <1>2
  <2>2. \A i \in 1..k : Piece(lines, {}, i) = <<f[i]>>
    BY DEF Piece
  <2>3. [i \in 1..Len(f) |-> <<f[i]>>] = [i \in 1..k |-> Piece(lines, {}, i)]
    <3> HIDE DEF f
    <3> QED BY <2>1, <2>2
  <2> HIDE DEF f
  <2>4. FlattenSeq([i \in 1..Len(f) |-> <<f[i]>>]) = f
    BY <2>1, FlatSingles
  <2> QED BY <2>3, <2>4 DEF Upper, f
<1>4. \A k \in 0..Len(lines) : Len(Upper(lines, {}, k)) = k
  <2> TAKE k \in 0..Len(lines)
  <2>1. [i \in 1..k |-> lines[i]] \in Seq(X) /\ Len([i \in 1..k |-> lines[i]]) = k
    BY <1>2
  <2> QED BY <2>1, <1>3
<1>5. Meant(lines, {}) = lines
  <2>1. Meant(lines, {}) = Upper(lines, {}, Len(lines))
    BY <1>1, UpperIs
  <2>2. Upper(lines, {}, Len(lines)) = [i \in 1..Len(lines) |-> lines[i]]
    BY <1>2, <1>3
  <2>3. [i \in 1..Len(lines) |-> lines[i]] = lines
    OBVIOUS
  <2> QED BY <2>1, <2>2, <2>3
<1> QED BY <1>1, <1>4, <1>5

\* What a patch adds.
Grown(size, p) == size + Len(p.replacement) - (p.end - p.start + 1)

OneFits(p, Q, lines, X) == p \notin Q /\ Fit(Q \cup {p}, lines, X)

Grows(p, Q, lines) ==
  \A j \in p.end..Len(lines) :
    /\ Len(Upper(lines, Q, j)) \in Nat
    /\ Len(Upper(lines, Q \cup {p}, j)) = Grown(Len(Upper(lines, Q, j)), p)

\* One patch more moves all lines below it by what it adds.
LEMMA LengthAdded ==
  ASSUME NEW X, NEW lines, NEW Q, NEW p, OneFits(p, Q, lines, X)
  PROVE  Grows(p, Q, lines)
<1> SUFFICES ASSUME p \notin Q, Fit(Q \cup {p}, lines, X), NEW j \in p.end..Len(lines)
             PROVE  /\ Len(Upper(lines, Q, j)) \in Nat
                    /\ Len(Upper(lines, Q \cup {p}, j)) = Grown(Len(Upper(lines, Q, j)), p)
  BY DEF OneFits, Grows
<1> DEFINE R == Q \cup {p}
           a == Upper(lines, Q, p.start - 1)
           o == SubSeq(lines, p.start, p.end)
           r == p.replacement
<1>0. \A x, y \in Seq(X) : x \o y \in Seq(X) /\ Len(x \o y) = Len(x) + Len(y) /\ Len(x) \in Nat
  BY ConcatProperties, LenProperties
<1>1. /\ lines \in Seq(X) /\ p.start \in 1..Len(lines) /\ p.end \in p.start..Len(lines)
      /\ r \in Seq(X) /\ Len(lines) \in Nat
  <2>1. lines \in Seq(X)
    BY DEF Fit
  <2>2. Len(lines) \in Nat
    BY <2>1
  <2> QED BY <2>1, <2>2 DEF Fit
<1>2. Fit(Q, lines, X)
  BY FitPart
<1>3. a \in Seq(X)
  <2>1. p.start - 1 \in 0..Len(lines)
    BY <1>1
  <2> QED BY <2>1, <1>2, UpperIs
<1>4. o \in Seq(X) /\ Len(o) = (p.end - p.start) + 1
  <2>1. \A k \in 1..Len(lines) : lines[k] \in X
    BY <1>1
  <2>2. \A k \in p.start..p.end : lines[k] \in X
    BY <1>1, <2>1
  <2>3. p.start \in Int /\ p.end \in Int /\ p.start <= p.end
    BY <1>1
  <2> QED BY <2>2, <2>3, SubSeqProperties
<1>5. PICK b \in Seq(X) : Exchanged(a, o, r, b, Upper(lines, Q, j), Upper(lines, R, j))
  BY OneMore
<1> HIDE DEF a, o, r, R
<1>6. /\ Len(Upper(lines, Q, j)) = (Len(a) + Len(o)) + Len(b)
      /\ Len(Upper(lines, R, j)) = (Len(a) + Len(r)) + Len(b)
      /\ Len(a) \in Nat /\ Len(o) \in Nat /\ Len(b) \in Nat /\ Len(r) \in Nat
  <2>1. a \o o \in Seq(X) /\ a \o r \in Seq(X) /\ r \in Seq(X)
    BY <1>0, <1>1, <1>3, <1>4 DEF r
  <2>2. Len(a) \in Nat /\ Len(o) \in Nat /\ Len(b) \in Nat /\ Len(r) \in Nat
    BY <1>0, <1>3, <1>4, <2>1
  <2>3. Upper(lines, Q, j) = (a \o o) \o b /\ Upper(lines, R, j) = (a \o r) \o b
    BY <1>5 DEF Exchanged, Joined
  <2>4. Len((a \o o) \o b) = Len(a \o o) + Len(b) /\ Len((a \o r) \o b) = Len(a \o r) + Len(b)
    BY <1>0, <2>1, Zenon
  <2>5. Len(a \o o) = Len(a) + Len(o) /\ Len(a \o r) = Len(a) + Len(r)
    BY <1>0, <1>3, <1>4, <2>1, Zenon
  <2> QED BY <2>2, <2>3, <2>4, <2>5, Zenon
<1>7. p.end \in Int /\ p.start \in Int
  BY <1>1
<1>8. Len(Upper(lines, R, j)) = Len(Upper(lines, Q, j)) + Len(r) - Len(o)
  BY <1>6
<1>9. Len(Upper(lines, Q, j)) \in Nat /\ Len(Upper(lines, R, j)) \in Nat
  BY <1>6
<1>10. Len(Upper(lines, R, j)) = Grown(Len(Upper(lines, Q, j)), p)
  BY <1>4, <1>8 DEF Grown, r
<1> QED BY <1>9, <1>10 DEF R

\* Where a patch is found once all are made.
Moved(lines, P, p) ==
  [p EXCEPT !.start = Len(Upper(lines, P, p.start - 1)) + 1,
            !.end   = Len(Upper(lines, P, p.start - 1)) + Len(p.replacement)]

Upto(acc, lines, Q, p) ==
  /\ acc.lines = Meant(lines, Q) /\ acc.offset = Len(Meant(lines, Q)) - Len(lines)
  /\ Len(Upper(lines, Q, p.start - 1)) = p.start - 1 + acc.offset

OneTurn(acc, lines, Q, p) ==
  Replace(acc, p) =
    [lines   |-> Meant(lines, Q \cup {p}),
     offset  |-> Len(Meant(lines, Q \cup {p})) - Len(lines),
     updated |-> Append(acc.updated, Moved(lines, Q \cup {p}, p))]

LEMMA Shifted ==
  ASSUME NEW s \in Int, NEW e \in Int, NEW f \in Int, NEW l, NEW k,
         l = (s - 1) + f, k = (e - s) + 1
  PROVE  e + f = l + k
OBVIOUS

\* One turn of the loop, if the offset is what the patches above have added.
LEMMA ReplaceIs ==
  ASSUME NEW X, NEW lines, NEW Q, NEW p, OneFits(p, Q, lines, X), NEW acc, Upto(acc, lines, Q, p)
  PROVE  OneTurn(acc, lines, Q, p)
<1> DEFINE R == Q \cup {p}
           n == Len(lines)
           a == Upper(lines, Q, p.start - 1)
           o == SubSeq(lines, p.start, p.end)
           r == p.replacement
<1>0. /\ p \notin Q /\ Fit(R, lines, X) /\ acc.lines = Meant(lines, Q)
      /\ acc.offset = Len(Meant(lines, Q)) - n /\ Len(a) = p.start - 1 + acc.offset
  BY DEF OneFits, Upto
<1>1. /\ lines \in Seq(X) /\ n \in Nat /\ p.start \in 1..n /\ p.end \in p.start..n
      /\ r \in Seq(X) /\ Len(r) \in Nat /\ n \in p.end..Len(lines)
  <2>1. lines \in Seq(X) /\ r \in Seq(X)
    BY <1>0 DEF Fit
  <2>2. n \in Nat /\ Len(r) \in Nat
    BY <2>1
  <2>3. p.start \in 1..n /\ p.end \in p.start..n
    BY <1>0 DEF Fit
  <2> QED BY <2>1, <2>2, <2>3
<1>2. Fit(Q, lines, X) /\ Fit(R, lines, X)
  <2>1. Q \in SUBSET R
    OBVIOUS
  <2> HIDE DEF R
  <2> QED BY <1>0, <2>1, FitPart
<1>3. Meant(lines, Q) = Upper(lines, Q, n) /\ Meant(lines, R) = Upper(lines, R, n)
  <2>1. Meant(lines, Q) = Upper(lines, Q, n)
    BY <1>2, UpperIs
  <2>2. Meant(lines, R) = Upper(lines, R, n)
    <3> HIDE DEF R
    <3> QED BY <1>2, UpperIs
  <2> QED BY <2>1, <2>2
<1>4. a \in Seq(X) /\ Upper(lines, R, p.start - 1) = a
  <2>1. p.start - 1 \in 0..n /\ p.start - 1 < p.start
    BY <1>1
  <2>2. \A q \in (R \ Q) \cup (Q \ R) : p.start - 1 < q.start
    BY <2>1
  <2>3. Upper(lines, R, p.start - 1) = Upper(lines, Q, p.start - 1)
    <3> HIDE DEF R
    <3> QED BY <2>1, <2>2, <1>2, UpperAgrees
  <2>4. a \in Seq(X)
    BY <2>1, <1>2, UpperIs
  <2> QED BY <2>3, <2>4
<1>5. o \in Seq(X) /\ Len(o) = (p.end - p.start) + 1
  <2>1. \A k \in 1..Len(lines) : lines[k] \in X
    BY <1>1
  <2>2. \A k \in p.start..p.end : lines[k] \in X
    BY <1>1, <2>1
  <2>3. p.start \in Int /\ p.end \in Int /\ p.start <= p.end
    BY <1>1
  <2> QED BY <2>2, <2>3, SubSeqProperties
<1>6. PICK b \in Seq(X) : Exchanged(a, o, r, b, Upper(lines, Q, n), Upper(lines, R, n))
  BY <1>0, <1>1, OneMore
<1>7. /\ Len(Upper(lines, Q, n)) \in Nat
      /\ Len(Upper(lines, R, n)) = Grown(Len(Upper(lines, Q, n)), p)
  <2>1. Grows(p, Q, lines)
    BY LengthAdded
  <2> QED BY <2>1, <1>1 DEF Grows
<1> DEFINE start == (p.start - 1) + acc.offset
<1>8. start = Len(a) /\ p.end + acc.offset = Len(a) + Len(o) /\ Len(a) \in Nat
  <2>1. Len(a) \in Nat
    BY <1>4
  <2>2. acc.offset \in Int /\ p.start \in Int /\ p.end \in Int
    BY <1>0, <1>1, <1>3, <1>7
  <2>3. Len(a) = (p.start - 1) + acc.offset
    BY <1>0
  <2>4. Len(o) = (p.end - p.start) + 1
    BY <1>5
  <2> DEFINE la == Len(a)
             lo == Len(o)
  <2>5. p.end + acc.offset = la + lo
    <3>1. la = (p.start - 1) + acc.offset /\ lo = (p.end - p.start) + 1
      BY <2>3, <2>4
    <3> HIDE DEF la, lo
    <3> QED BY <2>2, <3>1, Shifted
  <2> QED BY <2>1, <2>3, <2>5
<1>9. Spliced(acc.lines, start, p.end + acc.offset, r) = Meant(lines, R)
  <2> HIDE DEF a, o, r, R, n, start
  <2>1. r \in Seq(X)
    BY <1>1
  <2>2. Spliced(Joined(a, o, b), Len(a), Len(a) + Len(o), r) = Joined(a, r, b)
    <3>1. \A x, y, z, w \in Seq(X) : Spliced(Joined(x, y, w), Len(x), Len(x) + Len(y), z) = Joined(x, z, w)
      BY SplicedIs
    <3>2. a \in Seq(X) /\ o \in Seq(X) /\ b \in Seq(X)
      BY <1>4, <1>5, <1>6
    <3> QED BY <3>1, <3>2, <2>1
  <2>3. acc.lines = Joined(a, o, b) /\ Meant(lines, R) = Joined(a, r, b)
    BY <1>0, <1>3, <1>6 DEF Exchanged
  <2> QED BY <2>2, <2>3, <1>8, Zenon
<1>10. Grown(acc.offset, p) = Len(Meant(lines, R)) - n
  <2> DEFINE l == Len(Upper(lines, Q, n))
  <2>1. p.end \in Int /\ p.start \in Int /\ n \in Int /\ Len(p.replacement) \in Int /\ l \in Int
    BY <1>1, <1>7
  <2>2. acc.offset = l - n /\ Len(Meant(lines, R)) = Grown(l, p)
    BY <1>0, <1>3, <1>7
  <2> HIDE DEF n, l, r, R
  <2>3. Grown(l - n, p) = Grown(l, p) - n
    BY <2>1 DEF Grown
  <2> QED BY <2>2, <2>3
<1>11. [p EXCEPT !.start = start + 1, !.end = start + Len(r)] = Moved(lines, R, p)
  <2> HIDE DEF R, start, a
  <2> QED BY <1>4, <1>8, Zenon DEF Moved
<1>12. Replace(acc, p) =
         [lines   |-> Spliced(acc.lines, start, p.end + acc.offset, r),
          offset  |-> Grown(acc.offset, p),
          updated |-> Append(acc.updated, [p EXCEPT !.start = start + 1, !.end = start + Len(r)])]
  BY DEF Replace, Grown
<1> HIDE DEF R, start, r, n
<1>13. Replace(acc, p) =
         [lines   |-> Meant(lines, R),
          offset  |-> Len(Meant(lines, R)) - n,
          updated |-> Append(acc.updated, Moved(lines, R, p))]
  BY <1>9, <1>10, <1>11, <1>12, Zenon
<1> QED BY <1>13 DEF R, n, OneTurn

InOrder(P) == Sorted(P, [p \in P |-> <<p.start, p.end>>])

\* A is what the loop has after each turn.
IsLoop(A, lines, order) ==
  /\ Len(order) \in Nat /\ A = [k \in 0..Len(order) |-> A[k]]
  /\ A[0] = [lines |-> lines, offset |-> 0, updated |-> <<>>]
  /\ \A k \in 1..Len(order) : A[k] = Replace(A[k - 1], order[k])

\* What the loop has in the end is what the function returns.
LEMMA ReplacedIs ==
  ASSUME NEW lines, NEW P, NEW A, IsLoop(A, lines, InOrder(P))
  PROVE  Replaced(lines, P) = A[Len(InOrder(P))]
<1> DEFINE order == InOrder(P)
           m == Len(order)
           start == [lines |-> lines, offset |-> 0, updated |-> <<>>]
           body(f) == [k \in 0..m |-> IF k = 0 THEN start ELSE Replace(f[k - 1], order[k])]
           acc == CHOOSE f : f = body(f)
           T == {k \in 0..m : acc[k] = A[k]}
<1>1. /\ m \in Nat /\ A = [k \in 0..m |-> A[k]] /\ A[0] = start
      /\ \A k \in 1..m : A[k] = Replace(A[k - 1], order[k])
  BY DEF IsLoop
<1> HIDE DEF order
<1>2. A = body(A)
  <2>1. \A k \in 0..m : A[k] = IF k = 0 THEN start ELSE Replace(A[k - 1], order[k])
    <3>1. \A k \in 0..m : k = 0 \/ k \in 1..m
      BY <1>1
    <3> HIDE DEF start, m
    <3> QED BY <1>1, <3>1
  <2> HIDE DEF start, m
  <2> QED BY <2>1, <1>1
<1>3. acc = body(acc)
  BY <1>2
<1>4. Replaced(lines, P) = acc[m]
  BY DEF Replaced, InOrder, order
<1> HIDE DEF acc
<1>5. acc[0] = start /\ \A k \in 1..m : acc[k] = Replace(acc[k - 1], order[k])
  <2> HIDE DEF start, m
  <2>1. \A k \in 0..m : acc[k] = IF k = 0 THEN start ELSE Replace(acc[k - 1], order[k])
    BY <1>3
  <2>2. 0 \in 0..m /\ \A k \in 1..m : k \in 0..m /\ k # 0
    BY <1>1
  <2> QED BY <2>1, <2>2, Zenon
<1> HIDE DEF start, m
<1>6. 0 \in T
  <2>1. 0 \in 0..m /\ acc[0] = A[0]
    BY <1>1, <1>5
  <2> QED BY <2>1
<1>7. ASSUME NEW k \in 1..m, k - 1 \in T PROVE k \in T
  <2>1. k \in 0..m /\ acc[k - 1] = A[k - 1]
    BY <1>1, <1>7
  <2>2. acc[k] = A[k]
    BY <2>1, <1>1, <1>5
  <2> QED BY <2>1, <2>2
<1>8. \A k \in 0..m : k \in T
  <2> HIDE DEF T
  <2> QED BY <1>1, <1>6, <1>7, Induct
<1>9. acc[m] = A[m]
  BY <1>1, <1>8
<1> QED BY <1>4, <1>9 DEF m, order

\* Where all of them are found once they are made.
AllMoved(lines, P, s) == [i \in 1..Len(s) |-> Moved(lines, P, s[i])]

\* Patches that do not overlap are made from top to bottom.
LEMMA OrderIs ==
  ASSUME NEW P, Spans(P)
  PROVE  /\ InOrder(P) \in Seq(P) /\ Len(InOrder(P)) \in Nat /\ Range(InOrder(P)) = P
         /\ \A i, j \in 1..Len(InOrder(P)) :
              i < j => InOrder(P)[i] # InOrder(P)[j] /\ InOrder(P)[i].end < InOrder(P)[j].start
<1> DEFINE key == [p \in P |-> <<p.start, p.end>>]
           s == InOrder(P)
<1>0. /\ \A p \in P : p.start \in Nat /\ p.end \in Nat /\ p.start <= p.end
      /\ \A p, q \in P : p = q \/ p.end < q.start \/ q.end < p.start
  BY DEF Spans, Apart
<1>1. \A p \in P : key[p] \in SortKeys /\ key[p][1] = p.start
  BY <1>0 DEF SortKeys
<1>2. IsFiniteSet(P)
  BY DEF Spans
<1>3. IsSorting(Sorted(P, key), P, key)
  <2> HIDE DEF key
  <2> QED BY <1>1, <1>2, SortedIs
<1>4. s = Sorted(P, key)
  BY DEF InOrder
<1> HIDE DEF s, key
<1>5. s \in Seq(P) /\ Range(s) = P
      /\ \A i \in 1..Len(s), j \in 1..Len(s) : i < j => s[i] # s[j] /\ Below(key[s[i]], key[s[j]])
  BY <1>3, <1>4 DEF IsSorting
<1>6. Len(s) \in Nat /\ \A i \in 1..Len(s) : s[i] \in P
  BY <1>5
<1>7. ASSUME NEW i \in 1..Len(s), NEW j \in 1..Len(s), i < j PROVE s[i].end < s[j].start
  <2>1. s[i] \in P /\ s[j] \in P /\ s[i] # s[j] /\ Below(key[s[i]], key[s[j]])
    BY <1>5, <1>6, <1>7
  <2>2. s[i].start <= s[j].start
    <3>1. s[i].start \in Nat /\ s[j].start \in Nat
      BY <1>0, <2>1
    <3>2. key[s[i]][1] = s[i].start /\ key[s[j]][1] = s[j].start
      BY <1>1, <2>1
    <3> QED BY <2>1, <3>1, <3>2 DEF Below
  <2> QED BY <1>0, <2>1, <2>2
<1>8. \A i, j \in 1..Len(s) : i < j => s[i] # s[j] /\ s[i].end < s[j].start
  BY <1>5, <1>7
<1> QED BY <1>5, <1>6, <1>8 DEF s

\* replace_lines of any patches that do not overlap: each replaces its own
\* lines and moves no other, and is recorded where it is found afterwards.
THEOREM ReplacedFit ==
  ASSUME NEW X, NEW lines, NEW P, Fit(P, lines, X)
  PROVE  /\ Replaced(lines, P).lines = Meant(lines, P)
         /\ Replaced(lines, P).updated = AllMoved(lines, P, InOrder(P))
<1> DEFINE s == InOrder(P)
           m == Len(s)
           n == Len(lines)
           Q(k) == {s[i] : i \in 1..k}
           Gap(k) == IF k = 0 THEN 0 ELSE s[k].end
           A == [k \in 0..m |->
                  [lines   |-> Meant(lines, Q(k)),
                   offset  |-> Len(Meant(lines, Q(k))) - n,
                   updated |-> [i \in 1..k |-> Moved(lines, P, s[i])]]]
           Even(k) == \A j \in Gap(k)..n :
             Len(Upper(lines, Q(k), j)) = j + (Len(Meant(lines, Q(k))) - n)
           T == {k \in 0..m : Even(k)}
<1>1. /\ s \in Seq(P) /\ m \in Nat /\ Range(s) = P
      /\ \A i, j \in 1..m : i < j => s[i] # s[j] /\ s[i].end < s[j].start
  BY FitSpans, OrderIs
<1>2. /\ lines \in Seq(X) /\ n \in Nat
      /\ \A p \in P : /\ p.start \in 1..n /\ p.end \in p.start..n
                      /\ p.start \in Nat /\ p.end \in Nat
                      /\ p.replacement \in Seq(X) /\ Len(p.replacement) \in Nat
  <2>1. lines \in Seq(X)
    BY DEF Fit
  <2>2. n \in Nat
    BY <2>1
  <2> QED BY <2>1, <2>2 DEF Fit
<1> HIDE DEF s
<1>3. \A i \in 1..m : s[i] \in P
  BY <1>1
<1>4. Q(0) = {} /\ Q(m) = P
  BY <1>1, <1>3 DEF Range
<1>5. ASSUME NEW k \in 0..m PROVE Q(k) \in SUBSET P /\ Fit(Q(k), lines, X)
  <2>1. Q(k) \in SUBSET P
    BY <1>3, <1>1
  <2> HIDE DEF Q
  <2> QED BY <2>1, FitPart
<1>6. ASSUME NEW k \in 1..m
      PROVE  /\ Q(k) = Q(k - 1) \cup {s[k]} /\ OneFits(s[k], Q(k - 1), lines, X)
             /\ k \in 0..m /\ k - 1 \in 0..m
  <2>1. k \in 0..m /\ k - 1 \in 0..m /\ k \in Nat
    BY <1>1
  <2>2. 1..k = (1..(k - 1)) \cup {k}
    BY <2>1
  <2>3. Q(k) = Q(k - 1) \cup {s[k]}
    BY <2>2
  <2>4. s[k] \notin Q(k - 1)
    <3>1. \A i \in 1..(k - 1) : i \in 1..m /\ i < k
      BY <1>1
    <3> QED BY <3>1, <1>1
  <2>5. Fit(Q(k), lines, X)
    <3> HIDE DEF Q
    <3> QED BY <2>1, <1>5
  <2> HIDE DEF Q
  <2> QED BY <2>1, <2>3, <2>4, <2>5 DEF OneFits
<1>7. ASSUME NEW k \in 1..m
      PROVE  /\ Gap(k - 1) \in 0..n /\ Gap(k - 1) <= s[k].start - 1 /\ Gap(k) = s[k].end
             /\ s[k].start - 1 \in 0..n /\ s[k].start \in Nat /\ s[k].end \in Nat
             /\ s[k].start <= s[k].end /\ s[k].end <= n
  <2>1. s[k].start \in 1..n /\ s[k].end \in s[k].start..n /\ s[k].start \in Nat /\ s[k].end \in Nat
    BY <1>2, <1>3
  <2>2. CASE k = 1
    BY <2>1, <2>2, <1>2
  <2>3. CASE k # 1
    <3>1. k - 1 \in 1..m /\ k - 1 < k /\ k - 1 # 0
      BY <2>3, <1>1
    <3>2. s[k - 1].end < s[k].start /\ s[k - 1].end \in Nat
      BY <3>1, <1>1, <1>2, <1>3
    <3>3. Gap(k - 1) = s[k - 1].end /\ Gap(k) = s[k].end
      BY <3>1
    <3> HIDE DEF Gap
    <3> QED BY <3>2, <3>3, <2>1, <1>2
  <2> QED BY <2>2, <2>3
<1> HIDE DEF Gap, Q
<1>8. 0 \in T
  <2>1. /\ Meant(lines, Q(0)) = lines
        /\ \A j \in 0..n : Len(Upper(lines, Q(0), j)) = j
    BY <1>2, <1>4, UpperNone
  <2>2. Gap(0) = 0 /\ 0 \in 0..m
    BY <1>1 DEF Gap
  <2>3. Even(0)
    BY <2>1, <2>2, <1>2
  <2> HIDE DEF Even
  <2> QED BY <2>2, <2>3
<1>9. ASSUME NEW k \in 1..m, k - 1 \in T PROVE k \in T
  <2> DEFINE p == s[k]
             l == Len(Meant(lines, Q(k - 1)))
  <2>0. Even(k - 1) /\ k \in 0..m
    <3> HIDE DEF Even
    <3> QED BY <1>9, <1>6
  <2>1. Grows(p, Q(k - 1), lines) /\ Q(k) = Q(k - 1) \cup {p}
    BY <1>6, LengthAdded
  <2>2. /\ p.end \in p.end..n /\ Gap(k) = p.end /\ p.end \in Nat /\ p.start \in Nat
        /\ Len(p.replacement) \in Nat /\ Gap(k - 1) \in Int /\ Gap(k - 1) <= p.end
    BY <1>2, <1>3, <1>7
  <2>3. Meant(lines, Q(k - 1)) = Upper(lines, Q(k - 1), n) /\ Meant(lines, Q(k)) = Upper(lines, Q(k), n)
    BY <1>5, <1>6, UpperIs
  <2>4. l \in Nat /\ Len(Meant(lines, Q(k))) = Grown(l, p)
    <3>1. n \in p.end..n
      BY <1>2, <2>2
    <3> QED BY <2>1, <2>3, <3>1 DEF Grows
  <2>5. ASSUME NEW j \in Gap(k)..n
        PROVE  Len(Upper(lines, Q(k), j)) = j + (Len(Meant(lines, Q(k))) - n)
    <3>1. j \in p.end..n /\ j \in Gap(k - 1)..n /\ j \in Int
      BY <2>2
    <3>2. Len(Upper(lines, Q(k), j)) = Grown(Len(Upper(lines, Q(k - 1), j)), p)
      BY <2>1, <3>1 DEF Grows
    <3>3. Len(Upper(lines, Q(k - 1), j)) = j + (l - n)
      BY <2>0, <3>1
    <3> HIDE DEF p, l
    <3>4. Grown(j + (l - n), p) = j + (Grown(l, p) - n)
      <4> DEFINE a == p.end
                 b == p.start
                 c == Len(p.replacement)
      <4>1. j \in Int /\ l \in Int /\ n \in Int /\ a \in Int /\ b \in Int /\ c \in Int
        BY <2>2, <2>4, <3>1, <1>2
      <4>2. \A d : Grown(d, p) = d + c - (a - b + 1)
        BY DEF Grown
      <4> HIDE DEF a, b, c, n
      <4>3. (j + (l - n)) + c - (a - b + 1) = j + ((l + c - (a - b + 1)) - n)
        BY <4>1
      <4> QED BY <4>2, <4>3
    <3> QED BY <3>2, <3>3, <3>4, <2>4
  <2>6. Even(k)
    BY <2>5
  <2> HIDE DEF Even
  <2> QED BY <2>0, <2>6
<1>10. \A k \in 0..m : Even(k)
  <2>1. \A k \in 0..m : k \in T
    <3> HIDE DEF T, m
    <3> QED BY <1>1, <1>8, <1>9, Induct
  <2> HIDE DEF Even
  <2> QED BY <2>1
<1>11. ASSUME NEW k \in 1..m PROVE A[k] = Replace(A[k - 1], s[k])
  <2> DEFINE acc == A[k - 1]
             p == s[k]
             R == Q(k - 1)
  <2>0. k \in 0..m /\ k - 1 \in 0..m /\ Q(k) = R \cup {p} /\ OneFits(p, R, lines, X)
    BY <1>6
  <2>1. /\ acc.lines = Meant(lines, R) /\ acc.offset = Len(Meant(lines, R)) - n
        /\ acc.updated = [i \in 1..(k - 1) |-> Moved(lines, P, s[i])]
    BY <2>0
  <2>2. Len(Upper(lines, R, p.start - 1)) = p.start - 1 + acc.offset
    <3>1. p.start - 1 \in Gap(k - 1)..n
      BY <1>7, <1>2
    <3>2. Even(k - 1)
      <4> HIDE DEF Even
      <4> QED BY <2>0, <1>10
    <3> QED BY <3>1, <3>2, <2>1
  <2>3. Upto(acc, lines, R, p)
    <3> HIDE DEF acc, R, p
    <3> QED BY <2>1, <2>2 DEF Upto
  <2>4. Replace(acc, p) =
          [lines   |-> Meant(lines, R \cup {p}),
           offset  |-> Len(Meant(lines, R \cup {p})) - n,
           updated |-> Append(acc.updated, Moved(lines, R \cup {p}, p))]
    <3> HIDE DEF acc, R, p
    <3>1. OneFits(p, R, lines, X) /\ Upto(acc, lines, R, p)
      BY <2>0, <2>3
    <3>2. OneTurn(acc, lines, R, p)
      BY <3>1, ReplaceIs
    <3> QED BY <3>2 DEF OneTurn
  <2>5. Moved(lines, Q(k), p) = Moved(lines, P, p)
    <3>1. Upper(lines, Q(k), p.start - 1) = Upper(lines, P, p.start - 1)
      <4>1. \A q \in P \ Q(k) : p.start - 1 < q.start
        <5> TAKE q \in P \ Q(k)
        <5>1. PICK i \in 1..m : s[i] = q
          BY <1>1 DEF Range
        <5>2. i \notin 1..k
          BY <5>1 DEF Q
        <5>3. k < i
          BY <5>2, <1>1
        <5>4. p.end < q.start
          BY <5>1, <5>3, <1>1
        <5>5. q.start \in Nat
          BY <1>2
        <5> QED BY <5>4, <5>5, <1>7
      <4>2. p.start - 1 \in 0..n /\ Fit(Q(k), lines, X) /\ Q(k) \in SUBSET P
        BY <1>5, <1>6, <1>7
      <4>3. \A q \in (Q(k) \ P) \cup (P \ Q(k)) : p.start - 1 < q.start
        BY <4>1, <4>2
      <4> QED BY <4>2, <4>3, UpperAgrees
    <3> QED BY <3>1 DEF Moved
  <2>6. Append(acc.updated, Moved(lines, P, p)) = [i \in 1..k |-> Moved(lines, P, s[i])]
    <3> DEFINE u == [i \in 1..(k - 1) |-> Moved(lines, P, s[i])]
               w == [i \in 1..k |-> Moved(lines, P, s[i])]
               Y == {Moved(lines, P, s[i]) : i \in 1..k}
    <3>1. k \in Nat /\ k - 1 \in Nat /\ (k - 1) + 1 = k
      BY <1>1
    <3>2. u \in Seq(Y) /\ Len(u) = k - 1 /\ w \in Seq(Y) /\ Len(w) = k
      <4>1. \A i \in 1..k : Moved(lines, P, s[i]) \in Y
        OBVIOUS
      <4>2. \A i \in 1..(k - 1) : i \in 1..k
        BY <3>1
      <4> HIDE DEF Y
      <4> QED BY <4>1, <4>2, <3>1
    <3>3. Moved(lines, P, p) \in Y /\ w[k] = Moved(lines, P, p) /\ \A i \in 1..(k - 1) : w[i] = u[i]
      BY <3>1
    <3> DEFINE x == Moved(lines, P, p)
    <3> HIDE DEF u, w, Y, x
    <3>4. Append(u, x) \in Seq(Y) /\ Len(Append(u, x)) = k
          /\ \A i \in 1..k : Append(u, x)[i] = IF i = k THEN x ELSE u[i]
      BY <3>1, <3>2, <3>3 DEF x
    <3>5. \A i \in 1..k : Append(u, x)[i] = w[i]
      <4>1. \A i \in 1..k : i = k \/ i \in 1..(k - 1)
        BY <3>1
      <4> QED BY <4>1, <3>3, <3>4 DEF x
    <3>6. Append(u, x) = w
      BY <3>2, <3>4, <3>5, SeqEqual
    <3> QED BY <3>6, <2>1 DEF u, w, x
  <2>7. A[k] = [lines   |-> Meant(lines, Q(k)),
                offset  |-> Len(Meant(lines, Q(k))) - n,
                updated |-> [i \in 1..k |-> Moved(lines, P, s[i])]]
    BY <2>0
  <2> HIDE DEF A, acc, p, R
  <2> QED BY <2>0, <2>4, <2>5, <2>6, <2>7, Zenon DEF acc, p
<1>12. IsLoop(A, lines, s)
  <2>1. A[0] = [lines |-> lines, offset |-> 0, updated |-> <<>>]
    <3>0. Meant(lines, {}) = lines
      BY <1>2, UpperNone
    <3>1. Meant(lines, Q(0)) = lines /\ 0 \in 0..m
      <4>1. Meant(lines, Q(0)) = lines
        BY <1>4, <3>0, Zenon
      <4>2. 0 \in 0..m
        BY <1>1
      <4> QED BY <4>1, <4>2
    <3>2. Len(lines) - n = 0 /\ [i \in 1..0 |-> Moved(lines, P, s[i])] = <<>>
      BY <1>2
    <3>3. A[0] = [lines |-> Meant(lines, Q(0)), offset |-> Len(Meant(lines, Q(0))) - n,
                  updated |-> [i \in 1..0 |-> Moved(lines, P, s[i])]]
      BY <3>1
    <3> HIDE DEF A
    <3> QED BY <3>1, <3>2, <3>3
  <2>2. A = [k \in 0..m |-> A[k]]
    OBVIOUS
  <2> HIDE DEF A
  <2> QED BY <2>1, <2>2, <1>1, <1>11 DEF IsLoop
<1>13. Replaced(lines, P) = A[m]
  <2> HIDE DEF A
  <2>1. Replaced(lines, P) = A[Len(InOrder(P))]
    BY <1>12, ReplacedIs DEF s
  <2> QED BY <2>1 DEF s
<1>14. m \in 0..m
  BY <1>1
<1>15. A[m].lines = Meant(lines, P) /\ A[m].updated = [i \in 1..m |-> Moved(lines, P, s[i])]
  BY <1>4, <1>14
<1> HIDE DEF A
<1> QED BY <1>13, <1>15 DEF AllMoved, s

-----------------------------------------------------------------------------
(* remove_lines.                                                           *)

IsPatch(p) ==
  \E m, s, e, r, o : p = [method |-> m, start |-> s, end |-> e, replacement |-> r, original |-> o]

MovedSo(lines, P, p, q) ==
  /\ q.start = Len(Upper(lines, P, p.start - 1)) + 1
  /\ q.end = Len(Upper(lines, P, p.start - 1)) + Len(p.replacement)
  /\ q.method = p.method /\ q.original = p.original /\ q.replacement = p.replacement

LEMMA MovedIs ==
  ASSUME NEW lines, NEW P, NEW p, IsPatch(p)
  PROVE  MovedSo(lines, P, p, Moved(lines, P, p))
<1> DEFINE a == Len(Upper(lines, P, p.start - 1)) + 1
           b == Len(Upper(lines, P, p.start - 1)) + Len(p.replacement)
           q == [p EXCEPT !.start = a, !.end = b]
<1>1. Moved(lines, P, p) = q
  BY DEF Moved
<1> HIDE DEF a, b
<1>2. PICK m, s, e, r, o : p = [method |-> m, start |-> s, end |-> e, replacement |-> r, original |-> o]
  BY DEF IsPatch
<1>3. q.start = a /\ q.end = b
  BY <1>2
<1>4. q.method = p.method /\ q.original = p.original /\ q.replacement = p.replacement
  BY <1>2
<1> HIDE DEF q
<1> QED BY <1>1, <1>3, <1>4 DEF MovedSo, a, b

\* What is above a line grows with the line.
LEMMA UpperGrows ==
  ASSUME NEW X, NEW lines, NEW P, Fit(P, lines, X), NEW i \in 0..Len(lines), NEW j \in i..Len(lines)
  PROVE  /\ Len(Upper(lines, P, i)) \in Nat /\ Len(Upper(lines, P, j)) \in Nat
         /\ Len(Upper(lines, P, i)) <= Len(Upper(lines, P, j))
<1> DEFINE n == Len(lines)
           L(k) == Len(Upper(lines, P, k))
           T == {d \in 0..(j - i) : L(i) <= L(i + d)}
<1>1. n \in Nat
  <2>1. lines \in Seq(X)
    BY DEF Fit
  <2> QED BY <2>1
<1>2. \A x, y \in Seq(X) : Len(x) \in Nat /\ Len(y) \in Nat /\ Len(x \o y) = Len(x) + Len(y)
  BY ConcatProperties, LenProperties
<1>3. /\ \A k \in 0..n : Upper(lines, P, k) \in Seq(X)
      /\ \A k \in 1..n : Upper(lines, P, k) = Upper(lines, P, k - 1) \o Piece(lines, P, k)
  BY UpperIs
<1>4. \A k \in 0..n : L(k) \in Nat
  BY <1>2, <1>3
<1>5. ASSUME NEW k \in 1..n PROVE L(k - 1) <= L(k)
  <2>1. Piece(lines, P, k) \in Seq(X) /\ k - 1 \in 0..n /\ Upper(lines, P, k - 1) \in Seq(X)
    BY <1>1, <1>3, PieceIs
  <2> DEFINE x == Upper(lines, P, k - 1)
             y == Piece(lines, P, k)
  <2>2. Len(x) \in Nat /\ Len(y) \in Nat /\ Len(x \o y) = Len(x) + Len(y)
    BY <2>1, <1>2
  <2>3. L(k) = Len(x) + Len(y)
    BY <2>2, <1>3
  <2> HIDE DEF x, y
  <2>4. Len(x) <= L(k)
    BY <2>2, <2>3
  <2> QED BY <2>4 DEF x
<1> HIDE DEF L
<1>6. 0 \in T
  BY <1>1, <1>4
<1>7. ASSUME NEW d \in 1..(j - i), d - 1 \in T PROVE d \in T
  <2>1. i + d \in 1..n /\ i + d \in 0..n /\ i + (d - 1) = (i + d) - 1 /\ (i + d) - 1 \in 0..n /\ d \in 0..(j - i)
    BY <1>1
  <2>2. L((i + d) - 1) <= L(i + d) /\ L(i) <= L((i + d) - 1)
    BY <2>1, <1>5, <1>7
  <2>3. L(i) \in Nat /\ L(i + d) \in Nat /\ L((i + d) - 1) \in Nat
    BY <2>1, <1>4
  <2> QED BY <2>1, <2>2, <2>3
<1>8. j - i \in T
  <2> DEFINE m == j - i
  <2>1. m \in Nat /\ \A d \in 1..m : d - 1 \in T => d \in T
    BY <1>1, <1>7
  <2> HIDE DEF T, m
  <2>2. \A d \in 0..m : d \in T
    BY <2>1, <1>6, Induct
  <2> QED BY <2>1, <2>2 DEF m
<1>9. L(i) <= L(j) /\ L(i) \in Nat /\ L(j) \in Nat
  <2>1. i + (j - i) = j /\ j \in 0..n
    BY <1>1
  <2> QED BY <2>1, <1>4, <1>8
<1> QED BY <1>9 DEF L

\* Where an original is put back, and what is there then.
PutsBack(lines, P, R, p) ==
  PutBack(Meant(lines, R \cup {p}), Moved(lines, P, p)) = Meant(lines, R)

\* An original that is put back undoes its patch, if the patches above it still
\* are as they were.
LEMMA PutBackIs ==
  ASSUME NEW X, NEW lines, NEW P, NEW R, NEW p, OneFits(p, R, lines, X), IsPatch(p),
         Upper(lines, P, p.start - 1) = Upper(lines, R, p.start - 1),
         p.original = SubSeq(lines, p.start, p.end)
  PROVE  PutsBack(lines, P, R, p)
<1> DEFINE W == R \cup {p}
           n == Len(lines)
           a == Upper(lines, R, p.start - 1)
           o == SubSeq(lines, p.start, p.end)
           r == p.replacement
           q == Moved(lines, P, p)
<1>0. p \notin R /\ Fit(W, lines, X)
  BY DEF OneFits
<1>1. /\ lines \in Seq(X) /\ n \in Nat /\ p.start \in 1..n /\ p.end \in p.start..n
      /\ r \in Seq(X) /\ n \in p.end..Len(lines)
  <2>1. lines \in Seq(X) /\ r \in Seq(X)
    BY <1>0 DEF Fit
  <2>2. n \in Nat
    BY <2>1
  <2>3. p.start \in 1..n /\ p.end \in p.start..n
    BY <1>0 DEF Fit
  <2> QED BY <2>1, <2>2, <2>3
<1>2. Fit(R, lines, X)
  <2>1. R \in SUBSET W
    OBVIOUS
  <2> HIDE DEF W
  <2> QED BY <1>0, <2>1, FitPart
<1>3. Meant(lines, R) = Upper(lines, R, n) /\ Meant(lines, W) = Upper(lines, W, n)
  <2>1. Meant(lines, R) = Upper(lines, R, n)
    BY <1>2, UpperIs
  <2>2. Meant(lines, W) = Upper(lines, W, n)
    <3> HIDE DEF W
    <3> QED BY <1>0, UpperIs
  <2> QED BY <2>1, <2>2
<1>4. a \in Seq(X)
  <2>1. p.start - 1 \in 0..n
    BY <1>1
  <2> QED BY <2>1, <1>2, UpperIs
<1>5. o \in Seq(X)
  <2>1. \A k \in p.start..p.end : lines[k] \in X
    <3>1. \A k \in 1..Len(lines) : lines[k] \in X
      BY <1>1
    <3> QED BY <3>1, <1>1
  <2>2. p.start \in Int /\ p.end \in Int
    BY <1>1
  <2> QED BY <2>1, <2>2, SubSeqProperties
<1>6. PICK b \in Seq(X) : Exchanged(a, o, r, b, Upper(lines, R, n), Upper(lines, W, n))
  BY <1>0, <1>1, OneMore
<1>7. q.start - 1 = Len(a) /\ q.end = Len(a) + Len(r) /\ q.original = o
  <2>1. q.start = Len(a) + 1 /\ q.end = Len(a) + Len(r) /\ q.original = o
    <3>1. /\ q.start = Len(Upper(lines, P, p.start - 1)) + 1
          /\ q.end = Len(Upper(lines, P, p.start - 1)) + Len(r) /\ q.original = p.original
      <4>1. MovedSo(lines, P, p, q)
        BY MovedIs
      <4> HIDE DEF q
      <4> QED BY <4>1 DEF MovedSo
    <3> QED BY <3>1
  <2>2. Len(a) \in Nat
    BY <1>4
  <2> HIDE DEF q, a, o, r
  <2> QED BY <2>1, <2>2
<1>8. PutBack(Meant(lines, W), q) = Spliced(Meant(lines, W), Len(a), Len(a) + Len(r), o)
  <2> HIDE DEF q, a, o, r, W
  <2> QED BY <1>7 DEF PutBack
<1>9. Spliced(Meant(lines, W), Len(a), Len(a) + Len(r), o) = Meant(lines, R)
  <2> HIDE DEF a, o, r, W, n
  <2>1. r \in Seq(X) /\ a \in Seq(X) /\ o \in Seq(X) /\ b \in Seq(X)
    BY <1>1, <1>4, <1>5, <1>6
  <2>2. \A x, y, z, w \in Seq(X) : Spliced(Joined(x, y, w), Len(x), Len(x) + Len(y), z) = Joined(x, z, w)
    BY SplicedIs
  <2>3. Spliced(Joined(a, r, b), Len(a), Len(a) + Len(r), o) = Joined(a, o, b)
    BY <2>1, <2>2
  <2>4. Meant(lines, W) = Joined(a, r, b) /\ Meant(lines, R) = Joined(a, o, b)
    BY <1>3, <1>6 DEF Exchanged
  <2> QED BY <2>3, <2>4
<1> HIDE DEF a, o, r, n, q, W
<1>10. PutBack(Meant(lines, W), q) = Meant(lines, R)
  BY <1>8, <1>9
<1> QED BY <1>10 DEF PutsBack, q, W

FromBelow(undo) == Sorted(DOMAIN undo, [i \in DOMAIN undo |-> <<0 - undo[i].start, i>>])

IsUndoLoop(B, lines, undo, order) ==
  /\ Len(order) \in Nat /\ B = [k \in 0..Len(order) |-> B[k]] /\ B[0] = lines
  /\ \A k \in 1..Len(order) : B[k] = PutBack(B[k - 1], undo[order[k]])

LEMMA RemovedIs ==
  ASSUME NEW lines, NEW undo, NEW B, IsUndoLoop(B, lines, undo, FromBelow(undo))
  PROVE  Removed(lines, undo) = B[Len(FromBelow(undo))]
<1> DEFINE order == FromBelow(undo)
           m == Len(order)
           body(f) == [k \in 0..m |-> IF k = 0 THEN lines ELSE PutBack(f[k - 1], undo[order[k]])]
           rest == CHOOSE f : f = body(f)
           T == {k \in 0..m : rest[k] = B[k]}
<1>1. /\ m \in Nat /\ B = [k \in 0..m |-> B[k]] /\ B[0] = lines
      /\ \A k \in 1..m : B[k] = PutBack(B[k - 1], undo[order[k]])
  BY DEF IsUndoLoop
<1> HIDE DEF order
<1>2. B = body(B)
  <2>1. \A k \in 0..m : B[k] = IF k = 0 THEN lines ELSE PutBack(B[k - 1], undo[order[k]])
    <3>1. \A k \in 0..m : k = 0 \/ k \in 1..m
      BY <1>1
    <3> HIDE DEF m
    <3> QED BY <1>1, <3>1
  <2> HIDE DEF m
  <2> QED BY <2>1, <1>1
<1>3. rest = body(rest)
  BY <1>2
<1>4. Removed(lines, undo) = rest[m]
  BY DEF Removed, FromBelow, order
<1> HIDE DEF rest
<1>5. rest[0] = lines /\ \A k \in 1..m : rest[k] = PutBack(rest[k - 1], undo[order[k]])
  <2> HIDE DEF m
  <2>1. \A k \in 0..m : rest[k] = IF k = 0 THEN lines ELSE PutBack(rest[k - 1], undo[order[k]])
    BY <1>3
  <2>2. 0 \in 0..m /\ \A k \in 1..m : k \in 0..m /\ k # 0
    BY <1>1
  <2> QED BY <2>1, <2>2, Zenon
<1> HIDE DEF m
<1>6. 0 \in T
  <2>1. 0 \in 0..m /\ rest[0] = B[0]
    BY <1>1, <1>5
  <2> QED BY <2>1
<1>7. ASSUME NEW k \in 1..m, k - 1 \in T PROVE k \in T
  <2>1. k \in 0..m /\ rest[k - 1] = B[k - 1]
    BY <1>1, <1>7
  <2>2. rest[k] = B[k]
    BY <2>1, <1>1, <1>5
  <2> QED BY <2>1, <2>2
<1>8. \A k \in 0..m : k \in T
  <2> HIDE DEF T
  <2> QED BY <1>1, <1>6, <1>7, Induct
<1>9. rest[m] = B[m]
  BY <1>1, <1>8
<1> QED BY <1>4, <1>9 DEF m, order

\* What is taken back: some of the patches, as they were moved.
Takes(undo, F, lines, P) ==
  /\ undo \in Seq({Moved(lines, P, p) : p \in P})
  /\ Range(undo) = {Moved(lines, P, p) : p \in F}
  /\ \A i, j \in DOMAIN undo : undo[i].start = undo[j].start => i = j

\* The order in which patches are taken back.
LEMMA FromBelowSorts ==
  ASSUME NEW U, NEW undo \in Seq(U), \A u \in U : u.start \in Nat
  PROVE  /\ FromBelow(undo) \in Seq(DOMAIN undo) /\ Len(FromBelow(undo)) \in Nat
         /\ \A i \in 1..Len(FromBelow(undo)) : FromBelow(undo)[i] \in DOMAIN undo
         /\ Range(FromBelow(undo)) = DOMAIN undo
         /\ \A i, j \in 1..Len(FromBelow(undo)) :
              i < j => /\ FromBelow(undo)[i] # FromBelow(undo)[j]
                       /\ undo[FromBelow(undo)[j]].start <= undo[FromBelow(undo)[i]].start
<1> DEFINE D == DOMAIN undo
           key == [i \in D |-> <<0 - undo[i].start, i>>]
           s == FromBelow(undo)
<1>3. D = 1..Len(undo) /\ Len(undo) \in Nat /\ IsFiniteSet(D) /\ \A i \in D : undo[i].start \in Nat
  <2>1. D = 1..Len(undo) /\ Len(undo) \in Nat /\ \A i \in D : undo[i] \in U
    OBVIOUS
  <2>2. IsFiniteSet(1..Len(undo))
    BY <2>1, FS_Interval
  <2> QED BY <2>1, <2>2
<1>4. \A i \in D : key[i] \in SortKeys /\ key[i][1] = 0 - undo[i].start
  <2>1. \A i \in D : 0 - undo[i].start \in Int /\ i \in Int
    BY <1>3
  <2> HIDE DEF D
  <2> QED BY <2>1 DEF SortKeys
<1>5. IsSorting(Sorted(D, key), D, key)
  <2> HIDE DEF key, D
  <2> QED BY <1>3, <1>4, SortedIs
<1>6. s = Sorted(D, key)
  BY DEF FromBelow
<1> HIDE DEF s, key, D
<1>7. s \in Seq(D) /\ Range(s) = D
      /\ \A i \in 1..Len(s), j \in 1..Len(s) : i < j => s[i] # s[j] /\ Below(key[s[i]], key[s[j]])
  BY <1>5, <1>6 DEF IsSorting
<1>8. Len(s) \in Nat /\ \A i \in 1..Len(s) : s[i] \in D
  BY <1>7
<1>9. ASSUME NEW i \in 1..Len(s), NEW j \in 1..Len(s), i < j
      PROVE  s[i] # s[j] /\ undo[s[j]].start <= undo[s[i]].start
  <2>1. s[i] \in D /\ s[j] \in D /\ s[i] # s[j] /\ Below(key[s[i]], key[s[j]])
    BY <1>7, <1>8, <1>9
  <2> DEFINE a == undo[s[i]].start
             b == undo[s[j]].start
  <2>2. a \in Nat /\ b \in Nat
    BY <1>3, <2>1
  <2>4. key[s[i]][1] = 0 - a /\ key[s[j]][1] = 0 - b
    BY <1>4, <2>1
  <2>5. 0 - a <= 0 - b
    <3> HIDE DEF a, b
    <3>1. 0 - a \in Int /\ 0 - b \in Int
      BY <2>2
    <3> QED BY <2>1, <2>4, <3>1 DEF Below
  <2> HIDE DEF a, b
  <2>6. b <= a
    BY <2>2, <2>5
  <2> QED BY <2>1, <2>6 DEF a, b
<1> QED BY <1>7, <1>8, <1>9 DEF s, D

LEMMA FromBelowIs ==
  ASSUME NEW X, NEW lines, NEW P, Fit(P, lines, X), \A p \in P : IsPatch(p),
         NEW F \in SUBSET P, NEW undo, Takes(undo, F, lines, P)
  PROVE  /\ FromBelow(undo) \in Seq(DOMAIN undo) /\ Len(FromBelow(undo)) \in Nat
         /\ \A i \in 1..Len(FromBelow(undo)) : FromBelow(undo)[i] \in DOMAIN undo
         /\ Range(FromBelow(undo)) = DOMAIN undo
         /\ \A i, j \in 1..Len(FromBelow(undo)) :
              i < j => undo[FromBelow(undo)[j]].start < undo[FromBelow(undo)[i]].start
<1> DEFINE M == {Moved(lines, P, p) : p \in P}
           s == FromBelow(undo)
<1>1. lines \in Seq(X) /\ Len(lines) \in Nat /\ \A p \in P : p.start - 1 \in 0..Len(lines)
  <2>1. lines \in Seq(X)
    BY DEF Fit
  <2>2. Len(lines) \in Nat
    BY <2>1
  <2> QED BY <2>1, <2>2 DEF Fit
<1>2. \A p \in P : Moved(lines, P, p).start \in Nat
  <2> TAKE p \in P
  <2>1. p.start - 1 \in 0..Len(lines)
    BY <1>1
  <2>2. Upper(lines, P, p.start - 1) \in Seq(X)
    BY <2>1, UpperIs
  <2>3. Len(Upper(lines, P, p.start - 1)) \in Nat
    BY <2>2
  <2>4. MovedSo(lines, P, p, Moved(lines, P, p))
    BY MovedIs
  <2> QED BY <2>3, <2>4 DEF MovedSo
<1>3. undo \in Seq(M) /\ \A u \in M : u.start \in Nat
  BY <1>2 DEF Takes
<1> HIDE DEF M
<1>4. /\ s \in Seq(DOMAIN undo) /\ Len(s) \in Nat /\ \A i \in 1..Len(s) : s[i] \in DOMAIN undo
      /\ Range(s) = DOMAIN undo
      /\ \A i, j \in 1..Len(s) : i < j => s[i] # s[j] /\ undo[s[j]].start <= undo[s[i]].start
  BY <1>3, FromBelowSorts
<1> HIDE DEF s
<1>5. ASSUME NEW i \in 1..Len(s), NEW j \in 1..Len(s), i < j
      PROVE  undo[s[j]].start < undo[s[i]].start
  <2>1. s[i] \in DOMAIN undo /\ s[j] \in DOMAIN undo /\ s[i] # s[j]
        /\ undo[s[j]].start <= undo[s[i]].start
    BY <1>4, <1>5
  <2>2. undo[s[j]].start # undo[s[i]].start
    BY <2>1 DEF Takes
  <2>3. undo[s[i]].start \in Nat /\ undo[s[j]].start \in Nat
    BY <2>1, <1>3
  <2> QED BY <2>1, <2>2, <2>3
<1> QED BY <1>4, <1>5 DEF s

\* remove_lines of any of them: if their originals are what they replaced and
\* no two are found to begin in the same line, the file is as if only the
\* others had been made.
THEOREM RemovedFit ==
  ASSUME NEW X, NEW lines, NEW P, Fit(P, lines, X), \A p \in P : IsPatch(p),
         \A p, q \in P : p.method = q.method => p = q,
         NEW F \in SUBSET P, \A p \in F : p.original = SubSeq(lines, p.start, p.end),
         NEW undo, Takes(undo, F, lines, P)
  PROVE  Removed(Meant(lines, P), undo) = Meant(lines, P \ F)
<1> DEFINE s == FromBelow(undo)
           m == Len(s)
           n == Len(lines)
           w(i) == CHOOSE p \in F : Moved(lines, P, p) = undo[s[i]]
           G(k) == {w(i) : i \in 1..k}
           B == [k \in 0..m |-> Meant(lines, P \ G(k))]
<1>1. /\ s \in Seq(DOMAIN undo) /\ m \in Nat /\ \A i \in 1..m : s[i] \in DOMAIN undo
      /\ Range(s) = DOMAIN undo
      /\ \A i, j \in 1..m : i < j => undo[s[j]].start < undo[s[i]].start
  BY FromBelowIs
<1> HIDE DEF s
<1>2. /\ lines \in Seq(X) /\ n \in Nat
      /\ \A p \in P : p.start \in Nat /\ p.start - 1 \in 0..n /\ p.start <= n
      /\ \A p \in P : MovedSo(lines, P, p, Moved(lines, P, p))
  <2>1. lines \in Seq(X)
    BY DEF Fit
  <2>2. n \in Nat
    BY <2>1
  <2>3. \A p \in P : p.start \in Nat /\ p.start - 1 \in 0..n /\ p.start <= n
    BY <2>2 DEF Fit
  <2>4. \A p \in P : MovedSo(lines, P, p, Moved(lines, P, p))
    BY MovedIs
  <2> QED BY <2>1, <2>2, <2>3, <2>4
<1>3. ASSUME NEW p \in P, NEW q \in P, Moved(lines, P, p) = Moved(lines, P, q) PROVE p = q
  <2>1. MovedSo(lines, P, p, Moved(lines, P, p)) /\ MovedSo(lines, P, q, Moved(lines, P, q))
    BY <1>2
  <2> QED BY <2>1, <1>3 DEF MovedSo
<1>4. ASSUME NEW i \in 1..m PROVE w(i) \in F /\ w(i) \in P /\ Moved(lines, P, w(i)) = undo[s[i]]
  <2>1. undo[s[i]] \in Range(undo)
    BY <1>1 DEF Range
  <2>2. \E p \in F : Moved(lines, P, p) = undo[s[i]]
    BY <2>1 DEF Takes
  <2> QED BY <2>2
<1> HIDE DEF w
<1>5. G(0) = {} /\ G(m) = F
  <2>1. G(m) \subseteq F
    BY <1>4
  <2>2. ASSUME NEW p \in F PROVE p \in G(m)
    <3>1. Moved(lines, P, p) \in Range(undo)
      BY DEF Takes
    <3>2. PICK d \in DOMAIN undo : undo[d] = Moved(lines, P, p)
      BY <3>1 DEF Range
    <3>3. PICK i \in DOMAIN s : s[i] = d
      BY <1>1 DEF Range
    <3>4. i \in 1..m
      BY <1>1
    <3>5. w(i) = p
      BY <3>2, <3>3, <3>4, <1>3, <1>4
    <3> QED BY <3>4, <3>5
  <2> QED BY <2>1, <2>2
<1>6. ASSUME NEW i \in 1..m, NEW j \in 1..m, i < j PROVE w(j).start < w(i).start
  <2> DEFINE p == w(i)
             q == w(j)
  <2>1. p \in P /\ q \in P /\ Moved(lines, P, p) = undo[s[i]] /\ Moved(lines, P, q) = undo[s[j]]
    BY <1>4
  <2> HIDE DEF p, q
  <2>2. Moved(lines, P, q).start < Moved(lines, P, p).start
    BY <2>1, <1>1, <1>6
  <2>3. /\ Moved(lines, P, p).start = Len(Upper(lines, P, p.start - 1)) + 1
        /\ Moved(lines, P, q).start = Len(Upper(lines, P, q.start - 1)) + 1
    <3>1. MovedSo(lines, P, p, Moved(lines, P, p)) /\ MovedSo(lines, P, q, Moved(lines, P, q))
      BY <1>2, <2>1
    <3> QED BY <3>1 DEF MovedSo
  <2>4. ASSUME p.start <= q.start PROVE FALSE
    <3> DEFINE a == p.start - 1
               b == q.start - 1
    <3>1. a \in 0..Len(lines) /\ b \in a..Len(lines)
      BY <1>2, <2>1, <2>4
    <3> HIDE DEF a, b
    <3>2. /\ Len(Upper(lines, P, a)) \in Nat /\ Len(Upper(lines, P, b)) \in Nat
          /\ Len(Upper(lines, P, a)) <= Len(Upper(lines, P, b))
      BY <3>1, UpperGrows
    <3>3. Moved(lines, P, p).start = Len(Upper(lines, P, a)) + 1
          /\ Moved(lines, P, q).start = Len(Upper(lines, P, b)) + 1
      BY <2>3 DEF a, b
    <3> QED BY <2>2, <3>2, <3>3
  <2>5. p.start \in Nat /\ q.start \in Nat
    BY <1>2, <2>1
  <2>6. q.start < p.start
    BY <2>4, <2>5
  <2> QED BY <2>6 DEF p, q
<1>7. ASSUME NEW k \in 1..m PROVE B[k] = PutBack(B[k - 1], undo[s[k]])
  <2> DEFINE p == w(k)
             R == P \ G(k)
  <2>0. k \in 0..m /\ k - 1 \in 0..m /\ p \in F /\ p \in P /\ Moved(lines, P, p) = undo[s[k]]
    BY <1>1, <1>4
  <2>1. 1..k = (1..(k - 1)) \cup {k} /\ \A i \in 1..(k - 1) : i \in 1..m /\ i < k
    BY <1>1
  <2>2. G(k) = G(k - 1) \cup {p}
    BY <2>1
  <2>3. \A q \in G(k - 1) : q \in P /\ p.start < q.start
    BY <2>1, <1>4, <1>6
  <2>4. p \notin G(k - 1)
    <3>1. ~(p.start < p.start)
      BY <2>0, <1>2
    <3> QED BY <3>1, <2>3
  <2>5. P \ G(k - 1) = R \cup {p} /\ p \notin R /\ R \in SUBSET P /\ R \cup {p} \in SUBSET P
    <3> HIDE DEF p, G
    <3> QED BY <2>0, <2>2, <2>4
  <2> HIDE DEF G
  <2>6. OneFits(p, R, lines, X) /\ Fit(R, lines, X)
    <3> HIDE DEF p, R
    <3>1. Fit(R \cup {p}, lines, X) /\ Fit(R, lines, X)
      BY <2>5, FitPart
    <3> QED BY <2>5, <3>1 DEF OneFits
  <2>7. Upper(lines, P, p.start - 1) = Upper(lines, R, p.start - 1)
    <3>1. \A q \in (P \ R) \cup (R \ P) : p.start - 1 < q.start
      <4>1. \A q \in (P \ R) \cup (R \ P) : q \in P /\ (q = p \/ q \in G(k - 1))
        BY <2>0, <2>2, <2>5
      <4>2. \A q \in P : q.start \in Nat
        BY <1>2
      <4> HIDE DEF R, p
      <4> QED BY <4>1, <4>2, <2>0, <2>3
    <3>2. p.start - 1 \in 0..Len(lines)
      BY <1>2, <2>0
    <3> HIDE DEF R, p
    <3> QED BY <3>1, <3>2, <2>6, UpperAgrees
  <2>8. PutsBack(lines, P, R, p)
    <3> HIDE DEF R, p
    <3>1. IsPatch(p) /\ p.original = SubSeq(lines, p.start, p.end)
      BY <2>0
    <3> QED BY <3>1, <2>6, <2>7, PutBackIs
  <2>9. B[k] = Meant(lines, R) /\ B[k - 1] = Meant(lines, R \cup {p})
    <3>1. B[k] = Meant(lines, P \ G(k)) /\ B[k - 1] = Meant(lines, P \ G(k - 1))
      BY <2>0
    <3> HIDE DEF B, p
    <3> QED BY <3>1, <2>5
  <2> HIDE DEF B, p, R
  <2> QED BY <2>0, <2>8, <2>9 DEF PutsBack
<1>8. IsUndoLoop(B, Meant(lines, P), undo, s)
  <2>1. B[0] = Meant(lines, P)
    <3>1. P \ G(0) = P /\ 0 \in 0..m
      BY <1>1, <1>5
    <3> HIDE DEF G
    <3>2. B[0] = Meant(lines, P \ G(0))
      BY <3>1
    <3> HIDE DEF B
    <3> QED BY <3>1, <3>2
  <2>2. B = [k \in 0..m |-> B[k]]
    OBVIOUS
  <2> HIDE DEF B
  <2> QED BY <2>1, <2>2, <1>1, <1>7 DEF IsUndoLoop
<1>9. Removed(Meant(lines, P), undo) = B[m]
  <2> HIDE DEF B
  <2>1. Removed(Meant(lines, P), undo) = B[Len(FromBelow(undo))]
    BY <1>8, RemovedIs DEF s
  <2> QED BY <2>1 DEF s
<1>10. B[m] = Meant(lines, P \ F)
  <2>1. m \in 0..m
    BY <1>1
  <2>2. B[m] = Meant(lines, P \ G(m))
    BY <2>1
  <2> HIDE DEF B, G
  <2> QED BY <2>2, <1>5
<1> QED BY <1>9, <1>10

-----------------------------------------------------------------------------
(* Any patches, also of lines that the file has not.                       *)

\* Slices of lines are lines.
LEMMA SplicedTyped ==
  ASSUME NEW X, NEW lines \in Seq(X), NEW start \in Nat, NEW end \in Nat, NEW new \in Seq(X)
  PROVE  Spliced(lines, start, end, new) \in Seq(X)
<1> DEFINE n == Len(lines)
           k == IF start < n THEN start ELSE n
<1>1. n \in Nat /\ k \in 0..n /\ \A i \in 1..n : lines[i] \in X
  OBVIOUS
<1>2. UpTo(lines, start) \in Seq(X)
  <2>1. UpTo(lines, start) = SubSeq(lines, 1, k)
    BY DEF UpTo
  <2> HIDE DEF k, n
  <2>2. SubSeq(lines, 1, k) \in Seq(X)
    BY <1>1, SubSeqProperties
  <2> QED BY <2>1, <2>2
<1>3. SubSeq(lines, end + 1, n) \in Seq(X)
  <2>1. end + 1 \in Int /\ n \in Int /\ \A i \in (end + 1)..n : lines[i] \in X
    BY <1>1
  <2> HIDE DEF n
  <2> QED BY <2>1, SubSeqProperties
<1> HIDE DEF n
<1>4. (UpTo(lines, start) \o new) \o SubSeq(lines, end + 1, n) \in Seq(X)
  BY <1>2, <1>3, ConcatProperties
<1> QED BY <1>4 DEF Spliced, n

Edits(P, X, U) ==
  /\ Spans(P) /\ \A p \in P : p.start > 0 /\ p.replacement \in Seq(X)
  /\ \A p \in P, i \in Nat \ {0}, j \in Nat : [p EXCEPT !.start = i, !.end = j] \in U

Turns(X, U) == [lines : Seq(X), offset : Int, updated : Seq(U)]

\* One turn of the loop; the offset never falls below what a patch may remove.
LEMMA ReplaceTyped ==
  ASSUME NEW X, NEW U, NEW P, Edits(P, X, U), NEW acc \in Turns(X, U), NEW p \in P,
         p.start - 1 + acc.offset >= 0
  PROVE  /\ Replace(acc, p) \in Turns(X, U)
         /\ Replace(acc, p).offset >= acc.offset - (p.end - p.start + 1)
<1> DEFINE start == p.start - 1 + acc.offset
           size  == Len(p.replacement)
           ls    == Spliced(acc.lines, start, p.end + acc.offset, p.replacement)
           off   == acc.offset + size - (p.end - p.start + 1)
           u     == [p EXCEPT !.start = start + 1, !.end = start + size]
<1>1. acc.lines \in Seq(X) /\ acc.offset \in Int /\ acc.updated \in Seq(U)
  BY DEF Turns
<1>2. p.start \in Nat /\ p.end \in Nat /\ p.start <= p.end /\ p.start > 0 /\ p.replacement \in Seq(X)
  BY DEF Edits, Spans
<1>3. size \in Nat
  BY <1>2
<1>4. start \in Nat /\ p.end + acc.offset \in Nat
  BY <1>1, <1>2
<1>5. ls \in Seq(X)
  <2> HIDE DEF start
  <2> QED BY <1>1, <1>2, <1>4, SplicedTyped
<1>6. off \in Int /\ off >= acc.offset - (p.end - p.start + 1)
  <2> HIDE DEF size
  <2> QED BY <1>1, <1>2, <1>3
<1>7. Append(acc.updated, u) \in Seq(U)
  <2> HIDE DEF size, start
  <2>1. start + 1 \in Nat \ {0} /\ start + size \in Nat
    BY <1>3, <1>4
  <2>2. u \in U
    BY <2>1 DEF Edits
  <2> HIDE DEF u
  <2> QED BY <1>1, <2>2
<1>8. Replace(acc, p) = [lines |-> ls, offset |-> off, updated |-> Append(acc.updated, u)]
  BY DEF Replace
<1> HIDE DEF ls, off, u
<1> QED BY <1>5, <1>6, <1>7, <1>8 DEF Turns

\* Patches that do not overlap leave lines, and are recorded with places.
LEMMA ReplacedTyped ==
  ASSUME NEW X, NEW U, NEW lines \in Seq(X), NEW P, Edits(P, X, U)
  PROVE  Replaced(lines, P) \in Turns(X, U)
<1> DEFINE s == InOrder(P)
           m == Len(s)
           S == Turns(X, U)
           b == [lines |-> lines, offset |-> 0, updated |-> <<>>]
           F == [k \in 1..m |-> [a \in S |-> IF Replace(a, s[k]) \in S THEN Replace(a, s[k]) ELSE a]]
           Gap(k) == IF k = 0 THEN 0 ELSE s[k].end
<1>1. /\ s \in Seq(P) /\ m \in Nat
      /\ \A i, j \in 1..m : i < j => s[i].end < s[j].start
  BY OrderIs DEF Edits
<1> HIDE DEF s
<1>2. \A i \in 1..m : s[i] \in P
  BY <1>1
<1>3. \A p \in P : p.start \in Nat /\ p.end \in Nat /\ p.start <= p.end /\ p.start > 0
  BY DEF Edits, Spans
<1>4. b \in S
  BY DEF Turns
<1>5. PICK A \in [0..m -> S] : \A k \in 0..m : A[k] = IF k = 0 THEN b ELSE F[k][A[k - 1]]
  <2>1. F \in [1..m -> [S -> S]]
    <3> HIDE DEF S
    <3> QED OBVIOUS
  <2> HIDE DEF F, S, b
  <2>2. Steps(m, S, b, F)
    BY <1>1, <1>4, <2>1 DEF Steps
  <2>3. Result(m, S, b, F)
    BY <2>2, Recursion
  <2> QED BY <2>3 DEF Result
<1>6. A[0] = b /\ \A k \in 1..m : A[k] = IF Replace(A[k - 1], s[k]) \in S THEN Replace(A[k - 1], s[k]) ELSE A[k - 1]
  <2>1. \A k \in 1..m : k \in 0..m /\ k - 1 \in 0..m /\ k # 0
    BY <1>1
  <2>2. 0 \in 0..m
    BY <1>1
  <2>3. A[0] = b
    BY <1>5, <2>2
  <2>4. \A k \in 1..m : A[k] = F[k][A[k - 1]] /\ A[k - 1] \in S
    <3> HIDE DEF F, S, b
    <3> QED BY <1>5, <2>1
  <2> HIDE DEF S, b
  <2> QED BY <2>3, <2>4
<1> DEFINE Far(k) == A[k].offset >= 0 - Gap(k) /\ (k # 0 => A[k] = Replace(A[k - 1], s[k]))
           T == {k \in 0..m : Far(k)}
<1> HIDE DEF F
<1>7. 0 \in T
  <2>1. A[0].offset = 0
    BY <1>6
  <2>2. 0 \in 0..m /\ Gap(0) = 0
    BY <1>1
  <2> HIDE DEF Gap
  <2> QED BY <2>1, <2>2
<1>8. ASSUME NEW k \in 1..m, k - 1 \in T PROVE k \in T
  <2> DEFINE p == s[k]
             a == A[k - 1]
  <2>1. k \in 0..m /\ k - 1 \in 0..m /\ k # 0 /\ p \in P /\ a \in S
    <3>1. k \in 0..m /\ k - 1 \in 0..m /\ k # 0
      BY <1>1
    <3> HIDE DEF S, m
    <3>2. a \in S
      BY <1>5, <3>1
    <3> QED BY <1>2, <3>1, <3>2
  <2>2. a.offset >= 0 - Gap(k - 1) /\ a.offset \in Int
    <3>1. Far(k - 1)
      BY <1>8
    <3>2. a.offset \in Int
      BY <2>1 DEF Turns
    <3> QED BY <3>1, <3>2
  <2>3. Gap(k - 1) \in Nat /\ Gap(k - 1) <= p.start - 1
    <3>1. CASE k = 1
      BY <3>1, <2>1, <1>3
    <3>2. CASE k # 1
      <4>1. k - 1 \in 1..m /\ k - 1 < k /\ k - 1 # 0
        BY <3>2, <1>1
      <4>2. s[k - 1].end < p.start /\ s[k - 1] \in P
        BY <4>1, <1>1, <1>2
      <4>3. s[k - 1].end \in Nat /\ p.start \in Nat
        BY <4>2, <2>1, <1>3
      <4> QED BY <4>1, <4>2, <4>3
    <3> QED BY <3>1, <3>2
  <2>4. p.start \in Nat /\ p.end \in Nat
    BY <2>1, <1>3
  <2> HIDE DEF a, p
  <2>5. p.start - 1 + a.offset >= 0
    <3> HIDE DEF Gap
    <3> QED BY <2>2, <2>3, <2>4
  <2>6. Replace(a, p) \in S /\ Replace(a, p).offset >= a.offset - (p.end - p.start + 1)
    BY <2>1, <2>5, ReplaceTyped
  <2>7. A[k] = Replace(a, p)
    BY <2>6, <1>6 DEF a, p
  <2>8. A[k].offset \in Int
    BY <2>6, <2>7 DEF Turns
  <2>9. Gap(k) = p.end
    BY <2>1 DEF p
  <2>10. A[k].offset >= 0 - Gap(k)
    <3>1. A[k].offset >= a.offset - (p.end - p.start + 1)
      BY <2>6, <2>7
    <3> HIDE DEF Gap
    <3> QED BY <3>1, <2>2, <2>3, <2>4, <2>8, <2>9
  <2> QED BY <2>1, <2>7, <2>10 DEF a, p
<1>9. \A k \in 0..m : k \in T
  <2> HIDE DEF T, m
  <2> QED BY <1>1, <1>7, <1>8, Induct
<1>10. \A k \in 1..m : A[k] = Replace(A[k - 1], s[k])
  <2>1. \A k \in 1..m : k \in 0..m /\ k # 0
    BY <1>1
  <2> QED BY <2>1, <1>9
<1>11. IsLoop(A, lines, s)
  <2>1. A = [k \in 0..m |-> A[k]]
    BY <1>5
  <2> QED BY <1>1, <1>6, <1>10, <2>1 DEF IsLoop
<1>12. Replaced(lines, P) = A[m]
  BY <1>11, ReplacedIs DEF s
<1>13. A[m] \in S
  BY <1>1, <1>5
<1> QED BY <1>12, <1>13

\* Taking back any patches.
LEMMA RemovedTyped ==
  ASSUME NEW X, NEW lines \in Seq(X), NEW U, NEW undo \in Seq(U),
         \A u \in U : u.start \in Nat \ {0} /\ u.end \in Nat /\ u.original \in Seq(X)
  PROVE  Removed(lines, undo) \in Seq(X)
<1> DEFINE s == FromBelow(undo)
           m == Len(s)
           S == Seq(X)
           F == [k \in 1..m |-> [a \in S |-> PutBack(a, undo[s[k]])]]
<1>1. m \in Nat /\ \A i \in 1..m : s[i] \in DOMAIN undo
  <2>1. \A u \in U : u.start \in Nat
    OBVIOUS
  <2> QED BY <2>1, FromBelowSorts
<1> HIDE DEF s
<1>2. ASSUME NEW k \in 1..m, NEW a \in S PROVE PutBack(a, undo[s[k]]) \in S
  <2> DEFINE u == undo[s[k]]
  <2>1. u \in U
    BY <1>1
  <2> HIDE DEF u
  <2>2. u.start - 1 \in Nat /\ u.end \in Nat /\ u.original \in Seq(X)
    BY <2>1
  <2>3. PutBack(a, u) \in S
    BY <2>2, SplicedTyped DEF PutBack
  <2> QED BY <2>3 DEF u
<1>3. PICK A \in [0..m -> S] : \A k \in 0..m : A[k] = IF k = 0 THEN lines ELSE F[k][A[k - 1]]
  <2> HIDE DEF S
  <2>1. F \in [1..m -> [S -> S]]
    BY <1>2
  <2>2. lines \in S
    BY DEF S
  <2> HIDE DEF F
  <2>3. Steps(m, S, lines, F)
    BY <1>1, <2>1, <2>2 DEF Steps
  <2>4. Result(m, S, lines, F)
    BY <2>3, Recursion
  <2> QED BY <2>4 DEF Result
<1>4. A[0] = lines /\ \A k \in 1..m : A[k] = PutBack(A[k - 1], undo[s[k]])
  <2>1. 0 \in 0..m /\ \A k \in 1..m : k \in 0..m /\ k - 1 \in 0..m /\ k # 0
    BY <1>1
  <2> HIDE DEF S
  <2>2. \A k \in 1..m : A[k] = F[k][A[k - 1]] /\ A[k - 1] \in S
    <3> HIDE DEF F
    <3> QED BY <1>3, <2>1
  <2>3. A[0] = lines
    <3> HIDE DEF F
    <3> QED BY <1>3, <2>1
  <2> QED BY <2>2, <2>3
<1>5. IsUndoLoop(A, lines, undo, s)
  <2>1. A = [k \in 0..m |-> A[k]]
    BY <1>3
  <2> HIDE DEF F
  <2> QED BY <1>1, <1>4, <2>1 DEF IsUndoLoop
<1>6. Removed(lines, undo) = A[m]
  <2> HIDE DEF F
  <2>1. Removed(lines, undo) = A[Len(FromBelow(undo))]
    BY <1>5, RemovedIs DEF s
  <2> QED BY <2>1 DEF s
<1>7. A[m] \in S
  BY <1>1, <1>3
<1> QED BY <1>6, <1>7

-----------------------------------------------------------------------------
(* The runs.                                                               *)

ItemSet ==
  [test : Tests, target : {"NONE", "TEST", "SERVICE"},
   service : Services \cup {NoFile}, patch : Replacements \cup {NoPatch}]

\* An item blames a service only with the file of one.
ItemsOK ==
  /\ items \in Seq(ItemSet)
  /\ \A i \in DOMAIN items : items[i].target = "SERVICE" => items[i].service \in Services

GroupsOK == groups \in Seq([key : Files, skeleton : BOOLEAN, tests : SUBSET Tests])

\* The phases in which the pipeline is at one group, whose branch is checked
\* out from "patch" on.
OnBranch == {"patch", "validate", "undo", "add", "commit"}
AtGroup  == {"branch"} \cup OnBranch

PositionOK ==
  /\ at \in 1..(1 + Len(items))
  /\ phase \in {"repair", "grouping"} => at = 1
  /\ phase \in AtGroup \cup {"push", "pr"} => at \in 1..Len(groups) /\ Len(groups) <= Len(items)

IsContent(c) == c \in [Files -> Seq(Lines)]

\* Branches hold all files, and so do the working tree and the index.
CloneOK ==
  /\ IsContent(tree) /\ IsContent(index)
  /\ branches = [b \in Branches |-> branches[b]]
  /\ \A b \in Branches : branches[b] # Absent => IsContent(branches[b])
  /\ head \in Branches \cup {NoBranch} /\ IsContent(Committed)

\* Between two groups nothing is uncommitted; within one, only its file is,
\* and it reaches the index when it is added.
CleanOK ==
  /\ phase \in {"analysis", "repair", "grouping", "branch"} =>
       tree = Committed /\ index = Committed
  /\ phase \in OnBranch =>
       /\ head = Branch[Group.key]
       /\ \A f \in Files \ {Group.key} : tree[f] = Committed[f]
       /\ index = IF phase = "commit" THEN tree ELSE Committed

RepairInv == ItemsOK /\ GroupsOK /\ PositionOK /\ CloneOK /\ CleanOK

Updates ==
  [method : {Method[t] : t \in Tests}, start : Nat \ {0}, end : Nat,
   replacement : Replacements, original : Seq(Lines)]

\* What the other variables hold.
RestOK ==
  /\ runs \in 0..MaxRuns /\ phase \in Phases
  /\ failed \subseteq {Method[t] : t \in Tests} /\ updated \in Seq(Updates)
  /\ phase \in {"push", "pr"} => head \in Branches
  /\ remote \in [Branches -> [Files -> Seq(Lines)] \cup {Absent}]
  /\ prs \subseteq [source : Branches, target : Branches]

-----------------------------------------------------------------------------
LEMMA ConstantsKnown ==
  /\ TestFile \in [Tests -> Files] /\ Services \subseteq Files
  /\ Branch \in [Files -> Branches] /\ NoBranch \notin Branches
  /\ NoFile \notin Files /\ NoPatch \notin Replacements
  /\ IsContent(Base)
BY RepairAssumption DEF IsContent

USE ConstantsKnown

LEMMA RepairInitially == Init => RepairInv
<1> SUFFICES ASSUME Init PROVE RepairInv
  OBVIOUS
<1>1. ItemsOK /\ GroupsOK
  BY DEF Init, ItemsOK, GroupsOK
<1>2. PositionOK /\ CleanOK
  BY DEF Init, PositionOK, CleanOK, AtGroup, OnBranch
<1>3. CloneOK
  BY DEF Init, CloneOK, IsContent, Committed
<1> QED BY <1>1, <1>2, <1>3 DEF RepairInv

\* Items that keep to their set, each in its place.
LEMMA ItemsReplaced ==
  ASSUME ItemsOK, items' = [i \in DOMAIN items |-> items'[i]],
         \A i \in DOMAIN items : /\ items'[i] \in ItemSet
                                 /\ items'[i].target = "SERVICE" => items'[i].service \in Services
  PROVE  ItemsOK'
<1>1. PICK n \in Nat : DOMAIN items = 1..n
  BY LenProperties DEF ItemsOK
<1>2. items' \in Seq(ItemSet)
  BY <1>1
<1>3. DOMAIN items' = DOMAIN items
  OBVIOUS
<1> QED BY <1>2, <1>3 DEF ItemsOK

\* The steps before the groups are made.
LEMMA StartKeeps == RepairInv /\ Start => RepairInv'
<1> SUFFICES ASSUME RepairInv, Start PROVE RepairInv'
  OBVIOUS
<1>1. ItemsOK'
  <2>1. PICK s \in Batches : items' = [i \in DOMAIN s |-> Item(s[i])]
    BY DEF Start
  <2>2. PICK n \in 1..MaxBatch : s \in [1..n -> Tests]
    BY <2>1 DEF Batches
  <2>3. \A i \in 1..n : Item(s[i]) \in ItemSet /\ Item(s[i]).target # "SERVICE"
    BY <2>2 DEF Item, ItemSet
  <2>4. items' = [i \in 1..n |-> Item(s[i])] /\ n \in Nat
    BY <2>1, <2>2
  <2>5. items' \in Seq(ItemSet) /\ DOMAIN items' = 1..n
    BY <2>3, <2>4
  <2> QED BY <2>3, <2>4, <2>5 DEF ItemsOK
<1>2. GroupsOK' /\ PositionOK' /\ CleanOK'
  BY DEF Start, RepairInv, GroupsOK, PositionOK, CleanOK, AtGroup, OnBranch
<1>3. CloneOK'
  BY DEF Start, RepairInv, CloneOK, Committed, IsContent, clone
<1> QED BY <1>1, <1>2, <1>3 DEF RepairInv

LEMMA RaiseKeeps == RepairInv /\ Raise => RepairInv'
<1> SUFFICES ASSUME RepairInv, Raise PROVE RepairInv'
  OBVIOUS
<1>1. ItemsOK' /\ GroupsOK'
  BY DEF Raise, ItemsOK, GroupsOK
<1>2. PositionOK' /\ CleanOK'
  BY DEF Raise, PositionOK, CleanOK, AtGroup, OnBranch
<1>3. CloneOK'
  BY DEF Raise, RepairInv, CloneOK, Committed, IsContent, clone
<1> QED BY <1>1, <1>2, <1>3 DEF RepairInv

LEMMA CheckoutCommitKeeps == RepairInv /\ CheckoutCommit => RepairInv'
<1> SUFFICES ASSUME RepairInv, CheckoutCommit PROVE RepairInv'
  OBVIOUS
<1>1. ItemsOK' /\ GroupsOK'
  BY DEF CheckoutCommit, RepairInv, ItemsOK, GroupsOK
<1>2. PositionOK' /\ CleanOK'
  BY DEF CheckoutCommit, RepairInv, PositionOK, CleanOK, AtGroup, OnBranch, Committed
<1>3. CloneOK'
  BY DEF CheckoutCommit, RepairInv, CloneOK, Committed, IsContent
<1> QED BY <1>1, <1>2, <1>3 DEF RepairInv

LEMMA AnalyseKeeps == RepairInv /\ Analyse => RepairInv'
<1> SUFFICES ASSUME RepairInv, Analyse PROVE RepairInv'
  OBVIOUS
<1>1. ItemsOK'
  <2>0. /\ ItemsOK /\ items = [i \in DOMAIN items |-> items[i]]
        /\ \A i \in DOMAIN items : /\ items[i] \in ItemSet
                                   /\ items[i].target = "SERVICE" => items[i].service \in Services
    BY LenProperties, ElementOfSeq DEF RepairInv, ItemsOK
  <2>1. CASE items' = items
    BY <2>1 DEF RepairInv, ItemsOK
  <2>2. CASE items' = [items EXCEPT ![at].target = "TEST"]
    <3>1. items' = [i \in DOMAIN items |->
                      IF i = at THEN [items[i] EXCEPT !.target = "TEST"] ELSE items[i]]
      BY <2>2, <2>0
    <3>2. \A x \in ItemSet : /\ [x EXCEPT !.target = "TEST"] \in ItemSet
                             /\ [x EXCEPT !.target = "TEST"].target = "TEST"
      BY DEF ItemSet
    <3>3. \A i \in DOMAIN items : /\ items'[i] \in ItemSet
                                  /\ items'[i].target = "SERVICE" => items'[i].service \in Services
      <4> TAKE i \in DOMAIN items
      <4>1. items[i] \in ItemSet /\ (items[i].target = "SERVICE" => items[i].service \in Services)
        BY <2>0, Zenon
      <4> QED BY <3>1, <3>2, <4>1
    <3>4. items' = [i \in DOMAIN items |-> items'[i]]
      BY <3>1
    <3> QED BY <2>0, <3>3, <3>4, ItemsReplaced
  <2>3. CASE \E f \in Services : items' = [items EXCEPT ![at].target = "SERVICE", ![at].service = f]
    <3>0. PICK f \in Services : items' = [items EXCEPT ![at].target = "SERVICE", ![at].service = f]
      BY <2>3
    <3>1. items' = [i \in DOMAIN items |->
                      IF i = at THEN [items[i] EXCEPT !.target = "SERVICE", !.service = f] ELSE items[i]]
      BY <3>0
    <3>2. \A x \in ItemSet : /\ [x EXCEPT !.target = "SERVICE", !.service = f] \in ItemSet
                             /\ [x EXCEPT !.target = "SERVICE", !.service = f].service = f
      BY DEF ItemSet
    <3>3. \A i \in DOMAIN items : /\ items'[i] \in ItemSet
                                  /\ items'[i].target = "SERVICE" => items'[i].service \in Services
      <4> TAKE i \in DOMAIN items
      <4>1. items[i] \in ItemSet /\ (items[i].target = "SERVICE" => items[i].service \in Services)
        BY <2>0, Zenon
      <4> QED BY <3>1, <3>2, <4>1
    <3>4. items' = [i \in DOMAIN items |-> items'[i]]
      BY <3>1
    <3> QED BY <2>0, <3>3, <3>4, ItemsReplaced
  <2> QED BY <2>1, <2>2, <2>3 DEF Analyse
<1>2. GroupsOK' /\ PositionOK' /\ CleanOK'
  BY DEF Analyse, Onward, RepairInv, GroupsOK, PositionOK, CleanOK, AtGroup, OnBranch, Committed, clone
<1>3. CloneOK'
  BY DEF Analyse, RepairInv, CloneOK, Committed, IsContent, clone
<1> QED BY <1>1, <1>2, <1>3 DEF RepairInv

LEMMA RepairKeeps == RepairInv /\ Repair => RepairInv'
<1> SUFFICES ASSUME RepairInv, Repair PROVE RepairInv'
  OBVIOUS
<1>1. ItemsOK'
  <2>0. /\ ItemsOK /\ items = [i \in DOMAIN items |-> items[i]]
        /\ \A i \in DOMAIN items : /\ items[i] \in ItemSet
                                   /\ items[i].target = "SERVICE" => items[i].service \in Services
    BY LenProperties, ElementOfSeq DEF RepairInv, ItemsOK
  <2>1. CASE items' = items
    BY <2>1 DEF RepairInv, ItemsOK
  <2>2. CASE \E i \in DOMAIN items, r \in Replacements : items' = [items EXCEPT ![i].patch = r]
    <3>0. PICK k \in DOMAIN items, r \in Replacements : items' = [items EXCEPT ![k].patch = r]
      BY <2>2
    <3>1. items' = [i \in DOMAIN items |-> IF i = k THEN [items[i] EXCEPT !.patch = r] ELSE items[i]]
      BY <3>0
    <3>2. \A x \in ItemSet : /\ [x EXCEPT !.patch = r] \in ItemSet
                             /\ [x EXCEPT !.patch = r].target = x.target
                             /\ [x EXCEPT !.patch = r].service = x.service
      BY DEF ItemSet
    <3>3. \A i \in DOMAIN items : /\ items'[i] \in ItemSet
                                  /\ items'[i].target = "SERVICE" => items'[i].service \in Services
      <4> TAKE i \in DOMAIN items
      <4>1. items[i] \in ItemSet /\ (items[i].target = "SERVICE" => items[i].service \in Services)
        BY <2>0, Zenon
      <4> QED BY <3>1, <3>2, <4>1
    <3>4. items' = [i \in DOMAIN items |-> items'[i]]
      BY <3>1
    <3> QED BY <2>0, <3>3, <3>4, ItemsReplaced
  <2> QED BY <2>1, <2>2 DEF Repair
<1>2. GroupsOK' /\ PositionOK' /\ CleanOK'
  BY DEF Repair, RepairInv, GroupsOK, PositionOK, CleanOK, AtGroup, OnBranch, Committed, clone
<1>3. CloneOK'
  BY DEF Repair, RepairInv, CloneOK, Committed, IsContent, clone
<1> QED BY <1>1, <1>2, <1>3 DEF RepairInv

LEMMA GroupingKeeps == RepairInv /\ Grouping => RepairInv'
<1> SUFFICES ASSUME RepairInv, Grouping PROVE RepairInv'
  OBVIOUS
<1>1. PICK opens \in [1..Cardinality(Openers) -> Openers] :
        groups' = [g \in DOMAIN opens |-> NewGroup(KeyOf(items[opens[g]]), items[opens[g]])]
  BY DEF Grouping
<1>2. /\ Cardinality(Openers) \in Nat /\ (Openers # {} => Cardinality(Openers) # 0)
      /\ Cardinality(Openers) <= Len(items)
  <2>1. PICK n \in Nat : DOMAIN items = 1..n /\ Len(items) = n
    BY LenProperties DEF RepairInv, ItemsOK
  <2>2. IsFiniteSet(1..n) /\ Cardinality(1..n) = n /\ Openers \subseteq 1..n
    BY <2>1, FS_Interval DEF Openers
  <2>3. IsFiniteSet(Openers) /\ Cardinality(Openers) <= n
    <3>1. Openers \in SUBSET (1..n)
      BY <2>2
    <3>2. IsFiniteSet(Openers) /\ Cardinality(Openers) <= Cardinality(1..n)
      BY <2>2, <3>1, FS_Subset
    <3> QED BY <2>2, <3>2
  <2> QED BY <2>1, <2>3, FS_CardinalityType, FS_EmptySet
<1>3. ItemsOK'
  <2>1. CASE items' = items
    BY <2>1 DEF RepairInv, ItemsOK
  <2>2. CASE items' = <<>>
    BY <2>2, EmptySeq DEF ItemsOK
  <2> QED BY <2>1, <2>2 DEF Grouping
<1>4. GroupsOK' /\ Len(groups') = Cardinality(Openers)
  <2> DEFINE GroupSet == [key : Files, skeleton : BOOLEAN, tests : SUBSET Tests]
  <2>1. \A i \in DOMAIN items : items[i] \in ItemSet /\ (items[i].target = "SERVICE" => items[i].service \in Services)
    BY ElementOfSeq, LenProperties DEF RepairInv, ItemsOK
  <2>2. \A i \in Openers : KeyOf(items[i]) \in Files
    <3> TAKE i \in Openers
    <3>1. i \in DOMAIN items /\ items[i].target # "NONE"
      BY DEF Openers, InGroups, Skipped
    <3> QED BY <2>1, <3>1 DEF KeyOf, ItemSet
  <2>3. \A key \in Files : \A item : NewGroup(key, item) \in GroupSet
    BY <2>1 DEF NewGroup, ItemSet
  <2>4. \A g \in 1..Cardinality(Openers) : NewGroup(KeyOf(items[opens[g]]), items[opens[g]]) \in GroupSet
    BY <2>2, <2>3
  <2>5. groups' = [g \in 1..Cardinality(Openers) |-> NewGroup(KeyOf(items[opens[g]]), items[opens[g]])]
    BY <1>1
  <2> HIDE DEF GroupSet
  <2>6. groups' \in Seq(GroupSet) /\ Len(groups') = Cardinality(Openers)
    BY <1>2, <2>4, <2>5
  <2> QED BY <2>6 DEF GroupsOK, GroupSet
<1>5. PositionOK'
  <2>1. at = 1 /\ at' = at
    BY DEF Grouping, RepairInv, PositionOK
  <2>2. CASE Openers = {}
    <3>1. items' = <<>> /\ phase' = "off"
      BY <2>2 DEF Grouping
    <3> QED BY <2>1, <3>1 DEF PositionOK, AtGroup, OnBranch
  <2>3. CASE Openers # {}
    <3>1. items' = items /\ phase' = "branch"
      BY <2>3 DEF Grouping
    <3>2. Len(items) \in Nat
      BY LenProperties DEF RepairInv, ItemsOK
    <3> QED BY <1>2, <1>4, <2>1, <2>3, <3>1, <3>2 DEF PositionOK, AtGroup, OnBranch
  <2> QED BY <2>2, <2>3
<1>6. CleanOK'
  BY DEF Grouping, RepairInv, CleanOK, AtGroup, OnBranch, Committed, clone
<1>7. CloneOK'
  BY DEF Grouping, RepairInv, CloneOK, Committed, IsContent, clone
<1> QED BY <1>3, <1>4, <1>5, <1>6, <1>7 DEF RepairInv

-----------------------------------------------------------------------------
\* While the pipeline is at a group, its file has a branch.
LEMMA GroupKnown ==
  ASSUME RepairInv, phase \in AtGroup \cup {"push", "pr"}
  PROVE  Group.key \in Files /\ Branch[Group.key] \in Branches
<1>1. at \in DOMAIN groups
  BY LenProperties DEF RepairInv, GroupsOK, PositionOK
<1>2. groups[at] \in [key : Files, skeleton : BOOLEAN, tests : SUBSET Tests]
  BY <1>1, ElementOfSeq, LenProperties DEF RepairInv, GroupsOK
<1> QED BY <1>2 DEF Group

LEMMA CheckoutBranchKeeps == RepairInv /\ CheckoutBranch => RepairInv'
<1> SUFFICES ASSUME RepairInv, CheckoutBranch PROVE RepairInv'
  OBVIOUS
<1> DEFINE b == Branch[Group.key]
<1>1. b \in Branches /\ Group' = Group /\ head' = b /\ phase = "branch" /\ phase' = "patch"
  BY GroupKnown DEF CheckoutBranch, AtGroup, Group
<1>2. tree = Committed /\ index = Committed
  BY <1>1 DEF RepairInv, CleanOK
<1>3. /\ IsContent(Committed)
      /\ branches = [c \in Branches |-> branches[c]]
      /\ \A c \in Branches : branches[c] # Absent => IsContent(branches[c])
  BY DEF RepairInv, CloneOK
<1>4. ItemsOK' /\ GroupsOK' /\ PositionOK'
  BY <1>1 DEF CheckoutBranch, RepairInv, ItemsOK, GroupsOK, PositionOK, AtGroup, OnBranch
<1>5. \/ /\ branches[b] = Absent /\ branches' = [branches EXCEPT ![b] = Committed]
         /\ tree' = tree /\ index' = index
      \/ /\ branches[b] # Absent /\ branches' = branches
         /\ tree' = Carried(tree, branches[b]) /\ index' = Carried(index, branches[b])
  BY DEF CheckoutBranch
<1>6. /\ tree' = branches'[b] /\ index' = branches'[b] /\ IsContent(branches'[b])
      /\ branches' = [c \in Branches |-> branches'[c]]
      /\ \A c \in Branches : branches'[c] # Absent => IsContent(branches'[c])
  <2>1. CASE branches' = [branches EXCEPT ![b] = Committed] /\ tree' = tree /\ index' = index
    <3>1. branches'[b] = Committed /\ \A c \in Branches \ {b} : branches'[c] = branches[c]
      BY <1>1, <1>3, <2>1
    <3>2. branches' = [c \in Branches |-> branches'[c]]
      BY <1>3, <2>1
    <3> QED BY <1>2, <1>3, <2>1, <3>1, <3>2
  <2>2. CASE /\ branches[b] # Absent /\ branches' = branches
             /\ tree' = Carried(tree, branches[b]) /\ index' = Carried(index, branches[b])
    <3>1. IsContent(branches[b])
      BY <1>1, <1>3, <2>2
    <3>2. Carried(Committed, branches[b]) = [f \in Files |-> branches[b][f]]
      BY DEF Carried
    <3>3. Carried(Committed, branches[b]) = branches[b]
      BY <3>1, <3>2 DEF IsContent
    <3> QED BY <1>2, <1>3, <2>2, <3>1, <3>3
  <2> QED BY <1>5, <2>1, <2>2
<1>7. Committed' = branches'[b]
  BY <1>1 DEF Committed
<1>8. CloneOK'
  BY <1>1, <1>6, <1>7 DEF CloneOK, IsContent
<1>9. CleanOK'
  BY <1>1, <1>6, <1>7 DEF CleanOK, OnBranch
<1> QED BY <1>4, <1>8, <1>9 DEF RepairInv

\* The steps on a branch that change at most the group's file in the tree.
LEMMA TreeStepKeeps ==
  ASSUME RepairInv, phase \in {"patch", "validate", "undo"}, phase' \in {"validate", "undo", "add"},
         \/ UNCHANGED tree
         \/ \E lines \in Seq(Lines) : tree' = [tree EXCEPT ![Group.key] = lines],
         UNCHANGED <<at, items, groups, index, head, branches>>
  PROVE  RepairInv'
<1>1. ItemsOK' /\ GroupsOK' /\ PositionOK'
  BY DEF RepairInv, ItemsOK, GroupsOK, PositionOK, AtGroup, OnBranch
<1>2. Group' = Group /\ Committed' = Committed
  BY DEF Group, Committed
<1>3. IsContent(tree)
  BY DEF RepairInv, CloneOK
<1>4. IsContent(tree')
  BY <1>3 DEF IsContent
<1>5. \A f \in Files \ {Group.key} : tree'[f] = tree[f]
  BY <1>3 DEF IsContent
<1>6. CloneOK'
  BY <1>2, <1>4 DEF RepairInv, CloneOK, IsContent
<1>7. CleanOK'
  BY <1>2, <1>5 DEF RepairInv, CleanOK, OnBranch
<1> QED BY <1>1, <1>6, <1>7 DEF RepairInv

LEMMA AddKeeps == RepairInv /\ Add => RepairInv'
<1> SUFFICES ASSUME RepairInv, Add PROVE RepairInv'
  OBVIOUS
<1>1. /\ phase = "add" /\ phase' = "commit" /\ index' = [index EXCEPT ![Group.key] = tree[Group.key]]
      /\ UNCHANGED <<at, items, groups, tree, head, branches>>
  BY DEF Add
<1>2. ItemsOK' /\ GroupsOK' /\ PositionOK'
  BY <1>1 DEF RepairInv, ItemsOK, GroupsOK, PositionOK, AtGroup, OnBranch
<1>3. Group' = Group /\ Committed' = Committed
  BY <1>1 DEF Group, Committed
<1>4. IsContent(tree) /\ IsContent(index)
  BY DEF RepairInv, CloneOK
<1>5. index = Committed /\ \A f \in Files \ {Group.key} : tree[f] = index[f]
  BY <1>1 DEF RepairInv, CleanOK, OnBranch
<1>6. index' = tree
  <2>1. index' = [f \in Files |-> IF f = Group.key THEN tree[f] ELSE index[f]]
    BY <1>1, <1>4 DEF IsContent
  <2>2. index' = [f \in Files |-> tree[f]]
    BY <2>1, <1>5
  <2> QED BY <2>2, <1>4 DEF IsContent
<1>7. CloneOK'
  BY <1>1, <1>3, <1>4, <1>6 DEF RepairInv, CloneOK, IsContent
<1>8. CleanOK'
  BY <1>1, <1>3, <1>6 DEF RepairInv, CleanOK, OnBranch
<1> QED BY <1>2, <1>7, <1>8 DEF RepairInv

LEMMA CommitKeeps == RepairInv /\ Commit => RepairInv'
<1> SUFFICES ASSUME RepairInv, Commit PROVE RepairInv'
  OBVIOUS
<1>1. /\ phase = "commit" /\ branches' = [branches EXCEPT ![head] = index]
      /\ UNCHANGED <<items, groups, tree, index, head>>
  BY DEF Commit
<1>2. head = Branch[Group.key] /\ head \in Branches /\ index = tree
  BY <1>1, GroupKnown DEF RepairInv, CleanOK, OnBranch, AtGroup
<1>3. /\ IsContent(tree) /\ branches = [c \in Branches |-> branches[c]]
      /\ \A c \in Branches : branches[c] # Absent => IsContent(branches[c])
  BY DEF RepairInv, CloneOK
<1>4. /\ branches' = [c \in Branches |-> branches'[c]] /\ branches'[head] = tree
      /\ \A c \in Branches \ {head} : branches'[c] = branches[c]
  BY <1>1, <1>2, <1>3
<1>5. Committed' = tree
  BY <1>1, <1>2, <1>4 DEF Committed
<1>6. ItemsOK' /\ GroupsOK'
  BY <1>1 DEF RepairInv, ItemsOK, GroupsOK
<1>7. PositionOK' /\ phase' \in {"branch", "push"}
  <2>1. at \in 1..Len(groups) /\ Len(groups) <= Len(items)
    BY <1>1 DEF RepairInv, PositionOK, AtGroup, OnBranch
  <2>2. Len(groups) \in Nat /\ Len(items) \in Nat
    BY LenProperties DEF RepairInv, GroupsOK, ItemsOK
  <2>3. \/ at < Len(groups) /\ at' = at + 1 /\ phase' = "branch"
        \/ at' = 1 /\ phase' = "push"
    BY DEF Commit, Onward
  <2> QED BY <1>1, <2>1, <2>2, <2>3 DEF PositionOK, AtGroup, OnBranch
<1>8. CloneOK'
  <2>1. IsContent(tree') /\ IsContent(index') /\ IsContent(Committed')
    BY <1>1, <1>2, <1>3, <1>5
  <2>2. \A c \in Branches : branches'[c] # Absent => IsContent(branches'[c])
    BY <1>3, <1>4
  <2> QED BY <1>1, <1>2, <1>4, <2>1, <2>2 DEF CloneOK, IsContent
<1>9. CleanOK'
  BY <1>1, <1>2, <1>5, <1>7 DEF CleanOK, OnBranch
<1> QED BY <1>6, <1>7, <1>8, <1>9 DEF RepairInv

LEMMA PublishKeeps == RepairInv /\ (Push \/ OpenPullRequest) => RepairInv'
<1> SUFFICES ASSUME RepairInv, Push \/ OpenPullRequest PROVE RepairInv'
  OBVIOUS
<1>1. /\ phase' \in {"push", "pr"} /\ at' \in {at, at + 1}
      /\ UNCHANGED <<items, groups, tree, index, head, branches>>
  BY DEF Push, OpenPullRequest, clone
<1>2. ItemsOK' /\ GroupsOK'
  BY <1>1 DEF RepairInv, ItemsOK, GroupsOK
<1>3. PositionOK'
  <2>1. at \in 1..Len(groups) /\ Len(groups) <= Len(items)
    BY DEF RepairInv, PositionOK, Push, OpenPullRequest
  <2>2. Len(groups) \in Nat /\ Len(items) \in Nat
    BY LenProperties DEF RepairInv, GroupsOK, ItemsOK
  <2>3. at' = at \/ (at < Len(groups) /\ at' = at + 1)
    BY DEF Push, OpenPullRequest
  <2>4. at' \in 1..Len(groups) /\ at' \in 1..(1 + Len(items))
    BY <2>1, <2>2, <2>3
  <2> QED BY <1>1, <2>1, <2>4 DEF PositionOK
<1>4. CloneOK' /\ CleanOK'
  BY <1>1 DEF RepairInv, CloneOK, CleanOK, OnBranch, Committed, IsContent
<1> QED BY <1>2, <1>3, <1>4 DEF RepairInv

LEMMA StutterKeeps == RepairInv /\ UNCHANGED vars => RepairInv'
<1> SUFFICES ASSUME RepairInv, UNCHANGED vars PROVE RepairInv'
  OBVIOUS
<1>1. UNCHANGED <<phase, at, items, groups, tree, index, head, branches>>
  BY DEF vars, run, clone
<1>2. Group' = Group /\ Committed' = Committed
  BY <1>1 DEF Group, Committed
<1>3. ItemsOK' /\ GroupsOK' /\ PositionOK'
  BY <1>1 DEF RepairInv, ItemsOK, GroupsOK, PositionOK
<1>4. CloneOK' /\ CleanOK'
  BY <1>1, <1>2 DEF RepairInv, CloneOK, CleanOK, IsContent
<1> QED BY <1>3, <1>4 DEF RepairInv

\* The patches that are made, and the file they leave.
Patches == {Patch(items[i]) : i \in {j \in DOMAIN items : Patchable(items[j])}}

LEMMA TextTyped == ASSUME NEW X, NEW s \in Seq(X) PROVE Text(s) \in Seq(X)
<1>1. Len(s) \in Nat /\ \A i \in 1..(Len(s) - 1) : s[i] \in X
  OBVIOUS
<1>2. Len(s) - 1 \in Int /\ 1 \in Int
  BY <1>1
<1>3. SubSeq(s, 1, Len(s) - 1) \in Seq(X)
  BY <1>1, <1>2, SubSeqProperties
<1> QED BY <1>3 DEF Text

LEMMA WrittenTyped == ASSUME NEW s \in Seq(Lines) PROVE Written(s) \in Seq(Lines)
<1>1. Blank \in Lines
  BY DEF Lines
<1>2. <<Blank>> \in Seq(Lines)
  BY <1>1
<1> QED BY <1>2 DEF Written

LEMMA OriginalTyped ==
  ASSUME NEW t \in Tests
  PROVE  /\ Span[t][1] \in Nat \ {0} /\ Span[t][2] \in Nat /\ Span[t][1] <= Span[t][2]
         /\ Original(t) \in Seq(Lines)
<1> DEFINE s == Base[TestFile[t]]
<1>1. PICK i \in 1..Len(s), j \in 1..Len(s) : i <= j /\ Span[t] = <<i, j>>
  BY RepairAssumption
<1>2. s \in Seq(Lines)
  BY DEF IsContent
<1>3. Original(t) = Text(SubSeq(s, i, j))
  <2>1. Span[t][1] = i /\ Span[t][2] = j
    BY <1>1
  <2> QED BY <2>1, Zenon DEF Original
<1> HIDE DEF s
<1>4. Len(s) \in Nat /\ \A k \in 1..Len(s) : s[k] \in Lines
  BY <1>2
<1>5. i \in Int /\ j \in Int /\ \A k \in i..j : s[k] \in Lines
  BY <1>4
<1>6. SubSeq(s, i, j) \in Seq(Lines)
  BY <1>5, SubSeqProperties
<1>7. Original(t) \in Seq(Lines)
  <2> DEFINE w == SubSeq(s, i, j)
  <2>1. w \in Seq(Lines) /\ Original(t) = Text(w)
    BY <1>3, <1>6
  <2> HIDE DEF w
  <2> QED BY <2>1, TextTyped
<1> QED BY <1>1, <1>4, <1>7

LEMMA PatchesTyped ==
  ASSUME ItemsOK, Apart(Patches), \A p \in Patches : p.replacement # NoPatch
  PROVE  Edits(Patches, Lines, Updates)
<1> DEFINE D == {j \in DOMAIN items : Patchable(items[j])}
           f == [i \in D |-> Patch(items[i])]
<1>1. \A i \in DOMAIN items : items[i] \in ItemSet
  BY ElementOfSeq, LenProperties DEF ItemsOK
<1>2. IsFiniteSet(Patches)
  <2>1. PICK n \in Nat : DOMAIN items = 1..n
    BY LenProperties DEF ItemsOK
  <2>2. D \in SUBSET (1..n) /\ IsFiniteSet(1..n)
    BY <2>1, FS_Interval
  <2>3. IsFiniteSet(D)
    BY <2>2, FS_Subset
  <2>4. f \in Surjection(D, Patches)
    BY DEF Patches, Surjection
  <2> HIDE DEF f, D
  <2> QED BY <2>3, <2>4, FS_Surjection
<1>3. ASSUME NEW p \in Patches
      PROVE  /\ p.start \in Nat /\ p.end \in Nat /\ p.start <= p.end /\ p.start > 0
             /\ p.replacement \in Seq(Lines)
             /\ \A i \in Nat \ {0}, j \in Nat : [p EXCEPT !.start = i, !.end = j] \in Updates
  <2>1. PICK k \in DOMAIN items : p = Patch(items[k])
    BY DEF Patches
  <2> DEFINE t == items[k].test
  <2>2. t \in Tests /\ items[k].patch \in Replacements \cup {NoPatch}
    BY <1>1 DEF ItemSet
  <2>3. p = [method |-> Method[t], start |-> Span[t][1], end |-> Span[t][2],
             replacement |-> items[k].patch, original |-> Original(t)]
    BY <2>1 DEF Patch
  <2>4. items[k].patch # NoPatch
    BY <2>3
  <2>5. items[k].patch \in Replacements /\ items[k].patch \in Seq(Lines)
    BY <2>2, <2>4, RepairAssumption
  <2>6. /\ Span[t][1] \in Nat \ {0} /\ Span[t][2] \in Nat /\ Span[t][1] <= Span[t][2]
        /\ Original(t) \in Seq(Lines)
    BY <2>2, OriginalTyped
  <2> DEFINE m == Method[t]
             a == Span[t][1]
             b == Span[t][2]
             r == items[k].patch
             o == Original(t)
  <2>7. m \in {Method[u] : u \in Tests}
    BY <2>2
  <2>8. p = [method |-> m, start |-> a, end |-> b, replacement |-> r, original |-> o]
    BY <2>3
  <2> HIDE DEF m, a, b, r, o, t
  <2>9. a \in Nat \ {0} /\ b \in Nat /\ a <= b /\ r \in Replacements /\ r \in Seq(Lines) /\ o \in Seq(Lines)
    BY <2>5, <2>6 DEF a, b, r, o
  <2>10. \A i \in Nat \ {0}, j \in Nat : [p EXCEPT !.start = i, !.end = j] \in Updates
    BY <2>7, <2>8, <2>9 DEF Updates
  <2>11. p.start = a /\ p.end = b /\ p.replacement = r
    BY <2>8
  <2>12. p.start \in Nat /\ p.end \in Nat /\ p.start <= p.end /\ p.start > 0 /\ p.replacement \in Seq(Lines)
    BY <2>9, <2>11
  <2> QED BY <2>10, <2>12
<1> QED BY <1>2, <1>3 DEF Edits, Spans

LEMMA PatchFileTyped ==
  ASSUME RepairInv, PatchFile
  PROVE  /\ \E lines \in Seq(Lines) : tree' = [tree EXCEPT ![Group.key] = lines]
         /\ updated' \in Seq(Updates)
<1> DEFINE new == Replaced(tree[Group.key], Patches)
<1>1. /\ \A p \in Patches : p.replacement # NoPatch
      /\ Apart(Patches) /\ phase = "patch"
      /\ tree' = [tree EXCEPT ![Group.key] = Written(new.lines)] /\ updated' = new.updated
  BY DEF PatchFile, Patches
<1>2. Edits(Patches, Lines, Updates)
  BY <1>1, PatchesTyped DEF RepairInv
<1>3. Group.key \in Files
  BY <1>1, GroupKnown DEF AtGroup, OnBranch
<1>4. tree[Group.key] \in Seq(Lines)
  BY <1>3 DEF RepairInv, CloneOK, IsContent
<1>5. new \in Turns(Lines, Updates)
  BY <1>2, <1>4, ReplacedTyped
<1> HIDE DEF new
<1>6. new.lines \in Seq(Lines) /\ new.updated \in Seq(Updates)
  BY <1>5 DEF Turns
<1>7. Written(new.lines) \in Seq(Lines)
  BY <1>6, WrittenTyped
<1> QED BY <1>1, <1>6, <1>7

LEMMA UndoTyped ==
  ASSUME RepairInv, RestOK, Undo
  PROVE  \E lines \in Seq(Lines) : tree' = [tree EXCEPT ![Group.key] = lines]
<1> DEFINE undo == Picked(updated, {p \in Range(updated) : p.method \in failed})
           old == tree[Group.key]
<1>1. phase = "undo" /\ tree' = [tree EXCEPT ![Group.key] = Written(Removed(@, undo))]
  BY DEF Undo
<1>2. Group.key \in Files
  BY <1>1, GroupKnown DEF AtGroup, OnBranch
<1>3. old \in Seq(Lines) /\ IsContent(tree)
  BY <1>2 DEF RepairInv, CloneOK, IsContent
<1>4. undo \in Seq(Updates)
  BY PickedElements DEF RestOK
<1>5. \A u \in Updates : u.start \in Nat \ {0} /\ u.end \in Nat /\ u.original \in Seq(Lines)
  BY DEF Updates
<1> HIDE DEF undo
<1>6. Removed(old, undo) \in Seq(Lines)
  <2> HIDE DEF old
  <2> QED BY <1>3, <1>4, <1>5, RemovedTyped
<1>7. Written(Removed(old, undo)) \in Seq(Lines)
  BY <1>6, WrittenTyped
<1>8. tree' = [tree EXCEPT ![Group.key] = Written(Removed(old, undo))]
  BY <1>1
<1> QED BY <1>7, <1>8

LEMMA RepairInductive == RepairInv /\ RestOK /\ [Next]_vars => RepairInv'
<1> SUFFICES ASSUME RepairInv, RestOK, [Next]_vars PROVE RepairInv'
  OBVIOUS
<1>1. CASE Start
  BY <1>1, StartKeeps
<1>2. CASE Raise
  BY <1>2, RaiseKeeps
<1>3. CASE CheckoutCommit
  BY <1>3, CheckoutCommitKeeps
<1>4. CASE Analyse
  BY <1>4, AnalyseKeeps
<1>5. CASE Repair
  BY <1>5, RepairKeeps
<1>6. CASE Grouping
  BY <1>6, GroupingKeeps
<1>7. CASE CheckoutBranch
  BY <1>7, CheckoutBranchKeeps
<1>8. CASE PatchFile
  <2>1. \E lines \in Seq(Lines) : tree' = [tree EXCEPT ![Group.key] = lines]
    BY <1>8, PatchFileTyped
  <2> QED BY <1>8, <2>1, TreeStepKeeps DEF PatchFile
<1>9. CASE Validate
  BY <1>9, TreeStepKeeps DEF Validate, clone
<1>10. CASE Undo
  <2>1. \E lines \in Seq(Lines) : tree' = [tree EXCEPT ![Group.key] = lines]
    BY <1>10, UndoTyped
  <2> QED BY <1>10, <2>1, TreeStepKeeps DEF Undo
<1>11. CASE Add
  BY <1>11, AddKeeps
<1>12. CASE Commit
  BY <1>12, CommitKeeps
<1>13. CASE Push \/ OpenPullRequest
  BY <1>13, PublishKeeps
<1>14. CASE UNCHANGED vars
  BY <1>14, StutterKeeps
<1> QED BY <1>1, <1>2, <1>3, <1>4, <1>5, <1>6, <1>7, <1>8, <1>9, <1>10, <1>11, <1>12, <1>13, <1>14 DEF Next

LEMMA RestInductive == RepairInv /\ RestOK /\ [Next]_vars => RestOK'
<1> SUFFICES ASSUME RepairInv, RestOK, [Next]_vars PROVE RestOK'
  OBVIOUS
<1> DEFINE Methods == {Method[t] : t \in Tests}
           Contents == [Files -> Seq(Lines)] \cup {Absent}
           Asked == [source : Branches, target : Branches]
<1>0. /\ runs \in 0..MaxRuns /\ phase \in Phases /\ failed \subseteq Methods /\ updated \in Seq(Updates)
      /\ phase \in {"push", "pr"} => head \in Branches
      /\ remote \in [Branches -> Contents] /\ prs \subseteq Asked
  BY DEF RestOK
<1>e. {} \subseteq Methods /\ <<>> \in Seq(Updates)
  OBVIOUS
<1>r. SUFFICES /\ runs' \in 0..MaxRuns /\ phase' \in Phases /\ failed' \subseteq Methods
               /\ updated' \in Seq(Updates)
               /\ phase' \in {"push", "pr"} => head' \in Branches
               /\ remote' \in [Branches -> Contents] /\ prs' \subseteq Asked
  BY DEF RestOK
<1> HIDE DEF Methods, Contents, Asked
<1>1. CASE Start
  <2>1. runs < MaxRuns /\ runs' = runs + 1 /\ phase' = "context" /\ UNCHANGED <<updated, failed, remote, prs>>
    BY <1>1 DEF Start
  <2>2. runs' \in 0..MaxRuns
    BY <2>1, <1>0, RepairAssumption
  <2> QED BY <1>0, <2>1, <2>2 DEF Phases
<1>2. CASE Raise
  BY <1>0, <1>e, <1>2 DEF Raise, Phases
<1>3. CASE CheckoutCommit \/ Analyse \/ Repair \/ Grouping \/ CheckoutBranch \/ Add
  <2>1. /\ phase' \in Phases \ {"push", "pr"} /\ UNCHANGED <<runs, updated, failed, remote, prs>>
    BY <1>3 DEF CheckoutCommit, Analyse, Repair, Grouping, CheckoutBranch, Add, Onward, Phases
  <2> QED BY <1>0, <2>1
<1>4. CASE PatchFile
  <2>1. updated' \in Seq(Updates)
    BY <1>4, PatchFileTyped
  <2>2. phase' = "validate" /\ UNCHANGED <<runs, failed, remote, prs>>
    BY <1>4 DEF PatchFile
  <2> QED BY <1>0, <2>1, <2>2 DEF Phases
<1>5. CASE Validate
  <2>1. PICK T \in SUBSET Group.tests : failed' = {Method[t] : t \in T}
    BY <1>5 DEF Validate
  <2>2. at \in DOMAIN groups
    BY <1>5, LenProperties DEF Validate, RepairInv, GroupsOK, PositionOK, AtGroup, OnBranch
  <2>3. groups[at] \in [key : Files, skeleton : BOOLEAN, tests : SUBSET Tests]
    BY <2>2, ElementOfSeq, LenProperties DEF RepairInv, GroupsOK
  <2>4. T \subseteq Tests
    BY <2>3 DEF Group
  <2>5. failed' \subseteq Methods
    BY <2>1, <2>4 DEF Methods
  <2>6. phase' = "undo" /\ UNCHANGED <<runs, updated, remote, prs>>
    BY <1>5 DEF Validate
  <2> QED BY <1>0, <2>5, <2>6 DEF Phases
<1>6. CASE Undo
  BY <1>0, <1>e, <1>6 DEF Undo, Phases
<1>7. CASE Commit
  <2>1. head \in Branches
    BY <1>7, GroupKnown DEF Commit, RepairInv, CleanOK, AtGroup, OnBranch
  <2>2. phase' \in {"branch", "push"} /\ UNCHANGED <<runs, updated, failed, head, remote, prs>>
    BY <1>7 DEF Commit, Onward
  <2> QED BY <1>0, <2>1, <2>2 DEF Phases
<1>8. CASE Push
  <2>1. /\ phase = "push" /\ phase' = "pr" /\ remote' = [remote EXCEPT ![Branch[Group.key]] = branches[Branch[Group.key]]]
        /\ UNCHANGED <<runs, updated, failed, head, prs>>
    BY <1>8 DEF Push, Pushed, clone
  <2>2. Branch[Group.key] \in Branches
    BY <2>1, GroupKnown
  <2>3. branches[Branch[Group.key]] \in Contents
    BY <2>2 DEF RepairInv, CloneOK, IsContent, Contents
  <2>4. remote' \in [Branches -> Contents]
    BY <1>0, <2>1, <2>2, <2>3
  <2> QED BY <1>0, <2>1, <2>4 DEF Phases
<1>9. CASE OpenPullRequest
  <2>1. /\ phase = "pr" /\ phase' = "push" /\ prs' = prs \cup {[source |-> Branch[Group.key], target |-> head]}
        /\ UNCHANGED <<runs, updated, failed, head, remote>>
    BY <1>9 DEF OpenPullRequest, Target, clone
  <2>2. Branch[Group.key] \in Branches /\ head \in Branches
    BY <1>0, <2>1, GroupKnown
  <2>3. prs' \subseteq Asked
    BY <1>0, <2>1, <2>2 DEF Asked
  <2> QED BY <1>0, <2>1, <2>2, <2>3 DEF Phases
<1>10. CASE UNCHANGED vars
  BY <1>0, <1>10 DEF vars, run, clone
<1> QED BY <1>1, <1>2, <1>3, <1>4, <1>5, <1>6, <1>7, <1>8, <1>9, <1>10 DEF Next

LEMMA RestInitially == Init => RestOK
<1> SUFFICES ASSUME Init PROVE RestOK
  OBVIOUS
<1>1. runs \in 0..MaxRuns
  BY RepairAssumption DEF Init
<1>2. remote \in [Branches -> [Files -> Seq(Lines)] \cup {Absent}]
  BY DEF Init
<1> QED BY <1>1, <1>2 DEF Init, RestOK, Phases

LEMMA RepairInvariant == Spec => [](RepairInv /\ RestOK)
BY RepairInitially, RestInitially, RepairInductive, RestInductive, PTL DEF Spec

-----------------------------------------------------------------------------
(* The patches that a file may get.                                        *)

MadeFor(lines, P) ==
  /\ Fit(P, lines, Lines)
  /\ \A p \in P : /\ IsPatch(p) /\ p.method.end = p.end
                  /\ p.original = Text(SubSeq(lines, p.start, p.end))
  /\ \A p, q \in P : p.method = q.method => p = q

LEMMA PatchSetIs ==
  ASSUME NEW lines \in Seq(Lines), Len(lines) <= MaxLines, NEW P \in PatchSets(lines)
  PROVE  MadeFor(lines, P)
<1> DEFINE n == Len(lines)
           made(x, y) == [method |-> x, start |-> x.start, end |-> x.end, replacement |-> y,
                          original |-> Text(SubSeq(lines, x.start, x.end))]
<1>1. n \in 0..MaxLines
  BY RepairAssumption
<1>2. PICK R \in SpanSets[n] : \E r \in [R -> Replacements] : P = {made(p, r[p]) : p \in R}
  BY DEF PatchSets
<1>3. PICK r \in [R -> Replacements] : P = {made(p, r[p]) : p \in R}
  BY <1>2
<1>4. /\ R \subseteq {[start |-> i, end |-> j] : i \in 1..n, j \in 1..n}
      /\ \A p \in R : p.start <= p.end
      /\ Apart(R)
  <2> HIDE DEF n
  <2> QED BY <1>1, <1>2 DEF SpanSets
<1> HIDE DEF n
<1>5. \A x, y : made(x, y).method = x /\ made(x, y).start = x.start /\ made(x, y).end = x.end
                /\ made(x, y).replacement = y /\ made(x, y).original = Text(SubSeq(lines, x.start, x.end))
                /\ IsPatch(made(x, y))
  BY DEF IsPatch
<1> HIDE DEF made
<1>6. ASSUME NEW p \in P
      PROVE  /\ p.method \in R /\ p = made(p.method, r[p.method])
             /\ p.start = p.method.start /\ p.end = p.method.end
             /\ p.replacement \in Replacements /\ IsPatch(p)
             /\ p.original = Text(SubSeq(lines, p.start, p.end))
  <2>1. PICK x \in R : p = made(x, r[x])
    BY <1>3
  <2>2. p.method = x /\ p.start = x.start /\ p.end = x.end /\ p.replacement = r[x] /\ IsPatch(p)
        /\ p.original = Text(SubSeq(lines, x.start, x.end))
    BY <2>1, <1>5, Zenon
  <2> QED BY <2>1, <2>2
<1>7. \A p, q \in P : p.method = q.method => p = q
  BY <1>6
<1>8. Apart(P)
  <2> SUFFICES ASSUME NEW p \in P, NEW q \in P, p # q
               PROVE  p.end < q.start \/ q.end < p.start
    BY DEF Apart
  <2>1. p.method # q.method /\ p.method \in R /\ q.method \in R
    BY <1>6, <1>7
  <2> QED BY <2>1, <1>4, <1>6 DEF Apart
<1>9. \A p \in P : p.start \in 1..n /\ p.end \in p.start..n /\ p.replacement \in Seq(Lines)
  <2> TAKE p \in P
  <2>1. p.method \in R /\ p.start = p.method.start /\ p.end = p.method.end /\ p.replacement \in Replacements
    BY <1>6
  <2>2. PICK i \in 1..n, j \in 1..n : p.method = [start |-> i, end |-> j]
    BY <2>1, <1>4
  <2>3. p.start = i /\ p.end = j /\ i <= j
    BY <2>1, <2>2, <1>4
  <2>4. p.replacement \in Seq(Lines)
    BY <2>1, RepairAssumption
  <2> QED BY <2>3, <2>4, <1>1
<1>10. Fit(P, lines, Lines)
  BY <1>8, <1>9 DEF Fit, n
<1> QED BY <1>6, <1>7, <1>10 DEF MadeFor

\* What is taken back when the patches of F failed validation.
TakenIn(lines, P, F, new, undo) ==
  /\ new = Replaced(lines, P)
  /\ undo = Picked(new.updated, {u \in Range(new.updated) : \E p \in F : p.method = u.method})
  /\ Removable(undo, lines)

LEMMA TakenBack ==
  ASSUME NEW lines \in Seq(Lines), NEW P, MadeFor(lines, P), NEW F \in SUBSET P,
         NEW new, NEW undo, TakenIn(lines, P, F, new, undo)
  PROVE  Removed(new.lines, undo) = Meant(lines, P \ F)
<1> DEFINE M == {Moved(lines, P, p) : p \in P}
           upd == new.updated
           Chosen == {u \in Range(upd) : \E p \in F : p.method = u.method}
<1>1. /\ Fit(P, lines, Lines) /\ \A p \in P : IsPatch(p) /\ p.method.end = p.end
      /\ \A p \in P : p.original = Text(SubSeq(lines, p.start, p.end))
      /\ \A p, q \in P : p.method = q.method => p = q
  BY DEF MadeFor
<1>2. new.lines = Meant(lines, P) /\ upd = AllMoved(lines, P, InOrder(P))
  BY <1>1, ReplacedFit DEF TakenIn
<1>3. upd \in Seq(M) /\ Range(upd) = M
  <2> DEFINE s == InOrder(P)
  <2>1. s \in Seq(P) /\ Len(s) \in Nat /\ Range(s) = P
    BY <1>1, FitSpans, OrderIs
  <2> HIDE DEF s
  <2>2. \A i \in 1..Len(s) : s[i] \in P
    BY <2>1
  <2>3. upd = [i \in 1..Len(s) |-> Moved(lines, P, s[i])]
    BY <1>2 DEF AllMoved, s
  <2>4. \A i \in 1..Len(s) : Moved(lines, P, s[i]) \in M
    BY <2>2
  <2>5. \A p \in P : \E i \in 1..Len(s) : s[i] = p
    BY <2>1 DEF Range
  <2>6. Range(upd) = M
    <3>1. DOMAIN upd = 1..Len(s) /\ \A i \in 1..Len(s) : upd[i] = Moved(lines, P, s[i])
      BY <2>3
    <3> HIDE DEF upd
    <3> QED BY <2>2, <2>5, <3>1 DEF Range
  <2> HIDE DEF M, upd
  <2> QED BY <2>1, <2>3, <2>4, <2>6
<1>4. \A p \in P : Moved(lines, P, p).method = p.method
  <2> TAKE p \in P
  <2>1. MovedSo(lines, P, p, Moved(lines, P, p))
    BY <1>1, MovedIs
  <2> QED BY <2>1 DEF MovedSo
<1>5. undo \in Seq(M) /\ Range(undo) = {Moved(lines, P, p) : p \in F}
  <2>1. undo = Picked(upd, Chosen)
    BY DEF TakenIn
  <2> HIDE DEF upd, Chosen, M
  <2>2. undo \in Seq(M) /\ Range(undo) = Range(upd) \cap Chosen
    <3>1. Picked(upd, Chosen) \in Seq(M) /\ Range(Picked(upd, Chosen)) = Range(upd) \cap Chosen
      BY <1>3, PickedElements
    <3> QED BY <2>1, <3>1
  <2>3. Range(undo) = {u \in M : \E p \in F : p.method = u.method}
    BY <1>3, <2>2 DEF Chosen
  <2> QED BY <1>1, <1>4, <2>2, <2>3 DEF M
<1> HIDE DEF upd, Chosen, M
<1>6. Takes(undo, F, lines, P)
  BY <1>5 DEF Takes, TakenIn, Removable, M
<1>7. ASSUME NEW p \in F PROVE p.original = SubSeq(lines, p.start, p.end)
  <2>1. Moved(lines, P, p) \in Range(undo)
    BY <1>5
  <2>2. PICK i \in DOMAIN undo : undo[i] = Moved(lines, P, p)
    BY <2>1 DEF Range
  <2>3. undo[i].method.end = p.end
    BY <2>2, <1>1, <1>4
  <2>4. lines[p.end] # Blank
    BY <2>3 DEF TakenIn, Removable
  <2> DEFINE a == p.start
             b == p.end
             w == SubSeq(lines, a, b)
  <2>5. Len(lines) \in Nat /\ \A k \in 1..Len(lines) : lines[k] \in Lines
    OBVIOUS
  <2>6. a \in 1..Len(lines) /\ b \in a..Len(lines)
    BY <1>1 DEF Fit
  <2>7. p.original = Text(w)
    BY <1>1
  <2> HIDE DEF a, b
  <2>8. a \in Int /\ b \in Int /\ a <= b /\ \A k \in a..b : lines[k] \in Lines
    BY <2>5, <2>6
  <2>9. Len(w) = b - a + 1 /\ \A k \in 1..(b - a + 1) : w[k] = lines[a + k - 1]
    BY <2>8, SubSeqProperties
  <2>10. w[Len(w)] = lines[b]
    <3>1. b - a + 1 \in 1..(b - a + 1) /\ a + (b - a + 1) - 1 = b
      BY <2>8
    <3> HIDE DEF w
    <3> QED BY <2>9, <3>1
  <2>11. Text(w) = w
    BY <2>4, <2>10 DEF Text, b
  <2> QED BY <2>7, <2>11 DEF a, b
<1>8. Removed(Meant(lines, P), undo) = Meant(lines, P \ F)
  BY <1>1, <1>6, <1>7, RemovedFit
<1> QED BY <1>2, <1>8

\* Every variable keeps to its set, whatever the models answer and wherever
\* the runs break off: no step of the loops of replace_lines and remove_lines
\* leaves anything but lines, also when the patches are those of other files.
THEOREM TypeCorrect == Spec => []TypeOK
<1>1. RepairInv /\ RestOK => TypeOK
  <2> SUFFICES ASSUME RepairInv, RestOK PROVE TypeOK
    OBVIOUS
  <2>1. items \in Seq([test : Tests, target : {"NONE", "TEST", "SERVICE"},
                       service : Services \cup {NoFile}, patch : Replacements \cup {NoPatch}])
    BY DEF RepairInv, ItemsOK, ItemSet
  <2>2. at \in 1..(1 + Len(items)) /\ groups \in Seq([key : Files, skeleton : BOOLEAN, tests : SUBSET Tests])
    BY DEF RepairInv, PositionOK, GroupsOK
  <2>3. {tree, index} \subseteq [Files -> Seq(Lines)] /\ head \in Branches \cup {NoBranch}
    BY DEF RepairInv, CloneOK, IsContent
  <2>4. branches \in [Branches -> [Files -> Seq(Lines)] \cup {Absent}]
    <3> DEFINE C == [Files -> Seq(Lines)]
    <3>1. branches = [b \in Branches |-> branches[b]] /\ \A b \in Branches : branches[b] # Absent => branches[b] \in C
      BY DEF RepairInv, CloneOK, IsContent
    <3> HIDE DEF C
    <3>2. branches \in [Branches -> C \cup {Absent}]
      BY <3>1
    <3> QED BY <3>2 DEF C
  <2>5. /\ runs \in 0..MaxRuns /\ phase \in Phases /\ failed \subseteq {Method[t] : t \in Tests}
        /\ updated \in Seq([method : {Method[t] : t \in Tests}, start : Nat \ {0}, end : Nat,
                            replacement : Replacements, original : Seq(Lines)])
        /\ remote \in [Branches -> [Files -> Seq(Lines)] \cup {Absent}]
        /\ prs \subseteq [source : Branches, target : Branches]
    BY DEF RestOK, Updates
  <2> QED BY <2>1, <2>2, <2>3, <2>4, <2>5 DEF TypeOK
<1> QED BY <1>1, RepairInvariant, PTL

LEMMA FileOfGroup == RepairInv /\ phase = "patch" => tree[Group.key] \in Seq(Lines)
BY GroupKnown DEF RepairInv, CloneOK, IsContent, AtGroup, OnBranch

\* In whatever file a run is about to patch, any patches of its lines that do
\* not overlap replace their own lines and move no other (replace_lines).
THEOREM PatchesInPlace == Spec => []PatchesLandInPlace
<1>1. RepairInv => PatchesLandInPlace
  <2> SUFFICES ASSUME RepairInv, phase = "patch", Len(tree[Group.key]) <= MaxLines,
                      NEW P \in PatchSets(tree[Group.key])
               PROVE  Replaced(tree[Group.key], P).lines = Meant(tree[Group.key], P)
    BY DEF PatchesLandInPlace
  <2>1. tree[Group.key] \in Seq(Lines)
    BY FileOfGroup
  <2>2. Fit(P, tree[Group.key], Lines)
    BY <2>1, PatchSetIs DEF MadeFor
  <2> QED BY <2>2, ReplacedFit
<1> QED BY <1>1, RepairInvariant, PTL

\* Those of them that failed validation can be taken back by themselves, if
\* none replaced an empty line at its end and no two begin in the same place:
\* the file is as if only the others had been made (remove_lines).
THEOREM UndoIsExact == Spec => []UndoRestores
<1>1. RepairInv => UndoRestores
  <2> DEFINE lines == tree[Group.key]
  <2> SUFFICES ASSUME RepairInv, phase = "patch", Len(lines) <= MaxLines,
                      NEW P \in PatchSets(lines), NEW F \in SUBSET P,
                      NEW new, new = Replaced(lines, P), NEW undo,
                      undo = Picked(new.updated, {u \in Range(new.updated) : \E p \in F : p.method = u.method}),
                      Removable(undo, lines)
               PROVE  Removed(new.lines, undo) = Meant(lines, P \ F)
    BY DEF UndoRestores
  <2>1. lines \in Seq(Lines)
    BY FileOfGroup
  <2> HIDE DEF lines
  <2>2. MadeFor(lines, P)
    BY <2>1, PatchSetIs
  <2>3. TakenIn(lines, P, F, new, undo)
    BY DEF TakenIn
  <2> QED BY <2>1, <2>2, <2>3, TakenBack
<1> QED BY <1>1, RepairInvariant, PTL

\* At the start of a group nothing is left over in the clone: whatever an
\* earlier run or group did not commit, checkout_commit and commit_patch
\* leave the working tree and the index as they are committed.
THEOREM GroupsStartClean == Spec => [](phase = "branch" => tree = Committed /\ index = Committed)
<1>1. RepairInv => (phase = "branch" => tree = Committed /\ index = Committed)
  BY DEF RepairInv, CleanOK
<1> QED BY <1>1, RepairInvariant, PTL

\* A commit (git_tool.commit_patch) changes the file of its group and no
\* other, in any sequence of runs, each broken off anywhere.
THEOREM CommitsOwnFile == Spec => CommitIsOwnFile
<1> DEFINE Own == \A b \in Branches :
       branches[b] # Absent /\ branches'[b] # branches[b] =>
         \A f \in Files \ {Group.key} : branches'[b][f] = branches[b][f]
<1>1. RepairInv /\ [Next]_vars => [Own]_vars
  <2> SUFFICES ASSUME RepairInv, Next, NEW b \in Branches,
                      branches[b] # Absent, branches'[b] # branches[b], NEW f \in Files \ {Group.key}
               PROVE  branches'[b][f] = branches[b][f]
    OBVIOUS
  <2>0. branches = [c \in Branches |-> branches[c]]
    BY DEF RepairInv, CloneOK
  <2>1. CASE CheckoutBranch
    <3>1. CASE branches' = branches
      BY <3>1
    <3>2. CASE /\ branches[Branch[Group.key]] = Absent
               /\ branches' = [branches EXCEPT ![Branch[Group.key]] = Committed]
      BY <2>0, <3>2
    <3> QED BY <2>1, <3>1, <3>2 DEF CheckoutBranch
  <2>2. CASE Commit
    <3>1. phase = "commit" /\ branches' = [branches EXCEPT ![head] = index]
      BY <2>2 DEF Commit
    <3>2. b = head /\ branches'[b] = index
      BY <2>0, <3>1
    <3>3. index[f] = Committed[f]
      BY <3>1 DEF RepairInv, CleanOK, OnBranch
    <3>4. head # NoBranch
      BY <3>2
    <3> QED BY <3>2, <3>3, <3>4 DEF Committed
  <2>3. CASE ~CheckoutBranch /\ ~Commit
    <3>1. branches' = branches
      BY <2>3 DEF Next, Start, Raise, CheckoutCommit, Analyse, Repair, Grouping, PatchFile, Validate,
                  Undo, Add, Push, OpenPullRequest, clone
    <3> QED BY <3>1
  <2> QED BY <2>1, <2>2, <2>3
<1> QED BY <1>1, RepairInvariant, PTL DEF Spec, CommitIsOwnFile
=============================================================================
