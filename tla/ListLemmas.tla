------------------------------ MODULE ListLemmas ------------------------------
(***************************************************************************)
(* Induction, recursion and lists: that a recursive function has the       *)
(* values its definition gives, and what picking, flattening and sorting   *)
(* return.                                                                 *)
(***************************************************************************)
EXTENDS ListOps, SequenceTheorems, FiniteSetTheorems, WellFoundedInduction, TLAPS

-----------------------------------------------------------------------------
(* Induction and recursion over an initial segment of Nat.                 *)

LEMMA LeastNat ==
  ASSUME NEW T \in SUBSET Nat, T # {}
  PROVE  \E n \in T : \A m \in T : n <= m
<1> DEFINE R == OpToRel(<, Nat)
<1>1. IsWellFoundedOn(R, Nat)
  BY NatLessThanWellFounded
<1>2. \A m, n \in Nat : m < n => <<m, n>> \in R
  BY DEF R, OpToRel
<1> HIDE DEF R
<1>3. PICK n \in T : \A m \in T : ~ (<<m, n>> \in R)
  BY <1>1, WFMin
<1>4. \A m \in T : ~(m < n)
  BY <1>2, <1>3
<1> QED BY <1>3, <1>4

LEMMA Induct ==
  ASSUME NEW n \in Nat, NEW T, 0 \in T, \A k \in 1..n : k - 1 \in T => k \in T
  PROVE  \A k \in 0..n : k \in T
<1> SUFFICES ASSUME (0..n) \ T # {} PROVE FALSE
  OBVIOUS
<1> DEFINE U == (0..n) \ T
<1>0. U \in SUBSET Nat /\ U # {}
  OBVIOUS
<1>1. PICK k \in U : \A m \in U : k <= m
  <2> HIDE DEF U
  <2> QED BY <1>0, LeastNat
<1>2. k \in 1..n /\ k - 1 \in 0..n /\ ~(k <= k - 1)
  BY <1>1
<1> QED BY <1>1, <1>2

\* A recursive function has a value wherever its steps have one.
Steps(n, X, b, F)  == n \in Nat /\ b \in X /\ F \in [1..n -> [X -> X]]
Result(n, X, b, F) == \E h \in [0..n -> X] : \A k \in 0..n : h[k] = IF k = 0 THEN b ELSE F[k][h[k - 1]]

LEMMA Recursion ==
  ASSUME NEW n, NEW X, NEW b, NEW F, Steps(n, X, b, F)
  PROVE  Result(n, X, b, F)
<1>0. n \in Nat /\ b \in X /\ F \in [1..n -> [X -> X]]
  BY DEF Steps
<1> DEFINE G(j, h) == \A k \in 0..j : h[k] = IF k = 0 THEN b ELSE F[k][h[k - 1]]
           T == {j \in 0..n : \E h \in [0..j -> X] : G(j, h)}
<1>1. 0 \in T
  <2> USE <1>0
  <2> DEFINE h == [k \in 0..0 |-> b]
  <2>1. h \in [0..0 -> X]
    OBVIOUS
  <2>2. G(0, h)
    OBVIOUS
  <2>3. 0 \in 0..n /\ \E g \in [0..0 -> X] : G(0, g)
    <3> HIDE DEF G, h
    <3> QED BY <2>1, <2>2
  <2> QED BY <2>3
<1>2. ASSUME NEW j \in 1..n, j - 1 \in T PROVE j \in T
  <2> USE <1>0
  <2>1. PICK h \in [0..(j - 1) -> X] : G(j - 1, h)
    BY <1>2
  <2> DEFINE g == [k \in 0..j |-> IF k = j THEN F[j][h[j - 1]] ELSE h[k]]
  <2>2. g \in [0..j -> X]
    OBVIOUS
  <2>3. ASSUME NEW k \in 0..j PROVE g[k] = IF k = 0 THEN b ELSE F[k][g[k - 1]]
    <3>1. CASE k = j
      BY <3>1
    <3>2. CASE k # j
      <4>1. k \in 0..(j - 1) /\ (k # 0 => k - 1 \in 0..j /\ k - 1 # j)
        BY <3>2
      <4>2. h[k] = IF k = 0 THEN b ELSE F[k][h[k - 1]]
        BY <2>1, <4>1
      <4> QED BY <4>1, <4>2, <3>2
    <3> QED BY <3>1, <3>2
  <2>4. G(j, g)
    BY <2>3
  <2> HIDE DEF g
  <2> QED BY <2>2, <2>4
<1>3. n \in T
  <2> HIDE DEF T
  <2>1. \A k \in 0..n : k \in T
    BY <1>0, <1>1, <1>2, Induct
  <2> QED BY <1>0, <2>1
<1> QED BY <1>3 DEF Result

-----------------------------------------------------------------------------
(* The elements of a sequence that are in a set.                           *)

Picking(s, S) ==
  CHOOSE p : p = [k \in 0..Len(s) |->
    IF k = 0 THEN <<>> ELSE IF s[k] \in S THEN Append(p[k - 1], s[k]) ELSE p[k - 1]]

LEMMA PickingIs ==
  ASSUME NEW X, NEW s \in Seq(X), NEW S
  PROVE  /\ Picked(s, S) = Picking(s, S)[Len(s)]
         /\ Picking(s, S) \in [0..Len(s) -> Seq(X)]
         /\ Picking(s, S)[0] = <<>>
         /\ \A k \in 1..Len(s) : Picking(s, S)[k] =
              IF s[k] \in S THEN Append(Picking(s, S)[k - 1], s[k]) ELSE Picking(s, S)[k - 1]
<1> DEFINE F == [k \in 1..Len(s) |-> [q \in Seq(X) |-> IF s[k] \in S THEN Append(q, s[k]) ELSE q]]
<1>1. F \in [1..Len(s) -> [Seq(X) -> Seq(X)]] /\ Len(s) \in Nat /\ <<>> \in Seq(X)
  OBVIOUS
<1>2. PICK h \in [0..Len(s) -> Seq(X)] :
        \A k \in 0..Len(s) : h[k] = IF k = 0 THEN <<>> ELSE F[k][h[k - 1]]
  <2> HIDE DEF F
  <2>1. Result(Len(s), Seq(X), <<>>, F)
    BY <1>1, Recursion DEF Steps
  <2> QED BY <2>1 DEF Result
<1> DEFINE body(p) == [k \in 0..Len(s) |->
             IF k = 0 THEN <<>> ELSE IF s[k] \in S THEN Append(p[k - 1], s[k]) ELSE p[k - 1]]
<1>3. h = body(h)
  <2>1. ASSUME NEW k \in 0..Len(s) PROVE h[k] = body(h)[k]
    <3>1. CASE k = 0
      BY <1>2, <3>1
    <3>2. CASE k # 0
      <4>1. k \in 1..Len(s) /\ k - 1 \in 0..Len(s)
        BY <3>2, <1>1
      <4>2. h[k - 1] \in Seq(X)
        BY <4>1, <1>2
      <4>3. F[k][h[k - 1]] = IF s[k] \in S THEN Append(h[k - 1], s[k]) ELSE h[k - 1]
        BY <4>1, <4>2
      <4> QED BY <4>1, <4>3, <1>2, <3>2
    <3> QED BY <3>1, <3>2
  <2> HIDE DEF F
  <2> QED BY <2>1
<1>4. Picking(s, S) = body(Picking(s, S))
  <2> HIDE DEF F
  <2> QED BY <1>3 DEF Picking
<1> DEFINE p == Picking(s, S)
<1>5. /\ p[0] = <<>>
      /\ \A k \in 1..Len(s) : p[k] = IF s[k] \in S THEN Append(p[k - 1], s[k]) ELSE p[k - 1]
  <2> HIDE DEF p, F
  <2>1. p = body(p)
    BY <1>4 DEF p
  <2>2. \A k \in 0..Len(s) : p[k] =
          IF k = 0 THEN <<>> ELSE IF s[k] \in S THEN Append(p[k - 1], s[k]) ELSE p[k - 1]
    BY <2>1
  <2> QED BY <2>2, <1>1
<1>6. p \in [0..Len(s) -> Seq(X)]
  <2> HIDE DEF p, F
  <2> DEFINE T == {k \in 0..Len(s) : p[k] \in Seq(X)}
  <2>1. 0 \in T
    <3>1. p[0] \in Seq(X) /\ 0 \in 0..Len(s)
      BY <1>5, <1>1
    <3> QED BY <3>1
  <2>2. ASSUME NEW k \in 1..Len(s), k - 1 \in T PROVE k \in T
    <3>1. k \in 0..Len(s) /\ p[k - 1] \in Seq(X) /\ s[k] \in X
      BY <2>2, <1>1
    <3>2. p[k] = p[k - 1] \/ p[k] = Append(p[k - 1], s[k])
      BY <1>5
    <3>3. Append(p[k - 1], s[k]) \in Seq(X)
      BY <3>1
    <3>4. p[k] \in Seq(X)
      BY <3>1, <3>2, <3>3
    <3> QED BY <3>1, <3>4
  <2>3. \A k \in 0..Len(s) : p[k] \in Seq(X)
    <3> HIDE DEF T
    <3>1. \A k \in 0..Len(s) : k \in T
      BY <2>1, <2>2, <1>1, Induct
    <3> QED BY <3>1 DEF T
  <2>4. p = body(p)
    BY <1>4 DEF p
  <2>5. p = [k \in 0..Len(s) |-> p[k]]
    BY <2>4
  <2> QED BY <2>3, <2>5
<1>7. Picked(s, S) = p[Len(s)]
  BY DEF Picked, Picking
<1> QED BY <1>5, <1>6, <1>7

LEMMA RangeAppend ==
  ASSUME NEW X, NEW s \in Seq(X), NEW x \in X
  PROVE  Range(Append(s, x)) = Range(s) \cup {x}
<1> DEFINE t == Append(s, x)
<1>1. Len(s) \in Nat /\ DOMAIN s = 1..Len(s) /\ DOMAIN t = 1..(Len(s) + 1)
  OBVIOUS
<1>2. t[Len(s) + 1] = x /\ \A k \in 1..Len(s) : t[k] = s[k]
  OBVIOUS
<1>3. 1..(Len(s) + 1) = (1..Len(s)) \cup {Len(s) + 1}
  BY <1>1
<1> HIDE DEF t
<1>4. Range(t) = Range(s) \cup {x}
  BY <1>1, <1>2, <1>3 DEF Range
<1> QED BY <1>4 DEF t

LEMMA PickingAgrees ==
  ASSUME NEW X, NEW s \in Seq(X), NEW t \in Seq(X), NEW S, NEW R, NEW n \in Nat,
         n <= Len(s), n <= Len(t), \A k \in 1..n : s[k] = t[k] /\ (s[k] \in S <=> t[k] \in R)
  PROVE  Picking(s, S)[n] = Picking(t, R)[n]
<1> DEFINE p == Picking(s, S)
           q == Picking(t, R)
           T == {k \in 0..n : p[k] = q[k]}
<1>1. /\ p[0] = <<>>
      /\ \A k \in 1..Len(s) : p[k] = IF s[k] \in S THEN Append(p[k - 1], s[k]) ELSE p[k - 1]
  BY PickingIs
<1>2. /\ q[0] = <<>>
      /\ \A k \in 1..Len(t) : q[k] = IF t[k] \in R THEN Append(q[k - 1], t[k]) ELSE q[k - 1]
  BY PickingIs
<1> HIDE DEF p, q
<1>3. 0 \in T
  BY <1>1, <1>2
<1>4. ASSUME NEW k \in 1..n, k - 1 \in T PROVE k \in T
  <2>1. k \in 1..Len(s) /\ k \in 1..Len(t) /\ p[k - 1] = q[k - 1]
    BY <1>4
  <2>2. s[k] = t[k] /\ (s[k] \in S <=> t[k] \in R)
    OBVIOUS
  <2>3. p[k] = q[k]
    BY <2>1, <2>2, <1>1, <1>2
  <2> QED BY <2>3
<1>5. n \in T
  <2> HIDE DEF T
  <2>1. \A k \in 0..n : k \in T
    BY <1>3, <1>4, Induct
  <2> QED BY <2>1
<1>6. p[n] = q[n]
  BY <1>5
<1> QED BY <1>6 DEF p, q

LEMMA PickedEmpty == ASSUME NEW S PROVE Picked(<<>>, S) = <<>>
<1> DEFINE e == <<>>
<1>1. e \in Seq(Nat) /\ Len(e) = 0
  OBVIOUS
<1> HIDE DEF e
<1>2. \A s \in Seq(Nat) : Picked(s, S) = Picking(s, S)[Len(s)] /\ Picking(s, S)[0] = <<>>
  BY PickingIs
<1>3. Picked(e, S) = <<>>
  BY <1>1, <1>2
<1> QED BY <1>3 DEF e

LEMMA PickedAppend ==
  ASSUME NEW X, NEW s \in Seq(X), NEW x \in X, NEW S
  PROVE  Picked(Append(s, x), S) = IF x \in S THEN Append(Picked(s, S), x) ELSE Picked(s, S)
<1> DEFINE t == Append(s, x)
           n == Len(s)
<1>1. t \in Seq(X) /\ Len(t) = n + 1 /\ n \in Nat /\ t[n + 1] = x /\ \A k \in 1..n : t[k] = s[k]
  OBVIOUS
<1> HIDE DEF t
<1>2. Picked(s, S) = Picking(s, S)[n]
  BY PickingIs
<1>3. Picking(s, S)[n] = Picking(t, S)[n]
  <2>1. n <= Len(s) /\ n <= Len(t) /\ \A k \in 1..n : s[k] = t[k] /\ (s[k] \in S <=> t[k] \in S)
    BY <1>1
  <2> HIDE DEF n
  <2> QED BY <2>1, <1>1, PickingAgrees
<1>4. Picked(t, S) = Picking(t, S)[n + 1]
  BY <1>1, PickingIs
<1>5. Picking(t, S)[n + 1] = IF t[n + 1] \in S THEN Append(Picking(t, S)[n], t[n + 1]) ELSE Picking(t, S)[n]
  <2>1. \A k \in 1..Len(t) : Picking(t, S)[k] =
          IF t[k] \in S THEN Append(Picking(t, S)[k - 1], t[k]) ELSE Picking(t, S)[k - 1]
    BY <1>1, PickingIs
  <2>2. n + 1 \in 1..Len(t) /\ (n + 1) - 1 = n
    BY <1>1
  <2> QED BY <2>1, <2>2
<1>6. Picked(t, S) = IF x \in S THEN Append(Picked(s, S), x) ELSE Picked(s, S)
  BY <1>1, <1>2, <1>3, <1>4, <1>5
<1> QED BY <1>6 DEF t

LEMMA PickedSame ==
  ASSUME NEW X, NEW s \in Seq(X), NEW S, NEW R, \A k \in 1..Len(s) : s[k] \in S <=> s[k] \in R
  PROVE  Picked(s, S) = Picked(s, R)
<1>1. Len(s) \in Nat
  OBVIOUS
<1>2. Picking(s, S)[Len(s)] = Picking(s, R)[Len(s)]
  <2> DEFINE n == Len(s)
  <2>1. n \in Nat /\ n <= Len(s) /\ \A k \in 1..n : s[k] = s[k] /\ (s[k] \in S <=> s[k] \in R)
    BY <1>1
  <2> HIDE DEF n
  <2>2. Picking(s, S)[n] = Picking(s, R)[n]
    BY <2>1, PickingAgrees
  <2> QED BY <2>2 DEF n
<1> QED BY <1>2, PickingIs

\* What is picked is the set's part of the sequence.
LEMMA PickedElements ==
  ASSUME NEW X, NEW s \in Seq(X), NEW S
  PROVE  /\ Picked(s, S) \in Seq(X)
         /\ Range(Picked(s, S)) = Range(s) \cap S
<1> DEFINE p == Picking(s, S)
           Among(k) == {x \in S : \E i \in 1..k : s[i] = x}
           T == {k \in 0..Len(s) : Range(p[k]) = Among(k)}
<1>1. /\ p \in [0..Len(s) -> Seq(X)] /\ p[0] = <<>>
      /\ \A k \in 1..Len(s) : p[k] = IF s[k] \in S THEN Append(p[k - 1], s[k]) ELSE p[k - 1]
      /\ Picked(s, S) = p[Len(s)]
  BY PickingIs
<1>2. Len(s) \in Nat
  OBVIOUS
<1> HIDE DEF p
<1>3. 0 \in T
  <2>1. Range(<<>>) = {} /\ Among(0) = {}
    BY DEF Range
  <2> QED BY <2>1, <1>1, <1>2
<1>4. ASSUME NEW k \in 1..Len(s), k - 1 \in T PROVE k \in T
  <2>0. k - 1 \in 0..Len(s) /\ Range(p[k - 1]) = Among(k - 1)
    BY <1>2, <1>4
  <2>1. k - 1 \in 0..Len(s) /\ p[k - 1] \in Seq(X) /\ s[k] \in X /\ Range(p[k - 1]) = Among(k - 1)
    <3> HIDE DEF Among, T
    <3>1. p[k - 1] \in Seq(X)
      BY <1>1, <2>0
    <3>2. s[k] \in X
      BY <1>2
    <3> QED BY <2>0, <3>1, <3>2
  <2>2. Range(Append(p[k - 1], s[k])) = Range(p[k - 1]) \cup {s[k]}
    BY <2>1, RangeAppend
  <2>3. Among(k) = IF s[k] \in S THEN Among(k - 1) \cup {s[k]} ELSE Among(k - 1)
    <3>1. 1..k = (1..(k - 1)) \cup {k}
      BY <1>2
    <3> QED BY <3>1
  <2> HIDE DEF Among
  <2>4. Range(p[k]) = Among(k)
    BY <1>1, <2>1, <2>2, <2>3
  <2> QED BY <2>4
<1>5. Len(s) \in T
  <2> HIDE DEF T
  <2>1. \A k \in 0..Len(s) : k \in T
    BY <1>2, <1>3, <1>4, Induct
  <2> QED BY <2>1, <1>2
<1>6. Among(Len(s)) = Range(s) \cap S
  BY <1>2 DEF Range
<1> HIDE DEF Among
<1> QED BY <1>1, <1>2, <1>5, <1>6

-----------------------------------------------------------------------------
(* A sequence of sequences, end to end.                                    *)

Flattening(ss) ==
  CHOOSE f : f = [i \in 1..Len(ss) |-> IF i = 1 THEN ss[i] ELSE f[i - 1] \o ss[i]]

LEMMA FlatteningIs ==
  ASSUME NEW X, NEW ss \in Seq(Seq(X)), Len(ss) # 0
  PROVE  /\ FlattenSeq(ss) = Flattening(ss)[Len(ss)]
         /\ Flattening(ss) \in [1..Len(ss) -> Seq(X)]
         /\ Flattening(ss)[1] = ss[1]
         /\ \A i \in 2..Len(ss) : Flattening(ss)[i] = Flattening(ss)[i - 1] \o ss[i]
<1> DEFINE F == [k \in 1..Len(ss) |-> [q \in Seq(X) |-> q \o ss[k]]]
<1>1. F \in [1..Len(ss) -> [Seq(X) -> Seq(X)]] /\ Len(ss) \in Nat /\ <<>> \in Seq(X)
  OBVIOUS
<1>2. PICK h \in [0..Len(ss) -> Seq(X)] :
        \A k \in 0..Len(ss) : h[k] = IF k = 0 THEN <<>> ELSE F[k][h[k - 1]]
  <2> HIDE DEF F
  <2>1. Result(Len(ss), Seq(X), <<>>, F)
    BY <1>1, Recursion DEF Steps
  <2> QED BY <2>1 DEF Result
<1>3. /\ h[0] = <<>>
      /\ \A k \in 1..Len(ss) : h[k - 1] \in Seq(X) /\ ss[k] \in Seq(X) /\ h[k] = h[k - 1] \o ss[k]
  <2>1. ASSUME NEW k \in 1..Len(ss)
        PROVE  h[k - 1] \in Seq(X) /\ ss[k] \in Seq(X) /\ h[k] = h[k - 1] \o ss[k]
    <3>1. k \in 0..Len(ss) /\ k - 1 \in 0..Len(ss) /\ k # 0
      BY <1>1
    <3>2. h[k - 1] \in Seq(X)
      BY <3>1, <1>2
    <3>3. F[k][h[k - 1]] = h[k - 1] \o ss[k]
      BY <3>2
    <3>4. h[k] = F[k][h[k - 1]]
      <4> HIDE DEF F
      <4> QED BY <3>1, <1>2
    <3>5. ss[k] \in Seq(X)
      OBVIOUS
    <3> QED BY <3>2, <3>3, <3>4, <3>5
  <2>2. h[0] = <<>>
    <3> HIDE DEF F
    <3> QED BY <1>1, <1>2
  <2> QED BY <2>1, <2>2
<1> HIDE DEF F
<1> DEFINE body(f) == [i \in 1..Len(ss) |-> IF i = 1 THEN ss[i] ELSE f[i - 1] \o ss[i]]
           g == [i \in 1..Len(ss) |-> h[i]]
<1>4. g = body(g)
  <2>1. ASSUME NEW i \in 1..Len(ss) PROVE h[i] = IF i = 1 THEN ss[i] ELSE g[i - 1] \o ss[i]
    <3>1. CASE i = 1
      <4>0. 1 - 1 = 0 /\ 1 \in 1..Len(ss)
        BY <3>1
      <4>1. h[1] = h[0] \o ss[1] /\ ss[1] \in Seq(X)
        BY <4>0, <1>3
      <4>2. <<>> \o ss[1] = ss[1]
        BY <4>1
      <4> QED BY <4>1, <4>2, <1>3, <3>1
    <3>2. CASE i # 1
      <4>1. i - 1 \in 1..Len(ss) /\ g[i - 1] = h[i - 1]
        BY <3>2, <1>1
      <4> QED BY <4>1, <3>2, <1>3
    <3> QED BY <3>1, <3>2
  <2> QED BY <2>1
<1>5. Flattening(ss) = body(Flattening(ss))
  <2> HIDE DEF g
  <2> QED BY <1>4 DEF Flattening
<1> DEFINE f == Flattening(ss)
<1>6. \A i \in 1..Len(ss) : f[i] = IF i = 1 THEN ss[i] ELSE f[i - 1] \o ss[i]
  <2> HIDE DEF f
  <2>1. f = body(f)
    BY <1>5 DEF f
  <2> QED BY <2>1
<1>7. f = [i \in 1..Len(ss) |-> f[i]]
  <2> HIDE DEF f
  <2>1. f = body(f)
    BY <1>5 DEF f
  <2> QED BY <2>1
<1>8. FlattenSeq(ss) = f[Len(ss)]
  BY DEF FlattenSeq, Flattening
<1> HIDE DEF f
<1>9. f[1] = ss[1] /\ \A i \in 2..Len(ss) : f[i] = f[i - 1] \o ss[i]
  <2>1. 1 \in 1..Len(ss) /\ \A i \in 2..Len(ss) : i \in 1..Len(ss) /\ i # 1
    BY <1>1
  <2> QED BY <2>1, <1>6
<1>10. \A i \in 0..Len(ss) : i # 0 => f[i] \in Seq(X)
  <2> DEFINE T == {i \in 0..Len(ss) : i # 0 => f[i] \in Seq(X)}
  <2>1. 0 \in T
    BY <1>1
  <2>2. ASSUME NEW i \in 1..Len(ss), i - 1 \in T PROVE i \in T
    <3>1. ss[i] \in Seq(X)
      OBVIOUS
    <3>2. CASE i = 1
      BY <3>1, <3>2, <1>1, <1>9
    <3>3. CASE i # 1
      <4>1. i \in 2..Len(ss) /\ f[i - 1] \in Seq(X)
        BY <3>3, <2>2, <1>1
      <4>2. f[i - 1] \o ss[i] \in Seq(X)
        BY <4>1, <3>1
      <4>3. f[i] = f[i - 1] \o ss[i]
        BY <4>1, <1>9
      <4>4. i \in 0..Len(ss) /\ f[i] \in Seq(X)
        BY <4>2, <4>3
      <4> QED BY <4>4
    <3> QED BY <3>2, <3>3
  <2>3. \A i \in 0..Len(ss) : i \in T
    <3> HIDE DEF T
    <3> QED BY <2>1, <2>2, <1>1, Induct
  <2> QED BY <2>3
<1>11. f \in [1..Len(ss) -> Seq(X)]
  <2>1. \A i \in 1..Len(ss) : f[i] \in Seq(X)
    BY <1>1, <1>10
  <2> QED BY <1>7, <2>1
<1> QED BY <1>8, <1>9, <1>11 DEF f

LEMMA FlatEmpty == FlattenSeq(<<>>) = <<>>
BY DEF FlattenSeq

LEMMA FlatAppend ==
  ASSUME NEW X, NEW ss \in Seq(Seq(X)), NEW s \in Seq(X)
  PROVE  FlattenSeq(Append(ss, s)) = FlattenSeq(ss) \o s
<1> DEFINE tt == Append(ss, s)
           n == Len(ss)
<1>1. /\ tt \in Seq(Seq(X)) /\ Len(tt) = n + 1 /\ n \in Nat /\ Len(tt) # 0
      /\ tt[n + 1] = s /\ \A k \in 1..n : tt[k] = ss[k]
  OBVIOUS
<1> HIDE DEF tt
<1>2. /\ FlattenSeq(tt) = Flattening(tt)[n + 1]
      /\ Flattening(tt)[1] = tt[1]
      /\ \A i \in 2..Len(tt) : Flattening(tt)[i] = Flattening(tt)[i - 1] \o tt[i]
  BY <1>1, FlatteningIs
<1>3. CASE n = 0
  <2>1. ss = <<>>
    BY <1>3
  <2>2. FlattenSeq(ss) \o s = s
    BY <2>1, FlatEmpty
  <2>3. FlattenSeq(tt) = s
    BY <1>1, <1>2, <1>3
  <2> QED BY <2>2, <2>3 DEF tt
<1>4. CASE n # 0
  <2> DEFINE f == Flattening(ss)
             g == Flattening(tt)
             T == {k \in 0..n : k # 0 => f[k] = g[k]}
  <2>1. /\ FlattenSeq(ss) = f[n] /\ f[1] = ss[1]
        /\ \A i \in 2..n : f[i] = f[i - 1] \o ss[i]
    BY <1>4, FlatteningIs
  <2>2. g[1] = tt[1] /\ \A i \in 2..(n + 1) : g[i] = g[i - 1] \o tt[i]
    BY <1>1, <1>2
  <2> HIDE DEF f, g
  <2>3. 0 \in T
    BY <1>1
  <2>4. ASSUME NEW k \in 1..n, k - 1 \in T PROVE k \in T
    <3>0. tt[k] = ss[k]
      BY <1>1
    <3>1. CASE k = 1
      <4>1. f[k] = g[k] /\ k \in 0..n
        BY <3>0, <3>1, <2>1, <2>2
      <4> QED BY <4>1
    <3>2. CASE k # 1
      <4>1. k \in 2..n /\ k \in 2..(n + 1) /\ k \in 0..n /\ f[k - 1] = g[k - 1]
        BY <3>2, <2>4, <1>1
      <4>2. f[k] = g[k]
        BY <4>1, <3>0, <2>1, <2>2
      <4> QED BY <4>1, <4>2
    <3> QED BY <3>1, <3>2
  <2>5. f[n] = g[n]
    <3>1. \A k \in 0..n : k \in T
      <4> HIDE DEF T, n
      <4> QED BY <2>3, <2>4, <1>1, Induct
    <3>2. n \in T
      BY <3>1, <1>1
    <3> QED BY <3>2, <1>4
  <2>6. n + 1 \in 2..(n + 1) /\ (n + 1) - 1 = n
    BY <1>1, <1>4
  <2>7. g[n + 1] = g[n] \o s
    BY <2>2, <2>6, <1>1
  <2>8. FlattenSeq(tt) = FlattenSeq(ss) \o s
    BY <1>2, <2>1, <2>5, <2>7 DEF g
  <2> QED BY <2>8 DEF tt
<1> QED BY <1>3, <1>4

\* What is in a flattened sequence is in one of its parts.
LEMMA FlatElements ==
  ASSUME NEW X, NEW ss \in Seq(Seq(X))
  PROVE  /\ FlattenSeq(ss) \in Seq(X)
         /\ Range(FlattenSeq(ss)) = UNION {Range(ss[i]) : i \in 1..Len(ss)}
<1>1. CASE Len(ss) = 0
  <2>1. ss = <<>> /\ FlattenSeq(ss) = <<>> /\ 1..Len(ss) = {}
    BY <1>1, FlatEmpty
  <2>2. Range(<<>>) = {}
    BY DEF Range
  <2>3. UNION {Range(ss[i]) : i \in 1..Len(ss)} = {}
    BY <2>1
  <2>4. <<>> \in Seq(X)
    OBVIOUS
  <2> QED BY <2>1, <2>2, <2>3, <2>4
<1>2. CASE Len(ss) # 0
  <2> DEFINE n == Len(ss)
             f == Flattening(ss)
             Upto(k) == UNION {Range(ss[i]) : i \in 1..k}
             T == {k \in 0..n : k # 0 => Range(f[k]) = Upto(k)}
  <2>1. /\ FlattenSeq(ss) = f[n] /\ f[1] = ss[1] /\ f \in [1..n -> Seq(X)]
        /\ \A i \in 2..n : f[i] = f[i - 1] \o ss[i]
    BY <1>2, FlatteningIs
  <2>2. n \in Nat /\ n # 0 /\ \A i \in 1..n : ss[i] \in Seq(X)
    BY <1>2
  <2> HIDE DEF f, n
  <2>3. 0 \in T
    BY <2>2
  <2>4. ASSUME NEW k \in 1..n, k - 1 \in T PROVE k \in T
    <3>0. k \in 0..n
      BY <2>2
    <3>1. CASE k = 1
      <4>1. 1..1 = {1}
        OBVIOUS
      <4>2. Upto(1) = Range(ss[1])
        BY <4>1
      <4>3. Range(f[k]) = Upto(k)
        BY <4>2, <3>1, <2>1
      <4> QED BY <3>0, <4>3
    <3>2. CASE k # 1
      <4>1. k \in 2..n /\ k - 1 \in 1..n /\ Range(f[k - 1]) = Upto(k - 1)
        BY <3>2, <2>4, <2>2
      <4>2. f[k - 1] \in Seq(X) /\ ss[k] \in Seq(X) /\ f[k] = f[k - 1] \o ss[k]
        BY <4>1, <2>1, <2>2
      <4>3. Range(f[k - 1] \o ss[k]) = Range(f[k - 1]) \cup Range(ss[k])
        BY <4>2, RangeConcatenation
      <4>4. 1..k = (1..(k - 1)) \cup {k}
        BY <2>2
      <4>5. Upto(k) = Upto(k - 1) \cup Range(ss[k])
        BY <4>4
      <4> HIDE DEF Upto
      <4>6. Range(f[k]) = Upto(k)
        BY <4>1, <4>2, <4>3, <4>5
      <4> QED BY <3>0, <4>6
    <3> QED BY <3>1, <3>2
  <2>5. n \in T
    <3> HIDE DEF T
    <3>1. \A k \in 0..n : k \in T
      BY <2>3, <2>4, <2>2, Induct
    <3> QED BY <3>1, <2>2
  <2>6. Range(f[n]) = Upto(n)
    BY <2>5, <2>2
  <2>7. f[n] \in Seq(X)
    BY <2>1, <2>2
  <2> QED BY <2>1, <2>6, <2>7 DEF n
<1> QED BY <1>1, <1>2

-----------------------------------------------------------------------------
(* One element more.                                                       *)

LEMMA AppendLast ==
  ASSUME NEW X, NEW s \in Seq(X), NEW x \in X
  PROVE  /\ Append(s, x) \in Seq(X) /\ Append(s, x) # <<>> /\ Last(Append(s, x)) = x
         /\ Front(Append(s, x)) = s /\ Len(Append(s, x)) = Len(s) + 1
<1> DEFINE t == Append(s, x)
<1>1. t \in Seq(X) /\ Len(t) = Len(s) + 1 /\ t[Len(s) + 1] = x /\ Len(s) \in Nat
      /\ \A k \in 1..Len(s) : t[k] = s[k]
  OBVIOUS
<1>2. t # <<>>
  BY <1>1
<1>3. s = [k \in 1..Len(s) |-> s[k]]
  OBVIOUS
<1> HIDE DEF t
<1>4. Front(t) = s
  <2>1. Front(t) = [k \in 1..Len(s) |-> t[k]]
    BY <1>1 DEF Front
  <2>2. \A k \in 1..Len(s) : t[k] = s[k]
    BY <1>1
  <2>3. [k \in 1..Len(s) |-> t[k]] = [k \in 1..Len(s) |-> s[k]]
    BY <2>2
  <2> QED BY <2>1, <2>3, <1>3
<1>5. Last(t) = x
  BY <1>1 DEF Last
<1> QED BY <1>1, <1>2, <1>4, <1>5 DEF t

LEMMA AppendIs ==
  ASSUME NEW X, NEW s \in Seq(X), NEW x \in X
  PROVE  /\ Append(s, x) \in Seq(X) /\ Len(Append(s, x)) = Len(s) + 1
         /\ Len(s) + 1 \in DOMAIN Append(s, x) /\ Append(s, x)[Len(s) + 1] = x
         /\ \A i \in DOMAIN s : i \in DOMAIN Append(s, x) /\ Append(s, x)[i] = s[i]
         /\ \A i \in DOMAIN Append(s, x) :
              (i \in DOMAIN s /\ i < Len(s) + 1) \/ i = Len(s) + 1
<1> DEFINE t == Append(s, x)
<1>1. /\ t \in Seq(X) /\ Len(t) = Len(s) + 1 /\ t[Len(s) + 1] = x /\ Len(s) \in Nat
      /\ DOMAIN s = 1..Len(s) /\ DOMAIN t = 1..(Len(s) + 1) /\ \A i \in 1..Len(s) : t[i] = s[i]
  OBVIOUS
<1> HIDE DEF t
<1>2. /\ Len(s) + 1 \in DOMAIN t /\ \A i \in DOMAIN s : i \in DOMAIN t /\ t[i] = s[i]
      /\ \A i \in DOMAIN t : (i \in DOMAIN s /\ i < Len(s) + 1) \/ i = Len(s) + 1
  BY <1>1
<1> QED BY <1>1, <1>2 DEF t

Appends(s, x, t) == Append(s, x) = t

LEMMA ConcatAppend ==
  ASSUME NEW X, NEW s \in Seq(X), NEW t \in Seq(X), NEW x \in X
  PROVE  Appends(s \o t, x, s \o Append(t, x))
<1> DEFINE u == <<x>>
           st == s \o t
           tx == Append(t, x)
<1>1. u \in Seq(X) /\ st \in Seq(X)
  OBVIOUS
<1>2. Append(st, x) = st \o u /\ tx = t \o u
  <2>1. \A r \in Seq(X) : Append(r, x) = r \o <<x>>
    BY AppendIsConcat
  <2> QED BY <2>1, <1>1
<1> HIDE DEF u
<1>3. (s \o t) \o u = s \o (t \o u)
  BY <1>1, ConcatAssociative
<1> HIDE DEF tx
<1>4. Append(st, x) = s \o tx
  BY <1>2, <1>3
<1> QED BY <1>4 DEF Appends, st, tx

LEMMA FlatSingles ==
  ASSUME NEW X, NEW f \in Seq(X)
  PROVE  FlattenSeq([i \in 1..Len(f) |-> <<f[i]>>]) = f
<1> DEFINE Upto(k)    == [i \in 1..k |-> f[i]]
           Singles(k) == [i \in 1..k |-> <<f[i]>>]
           T == {k \in 0..Len(f) : FlattenSeq(Singles(k)) = Upto(k)}
<1>1. Len(f) \in Nat /\ \A i \in 1..Len(f) : f[i] \in X
  OBVIOUS
<1>2. ASSUME NEW k \in 0..Len(f)
      PROVE  Singles(k) \in Seq(Seq(X)) /\ Len(Singles(k)) = k /\ Upto(k) \in Seq(X) /\ Len(Upto(k)) = k
  <2>1. \A i \in 1..k : f[i] \in X /\ <<f[i]>> \in Seq(X)
    BY <1>1
  <2> QED BY <2>1
<1>3. 0 \in T
  <2>1. Singles(0) = <<>> /\ Upto(0) = <<>>
    OBVIOUS
  <2> HIDE DEF Singles, Upto
  <2> QED BY <2>1, <1>1, FlatEmpty
<1>4. ASSUME NEW k \in 1..Len(f), k - 1 \in T PROVE k \in T
  <2> DEFINE u == Singles(k - 1)
             w == Upto(k - 1)
             x == f[k]
             y == <<x>>
  <2>1. /\ u \in Seq(Seq(X)) /\ Len(u) = k - 1 /\ w \in Seq(X) /\ Len(w) = k - 1
        /\ x \in X /\ y \in Seq(X) /\ k \in 0..Len(f)
    BY <1>1, <1>2
  <2>2. Singles(k) = Append(u, y)
    <3>1. \A i \in 1..(k - 1) : u[i] = <<f[i]>>
      OBVIOUS
    <3> HIDE DEF u
    <3>2. \A i \in 1..k : Singles(k)[i] = Append(u, y)[i]
      BY <3>1, <2>1
    <3>3. Singles(k) \in Seq(Seq(X)) /\ Len(Singles(k)) = k
      BY <2>1, <1>2
    <3>4. Append(u, y) \in Seq(Seq(X)) /\ Len(Append(u, y)) = k
      <4> HIDE DEF y
      <4>1. Len(u) + 1 = k
        BY <2>1
      <4> QED BY <4>1, <2>1
    <3> HIDE DEF Singles, y
    <3> QED BY <3>2, <3>3, <3>4
  <2>3. Upto(k) = Append(w, x)
    <3>1. \A i \in 1..(k - 1) : w[i] = f[i]
      OBVIOUS
    <3> HIDE DEF w
    <3>2. \A i \in 1..k : Upto(k)[i] = Append(w, x)[i]
      BY <3>1, <2>1
    <3>3. Upto(k) \in Seq(X) /\ Len(Upto(k)) = k
      BY <2>1, <1>2
    <3>4. Append(w, x) \in Seq(X) /\ Len(Append(w, x)) = k
      <4>1. Len(w) + 1 = k
        BY <2>1
      <4> QED BY <4>1, <2>1
    <3> HIDE DEF Upto
    <3> QED BY <3>2, <3>3, <3>4
  <2>4. FlattenSeq(u) = w
    BY <1>4
  <2> HIDE DEF u, w, Singles, Upto
  <2>5. FlattenSeq(Append(u, y)) = FlattenSeq(u) \o y
    BY <2>1, FlatAppend
  <2>6. w \o y = Append(w, x)
    BY <2>1, AppendIsConcat
  <2> QED BY <2>1, <2>2, <2>3, <2>4, <2>5, <2>6
<1>5. Len(f) \in T
  <2> DEFINE n == Len(f)
  <2>1. n \in Nat /\ \A k \in 1..n : k - 1 \in T => k \in T
    BY <1>1, <1>4
  <2> HIDE DEF T, n
  <2>2. \A k \in 0..n : k \in T
    BY <2>1, <1>3, Induct
  <2> QED BY <2>1, <2>2 DEF n
<1>6. Upto(Len(f)) = f
  OBVIOUS
<1> HIDE DEF Upto
<1> QED BY <1>5, <1>6

-----------------------------------------------------------------------------
(* Sorting by keys that are pairs of numbers.                              *)

SortKeys == Int \X Int

LEMMA FirstIs ==
  ASSUME NEW D, IsFiniteSet(D), D # {}, NEW key, \A d \in D : key[d] \in SortKeys
  PROVE  First(D, key) \in D /\ \A e \in D : Below(key[First(D, key)], key[e])
<1> DEFINE Least(E) == \E d \in E : \A e \in E : Below(key[d], key[e])
           T == {k \in 0..Cardinality(D) :
                   \A E \in SUBSET D : E # {} /\ Cardinality(E) = k => Least(E)}
<1>1. Cardinality(D) \in Nat
  BY FS_CardinalityType
<1>2. ASSUME NEW E \in SUBSET D PROVE IsFiniteSet(E)
  BY FS_Subset
<1>3. /\ \A p \in SortKeys : Below(p, p)
      /\ \A p, q \in SortKeys : Below(p, q) \/ Below(q, p)
      /\ \A p, q, r \in SortKeys : Below(p, q) /\ Below(q, r) => Below(p, r)
  <2>1. \A p \in SortKeys : p[1] \in Int /\ p[2] \in Int
    BY DEF SortKeys
  <2> HIDE DEF SortKeys
  <2> QED BY <2>1 DEF Below
<1>4. 0 \in T
  <2>1. \A E \in SUBSET D : Cardinality(E) = 0 => E = {}
    BY <1>2, FS_EmptySet
  <2> HIDE DEF Least
  <2> QED BY <2>1, <1>1
<1>5. ASSUME NEW k \in 1..Cardinality(D), k - 1 \in T PROVE k \in T
  <2> SUFFICES ASSUME NEW E \in SUBSET D, E # {}, Cardinality(E) = k PROVE Least(E)
    <3> HIDE DEF Least
    <3>1. k \in 0..Cardinality(D)
      BY <1>1
    <3> QED BY <3>1
  <2>1. PICK x \in E : TRUE
    OBVIOUS
  <2> DEFINE R == E \ {x}
  <2>2. R \in SUBSET D /\ Cardinality(R) = k - 1
    BY <1>2, <2>1, FS_RemoveElement
  <2>3. CASE R = {}
    <3>1. E = {x} /\ key[x] \in SortKeys
      BY <2>1, <2>3
    <3> QED BY <3>1, <1>3
  <2>4. CASE R # {}
    <3>1. Least(R)
      <4> HIDE DEF Least, R
      <4> QED BY <1>5, <2>2, <2>4
    <3>2. PICK d \in R : \A e \in R : Below(key[d], key[e])
      BY <3>1
    <3>3. key[x] \in SortKeys /\ key[d] \in SortKeys /\ \A e \in R : key[e] \in SortKeys
      OBVIOUS
    <3>4. CASE Below(key[d], key[x])
      BY <3>2, <3>4
    <3>5. CASE Below(key[x], key[d])
      <4>1. \A e \in R : Below(key[x], key[e])
        BY <3>2, <3>3, <3>5, <1>3
      <4>2. \A e \in E : Below(key[x], key[e])
        BY <4>1, <3>3, <1>3
      <4> QED BY <4>2
    <3> QED BY <3>3, <3>4, <3>5, <1>3
  <2> QED BY <2>3, <2>4
<1>6. Least(D)
  <2> HIDE DEF Least
  <2>1. Cardinality(D) \in T
    <3> DEFINE n == Cardinality(D)
    <3>1. n \in Nat /\ \A k \in 1..n : k - 1 \in T => k \in T
      BY <1>1, <1>5
    <3> HIDE DEF T, n
    <3>2. \A k \in 0..n : k \in T
      BY <3>1, <1>4, Induct
    <3> QED BY <3>1, <3>2 DEF n
  <2> QED BY <2>1
<1> QED BY <1>6 DEF First

Sorting(D, key) ==
  CHOOSE f : f = [k \in 0..Cardinality(D) |->
    IF k = 0 THEN <<>> ELSE Append(f[k - 1], First(D \ Range(f[k - 1]), key))]

LEMMA SortingIs ==
  ASSUME NEW D, IsFiniteSet(D), NEW key, \A d \in D : key[d] \in SortKeys
  PROVE  /\ Cardinality(D) \in Nat
         /\ Sorted(D, key) = Sorting(D, key)[Cardinality(D)]
         /\ Sorting(D, key)[0] = <<>>
         /\ \A k \in 1..Cardinality(D) : Sorting(D, key)[k] =
              Append(Sorting(D, key)[k - 1], First(D \ Range(Sorting(D, key)[k - 1]), key))
<1> DEFINE n == Cardinality(D)
           X == D \cup {First({}, key)}
           F == [k \in 1..n |-> [q \in Seq(X) |-> Append(q, First(D \ Range(q), key))]]
<1>1. n \in Nat
  BY FS_CardinalityType
<1>2. \A q \in Seq(X) : Append(q, First(D \ Range(q), key)) \in Seq(X)
  <2> TAKE q \in Seq(X)
  <2> DEFINE E == D \ Range(q)
  <2>1. IsFiniteSet(E) /\ E \subseteq D
    BY FS_Subset
  <2>2. First(E, key) \in X
    <3>1. CASE E = {}
      BY <3>1
    <3>2. CASE E # {}
      <4>1. \A d \in E : key[d] \in SortKeys
        OBVIOUS
      <4> HIDE DEF E
      <4>2. First(E, key) \in E
        BY <2>1, <3>2, <4>1, FirstIs
      <4> QED BY <2>1, <4>2
    <3> QED BY <3>1, <3>2
  <2> HIDE DEF E, X
  <2>3. Append(q, First(E, key)) \in Seq(X)
    BY <2>2
  <2> QED BY <2>3 DEF E
<1> HIDE DEF X
<1>3. F \in [1..n -> [Seq(X) -> Seq(X)]] /\ <<>> \in Seq(X)
  <2>1. [q \in Seq(X) |-> Append(q, First(D \ Range(q), key))] \in [Seq(X) -> Seq(X)]
    BY <1>2
  <2>2. F \in [1..n -> [Seq(X) -> Seq(X)]]
    BY <2>1, Zenon
  <2> QED BY <2>2, EmptySeq
<1>4. PICK h \in [0..n -> Seq(X)] : \A k \in 0..n : h[k] = IF k = 0 THEN <<>> ELSE F[k][h[k - 1]]
  <2> HIDE DEF F, n
  <2>1. Result(n, Seq(X), <<>>, F)
    BY <1>1, <1>3, Recursion DEF Steps
  <2> QED BY <2>1 DEF Result
<1> DEFINE body(f) == [k \in 0..n |->
             IF k = 0 THEN <<>> ELSE Append(f[k - 1], First(D \ Range(f[k - 1]), key))]
<1>5. h = body(h)
  <2>1. ASSUME NEW k \in 0..n PROVE h[k] = body(h)[k]
    <3>1. CASE k = 0
      BY <1>4, <3>1
    <3>2. CASE k # 0
      <4>1. k \in 1..n /\ k - 1 \in 0..n
        BY <3>2, <1>1
      <4>2. h[k - 1] \in Seq(X)
        BY <4>1, <1>4
      <4>3. F[k][h[k - 1]] = Append(h[k - 1], First(D \ Range(h[k - 1]), key))
        BY <4>1, <4>2
      <4>4. h[k] = F[k][h[k - 1]]
        <5> HIDE DEF F
        <5> QED BY <1>4, <3>2
      <4> HIDE DEF F
      <4> QED BY <4>3, <4>4, <3>2
    <3> QED BY <3>1, <3>2
  <2> HIDE DEF F
  <2>2. DOMAIN h = 0..n
    BY <1>4
  <2>3. body(h) = [k \in 0..n |-> h[k]]
    BY <2>1
  <2> QED BY <2>3, <1>4
<1> DEFINE f == Sorting(D, key)
<1>6. f = body(f)
  <2> HIDE DEF F
  <2> QED BY <1>5 DEF Sorting
<1>7. /\ f[0] = <<>>
      /\ \A k \in 1..n : f[k] = Append(f[k - 1], First(D \ Range(f[k - 1]), key))
  <2> HIDE DEF f, F, n
  <2>1. \A k \in 0..n : f[k] = IF k = 0 THEN <<>> ELSE Append(f[k - 1], First(D \ Range(f[k - 1]), key))
    BY <1>6
  <2>2. 0 \in 0..n /\ \A k \in 1..n : k \in 0..n /\ k # 0
    BY <1>1
  <2> QED BY <2>1, <2>2, Zenon
<1>8. Sorted(D, key) = f[n]
  BY DEF Sorted, Sorting
<1> QED BY <1>1, <1>7, <1>8

\* What sorted() returns.
IsSorting(s, D, key) ==
  /\ s \in Seq(D) /\ Len(s) = Cardinality(D) /\ Range(s) = D
  /\ \A i \in 1..Len(s), j \in 1..Len(s) : i < j => s[i] # s[j] /\ Below(key[s[i]], key[s[j]])

LEMMA SortedIs ==
  ASSUME NEW D, IsFiniteSet(D), NEW key, \A d \in D : key[d] \in SortKeys
  PROVE  IsSorting(Sorted(D, key), D, key)
<1> DEFINE n == Cardinality(D)
           f == Sorting(D, key)
           Sofar(s, k) ==
             /\ s \in Seq(D) /\ Len(s) = k /\ Cardinality(Range(s)) = k
             /\ \A i \in 1..k, j \in 1..k : i < j => s[i] # s[j] /\ Below(key[s[i]], key[s[j]])
             /\ \A i \in 1..k, e \in D \ Range(s) : Below(key[s[i]], key[e])
           T == {k \in 0..n : Sofar(f[k], k)}
<1>1. /\ n \in Nat /\ Sorted(D, key) = f[n] /\ f[0] = <<>>
      /\ \A k \in 1..n : f[k] = Append(f[k - 1], First(D \ Range(f[k - 1]), key))
  BY SortingIs
<1> HIDE DEF f
<1>2. 0 \in T
  <2>1. Range(<<>>) = {} /\ Cardinality({}) = 0 /\ <<>> \in Seq(D) /\ Len(<<>>) = 0
    BY FS_EmptySet DEF Range
  <2>2. Sofar(<<>>, 0)
    BY <2>1
  <2>3. 0 \in 0..n
    BY <1>1
  <2> HIDE DEF Sofar, n
  <2> QED BY <2>2, <2>3, <1>1
<1>3. ASSUME NEW k \in 1..n, k - 1 \in T PROVE k \in T
  <2> DEFINE s == f[k - 1]
             E == D \ Range(s)
             x == First(E, key)
  <2>1. Sofar(s, k - 1) /\ f[k] = Append(s, x) /\ k \in Nat /\ k - 1 \in Nat /\ k \in 0..n
    <3>1. k \in Nat /\ k - 1 \in Nat /\ k \in 0..n
      BY <1>1
    <3> HIDE DEF Sofar, n
    <3>2. Sofar(f[k - 1], k - 1)
      BY <1>3
    <3>3. f[k] = Append(s, x)
      BY <1>1
    <3> QED BY <3>1, <3>2, <3>3, Zenon DEF s
  <2> HIDE DEF s
  <2>2. Range(s) \subseteq D /\ IsFiniteSet(Range(s)) /\ IsFiniteSet(E)
    <3>1. Range(s) \in SUBSET D
      BY <2>1, RangeOfSeq
    <3>2. IsFiniteSet(Range(s)) /\ IsFiniteSet(E)
      BY <3>1, FS_Subset
    <3> QED BY <3>1, <3>2
  <2>3. E # {}
    <3>1. CASE E = {}
      <4>1. Range(s) = D
        BY <2>2, <3>1
      <4> QED BY <4>1, <2>1, <1>1
    <3> QED BY <3>1
  <2>4. x \in E /\ \A e \in E : Below(key[x], key[e])
    <3>1. \A d \in E : key[d] \in SortKeys
      OBVIOUS
    <3> HIDE DEF E
    <3> QED BY <2>2, <2>3, <3>1, FirstIs
  <2> HIDE DEF x
  <2>5. Range(Append(s, x)) = Range(s) \cup {x}
    BY <2>1, <2>4, RangeAppend
  <2>6. Cardinality(Range(s) \cup {x}) = k
    <3>1. Cardinality(Range(s) \cup {x}) = Cardinality(Range(s)) + 1
      BY <2>2, <2>4, FS_AddElement
    <3> QED BY <3>1, <2>1
  <2> DEFINE t == Append(s, x)
  <2>7. t \in Seq(D) /\ Len(t) = k /\ t[k] = x /\ \A i \in 1..(k - 1) : t[i] = s[i] /\ s[i] \in Range(s)
    <3>1. x \in D
      BY <2>4
    <3>2. t \in Seq(D) /\ Len(t) = Len(s) + 1 /\ t[Len(s) + 1] = x
          /\ \A i \in 1..Len(s) : t[i] = s[i] /\ s[i] \in Range(s)
      BY <2>1, <3>1 DEF Range
    <3>3. Len(s) = k - 1 /\ Len(s) + 1 = k
      BY <2>1
    <3> HIDE DEF t
    <3> QED BY <3>2, <3>3
  <2> HIDE DEF t
  <2>8. ASSUME NEW i \in 1..k, NEW j \in 1..k, i < j
        PROVE  t[i] # t[j] /\ Below(key[t[i]], key[t[j]])
    <3>1. i \in 1..(k - 1) /\ (j = k \/ j \in 1..(k - 1))
      BY <2>8, <2>1
    <3>2. CASE j = k
      BY <3>1, <3>2, <2>7, <2>4, <2>1
    <3>3. CASE j \in 1..(k - 1)
      BY <3>1, <3>3, <2>8, <2>7, <2>1
    <3> QED BY <3>1, <3>2, <3>3
  <2>9. ASSUME NEW i \in 1..k, NEW e \in D \ (Range(s) \cup {x})
        PROVE  Below(key[t[i]], key[e])
    <3>1. i = k \/ i \in 1..(k - 1)
      BY <2>1
    <3> QED BY <3>1, <2>7, <2>4, <2>1
  <2>10. Sofar(t, k)
    <3>1. Range(t) = Range(s) \cup {x}
      BY <2>5 DEF t
    <3> QED BY <3>1, <2>6, <2>7, <2>8, <2>9
  <2>11. f[k] = t
    BY <2>1 DEF t
  <2> HIDE DEF Sofar
  <2> QED BY <2>1, <2>10, <2>11
<1>4. Sofar(f[n], n)
  <2> HIDE DEF Sofar, n
  <2>1. \A k \in 0..n : k \in T
    <3> HIDE DEF T
    <3> QED BY <1>1, <1>2, <1>3, Induct
  <2> QED BY <2>1, <1>1
<1>5. Range(f[n]) = D
  <2>1. Range(f[n]) \in SUBSET D /\ Cardinality(D) = Cardinality(Range(f[n]))
    BY <1>4, RangeOfSeq
  <2> QED BY <2>1, FS_Subset
<1> QED BY <1>1, <1>4, <1>5 DEF IsSorting
=============================================================================
