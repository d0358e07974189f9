-------------------------- MODULE ChatAdapterProofs --------------------------
(***************************************************************************)
(* Theorems about ChatAdapter, for every conversation, reply and catalog.  *)
(***************************************************************************)
EXTENDS ChatAdapter, FiniteSetTheorems, SequenceTheorems, TLAPS

\* A set of naturals that is not empty has a least element.
LEMMA LeastNat ==
    ASSUME NEW T, T \subseteq Nat, T # {}
    PROVE  \E x \in T : \A y \in T : x <= y
<1>1. ASSUME NEW R, IsWellFoundedOn(R, Nat), \A x, y \in Nat : y < x => <<y, x>> \in R
      PROVE  \E x \in T : \A y \in T : x <= y
  <2>1. PICK x \in T : \A y \in T : ~(<<y, x>> \in R)
    BY <1>1, WFMin
  <2>2. ASSUME NEW y \in T PROVE x <= y
    <3>1. x \in Nat /\ y \in Nat /\ ~(<<y, x>> \in R)
      BY <2>1
    <3>2. ~(y < x)
      BY <1>1, <3>1, Zenon
    <3> QED
      BY <3>1, <3>2
  <2> QED
    BY <2>2
<1> DEFINE R == OpToRel(<, Nat)
<1>2. IsWellFoundedOn(R, Nat)
  BY NatLessThanWellFounded
<1>3. \A x, y \in Nat : y < x => <<y, x>> \in R
  BY DEF OpToRel
<1> HIDE DEF R
<1> QED
  BY <1>1, <1>2, <1>3

\* A set that holds 0, and the successor of whatever it holds, holds every
\* natural number.
LEMMA Upwards ==
    ASSUME NEW T, T \subseteq Nat, 0 \in T, \A n \in T : n + 1 \in T
    PROVE  T = Nat
<1> SUFFICES ASSUME T # Nat PROVE FALSE
  OBVIOUS
<1>1. PICK x \in Nat \ T : \A y \in Nat \ T : x <= y
  BY LeastNat
<1>2. x - 1 \in Nat /\ x - 1 \in T
  BY <1>1
<1> QED
  BY <1>1, <1>2

\* What holds of a number, and of the next one up to n, holds up to n.
LEMMA UpTo ==
    ASSUME NEW n \in Nat, NEW a \in Nat, NEW T, a \in T, \A i \in a .. (n - 1) : i \in T => i + 1 \in T
    PROVE  \A i \in a .. n : i \in T
<1> DEFINE U == {k \in Nat : a + k <= n => a + k \in T}
<1>1. 0 \in U
  OBVIOUS
<1>2. ASSUME NEW k \in U PROVE k + 1 \in U
  <2>1. CASE a + (k + 1) <= n
    <3>1. a + k \in T /\ a + k \in a .. (n - 1)
      BY <1>2, <2>1
    <3>2. (a + k) + 1 \in T
      BY <3>1
    <3> QED
      BY <3>2
  <2>2. CASE ~(a + (k + 1) <= n)
    BY <2>2
  <2> QED
    BY <2>1, <2>2
<1>3. U = Nat
  <2> HIDE DEF U
  <2>1. U \subseteq Nat
    BY DEF U
  <2> QED
    BY <1>1, <1>2, <2>1, Upwards
<1> SUFFICES ASSUME NEW i \in a .. n PROVE i \in T
  OBVIOUS
<1>4. i - a \in Nat /\ a + (i - a) = i
  OBVIOUS
<1>5. i - a \in U
  BY <1>3, <1>4
<1> QED
  BY <1>4, <1>5

----------------------------------------------------------------------------
(* Sequences put together.                                                 *)

\* What FlattenSeq has before the first sequence and after each.
Joins(R, s) ==
    /\ R[0] = <<>>
    /\ \A i \in 1 .. Len(s) : R[i] = R[i - 1] \o s[i]

LEMMA JoinsType ==
    ASSUME NEW P, NEW s \in Seq(Seq(P)), NEW R, Joins(R, s)
    PROVE  \A i \in 0 .. Len(s) : R[i] \in Seq(P)
<1> DEFINE T == {i \in Nat : R[i] \in Seq(P)}
<1>1. Len(s) \in Nat
  OBVIOUS
<1>2. 0 \in T
  BY EmptySeq DEF Joins
<1>3. \A i \in 0 .. (Len(s) - 1) : i \in T => i + 1 \in T
  <2> SUFFICES ASSUME NEW i \in 0 .. (Len(s) - 1), i \in T PROVE i + 1 \in T
    OBVIOUS
  <2>1. i + 1 \in 1 .. Len(s) /\ (i + 1) - 1 = i /\ i + 1 \in Nat
    OBVIOUS
  <2>2. R[i + 1] = R[i] \o s[i + 1]
    BY <2>1 DEF Joins
  <2>3. s[i + 1] \in Seq(P) /\ R[i] \in Seq(P)
    BY <2>1
  <2>4. R[i + 1] \in Seq(P)
    BY <2>2, <2>3, ConcatProperties
  <2> QED
    BY <2>1, <2>4
<1>4. \A i \in 0 .. Len(s) : i \in T
  <2> HIDE DEF T
  <2> QED
    BY <1>1, <1>2, <1>3, UpTo
<1> QED
  BY <1>4

\* Two such runs agree as far as their sequences do.
LEMMA JoinsAgree ==
    ASSUME NEW P, NEW s \in Seq(Seq(P)), NEW t \in Seq(Seq(P)), NEW n \in Nat,
           n <= Len(s), n <= Len(t), \A i \in 1 .. n : s[i] = t[i],
           NEW R, Joins(R, s), NEW Q, Joins(Q, t)
    PROVE  R[n] = Q[n]
<1> DEFINE T == {i \in Nat : R[i] = Q[i]}
<1>1. 0 \in T
  BY DEF Joins
<1>2. \A i \in 0 .. (n - 1) : i \in T => i + 1 \in T
  <2> SUFFICES ASSUME NEW i \in 0 .. (n - 1), i \in T PROVE i + 1 \in T
    OBVIOUS
  <2>1. i + 1 \in 1 .. n /\ (i + 1) - 1 = i /\ i + 1 \in Nat
        /\ i + 1 \in 1 .. Len(s) /\ i + 1 \in 1 .. Len(t)
    OBVIOUS
  <2>2. R[i + 1] = R[i] \o s[i + 1] /\ Q[i + 1] = Q[i] \o t[i + 1]
    BY <2>1 DEF Joins
  <2> QED
    BY <2>1, <2>2
<1>3. \A i \in 0 .. n : i \in T
  <2> HIDE DEF T
  <2> QED
    BY <1>1, <1>2, UpTo
<1> QED
  BY <1>3

LEMMA FlattenJoins ==
    ASSUME NEW P, NEW s \in Seq(Seq(P))
    PROVE  \E R : Joins(R, s) /\ FlattenSeq(s) = R[Len(s)]
<1> DEFINE n == Len(s)
           Step(R, i) == IF i = 1 THEN s[i] ELSE R[i - 1] \o s[i]
           Fits(R, k) == R = [i \in 1 .. k |-> Step(R, i)]
           T == {k \in Nat : \E R : Fits(R, k)}
<1>1. n \in Nat
  OBVIOUS
<1>2. 0 \in T
  <2>1. Fits([i \in 1 .. 0 |-> <<>>], 0)
    OBVIOUS
  <2> QED
    BY <2>1
<1>3. ASSUME NEW k \in 0 .. (n - 1), k \in T PROVE k + 1 \in T
  <2>1. PICK R : Fits(R, k)
    BY <1>3
  <2> DEFINE Q == [i \in 1 .. (k + 1) |-> IF i <= k THEN R[i] ELSE Step(R, k + 1)]
  <2>2. \A i \in 1 .. k : Q[i] = R[i]
    OBVIOUS
  <2>3. \A i \in 1 .. (k + 1) : Step(Q, i) = Step(R, i)
    <3> SUFFICES ASSUME NEW i \in 1 .. (k + 1) PROVE Step(Q, i) = Step(R, i)
      OBVIOUS
    <3>1. CASE i = 1
      BY <3>1
    <3>2. CASE i # 1
      <4>1. i - 1 \in 1 .. k
        BY <3>2
      <4>2. Q[i - 1] = R[i - 1]
        BY <2>2, <4>1
      <4> HIDE DEF Q
      <4> QED
        BY <3>2, <4>2
    <3> QED
      BY <3>1, <3>2
  <2>4. \A i \in 1 .. k : R[i] = Step(R, i)
    <3> HIDE DEF Step
    <3> QED
      BY <2>1
  <2>5. Fits(Q, k + 1)
    <3> HIDE DEF Step
    <3>1. ASSUME NEW i \in 1 .. (k + 1) PROVE (IF i <= k THEN R[i] ELSE Step(R, k + 1)) = Step(Q, i)
      <4>1. CASE i <= k
        <5>1. i \in 1 .. k
          BY <4>1
        <5> HIDE DEF Q
        <5> QED
          BY <2>3, <2>4, <4>1, <5>1
      <4>2. CASE i = k + 1
        <5> HIDE DEF Q
        <5> QED
          BY <2>3, <4>2
      <4> QED
        BY <4>1, <4>2
    <3> QED
      BY <3>1
  <2>6. k \in Nat /\ k + 1 \in Nat
    BY <1>1, <1>3
  <2>7. \E W : Fits(W, k + 1)
    <3> HIDE DEF Q, Fits
    <3> QED
      BY <2>5
  <2> QED
    <3> HIDE DEF Fits
    <3> QED
      BY <2>6, <2>7
<1>4. \A i \in 0 .. n : i \in T
  <2> HIDE DEF T
  <2> QED
    BY <1>1, <1>2, <1>3, UpTo
<1> DEFINE M == CHOOSE R : Fits(R, n)
<1>5. Fits(M, n)
  <2>1. \E R : Fits(R, n)
    <3> HIDE DEF Fits, M, n
    <3>1. n \in T
      BY <1>1, <1>4
    <3> QED
      BY <3>1
  <2> QED
    BY <2>1, Zenon
<1>6. n # 0 => FlattenSeq(s) = M[n]
  BY DEF FlattenSeq
<1>7. \A i \in 1 .. n : M[i] = Step(M, i)
  <2> HIDE DEF M, Step
  <2> QED
    BY <1>5
<1> DEFINE W == [i \in 0 .. n |-> IF i = 0 THEN <<>> ELSE M[i]]
<1>8. \A i \in 1 .. n : W[i] = M[i] /\ (i # 1 => W[i - 1] = M[i - 1])
  <2> HIDE DEF M
  <2> QED
    OBVIOUS
<1>9. W[0] = <<>>
  BY <1>1
<1>10. \A i \in 1 .. n : W[i] = W[i - 1] \o s[i]
  <2> SUFFICES ASSUME NEW i \in 1 .. n PROVE W[i] = W[i - 1] \o s[i]
    OBVIOUS
  <2> HIDE DEF M, W
  <2>1. s[i] \in Seq(P)
    OBVIOUS
  <2>2. CASE i = 1
    <3>1. W[i] = s[i] /\ W[i - 1] = <<>>
      BY <1>7, <1>8, <1>9, <2>2
    <3> QED
      BY <2>1, <3>1, ConcatEmptySeq
  <2>3. CASE i # 1
    BY <1>7, <1>8, <2>3
  <2> QED
    BY <2>2, <2>3
<1>11. Joins(W, s)
  <2> HIDE DEF W
  <2> QED
    BY <1>9, <1>10 DEF Joins
<1>12. FlattenSeq(s) = W[n]
  <2>1. CASE n = 0
    <3>1. FlattenSeq(s) = s /\ s = <<>>
      BY <2>1, EmptySeq DEF FlattenSeq
    <3> HIDE DEF W
    <3> QED
      BY <1>9, <2>1, <3>1
  <2>2. CASE n # 0
    <3>1. n \in 1 .. n
      BY <1>1, <2>2
    <3> HIDE DEF W, M
    <3> QED
      BY <1>6, <1>8, <2>2, <3>1
  <2> QED
    BY <2>1, <2>2
<1> QED
  <2> HIDE DEF W
  <2> QED
    BY <1>11, <1>12

\* FlattenSeq is what any such run ends with.
LEMMA FlattenIs ==
    ASSUME NEW P, NEW s \in Seq(Seq(P)), NEW R, Joins(R, s)
    PROVE  FlattenSeq(s) = R[Len(s)] /\ FlattenSeq(s) \in Seq(P)
<1>1. PICK Q : Joins(Q, s) /\ FlattenSeq(s) = Q[Len(s)]
  BY FlattenJoins
<1>2. Len(s) \in Nat /\ Len(s) <= Len(s) /\ Len(s) \in 0 .. Len(s)
  OBVIOUS
<1>3. Q[Len(s)] = R[Len(s)]
  BY <1>1, <1>2, JoinsAgree
<1>4. R[Len(s)] \in Seq(P)
  BY <1>2, JoinsType
<1> QED
  BY <1>1, <1>3, <1>4

LEMMA FlattenType ==
    ASSUME NEW P, NEW s \in Seq(Seq(P))
    PROVE  FlattenSeq(s) \in Seq(P)
BY FlattenIs, FlattenJoins

LEMMA FlattenNone == FlattenSeq(<<>>) = <<>>
BY EmptySeq DEF FlattenSeq

LEMMA FlattenConcat ==
    ASSUME NEW P, NEW s \in Seq(Seq(P)), NEW t \in Seq(Seq(P))
    PROVE  FlattenSeq(s \o t) = FlattenSeq(s) \o FlattenSeq(t)
<1> DEFINE m == Len(s)
           n == Len(t)
<1>1. m \in Nat /\ n \in Nat
  OBVIOUS
<1>2. PICK R : Joins(R, s) /\ FlattenSeq(s) = R[m]
  BY FlattenJoins
<1>3. PICK Q : Joins(Q, t) /\ FlattenSeq(t) = Q[n]
  BY FlattenJoins
<1>4. /\ s \o t \in Seq(Seq(P)) /\ Len(s \o t) = m + n
      /\ \A i \in 1 .. (m + n) : (s \o t)[i] = IF i <= m THEN s[i] ELSE t[i - m]
  BY ConcatProperties
<1> DEFINE W == [i \in 0 .. (m + n) |-> IF i <= m THEN R[i] ELSE R[m] \o Q[i - m]]
<1>5. R[m] \in Seq(P)
  BY <1>1, <1>2, JoinsType
<1>6. \A i \in 0 .. n : Q[i] \in Seq(P)
  BY <1>3, JoinsType
<1>7. W[0] = <<>>
  BY <1>1, <1>2 DEF Joins
<1>8. \A i \in 1 .. (m + n) : W[i] = W[i - 1] \o (s \o t)[i]
  <2> SUFFICES ASSUME NEW i \in 1 .. (m + n) PROVE W[i] = W[i - 1] \o (s \o t)[i]
    OBVIOUS
  <2>1. CASE i <= m
    <3>1. i \in 1 .. m /\ i - 1 <= m /\ i \in 0 .. (m + n) /\ i - 1 \in 0 .. (m + n)
      BY <1>1, <2>1
    <3>2. R[i] = R[i - 1] \o s[i]
      BY <1>2, <3>1 DEF Joins
    <3>3. W[i] = R[i] /\ W[i - 1] = R[i - 1]
      <4> HIDE DEF m, n
      <4> QED
        BY <2>1, <3>1
    <3> QED
      <4> HIDE DEF W, m, n
      <4> QED
        BY <1>4, <2>1, <3>2, <3>3
  <2>2. CASE ~(i <= m)
    <3> DEFINE j == i - m
    <3>1. j \in 1 .. n /\ j - 1 \in 0 .. n /\ i \in 0 .. (m + n) /\ i - 1 \in 0 .. (m + n)
          /\ (i - 1) - m = j - 1 /\ j \in 0 .. n
      BY <1>1, <2>2
    <3>2. Q[j] = Q[j - 1] \o t[j]
      BY <1>3, <3>1 DEF Joins
    <3>3. W[i] = R[m] \o Q[j]
      <4> HIDE DEF m, n
      <4> QED
        BY <2>2, <3>1
    <3>4. W[i - 1] = R[m] \o Q[j - 1]
      <4>1. CASE i - 1 = m
        <5>1. j - 1 = 0 /\ Q[j - 1] = <<>>
          BY <1>1, <1>3, <4>1 DEF Joins
        <5>2. R[m] \o <<>> = R[m]
          BY <1>5, ConcatEmptySeq
        <5>3. W[i - 1] = R[m]
          <6> HIDE DEF m, n
          <6> QED
            BY <1>1, <3>1, <4>1
        <5> QED
          BY <5>1, <5>2, <5>3
      <4>2. CASE i - 1 # m
        <5>1. ~(i - 1 <= m)
          BY <1>1, <2>2, <4>2
        <5> HIDE DEF m, n
        <5> QED
          BY <3>1, <5>1
      <4> QED
        BY <4>1, <4>2
    <3>5. t[j] \in Seq(P) /\ Q[j - 1] \in Seq(P)
      <4>1. \A k \in 1 .. n : t[k] \in Seq(P)
        OBVIOUS
      <4> HIDE DEF j, n
      <4> QED
        BY <1>6, <3>1, <4>1
    <3>6. (R[m] \o Q[j - 1]) \o t[j] = R[m] \o (Q[j - 1] \o t[j])
      <4>1. \A u, v, w \in Seq(P) : (u \o v) \o w = u \o (v \o w)
        BY ConcatAssociative
      <4> HIDE DEF j, m, n, W
      <4> QED
        BY <1>5, <3>5, <4>1, Zenon
    <3> QED
      <4>1. (s \o t)[i] = t[j]
        BY <1>4, <2>2
      <4> HIDE DEF W, m, n, j
      <4> QED
        BY <3>2, <3>3, <3>4, <3>6, <4>1
  <2> QED
    BY <2>1, <2>2
<1>9. Joins(W, s \o t)
  <2> HIDE DEF W
  <2> QED
    BY <1>4, <1>7, <1>8 DEF Joins
<1>10. W[m + n] = R[m] \o Q[n]
  <2>1. CASE n = 0
    <3>1. Q[n] = <<>> /\ W[m + n] = R[m]
      BY <1>1, <1>3, <2>1 DEF Joins
    <3> QED
      BY <1>5, <3>1, ConcatEmptySeq
  <2>2. CASE n # 0
    <3>1. ~(m + n <= m) /\ (m + n) - m = n /\ m + n \in 0 .. (m + n)
      BY <1>1, <2>2
    <3> HIDE DEF m, n
    <3> QED
      BY <3>1
  <2> QED
    BY <2>1, <2>2
<1>11. FlattenSeq(s \o t) = W[m + n]
  <2> HIDE DEF W
  <2> QED
    BY <1>4, <1>9, FlattenIs
<1> QED
  <2> HIDE DEF W
  <2> QED
    BY <1>2, <1>3, <1>10, <1>11

LEMMA FlattenOne ==
    ASSUME NEW P, NEW t \in Seq(P)
    PROVE  FlattenSeq(<<t>>) = t
<1> DEFINE R == [i \in 0 .. 1 |-> IF i = 0 THEN <<>> ELSE t]
<1>1. <<t>> \in Seq(Seq(P)) /\ Len(<<t>>) = 1
  OBVIOUS
<1>2. <<>> \o t = t
  BY ConcatEmptySeq
<1>3. R[0] = <<>> /\ R[1] = t /\ \A i \in 1 .. Len(<<t>>) : i = 1 /\ i - 1 = 0 /\ <<t>>[i] = t
  OBVIOUS
<1>4. Joins(R, <<t>>)
  <2> HIDE DEF R
  <2> QED
    BY <1>2, <1>3 DEF Joins
<1>5. FlattenSeq(<<t>>) = R[1]
  <2> HIDE DEF R
  <2> QED
    BY <1>1, <1>4, FlattenIs
<1> QED
  BY <1>3, <1>5

LEMMA FlattenAppend ==
    ASSUME NEW P, NEW s \in Seq(Seq(P)), NEW t \in Seq(P)
    PROVE  FlattenSeq(Append(s, t)) = FlattenSeq(s) \o t
<1>1. Append(s, t) = s \o <<t>>
  BY AppendIsConcat
<1>2. <<t>> \in Seq(Seq(P))
  OBVIOUS
<1>3. FlattenSeq(<<t>>) = t
  BY FlattenOne
<1> QED
  BY <1>1, <1>2, <1>3, FlattenConcat

LEMMA FlattenEmpties ==
    ASSUME NEW P, NEW s \in Seq(Seq(P)), \A i \in 1 .. Len(s) : s[i] = <<>>
    PROVE  FlattenSeq(s) = <<>>
<1> DEFINE R == [i \in 0 .. Len(s) |-> <<>>]
<1>1. <<>> \o <<>> = <<>> /\ Len(s) \in Nat
  BY EmptySeq, ConcatEmptySeq
<1>2. R[0] = <<>> /\ R[Len(s)] = <<>> /\ \A i \in 1 .. Len(s) : R[i] = <<>> /\ R[i - 1] = <<>>
  BY <1>1
<1>3. Joins(R, s)
  <2> HIDE DEF R
  <2> QED
    BY <1>1, <1>2 DEF Joins
<1> QED
  <2> HIDE DEF R
  <2> QED
    BY <1>2, <1>3, FlattenIs

LEMMA ConcatMembers ==
    ASSUME NEW P, NEW a \in Seq(P), NEW b \in Seq(P)
    PROVE  ToSet(a \o b) = ToSet(a) \cup ToSet(b)
<1>1. Range(a \o b) = Range(a) \cup Range(b)
  BY RangeConcatenation
<1>2. ToSet(a) = Range(a) /\ ToSet(b) = Range(b) /\ ToSet(a \o b) = Range(a \o b)
  BY Zenon DEF Range, ToSet
<1> QED
  BY <1>1, <1>2

\* What is in a sequence so put together is in one of its parts.
LEMMA JoinsMembers ==
    ASSUME NEW P, NEW s \in Seq(Seq(P)), NEW R, Joins(R, s), NEW x
    PROVE  \A j \in 0 .. Len(s) : x \in ToSet(R[j]) <=> \E i \in 1 .. j : x \in ToSet(s[i])
<1>2. \A i \in 0 .. Len(s) : R[i] \in Seq(P)
  BY JoinsType
<1> DEFINE T == {j \in Nat : x \in ToSet(R[j]) <=> \E i \in 1 .. j : x \in ToSet(s[i])}
<1>3. 0 \in T
  BY DEF Joins, ToSet
<1>4. \A j \in 0 .. (Len(s) - 1) : j \in T => j + 1 \in T
  <2> SUFFICES ASSUME NEW j \in 0 .. (Len(s) - 1), j \in T PROVE j + 1 \in T
    OBVIOUS
  <2>1. j + 1 \in 1 .. Len(s) /\ (j + 1) - 1 = j /\ j + 1 \in Nat /\ j \in 0 .. Len(s)
    OBVIOUS
  <2>2. R[j + 1] = R[j] \o s[j + 1]
    BY <2>1 DEF Joins
  <2>3. R[j] \in Seq(P) /\ s[j + 1] \in Seq(P)
    BY <1>2, <2>1
  <2>4. x \in ToSet(R[j + 1]) <=> x \in ToSet(R[j]) \/ x \in ToSet(s[j + 1])
    BY <2>2, <2>3, ConcatMembers
  <2>5. (\E i \in 1 .. (j + 1) : x \in ToSet(s[i])) <=> (\E i \in 1 .. j : x \in ToSet(s[i])) \/ x \in ToSet(s[j + 1])
    <3>1. 1 .. (j + 1) = (1 .. j) \cup {j + 1}
      BY <2>1
    <3> QED
      BY <3>1
  <2> QED
    BY <2>1, <2>4, <2>5
<1>5. \A j \in 0 .. Len(s) : j \in T
  <2> HIDE DEF T
  <2>1. Len(s) \in Nat
    OBVIOUS
  <2> QED
    BY <1>3, <1>4, <2>1, UpTo
<1> QED
  BY <1>5

LEMMA FlattenMembers ==
    ASSUME NEW P, NEW s \in Seq(Seq(P))
    PROVE  \A x : x \in ToSet(FlattenSeq(s)) <=> \E i \in 1 .. Len(s) : x \in ToSet(s[i])
<1>1. PICK R : Joins(R, s) /\ FlattenSeq(s) = R[Len(s)]
  BY FlattenJoins
<1>2. Len(s) \in Nat /\ Len(s) \in 0 .. Len(s)
  OBVIOUS
<1> QED
  BY <1>1, <1>2, JoinsMembers

----------------------------------------------------------------------------
(* Types.                                                                  *)

\* A job is a conversation, a reply or a catalog, of the shape it should have.
LEMMA JobShapes ==
    ASSUME TypeOK
    PROVE  /\ job.kind = "ask" => AsksAsCanactDoes(job.messages)
           /\ job.kind = "reply" => RepliesAsVendorsDo(plan)
           /\ job.kind = "catalog" => ListsAsHostsDo(job)
           /\ job.kind \in {"ask", "reply", "catalog"}
<1>1. PICK kind \in Kinds : job \in JobsOf(kind)
  BY DEF TypeOK
<1>2. \/ job.kind = "ask" /\ AsksAsCanactDoes(job.messages)
      \/ job.kind = "reply" /\ RepliesAsVendorsDo(job.plan)
      \/ job.kind = "catalog" /\ ListsAsHostsDo(job)
  BY <1>1, JobsAssumption, Zenon
<1> QED
  BY <1>2 DEF plan

LEMMA PlanShape ==
    ASSUME TypeOK, Replying
    PROVE  /\ RepliesAsVendorsDo(plan)
           /\ plan.said \in Seq(STRING) /\ plan.reason \in STRING
           /\ \A k \in DOMAIN plan.calls :
                 /\ plan.calls[k].index \in Nat /\ plan.calls[k].id \in STRING
                 /\ plan.calls[k].tool \in STRING /\ plan.calls[k].parts \in Seq(STRING)
           /\ Len(plan.calls) \in Nat /\ DOMAIN plan.calls = 1 .. Len(plan.calls)
<1>1. RepliesAsVendorsDo(plan)
  BY JobShapes DEF Replying
<1>2. plan \in Plans
  BY <1>1 DEF RepliesAsVendorsDo
<1>3. /\ plan.said \in Seq(STRING) /\ plan.reason \in STRING
      /\ plan.calls \in Seq([index : Nat, id : STRING, tool : STRING, parts : Seq(STRING)])
  <2> HIDE DEF plan
  <2> QED
    BY <1>2 DEF Plans
<1> DEFINE C == [index : Nat, id : STRING, tool : STRING, parts : Seq(STRING)]
           calls == plan.calls
<1>4. Len(calls) \in Nat /\ DOMAIN calls = 1 .. Len(calls) /\ \A k \in DOMAIN calls : calls[k] \in C
  <2>1. calls \in Seq(C)
    BY <1>3
  <2> HIDE DEF calls, C
  <2> QED
    BY <2>1
<1>5. \A c \in C : c.index \in Nat /\ c.id \in STRING /\ c.tool \in STRING /\ c.parts \in Seq(STRING)
  OBVIOUS
<1> QED
  <2> HIDE DEF plan, C
  <2> QED
    BY <1>1, <1>3, <1>4, <1>5

LEMMA PushCallType ==
    ASSUME NEW slot \in Slots
    PROVE  PushCall(slot) \in Seq(ChatCalls)
<1> DEFINE c == [id |-> slot.id, tool |-> slot.tool, args |-> IF Parsed(slot) = "path" THEN "path" ELSE "no_path"]
<1>1. c \in ChatCalls
  BY DEF Slots, ChatCalls
<1>2. PushCall(slot) = IF slot.tool = "none" THEN <<>> ELSE <<c>>
  BY DEF PushCall
<1> HIDE DEF c
<1>3. <<c>> \in Seq(ChatCalls) /\ <<>> \in Seq(ChatCalls)
  BY <1>1
<1> QED
  BY <1>2, <1>3

\* What the slots come to in the order of their starts.
Pushed(f) == [i \in 1 .. Len(f.order) |-> PushCall(f.slots[f.order[i]])]

LEMMA PushedType ==
    ASSUME NEW f, f.order \in Seq(Nat), \A i \in DOMAIN f.slots : f.slots[i] \in Slots,
           \A j \in DOMAIN f.order : f.order[j] \in DOMAIN f.slots
    PROVE  /\ Pushed(f) \in Seq(Seq(ChatCalls)) /\ Len(Pushed(f)) = Len(f.order)
           /\ FlattenSeq(Pushed(f)) \in Seq(ChatCalls)
<1>1. \A i \in 1 .. Len(f.order) : PushCall(f.slots[f.order[i]]) \in Seq(ChatCalls)
  BY PushCallType
<1>2. Len(f.order) \in Nat
  OBVIOUS
<1>3. Pushed(f) \in Seq(Seq(ChatCalls)) /\ Len(Pushed(f)) = Len(f.order)
  <2> HIDE DEF PushCall
  <2> QED
    BY <1>1, <1>2 DEF Pushed
<1> QED
  BY <1>3, FlattenType

LEMMA FlushType ==
    ASSUME NEW f, ChatOK(f)
    PROVE  LET g == FlushToolSlots(f) IN
           /\ ChatOK(g)
           /\ g.calls = f.calls \o FlattenSeq(Pushed(f)) /\ g.slots = <<>> /\ g.order = <<>>
           /\ g.text = f.text /\ g.finish = f.finish /\ g.usage = f.usage /\ g.failed = f.failed
<1> DEFINE c == f.calls \o FlattenSeq(Pushed(f))
           g == FlushToolSlots(f)
<1>1. g = [f EXCEPT !.calls = c, !.slots = <<>>, !.order = <<>>]
  <2> HIDE DEF PushCall, FlattenSeq
  <2> QED
    BY DEF FlushToolSlots, Pushed
<1>2. c \in Seq(ChatCalls)
  <2>1. FlattenSeq(Pushed(f)) \in Seq(ChatCalls)
    BY PushedType DEF ChatOK
  <2> QED
    BY <2>1, ConcatProperties DEF ChatOK
<1>3. DOMAIN <<>> = {} /\ <<>> \in Seq(Nat)
  OBVIOUS
<1> HIDE DEF c, g
<1>4. /\ DOMAIN g = DOMAIN FoldStart
      /\ g.calls = c /\ g.slots = <<>> /\ g.order = <<>>
      /\ g.text = f.text /\ g.finish = f.finish /\ g.usage = f.usage /\ g.failed = f.failed
  BY <1>1 DEF ChatOK, FoldStart
<1>5. ChatOK(g)
  BY <1>2, <1>3, <1>4 DEF ChatOK
<1> QED
  BY <1>4, <1>5 DEF c, g

\* A start of a call, in a slot of its own or one that is open.
StartsCall(f, g, index, id, tool) ==
    /\ g.calls = f.calls /\ g.text = f.text /\ g.finish = f.finish
    /\ g.usage = f.usage /\ g.failed = f.failed
    /\ DOMAIN g.slots = DOMAIN f.slots \cup {index}
    /\ \A i \in DOMAIN f.slots \ {index} : g.slots[i] = f.slots[i]
    /\ index \notin DOMAIN f.slots =>
          /\ g.order = Append(f.order, index)
          /\ g.slots[index].id = id /\ g.slots[index].tool = tool /\ g.slots[index].args = <<>>
    /\ index \in DOMAIN f.slots =>
          /\ g.order = f.order
          /\ g.slots[index].id = Keep(id, f.slots[index].id, "")
          /\ g.slots[index].tool = Keep(tool, f.slots[index].tool, "none")
          /\ g.slots[index].args = f.slots[index].args

LEMMA FoldStartIs ==
    ASSUME NEW f, ChatOK(f), NEW index \in Nat, NEW id \in Ids, NEW tool \in Tools,
           NEW g, g = FoldStartCall(f, Begin(index, id, tool))
    PROVE  ChatOK(g) /\ StartsCall(f, g, index, id, tool)
<1> DEFINE open == index \in DOMAIN f.slots
           old == IF open THEN f.slots[index] ELSE [id |-> "", tool |-> "none", args |-> <<>>]
           new == [id |-> Keep(id, old.id, ""), tool |-> Keep(tool, old.tool, "none"), args |-> old.args]
           slots == [i \in DOMAIN f.slots \cup {index} |-> IF i = index THEN new ELSE f.slots[i]]
           order == IF open THEN f.order ELSE Append(f.order, index)
<1>1. /\ DOMAIN g = DOMAIN FoldStart /\ g.slots = slots /\ g.order = order
      /\ g.calls = f.calls /\ g.text = f.text /\ g.finish = f.finish
      /\ g.usage = f.usage /\ g.failed = f.failed
  <2>1. g = [f EXCEPT !.slots = slots, !.order = order]
    BY DEF FoldStartCall, Begin
  <2> HIDE DEF slots, order
  <2> QED
    BY <2>1 DEF ChatOK, FoldStart
<1>2. new \in Slots
  <2>1. old \in Slots
    <3>1. [id |-> "", tool |-> "none", args |-> <<>>] \in Slots
      <4> DEFINE none == "none"
                 nothing == <<>>
      <4>1. "" \in Ids /\ none \in Tools
        BY Zenon DEF Ids, Tools
      <4>3. nothing \in Seq(STRING)
        BY EmptySeq
      <4> HIDE DEF none, nothing
      <4>2. [id |-> "", tool |-> none, args |-> nothing] \in Slots
        BY <4>1, <4>3 DEF Slots
      <4> QED
        BY <4>2, Zenon DEF none, nothing
    <3>2. open => f.slots[index] \in Slots
      BY DEF ChatOK
    <3> QED
      BY <3>1, <3>2
  <2> HIDE DEF old
  <2> QED
    BY <2>1 DEF Keep, Slots
<1>3. DOMAIN slots = DOMAIN f.slots \cup {index} /\ \A i \in DOMAIN slots : i \in Nat /\ slots[i] \in Slots
  <2> HIDE DEF new
  <2> QED
    BY <1>2 DEF ChatOK
<1>4. order \in Seq(Nat) /\ \A j \in DOMAIN order : order[j] \in DOMAIN f.slots \cup {index}
  <2>1. f.order \in Seq(Nat) /\ \A j \in DOMAIN f.order : f.order[j] \in DOMAIN f.slots
    BY DEF ChatOK
  <2>2. /\ Append(f.order, index) \in Seq(Nat)
        /\ \A j \in DOMAIN Append(f.order, index) : Append(f.order, index)[j] \in DOMAIN f.slots \cup {index}
    BY <2>1
  <2> QED
    BY <2>1, <2>2
<1>5. ChatOK(g)
  <2> HIDE DEF slots, order
  <2> QED
    BY <1>1, <1>3, <1>4 DEF ChatOK
<1>6. slots[index] = new /\ \A i \in DOMAIN f.slots \ {index} : slots[i] = f.slots[i]
  <2> HIDE DEF new
  <2> QED
    OBVIOUS
<1>7. new.id = Keep(id, old.id, "") /\ new.tool = Keep(tool, old.tool, "none") /\ new.args = old.args
  <2> HIDE DEF old
  <2> QED
    OBVIOUS
<1>8. /\ open => old = f.slots[index]
      /\ ~open => old.id = "" /\ old.tool = "none" /\ old.args = <<>>
  <2>1. open => old = f.slots[index]
    BY Zenon
  <2>2. ASSUME ~open PROVE old.id = "" /\ old.tool = "none" /\ old.args = <<>>
    <3> DEFINE nothing == <<>>
    <3>1. \A r, x, y, z : r = [id |-> x, tool |-> y, args |-> z] => r.id = x /\ r.tool = y /\ r.args = z
      OBVIOUS
    <3>2. old = [id |-> "", tool |-> "none", args |-> nothing]
      BY <2>2, Zenon
    <3> HIDE DEF old, nothing
    <3>3. old.id = "" /\ old.tool = "none" /\ old.args = nothing
      BY <3>1, <3>2, Zenon
    <3> QED
      BY <3>3 DEF nothing
  <2> QED
    BY <2>1, <2>2
<1>9. /\ ~open => new.id = id /\ new.tool = tool /\ new.args = <<>>
      /\ open => /\ new.id = Keep(id, f.slots[index].id, "")
                 /\ new.tool = Keep(tool, f.slots[index].tool, "none")
                 /\ new.args = f.slots[index].args
  <2> HIDE DEF old, new, open
  <2>1. ASSUME ~open PROVE Keep(id, old.id, "") = id /\ Keep(tool, old.tool, "none") = tool
    BY <1>8, <2>1 DEF Keep
  <2> QED
    BY <1>7, <1>8, <2>1
<1> QED
  <2> HIDE DEF slots, new
  <2>1. open => order = f.order
    OBVIOUS
  <2>2. ~open => order = Append(f.order, index)
    OBVIOUS
  <2> HIDE DEF order
  <2>3. DOMAIN g.slots = DOMAIN f.slots \cup {index} /\ g.slots[index] = new
        /\ \A i \in DOMAIN f.slots \ {index} : g.slots[i] = f.slots[i]
    BY <1>1, <1>3, <1>6
  <2>4. /\ ~open => g.order = Append(f.order, index)
        /\ open => g.order = f.order
    <3> HIDE DEF open
    <3> QED
      BY <1>1, <2>1, <2>2
  <2> QED
    BY <1>1, <1>5, <1>9, <2>3, <2>4, Zenon DEF StartsCall

LEMMA FoldDeltaIs ==
    ASSUME NEW f, ChatOK(f), NEW index \in DOMAIN f.slots, NEW part \in STRING
    PROVE  LET g == [f EXCEPT !.slots[index].args = Append(@, part)] IN
           /\ ChatOK(g)
           /\ g.calls = f.calls /\ g.text = f.text /\ g.finish = f.finish /\ g.order = f.order
           /\ g.usage = f.usage /\ g.failed = f.failed
           /\ DOMAIN g.slots = DOMAIN f.slots
           /\ \A i \in DOMAIN f.slots \ {index} : g.slots[i] = f.slots[i]
           /\ g.slots[index].id = f.slots[index].id /\ g.slots[index].tool = f.slots[index].tool
           /\ g.slots[index].args = Append(f.slots[index].args, part)
<1> DEFINE slot == [f.slots[index] EXCEPT !.args = Append(@, part)]
           slots == [f.slots EXCEPT ![index] = slot]
           g == [f EXCEPT !.slots = slots]
<1>1. [f EXCEPT !.slots[index].args = Append(@, part)] = g
  OBVIOUS
<1>2. /\ DOMAIN g = DOMAIN FoldStart /\ g.slots = slots
      /\ g.calls = f.calls /\ g.text = f.text /\ g.finish = f.finish /\ g.order = f.order
      /\ g.usage = f.usage /\ g.failed = f.failed
  <2> HIDE DEF slots
  <2> QED
    BY DEF ChatOK, FoldStart
<1>3. f.slots[index] \in Slots
  BY DEF ChatOK
<1>4. /\ slot \in Slots
      /\ slot.id = f.slots[index].id /\ slot.tool = f.slots[index].tool
      /\ slot.args = Append(f.slots[index].args, part)
  <2> DEFINE old == f.slots[index]
             args == Append(old.args, part)
  <2>1. args \in Seq(STRING)
    BY <1>3 DEF Slots
  <2>2. slot = [old EXCEPT !.args = args]
    OBVIOUS
  <2> HIDE DEF slot, args, old
  <2> QED
    BY <1>3, <2>1, <2>2 DEF Slots, args, old
<1>5. DOMAIN slots = DOMAIN f.slots /\ slots[index] = slot
      /\ \A i \in DOMAIN f.slots \ {index} : slots[i] = f.slots[i]
  <2> HIDE DEF slot
  <2> QED
    OBVIOUS
<1>6. ChatOK(g)
  <2> HIDE DEF g, slots, slot
  <2> QED
    BY <1>2, <1>4, <1>5 DEF ChatOK
<1> QED
  <2> HIDE DEF g, slots, slot
  <2> QED
    BY <1>1, <1>2, <1>4, <1>5, <1>6

----------------------------------------------------------------------------
(* The stream's calls.                                                     *)

CallsOK(st) ==
    /\ DOMAIN st = DOMAIN StreamStart.calls
    /\ st.best \subseteq {"path", "no_path", "malformed"} /\ st.other \in BOOLEAN
    /\ IsFiniteSet(DOMAIN st.slots)
    /\ \A i \in DOMAIN st.slots : i \in Nat /\ st.slots[i] \in StreamSlots

LEMMA ParsedType == \A slot : Parsed(slot) \in {"path", "no_path", "malformed"}
BY DEF Parsed

LEMMA SlotAtType ==
    ASSUME NEW st, CallsOK(st), NEW index \in Nat
    PROVE  SlotAt(st, index) \in StreamSlots
<1>1. NoSlot \in StreamSlots
  <2> DEFINE none == "none"
             nothing == <<>>
  <2>1. none \in Tools
    BY Zenon DEF Tools
  <2>2. nothing \in Seq(STRING)
    BY EmptySeq
  <2> HIDE DEF none, nothing
  <2>3. [tool |-> none, args |-> nothing] \in StreamSlots
    BY <2>1, <2>2 DEF StreamSlots
  <2> QED
    BY <2>3, Zenon DEF NoSlot, none, nothing
<1> QED
  BY <1>1 DEF SlotAt, CallsOK

LEMMA WithSlotIs ==
    ASSUME NEW st, CallsOK(st), NEW index \in Nat, NEW slot \in StreamSlots
    PROVE  LET g == WithSlot(st, index, slot) IN
           /\ CallsOK(g) /\ g.best = st.best /\ g.other = st.other
           /\ DOMAIN g.slots = DOMAIN st.slots \cup {index} /\ g.slots[index] = slot
           /\ \A i \in DOMAIN st.slots \ {index} : g.slots[i] = st.slots[i]
<1> DEFINE slots == [j \in DOMAIN st.slots \cup {index} |-> IF j = index THEN slot ELSE st.slots[j]]
           g == WithSlot(st, index, slot)
<1>1. DOMAIN g = DOMAIN StreamStart.calls /\ g.slots = slots /\ g.best = st.best /\ g.other = st.other
  <2>1. g = [st EXCEPT !.slots = slots]
    BY DEF WithSlot
  <2> HIDE DEF g, slots
  <2> QED
    BY <2>1 DEF CallsOK, StreamStart
<1>2. IsFiniteSet(DOMAIN st.slots \cup {index})
  BY FS_AddElement DEF CallsOK
<1>3. DOMAIN slots = DOMAIN st.slots \cup {index} /\ slots[index] = slot
      /\ \A i \in DOMAIN st.slots \ {index} : slots[i] = st.slots[i]
  OBVIOUS
<1> HIDE DEF g, slots
<1>4. CallsOK(g)
  BY <1>1, <1>2, <1>3 DEF CallsOK
<1> QED
  BY <1>1, <1>3, <1>4 DEF g

OpensSlot(st, g, index, tool) ==
    LET old == SlotAt(st, index)
        judged == IF old.tool = "read_file" /\ old.args # <<>> THEN {Parsed(old)} ELSE {} IN
    /\ DOMAIN g.slots = DOMAIN st.slots \cup {index}
    /\ \A i \in DOMAIN st.slots \ {index} : g.slots[i] = st.slots[i]
    /\ tool = "none" => g.slots[index] = old /\ g.best = st.best /\ g.other = st.other
    /\ tool # "none" =>
          /\ g.slots[index].tool = tool /\ g.slots[index].args = <<>>
          /\ g.best = st.best \cup judged
          /\ g.other = (st.other \/ tool # "read_file")

LEMMA OnStartIs ==
    ASSUME NEW st, CallsOK(st), NEW index \in Nat, NEW id, NEW tool \in Tools,
           NEW g, g = OnStart(st, Begin(index, id, tool))
    PROVE  CallsOK(g) /\ OpensSlot(st, g, index, tool)
<1> DEFINE old == SlotAt(st, index)
           judged == IF old.tool = "read_file" /\ old.args # <<>> THEN {Parsed(old)} ELSE {}
           new == [tool |-> tool, args |-> <<>>]
           h == WithSlot(st, index, new)
<1>1. judged \subseteq {"path", "no_path", "malformed"}
  <2> HIDE DEF old
  <2> QED
    BY ParsedType
<1>2. new \in StreamSlots
  <2> DEFINE nothing == <<>>
  <2>1. nothing \in Seq(STRING)
    BY EmptySeq
  <2> HIDE DEF nothing
  <2>2. [tool |-> tool, args |-> nothing] \in StreamSlots
    BY <2>1 DEF StreamSlots
  <2> QED
    BY <2>2 DEF nothing
<1>3. CASE tool = "none"
  <2>1. g = WithSlot(st, index, old)
    BY <1>3 DEF OnStart, Begin
  <2>2. old \in StreamSlots
    BY SlotAtType
  <2> HIDE DEF old
  <2>3. /\ CallsOK(g) /\ g.best = st.best /\ g.other = st.other
        /\ DOMAIN g.slots = DOMAIN st.slots \cup {index} /\ g.slots[index] = old
        /\ \A i \in DOMAIN st.slots \ {index} : g.slots[i] = st.slots[i]
    BY <2>1, <2>2, WithSlotIs
  <2> QED
    BY <1>3, <2>3 DEF OpensSlot, old
<1>4. CASE tool # "none"
  <2>1. g = [h EXCEPT !.best = h.best \cup judged, !.other = h.other \/ tool # "read_file"]
    BY <1>4 DEF OnStart, Begin
  <2>2. /\ CallsOK(h) /\ h.best = st.best /\ h.other = st.other
        /\ DOMAIN h.slots = DOMAIN st.slots \cup {index} /\ h.slots[index] = new
        /\ \A i \in DOMAIN st.slots \ {index} : h.slots[i] = st.slots[i]
    <3> HIDE DEF new
    <3> QED
      BY <1>2, WithSlotIs
  <2>5. new.tool = tool /\ new.args = <<>>
    OBVIOUS
  <2> HIDE DEF h, judged, new
  <2>3. /\ DOMAIN g = DOMAIN h /\ g.slots = h.slots /\ g.best = h.best \cup judged
        /\ g.other = (h.other \/ tool # "read_file")
    BY <2>1, <2>2 DEF CallsOK, StreamStart
  <2>4. CallsOK(g)
    BY <1>1, <2>2, <2>3 DEF CallsOK
  <2> QED
    BY <1>4, <2>2, <2>3, <2>4, <2>5 DEF OpensSlot, judged
<1> QED
  BY <1>3, <1>4

FillsSlot(st, g, index, part) ==
    LET old == SlotAt(st, index) IN
    /\ g.best = st.best /\ g.other = st.other
    /\ DOMAIN g.slots = DOMAIN st.slots \cup {index}
    /\ \A i \in DOMAIN st.slots \ {index} : g.slots[i] = st.slots[i]
    /\ g.slots[index].tool = old.tool
    /\ g.slots[index].args = IF old.tool = "read_file" THEN Append(old.args, part) ELSE old.args

LEMMA OnDeltaIs ==
    ASSUME NEW st, CallsOK(st), NEW index \in Nat, NEW part \in STRING,
           NEW g, g = OnDelta(st, [ev |-> "Delta", index |-> index, part |-> part])
    PROVE  CallsOK(g) /\ FillsSlot(st, g, index, part)
<1> DEFINE old == SlotAt(st, index)
           slot == IF old.tool = "read_file" THEN [old EXCEPT !.args = Append(old.args, part)] ELSE old
<1>1. old \in StreamSlots
  BY SlotAtType
<1>2. g = WithSlot(st, index, slot)
  BY DEF OnDelta
<1>3. /\ slot \in StreamSlots /\ slot.tool = old.tool
      /\ slot.args = IF old.tool = "read_file" THEN Append(old.args, part) ELSE old.args
  <2> DEFINE args == Append(old.args, part)
  <2> HIDE DEF old
  <2>1. args \in Seq(STRING)
    BY <1>1 DEF StreamSlots
  <2>2. [old EXCEPT !.args = args] \in StreamSlots /\ [old EXCEPT !.args = args].tool = old.tool
        /\ [old EXCEPT !.args = args].args = args
    <3> HIDE DEF args
    <3> QED
      BY <1>1, <2>1 DEF StreamSlots
  <2> QED
    BY <1>1, <2>2
<1> HIDE DEF slot, old
<1>4. /\ CallsOK(g) /\ g.best = st.best /\ g.other = st.other
      /\ DOMAIN g.slots = DOMAIN st.slots \cup {index} /\ g.slots[index] = slot
      /\ \A i \in DOMAIN st.slots \ {index} : g.slots[i] = st.slots[i]
  <2> DEFINE h == WithSlot(st, index, slot)
  <2>1. /\ CallsOK(h) /\ h.best = st.best /\ h.other = st.other
        /\ DOMAIN h.slots = DOMAIN st.slots \cup {index} /\ h.slots[index] = slot
        /\ \A i \in DOMAIN st.slots \ {index} : h.slots[i] = st.slots[i]
    BY <1>3, WithSlotIs
  <2> HIDE DEF h
  <2> QED
    BY <1>2, <2>1 DEF h
<1> QED
  BY <1>3, <1>4 DEF FillsSlot, old

LEMMA OnEndIs ==
    ASSUME NEW st, CallsOK(st)
    PROVE  LET g == OnEnd(st) IN
           /\ CallsOK(g) /\ g.other = st.other
           /\ Cardinality(DOMAIN st.slots) > 1 => g = st
           /\ ~(Cardinality(DOMAIN st.slots) > 1) =>
                 g.slots = <<>> /\ g.best = st.best \cup Flush(st.slots)
<1> DEFINE g == OnEnd(st)
<1>1. Flush(st.slots) \subseteq {"path", "no_path", "malformed"}
  BY ParsedType DEF Flush
<1>2. DOMAIN <<>> = {}
  OBVIOUS
<1>3. CASE Cardinality(DOMAIN st.slots) > 1
  BY <1>3 DEF OnEnd
<1>4. CASE ~(Cardinality(DOMAIN st.slots) > 1)
  <2> DEFINE nothing == <<>>
             best == st.best \cup Flush(st.slots)
  <2>1. g = [st EXCEPT !.best = best, !.slots = nothing]
    BY <1>4 DEF OnEnd
  <2> HIDE DEF g, nothing, best
  <2>2. DOMAIN g = DOMAIN st /\ g.best = best /\ g.slots = nothing /\ g.other = st.other
    BY <2>1 DEF CallsOK, StreamStart
  <2>3. DOMAIN nothing = {} /\ best \subseteq {"path", "no_path", "malformed"}
    BY <1>1, <1>2 DEF nothing, best, CallsOK
  <2>4. CallsOK(g)
    BY <2>2, <2>3, FS_EmptySet DEF CallsOK
  <2> QED
    BY <1>4, <2>2, <2>4 DEF g, nothing, best
<1> QED
  BY <1>3, <1>4

----------------------------------------------------------------------------
(* What each event does to the two readings.                               *)

SameCalls(f, g) == f.slots = g.slots /\ f.order = g.order /\ f.calls = g.calls

LEMMA StreamCallsOK == ASSUME StreamOK(stream) PROVE CallsOK(stream.calls)
BY DEF StreamOK, CallsOK

\* The stream takes an event of a call.
LEMMA StreamTakes ==
    ASSUME StreamOK(stream), ~stream.error, NEW g, CallsOK(g), NEW s,
           s = [stream EXCEPT !.calls = g]
    PROVE  /\ StreamOK(s) /\ s.calls = g /\ s.finish = stream.finish /\ s.error = stream.error
           /\ s.text = stream.text
<1>1. DOMAIN s = DOMAIN StreamStart /\ s.calls = g /\ s.finish = stream.finish
      /\ s.error = stream.error /\ s.text = stream.text
  BY DEF StreamOK, StreamStart
<1> QED
  BY <1>1 DEF StreamOK, CallsOK

LEMMA HearText ==
    ASSUME TypeOK, NEW part \in STRING, Hear([ev |-> "Text", part |-> part])
    PROVE  /\ ChatOK(chat') /\ StreamOK(stream')
           /\ SameCalls(chat', chat) /\ chat'.finish = chat.finish /\ chat'.failed = chat.failed
           /\ chat'.text = Append(chat.text, part)
           /\ stream'.calls = stream.calls /\ stream'.error = stream.error
           /\ stream'.finish = stream.finish
<1> DEFINE e == [ev |-> "Text", part |-> part]
<1>1. ChatOK(chat) /\ StreamOK(stream)
  BY DEF TypeOK
<1>2. chat' = [chat EXCEPT !.text = Append(chat.text, part)]
  BY DEF Hear, FoldEvent
<1>3. stream' = IF stream.error THEN stream ELSE [stream EXCEPT !.text = Append(stream.text, part)]
  BY DEF Hear, StreamEvent, FinishIsFailed
<1>4. Append(chat.text, part) \in Seq(STRING)
  BY <1>1 DEF ChatOK
<1>5. Append(stream.text, part) \in Seq(STRING)
  BY <1>1 DEF StreamOK
<1>6. /\ DOMAIN chat' = DOMAIN FoldStart /\ SameCalls(chat', chat) /\ chat'.finish = chat.finish
      /\ chat'.failed = chat.failed /\ chat'.usage = chat.usage /\ chat'.text = Append(chat.text, part)
  BY <1>1, <1>2 DEF ChatOK, FoldStart, SameCalls
<1>7. ChatOK(chat')
  BY <1>1, <1>4, <1>6 DEF ChatOK, SameCalls
<1>8. /\ DOMAIN stream' = DOMAIN StreamStart /\ stream'.calls = stream.calls
      /\ stream'.error = stream.error /\ stream'.finish = stream.finish
      /\ stream'.text \in {stream.text, Append(stream.text, part)}
  BY <1>1, <1>3 DEF StreamOK, StreamStart
<1>9. StreamOK(stream')
  BY <1>1, <1>5, <1>8 DEF StreamOK
<1> QED
  BY <1>6, <1>7, <1>8, <1>9

LEMMA HearStart ==
    ASSUME TypeOK, NEW index \in Nat, NEW id \in Ids, NEW tool \in Tools,
           Hear(Begin(index, id, tool))
    PROVE  /\ ChatOK(chat') /\ StreamOK(stream')
           /\ chat' = FoldStartCall(chat, Begin(index, id, tool))
           /\ stream'.error = stream.error /\ stream'.finish = stream.finish
           /\ ~stream.error => stream'.calls = OnStart(stream.calls, Begin(index, id, tool))
<1> DEFINE e == Begin(index, id, tool)
           g == OnStart(stream.calls, e)
<1>1. ChatOK(chat) /\ StreamOK(stream)
  BY DEF TypeOK
<1>2. e.ev = "Start"
  BY DEF Begin
<1>3. chat' = FoldStartCall(chat, e)
  <2> HIDE DEF e
  <2> QED
    BY <1>2 DEF Hear, FoldEvent, e
<1>4. stream' = IF stream.error THEN stream ELSE [stream EXCEPT !.calls = g]
  <2> HIDE DEF e
  <2> QED
    BY <1>2 DEF Hear, StreamEvent, FinishIsFailed, StreamStep, e
<1>5. ChatOK(chat')
  BY <1>1, <1>3, FoldStartIs
<1>6. CallsOK(g)
  BY <1>1, StreamCallsOK, OnStartIs
<1> HIDE DEF g
<1>7. CASE stream.error
  BY <1>1, <1>3, <1>4, <1>5, <1>7
<1>8. CASE ~stream.error
  BY <1>1, <1>3, <1>4, <1>5, <1>6, <1>8, StreamTakes DEF g
<1> QED
  BY <1>7, <1>8

LEMMA HearDelta ==
    ASSUME TypeOK, NEW index \in Nat, NEW part \in STRING,
           Hear([ev |-> "Delta", index |-> index, part |-> part])
    PROVE  /\ ChatOK(chat') /\ StreamOK(stream')
           /\ chat' = IF index \in DOMAIN chat.slots
                      THEN [chat EXCEPT !.slots[index].args = Append(@, part)] ELSE chat
           /\ stream'.error = stream.error /\ stream'.finish = stream.finish
           /\ ~stream.error =>
                 stream'.calls = OnDelta(stream.calls, [ev |-> "Delta", index |-> index, part |-> part])
<1> DEFINE e == [ev |-> "Delta", index |-> index, part |-> part]
           g == OnDelta(stream.calls, e)
           h == [chat EXCEPT !.slots[index].args = Append(@, part)]
<1>1. ChatOK(chat) /\ StreamOK(stream)
  BY DEF TypeOK
<1>2. e.ev = "Delta" /\ e.index = index /\ e.part = part
  OBVIOUS
<1>3. chat' = IF index \in DOMAIN chat.slots THEN h ELSE chat
  <2> HIDE DEF e
  <2> QED
    BY <1>2 DEF Hear, FoldEvent, e
<1>4. stream' = IF stream.error THEN stream ELSE [stream EXCEPT !.calls = g]
  <2> HIDE DEF e
  <2> QED
    BY <1>2 DEF Hear, StreamEvent, FinishIsFailed, StreamStep, e
<1>5. ChatOK(chat')
  <2>1. index \in DOMAIN chat.slots => ChatOK(h)
    BY <1>1, FoldDeltaIs
  <2> HIDE DEF h
  <2> QED
    BY <1>1, <1>3, <2>1
<1>6. CallsOK(g)
  BY <1>1, StreamCallsOK, OnDeltaIs
<1> HIDE DEF g, h
<1>7. CASE stream.error
  BY <1>1, <1>3, <1>4, <1>5, <1>7 DEF h
<1>8. CASE ~stream.error
  BY <1>1, <1>3, <1>4, <1>5, <1>6, <1>8, StreamTakes DEF g, h
<1> QED
  BY <1>7, <1>8

LEMMA HearEnd ==
    ASSUME TypeOK, Hear(Event("End"))
    PROVE  /\ ChatOK(chat') /\ StreamOK(stream') /\ chat' = FlushToolSlots(chat)
           /\ stream'.error = stream.error /\ stream'.finish = stream.finish
           /\ ~stream.error => stream'.calls = OnEnd(stream.calls)
<1> DEFINE e == Event("End")
           g == OnEnd(stream.calls)
<1>1. ChatOK(chat) /\ StreamOK(stream)
  BY DEF TypeOK
<1>2. e.ev = "End"
  BY DEF Event
<1>3. chat' = FlushToolSlots(chat)
  <2> HIDE DEF e
  <2> QED
    BY <1>2 DEF Hear, FoldEvent, e
<1>4. stream' = IF stream.error THEN stream ELSE [stream EXCEPT !.calls = g]
  <2> HIDE DEF e
  <2> QED
    BY <1>2 DEF Hear, StreamEvent, FinishIsFailed, StreamStep, e
<1>5. ChatOK(chat')
  BY <1>1, <1>3, FlushType
<1>6. CallsOK(g)
  BY <1>1, StreamCallsOK, OnEndIs
<1> HIDE DEF g
<1>7. CASE stream.error
  BY <1>1, <1>3, <1>4, <1>5, <1>7
<1>8. CASE ~stream.error
  BY <1>1, <1>3, <1>4, <1>5, <1>6, <1>8, StreamTakes DEF g
<1> QED
  BY <1>7, <1>8

FailedReasons == {"failed", "FAILED"}

LEMMA HearFinish ==
    ASSUME TypeOK, NEW reason \in STRING, Hear([ev |-> "Finish", reason |-> reason])
    PROVE  /\ ChatOK(chat') /\ StreamOK(stream') /\ SameCalls(chat', chat) /\ chat'.text = chat.text
           /\ chat'.finish = FinishFromReason(reason)
           /\ chat'.failed = (chat.failed \/ reason \in FailedReasons)
           /\ stream'.calls = stream.calls
           /\ stream'.error = (stream.error \/ reason \in FailedReasons)
           /\ ~stream'.error => stream'.finish = FinishFromReason(reason)
<1> DEFINE e == [ev |-> "Finish", reason |-> reason]
           fin == FinishFromReason(reason)
           bad == reason \in FailedReasons
<1>1. ChatOK(chat) /\ StreamOK(stream)
  BY DEF TypeOK
<1>2. e.ev = "Finish" /\ e.reason = reason
  OBVIOUS
<1>3. FinishIsFailed(e) <=> bad
  BY DEF FinishIsFailed, FailedReasons
<1>4. fin \in Finished
  BY DEF FinishFromReason, Finished, LengthReasons, MalformedReasons, SafetyReasons
<1> HIDE DEF e, fin, bad
<1>5. chat' = [chat EXCEPT !.finish = fin, !.failed = chat.failed \/ bad]
  <2>1. chat' = [chat EXCEPT !.finish = fin, !.failed = @ \/ FinishIsFailed(e)]
    BY <1>2 DEF Hear, FoldEvent, e, fin
  <2>2. FinishIsFailed(e) = bad
    BY <1>3 DEF FinishIsFailed, bad
  <2> QED
    BY <2>1, <2>2
<1>6. stream' = IF stream.error THEN stream
                ELSE IF bad THEN [stream EXCEPT !.error = TRUE]
                ELSE [stream EXCEPT !.finish = fin]
  BY <1>2, <1>3 DEF Hear, StreamEvent, e, fin
<1>7. /\ DOMAIN chat' = DOMAIN FoldStart /\ SameCalls(chat', chat) /\ chat'.text = chat.text
      /\ chat'.usage = chat.usage /\ chat'.finish = fin /\ chat'.failed = (chat.failed \/ bad)
  BY <1>1, <1>5 DEF ChatOK, FoldStart, SameCalls
<1>8. ChatOK(chat')
  <2>1. chat'.failed \in BOOLEAN
    BY <1>1, <1>7 DEF ChatOK, bad
  <2> QED
    BY <1>1, <1>4, <1>7, <2>1 DEF ChatOK, SameCalls
<1>9. /\ DOMAIN stream' = DOMAIN StreamStart /\ stream'.calls = stream.calls /\ stream'.text = stream.text
      /\ stream'.error = (stream.error \/ bad) /\ stream'.finish \in {stream.finish, fin}
      /\ ~stream'.error => stream'.finish = fin
  BY <1>1, <1>6 DEF StreamOK, StreamStart, bad
<1>10. StreamOK(stream')
  <2>1. stream'.error \in BOOLEAN
    BY <1>1, <1>9 DEF StreamOK, bad
  <2> QED
    BY <1>1, <1>4, <1>9, <2>1 DEF StreamOK
<1> QED
  BY <1>7, <1>8, <1>9, <1>10 DEF fin, bad

LEMMA HearUsage ==
    ASSUME TypeOK, Hear(Event("Usage"))
    PROVE  /\ ChatOK(chat') /\ SameCalls(chat', chat) /\ chat'.text = chat.text
           /\ chat'.finish = chat.finish /\ chat'.failed = chat.failed
           /\ stream' = stream
<1> DEFINE e == Event("Usage")
<1>1. ChatOK(chat)
  BY DEF TypeOK
<1>2. e.ev = "Usage"
  BY DEF Event
<1>3. chat' = [chat EXCEPT !.usage = TRUE] /\ stream' = stream
  <2> HIDE DEF e
  <2> QED
    BY <1>2 DEF Hear, FoldEvent, StreamEvent, e
<1>4. /\ DOMAIN chat' = DOMAIN FoldStart /\ SameCalls(chat', chat) /\ chat'.text = chat.text
      /\ chat'.finish = chat.finish /\ chat'.failed = chat.failed /\ chat'.usage = TRUE
  BY <1>1, <1>3 DEF ChatOK, FoldStart, SameCalls
<1> QED
  BY <1>1, <1>3, <1>4 DEF ChatOK, SameCalls

----------------------------------------------------------------------------
(* Every step is well typed.                                               *)

SentCalls == [named : BOOLEAN, parts : Nat, ended : BOOLEAN]
SentOK(x) ==
    x \in [said : Nat, calls : Seq(SentCalls), closed : BOOLEAN, finish : BOOLEAN,
           usage : BOOLEAN, torn : BOOLEAN]

LEMMA SentType == ASSUME TypeOK PROVE SentOK(sent)
BY DEF TypeOK, SentOK, SentCalls

\* One call of what was sent changes.
LEMMA ChangedCalls ==
    ASSUME SentOK(sent), NEW k \in DOMAIN sent.calls, NEW c \in SentCalls
    PROVE  LET calls == [sent.calls EXCEPT ![k] = c] IN
           /\ calls \in Seq(SentCalls) /\ Len(calls) = Len(sent.calls)
           /\ DOMAIN calls = DOMAIN sent.calls /\ calls[k] = c
           /\ \A j \in DOMAIN sent.calls \ {k} : calls[j] = sent.calls[j]
<1>1. sent.calls \in Seq(SentCalls)
  BY DEF SentOK
<1> QED
  BY <1>1, ExceptSeq

LEMMA CallType ==
    ASSUME TypeOK, NEW k \in DOMAIN sent.calls
    PROVE  /\ sent.calls[k] \in SentCalls /\ sent.calls[k].named \in BOOLEAN
           /\ sent.calls[k].parts \in Nat /\ sent.calls[k].ended \in BOOLEAN
           /\ DOMAIN sent.calls = 1 .. Len(sent.calls) /\ Len(sent.calls) \in Nat /\ k \in Nat
<1>1. sent.calls \in Seq(SentCalls)
  BY SentType DEF SentOK
<1>2. sent.calls[k] \in SentCalls /\ DOMAIN sent.calls = 1 .. Len(sent.calls) /\ Len(sent.calls) \in Nat
      /\ k \in Nat
  BY <1>1
<1> QED
  BY <1>2 DEF SentCalls

LEMMA SayIs ==
    ASSUME TypeOK, Say
    PROVE  /\ TypeOK' /\ job' = job /\ result' = result
           /\ sent' = [sent EXCEPT !.said = sent.said + 1]
           /\ sent.said + 1 \in 1 .. Len(plan.said)
           /\ Hear([ev |-> "Text", part |-> plan.said[sent.said + 1]])
           /\ plan.said[sent.said + 1] \in STRING
<1>1. SentOK(sent) /\ plan.said \in Seq(STRING)
  BY SentType, PlanShape DEF Say
<1>2. sent.said + 1 \in 1 .. Len(plan.said)
  BY <1>1 DEF Say, SentOK
<1>3. plan.said[sent.said + 1] \in STRING
  <2> HIDE DEF plan
  <2> QED
    BY <1>1, <1>2
<1>4. SentOK(sent')
  <2>1. sent' = [sent EXCEPT !.said = sent.said + 1] /\ sent.said + 1 \in Nat
    BY <1>1, <1>2 DEF Say
  <2> QED
    BY <1>1, <2>1 DEF SentOK
<1>5. ChatOK(chat') /\ StreamOK(stream')
  BY <1>3, HearText DEF Say
<1> QED
  BY <1>2, <1>3, <1>4, <1>5 DEF Say, Hear, TypeOK, SentOK, SentCalls

LEMMA StartCallIs ==
    ASSUME TypeOK, StartCall
    PROVE  LET n == Len(sent.calls) + 1
               call == plan.calls[n] IN
           /\ TypeOK' /\ job' = job /\ result' = result
           /\ n \in DOMAIN plan.calls
           /\ sent'.calls = Append(sent.calls, [named |-> ~plan.split, parts |-> 0, ended |-> FALSE])
           /\ sent'.torn = sent.torn /\ sent'.finish = sent.finish /\ sent'.closed = sent.closed
           /\ sent'.said = sent.said /\ sent'.usage = sent.usage
           /\ Hear(Begin(call.index, call.id, IF plan.split THEN "none" ELSE call.tool))
           /\ call.index \in Nat /\ call.id \in Ids /\ (IF plan.split THEN "none" ELSE call.tool) \in Tools
<1> DEFINE n == Len(sent.calls) + 1
           call == plan.calls[n]
           tool == IF plan.split THEN "none" ELSE call.tool
           new == [named |-> ~plan.split, parts |-> 0, ended |-> FALSE]
           calls == Append(sent.calls, new)
<1>1. /\ SentOK(sent) /\ RepliesAsVendorsDo(plan)
      /\ Len(plan.calls) \in Nat /\ DOMAIN plan.calls = 1 .. Len(plan.calls)
      /\ \A k \in DOMAIN plan.calls :
            plan.calls[k].index \in Nat /\ plan.calls[k].id \in STRING /\ plan.calls[k].tool \in STRING
  BY SentType, PlanShape DEF StartCall
<1>2. sent.calls \in Seq(SentCalls)
  BY <1>1 DEF SentOK
<1>3. n \in DOMAIN plan.calls
  <2>1. Len(sent.calls) \in Nat /\ Len(sent.calls) < Len(plan.calls)
    BY <1>2 DEF StartCall
  <2> QED
    BY <1>1, <2>1
<1>4. call.index \in Nat /\ call.id \in Ids /\ tool \in Tools
  <2>1. call.index \in Nat /\ call.id \in STRING /\ call.tool \in STRING
    <3> HIDE DEF n, plan
    <3> QED
      BY <1>1, <1>3
  <2> HIDE DEF call
  <2> QED
    BY <2>1, Zenon DEF Ids, Tools
<1>5. plan.split \in BOOLEAN
  <2> HIDE DEF plan
  <2> QED
    BY <1>1 DEF RepliesAsVendorsDo, Plans
<1>6. new \in SentCalls
  <2>1. (~(plan.split)) \in BOOLEAN
    BY <1>5, Zenon
  <2> QED
    BY <2>1 DEF SentCalls
<1>7. calls \in Seq(SentCalls)
  <2> HIDE DEF new
  <2> QED
    BY <1>2, <1>6, AppendProperties
<1>8. sent' = [sent EXCEPT !.calls = calls] /\ Hear(Begin(call.index, call.id, tool))
  BY DEF StartCall
<1> HIDE DEF n, call, tool, new
<1>9. /\ SentOK(sent') /\ sent'.calls = calls /\ sent'.torn = sent.torn /\ sent'.finish = sent.finish
      /\ sent'.closed = sent.closed /\ sent'.said = sent.said /\ sent'.usage = sent.usage
  <2> HIDE DEF calls
  <2> QED
    BY <1>1, <1>7, <1>8 DEF SentOK
<1>10. ChatOK(chat') /\ StreamOK(stream') /\ job' = job /\ result' = result
  BY <1>4, <1>8, HearStart DEF Hear
<1>11. TypeOK'
  BY <1>9, <1>10 DEF TypeOK, SentOK, SentCalls
<1> QED
  BY <1>3, <1>4, <1>8, <1>9, <1>10, <1>11 DEF n, call, tool, new

LEMMA NameCallIs ==
    ASSUME TypeOK, NEW k \in DOMAIN sent.calls, NameCall(k), k \in DOMAIN plan.calls
    PROVE  /\ TypeOK' /\ job' = job /\ result' = result
           /\ Len(sent'.calls) = Len(sent.calls)
           /\ DOMAIN sent'.calls = DOMAIN sent.calls
           /\ \A j \in DOMAIN sent.calls \ {k} : sent'.calls[j] = sent.calls[j]
           /\ sent'.calls[k].named /\ sent'.calls[k].parts = sent.calls[k].parts
           /\ sent'.calls[k].ended = sent.calls[k].ended
           /\ sent'.torn = sent.torn /\ sent'.finish = sent.finish /\ sent'.closed = sent.closed
           /\ sent'.said = sent.said /\ sent'.usage = sent.usage
           /\ Hear(Begin(plan.calls[k].index, "", plan.calls[k].tool))
           /\ plan.calls[k].index \in Nat /\ "" \in Ids /\ plan.calls[k].tool \in Tools
<1> DEFINE c == [sent.calls[k] EXCEPT !.named = TRUE]
<1>1. SentOK(sent) /\ sent.torn \in BOOLEAN
  BY SentType DEF SentOK
<1>2. /\ c \in SentCalls /\ c.named /\ c.parts = sent.calls[k].parts /\ c.ended = sent.calls[k].ended
  BY CallType DEF SentCalls
<1>3. sent' = [sent EXCEPT !.calls[k] = c, !.torn = sent.torn]
  <2>1. sent' = [sent EXCEPT !.calls[k].named = TRUE]
    BY DEF NameCall
  <2>2. [sent EXCEPT !.calls[k] = c, !.torn = sent.torn] = [sent EXCEPT !.calls[k] = c]
    <3> DEFINE calls == [sent.calls EXCEPT ![k] = c]
    <3> HIDE DEF calls
    <3>1. [sent EXCEPT !.calls = calls, !.torn = sent.torn] = [sent EXCEPT !.calls = calls]
      BY <1>1 DEF SentOK
    <3> QED
      BY <3>1 DEF calls
  <2> QED
    BY <2>1, <2>2
<1> HIDE DEF c
<1>4. /\ SentOK(sent') /\ sent'.torn = sent.torn /\ sent'.finish = sent.finish
      /\ sent'.closed = sent.closed /\ sent'.said = sent.said /\ sent'.usage = sent.usage
      /\ Len(sent'.calls) = Len(sent.calls) /\ DOMAIN sent'.calls = DOMAIN sent.calls
      /\ sent'.calls[k] = c
      /\ \A j \in DOMAIN sent.calls \ {k} : sent'.calls[j] = sent.calls[j]
  <2> DEFINE calls == [sent.calls EXCEPT ![k] = c]
  <2>1. /\ calls \in Seq(SentCalls) /\ Len(calls) = Len(sent.calls)
        /\ DOMAIN calls = DOMAIN sent.calls /\ calls[k] = c
        /\ \A j \in DOMAIN sent.calls \ {k} : calls[j] = sent.calls[j]
    BY <1>1, <1>2, ChangedCalls
  <2>2. sent' = [sent EXCEPT !.calls = calls, !.torn = sent.torn]
    BY <1>3
  <2> HIDE DEF calls
  <2> QED
    BY <1>1, <2>1, <2>2 DEF SentOK
<1>5. plan.calls[k].index \in Nat /\ "" \in Ids /\ plan.calls[k].tool \in Tools
  <2>1. plan.calls[k].index \in Nat /\ plan.calls[k].tool \in STRING
    BY PlanShape DEF NameCall
  <2> HIDE DEF plan
  <2> QED
    BY <2>1, Zenon DEF Ids, Tools
<1>6. Hear(Begin(plan.calls[k].index, "", plan.calls[k].tool))
  BY DEF NameCall
<1>7. ChatOK(chat') /\ StreamOK(stream') /\ job' = job /\ result' = result
  BY <1>5, <1>6, HearStart DEF Hear
<1>8. TypeOK'
  BY <1>4, <1>7 DEF TypeOK, SentOK, SentCalls
<1> QED
  BY <1>2, <1>4, <1>5, <1>6, <1>7, <1>8

LEMMA SendPartIs ==
    ASSUME TypeOK, NEW k \in DOMAIN sent.calls, SendPart(k), k \in DOMAIN plan.calls,
           sent.calls[k].parts <= Len(plan.calls[k].parts)
    PROVE  LET m == sent.calls[k].parts + 1 IN
           /\ TypeOK' /\ job' = job /\ result' = result
           /\ Len(sent'.calls) = Len(sent.calls)
           /\ DOMAIN sent'.calls = DOMAIN sent.calls
           /\ \A j \in DOMAIN sent.calls \ {k} : sent'.calls[j] = sent.calls[j]
           /\ sent'.calls[k].named = sent.calls[k].named /\ sent'.calls[k].parts = m
           /\ sent'.calls[k].ended = sent.calls[k].ended
           /\ sent'.torn = sent.torn /\ sent'.finish = sent.finish /\ sent'.closed = sent.closed
           /\ sent'.said = sent.said /\ sent'.usage = sent.usage
           /\ Hear([ev |-> "Delta", index |-> plan.calls[k].index, part |-> plan.calls[k].parts[m]])
           /\ plan.calls[k].index \in Nat /\ m \in 1 .. Len(plan.calls[k].parts)
           /\ plan.calls[k].parts[m] \in STRING
<1> DEFINE m == sent.calls[k].parts + 1
           c == [sent.calls[k] EXCEPT !.parts = m]
<1>1. SentOK(sent) /\ sent.torn \in BOOLEAN
  BY SentType DEF SentOK
<1>2. /\ c \in SentCalls /\ c.named = sent.calls[k].named /\ c.parts = m /\ c.ended = sent.calls[k].ended
  <2>1. m \in Nat
    BY CallType
  <2> HIDE DEF m
  <2> QED
    BY <2>1, CallType DEF SentCalls
<1>3. sent' = [sent EXCEPT !.calls[k] = c, !.torn = sent.torn]
  <2>1. sent' = [sent EXCEPT !.calls[k].parts = @ + 1]
    BY DEF SendPart
  <2>2. [sent EXCEPT !.calls[k] = c, !.torn = sent.torn] = [sent EXCEPT !.calls[k] = c]
    <3> DEFINE calls == [sent.calls EXCEPT ![k] = c]
    <3> HIDE DEF calls
    <3>1. [sent EXCEPT !.calls = calls, !.torn = sent.torn] = [sent EXCEPT !.calls = calls]
      BY <1>1 DEF SentOK
    <3> QED
      BY <3>1 DEF calls
  <2> QED
    BY <2>1, <2>2
<1>4. Hear([ev |-> "Delta", index |-> plan.calls[k].index, part |-> plan.calls[k].parts[m]])
  BY DEF SendPart
<1>5. plan.calls[k].index \in Nat /\ plan.calls[k].parts \in Seq(STRING)
  BY PlanShape DEF SendPart
<1>6. m \in 1 .. Len(plan.calls[k].parts)
  <2>1. sent.calls[k].parts # Len(plan.calls[k].parts) /\ Len(plan.calls[k].parts) \in Nat
    BY <1>5 DEF SendPart, Whole
  <2> HIDE DEF plan
  <2> QED
    BY <2>1, CallType
<1> HIDE DEF c, m
<1>7. plan.calls[k].parts[m] \in STRING
  <2> HIDE DEF plan
  <2> QED
    BY <1>5, <1>6
<1>8. /\ SentOK(sent') /\ sent'.torn = sent.torn /\ sent'.finish = sent.finish
      /\ sent'.closed = sent.closed /\ sent'.said = sent.said /\ sent'.usage = sent.usage
      /\ Len(sent'.calls) = Len(sent.calls) /\ DOMAIN sent'.calls = DOMAIN sent.calls
      /\ sent'.calls[k] = c
      /\ \A j \in DOMAIN sent.calls \ {k} : sent'.calls[j] = sent.calls[j]
  <2> DEFINE calls == [sent.calls EXCEPT ![k] = c]
  <2>1. /\ calls \in Seq(SentCalls) /\ Len(calls) = Len(sent.calls)
        /\ DOMAIN calls = DOMAIN sent.calls /\ calls[k] = c
        /\ \A j \in DOMAIN sent.calls \ {k} : calls[j] = sent.calls[j]
    BY <1>1, <1>2, ChangedCalls
  <2>2. sent' = [sent EXCEPT !.calls = calls, !.torn = sent.torn]
    BY <1>3
  <2> HIDE DEF calls
  <2> QED
    BY <1>1, <2>1, <2>2 DEF SentOK
<1>9. ChatOK(chat') /\ StreamOK(stream') /\ job' = job /\ result' = result
  BY <1>4, <1>5, <1>7, HearDelta DEF Hear
<1>10. TypeOK'
  BY <1>8, <1>9 DEF TypeOK, SentOK, SentCalls
<1> QED
  BY <1>2, <1>4, <1>5, <1>6, <1>7, <1>8, <1>9, <1>10 DEF m

LEMMA EndCallIs ==
    ASSUME TypeOK, NEW k \in DOMAIN sent.calls, EndCall(k)
    PROVE  /\ TypeOK' /\ job' = job /\ result' = result
           /\ Len(sent'.calls) = Len(sent.calls)
           /\ DOMAIN sent'.calls = DOMAIN sent.calls
           /\ \A j \in DOMAIN sent.calls \ {k} : sent'.calls[j] = sent.calls[j]
           /\ sent'.calls[k].named = sent.calls[k].named
           /\ sent'.calls[k].parts = sent.calls[k].parts /\ sent'.calls[k].ended
           /\ sent'.torn = (sent.torn \/ Tears(k))
           /\ sent'.finish = sent.finish /\ sent'.closed = sent.closed
           /\ sent'.said = sent.said /\ sent'.usage = sent.usage
           /\ Hear(Event("End"))
<1> DEFINE c == [sent.calls[k] EXCEPT !.ended = TRUE]
           torn == sent.torn \/ Tears(k)
<1>1. SentOK(sent) /\ torn \in BOOLEAN
  BY SentType DEF SentOK
<1>2. /\ c \in SentCalls /\ c.named = sent.calls[k].named /\ c.parts = sent.calls[k].parts /\ c.ended
  BY CallType DEF SentCalls
<1>3. sent' = [sent EXCEPT !.calls[k] = c, !.torn = torn]
  BY DEF EndCall
<1> HIDE DEF c, torn
<1>4. /\ SentOK(sent') /\ sent'.torn = torn /\ sent'.finish = sent.finish
      /\ sent'.closed = sent.closed /\ sent'.said = sent.said /\ sent'.usage = sent.usage
      /\ Len(sent'.calls) = Len(sent.calls) /\ DOMAIN sent'.calls = DOMAIN sent.calls
      /\ sent'.calls[k] = c
      /\ \A j \in DOMAIN sent.calls \ {k} : sent'.calls[j] = sent.calls[j]
  <2> DEFINE calls == [sent.calls EXCEPT ![k] = c]
  <2>1. /\ calls \in Seq(SentCalls) /\ Len(calls) = Len(sent.calls)
        /\ DOMAIN calls = DOMAIN sent.calls /\ calls[k] = c
        /\ \A j \in DOMAIN sent.calls \ {k} : calls[j] = sent.calls[j]
    BY <1>1, <1>2, ChangedCalls
  <2>2. sent' = [sent EXCEPT !.calls = calls, !.torn = torn]
    BY <1>3
  <2> HIDE DEF calls
  <2> QED
    BY <1>1, <2>1, <2>2 DEF SentOK
<1>5. ChatOK(chat') /\ StreamOK(stream') /\ job' = job /\ result' = result
  BY HearEnd DEF EndCall, Hear
<1>6. TypeOK'
  BY <1>4, <1>5 DEF TypeOK, SentOK, SentCalls
<1> QED
  BY <1>2, <1>4, <1>5, <1>6 DEF EndCall, torn

LEMMA EndAllIs ==
    ASSUME TypeOK, EndAll
    PROVE  /\ TypeOK' /\ job' = job /\ result' = result
           /\ sent'.calls = sent.calls /\ sent'.closed
           /\ sent'.torn = sent.torn /\ sent'.finish = sent.finish
           /\ sent'.said = sent.said /\ sent'.usage = sent.usage
           /\ Hear(Event("End"))
<1>1. SentOK(sent) /\ sent' = [sent EXCEPT !.closed = TRUE]
  BY SentType DEF EndAll
<1>2. /\ SentOK(sent') /\ sent'.calls = sent.calls /\ sent'.closed
      /\ sent'.torn = sent.torn /\ sent'.finish = sent.finish
      /\ sent'.said = sent.said /\ sent'.usage = sent.usage
  BY <1>1 DEF SentOK
<1>3. ChatOK(chat') /\ StreamOK(stream') /\ job' = job /\ result' = result
  BY HearEnd DEF EndAll, Hear
<1>4. TypeOK'
  BY <1>2, <1>3 DEF TypeOK, SentOK, SentCalls
<1> QED
  BY <1>2, <1>3, <1>4 DEF EndAll

LEMMA GiveReasonIs ==
    ASSUME TypeOK, GiveReason
    PROVE  /\ TypeOK' /\ job' = job /\ result' = result
           /\ sent'.calls = sent.calls /\ sent'.closed = sent.closed
           /\ sent'.torn = sent.torn /\ sent'.finish
           /\ sent'.said = sent.said /\ sent'.usage = sent.usage
           /\ Hear([ev |-> "Finish", reason |-> plan.reason]) /\ plan.reason \in STRING
<1>1. SentOK(sent) /\ sent' = [sent EXCEPT !.finish = TRUE]
  BY SentType DEF GiveReason
<1>2. /\ SentOK(sent') /\ sent'.calls = sent.calls /\ sent'.closed = sent.closed
      /\ sent'.torn = sent.torn /\ sent'.finish
      /\ sent'.said = sent.said /\ sent'.usage = sent.usage
  BY <1>1 DEF SentOK
<1>3. plan.reason \in STRING /\ Hear([ev |-> "Finish", reason |-> plan.reason])
  BY PlanShape DEF GiveReason
<1>4. ChatOK(chat') /\ StreamOK(stream') /\ job' = job /\ result' = result
  BY <1>3, HearFinish DEF Hear
<1>5. TypeOK'
  BY <1>2, <1>4 DEF TypeOK, SentOK, SentCalls
<1> QED
  BY <1>2, <1>3, <1>4, <1>5

LEMMA CountUsageIs ==
    ASSUME TypeOK, CountUsage
    PROVE  /\ TypeOK' /\ job' = job /\ result' = result
           /\ sent'.calls = sent.calls /\ sent'.closed = sent.closed
           /\ sent'.torn = sent.torn /\ sent'.finish = sent.finish /\ sent'.said = sent.said
           /\ Hear(Event("Usage"))
<1>1. SentOK(sent) /\ sent' = [sent EXCEPT !.usage = TRUE]
  BY SentType DEF CountUsage
<1>2. /\ SentOK(sent') /\ sent'.calls = sent.calls /\ sent'.closed = sent.closed
      /\ sent'.torn = sent.torn /\ sent'.finish = sent.finish /\ sent'.said = sent.said
  BY <1>1 DEF SentOK
<1>3. ChatOK(chat') /\ stream' = stream /\ StreamOK(stream') /\ job' = job /\ result' = result
  BY HearUsage DEF CountUsage, Hear, TypeOK
<1>4. TypeOK'
  BY <1>2, <1>3 DEF TypeOK, SentOK, SentCalls
<1> QED
  BY <1>2, <1>3, <1>4 DEF CountUsage

----------------------------------------------------------------------------
(* The inductive invariant.  The first part is about what was sent; the    *)
(* next two say how chat stands to it, as long as no end tore a call apart *)
(* and when calls have indexes of their own; the last, how the stream does.*)

Began == 1 .. Len(sent.calls)
IndexOf(p, k) == p.calls[k].index
MadeOf(p, k) == IF p.calls[k].tool = "none" THEN <<>> ELSE <<Made(p.calls[k])>>
MadeUpTo(p, m) == FlattenSeq([k \in 1 .. m |-> MadeOf(p, k)])
JudgedOf(p, k) == Parsed([args |-> p.calls[k].parts])

\* What was sent of a call so far.
Heard(k) == SubSeq(plan.calls[k].parts, 1, sent.calls[k].parts)
HeardTool(k) == IF sent.calls[k].named THEN plan.calls[k].tool ELSE "none"

SentFits ==
    job.kind = "reply" =>
        /\ sent.said <= Len(plan.said)
        /\ Len(sent.calls) <= Len(plan.calls)
        /\ \A k \in Began :
              /\ sent.calls[k].parts <= Len(plan.calls[k].parts)
              /\ ~sent.calls[k].named => sent.calls[k].parts = 0
              /\ sent.calls[k].ended => Whole(k) /\ plan.ends = "each"
        /\ ~plan.parallel => ~sent.torn /\ \A k \in 1 .. (Len(sent.calls) - 1) : Done(k)
        /\ sent.closed => plan.ends = "once"

\* The first m calls were taken, and the others have a slot each.
Holding(m) ==
    /\ chat.calls = MadeUpTo(plan, m)
    /\ Len(chat.order) = Len(sent.calls) - m
    /\ DOMAIN chat.slots = {IndexOf(plan, k) : k \in (m + 1) .. Len(sent.calls)}
    /\ \A k \in 1 .. m : Whole(k)
    /\ \A k \in (m + 1) .. Len(sent.calls) :
          /\ ~sent.calls[k].ended
          /\ chat.order[k - m] = IndexOf(plan, k)
          /\ chat.slots[IndexOf(plan, k)].id = plan.calls[k].id
          /\ chat.slots[IndexOf(plan, k)].tool = HeardTool(k)
          /\ chat.slots[IndexOf(plan, k)].args = Heard(k)
    /\ \A a, b \in (m + 1) .. Len(sent.calls) : IndexOf(plan, a) = IndexOf(plan, b) => a = b

ChatFollows == job.kind = "reply" /\ ~sent.torn => \E m \in 0 .. Len(sent.calls) : Holding(m)

\* A slot is of one call, and so is a call that was taken.
SlotOf(k, slot) == slot.tool \in {"none", HeardTool(k)} /\ slot.args = Heard(k)
TakenFrom(p, k, got) == got.tool = p.calls[k].tool /\ (got.args = "path" => JudgedOf(p, k) = "path")
Taken(p, got) == got.tool # "none" /\ \E k \in DOMAIN p.calls : TakenFrom(p, k, got)

ChatNeverMixes ==
    job.kind = "reply" /\ OwnIndexes(plan) =>
        /\ \A i \in DOMAIN chat.slots : \E k \in Began : IndexOf(plan, k) = i /\ SlotOf(k, chat.slots[i])
        /\ \A got \in ToSet(chat.calls) : Taken(plan, got)

\* The stream has a slot for each of the calls open; the others were judged.
Watching(open) ==
    /\ DOMAIN stream.calls.slots = {IndexOf(plan, k) : k \in open}
    /\ \A a, b \in open : IndexOf(plan, a) = IndexOf(plan, b) => a = b
    /\ \A k \in open :
          /\ stream.calls.slots[IndexOf(plan, k)].tool = HeardTool(k)
          /\ HeardTool(k) = "read_file" => stream.calls.slots[IndexOf(plan, k)].args = Heard(k)
          /\ plan.parallel \/ plan.ends # "each" \/ ~sent.calls[k].ended
    /\ \A k \in Began \ open :
          /\ Whole(k) /\ (sent.calls[k].ended \/ sent.closed)
          /\ plan.calls[k].tool = "read_file" => JudgedOf(plan, k) \in stream.calls.best

Judged ==
    /\ stream.calls.other = \E k \in Began : HeardTool(k) \notin {"none", "read_file"}
    /\ \A b \in stream.calls.best : \E k \in Began : HeardTool(k) = "read_file" /\ b = JudgedOf(plan, k)

StreamFollows ==
    job.kind = "reply" /\ ~stream.error =>
        /\ stream.finish = chat.finish
        /\ \E open \in SUBSET Began : Watching(open)
        /\ Judged

TextFollows == job.kind = "reply" => chat.text = SubSeq(plan.said, 1, sent.said)

FailFollows ==
    /\ job.kind = "reply" => (chat.failed <=> sent.finish /\ plan.reason \in FailedReasons)
    /\ result = Pending => (stream.error <=> chat.failed)
    /\ result # Pending /\ job.kind = "reply" => (Scored <=> ~stream.error)
    /\ Scored => job.kind = "reply" /\ ~chat.failed

LEMMA SentFacts ==
    ASSUME TypeOK, job.kind = "reply"
    PROVE  /\ DOMAIN sent.calls = Began /\ Len(sent.calls) \in Nat
           /\ DOMAIN plan.calls = 1 .. Len(plan.calls) /\ Len(plan.calls) \in Nat
           /\ RepliesAsVendorsDo(plan)
           /\ sent.said \in Nat /\ plan.said \in Seq(STRING) /\ sent.torn \in BOOLEAN
           /\ plan.ends \in {"each", "once", "never"} /\ plan.parallel \in BOOLEAN
           /\ \A k \in Began :
                 sent.calls[k].named \in BOOLEAN /\ sent.calls[k].parts \in Nat /\ sent.calls[k].ended \in BOOLEAN
           /\ \A k \in DOMAIN plan.calls :
                 /\ IndexOf(plan, k) \in Nat /\ plan.calls[k].id \in STRING /\ plan.calls[k].tool \in STRING
                 /\ plan.calls[k].parts \in Seq(STRING) /\ Len(plan.calls[k].parts) \in Nat
<1>1. RepliesAsVendorsDo(plan) /\ plan \in Plans
  BY JobShapes DEF RepliesAsVendorsDo
<1>2. SentOK(sent)
  BY SentType
<1>3. sent.calls \in Seq(SentCalls) /\ sent.said \in Nat /\ sent.torn \in BOOLEAN
  BY <1>2 DEF SentOK
<1> HIDE DEF plan
<1>4. /\ plan.said \in Seq(STRING) /\ plan.ends \in {"each", "once", "never"} /\ plan.parallel \in BOOLEAN
      /\ plan.calls \in Seq([index : Nat, id : STRING, tool : STRING, parts : Seq(STRING)])
  BY <1>1 DEF Plans
<1>5. DOMAIN plan.calls = 1 .. Len(plan.calls) /\ Len(plan.calls) \in Nat
  BY <1>4
<1>6. DOMAIN sent.calls = Began /\ Len(sent.calls) \in Nat
  BY <1>3 DEF Began
<1>7. ASSUME NEW k \in DOMAIN plan.calls
      PROVE  /\ IndexOf(plan, k) \in Nat /\ plan.calls[k].id \in STRING /\ plan.calls[k].tool \in STRING
             /\ plan.calls[k].parts \in Seq(STRING) /\ Len(plan.calls[k].parts) \in Nat
  <2>1. plan.calls[k] \in [index : Nat, id : STRING, tool : STRING, parts : Seq(STRING)]
    <3> DEFINE C == [index : Nat, id : STRING, tool : STRING, parts : Seq(STRING)]
               calls == plan.calls
    <3>1. calls \in Seq(C) /\ k \in DOMAIN calls
      BY <1>4
    <3> HIDE DEF C, calls
    <3>2. calls[k] \in C
      BY <3>1
    <3> QED
      BY <3>2 DEF C, calls
  <2>2. plan.calls[k].parts \in Seq(STRING)
    BY <2>1
  <2> QED
    BY <2>1, <2>2 DEF IndexOf
<1>8. ASSUME NEW k \in Began
      PROVE sent.calls[k].named \in BOOLEAN /\ sent.calls[k].parts \in Nat /\ sent.calls[k].ended \in BOOLEAN
  BY <1>6, CallType DEF SentCalls
<1> QED
  BY <1>1, <1>3, <1>4, <1>5, <1>6, <1>7, <1>8

LEMMA BeganIsPlanned ==
    ASSUME TypeOK, SentFits, job.kind = "reply", NEW k \in Began
    PROVE  k \in DOMAIN plan.calls /\ k \in DOMAIN sent.calls
<1>1. /\ DOMAIN sent.calls = Began /\ Len(sent.calls) \in Nat
      /\ DOMAIN plan.calls = 1 .. Len(plan.calls) /\ Len(plan.calls) \in Nat
  BY SentFacts
<1> HIDE DEF plan
<1>2. Len(sent.calls) <= Len(plan.calls)
  BY DEF SentFits
<1> QED
  BY <1>1, <1>2 DEF Began

LEMMA SayFits == ASSUME TypeOK, SentFits, Say PROVE TypeOK' /\ SentFits'
<1>1. /\ TypeOK' /\ job' = job /\ sent' = [sent EXCEPT !.said = sent.said + 1]
      /\ sent.said + 1 \in 1 .. Len(plan.said)
  BY SayIs
<1>2. /\ sent'.said = sent.said + 1 /\ sent'.calls = sent.calls /\ sent'.torn = sent.torn
      /\ sent'.closed = sent.closed
  BY <1>1, SentType DEF SentOK
<1>3. plan' = plan
  BY <1>1 DEF plan
<1> HIDE DEF plan
<1>4. sent'.said <= Len(plan.said)
  BY <1>1, <1>2
<1> QED
  BY <1>1, <1>2, <1>3, <1>4 DEF SentFits, Began, Whole, Done

LEMMA StartCallFits == ASSUME TypeOK, SentFits, StartCall PROVE TypeOK' /\ SentFits'
<1> DEFINE n == Len(sent.calls) + 1
           new == [named |-> ~plan.split, parts |-> 0, ended |-> FALSE]
<1>1. /\ TypeOK' /\ job' = job /\ n \in DOMAIN plan.calls /\ sent'.calls = Append(sent.calls, new)
      /\ sent'.torn = sent.torn /\ sent'.closed = sent.closed /\ sent'.said = sent.said
  BY StartCallIs
<1>2. job.kind = "reply" /\ (plan.parallel \/ \A k \in DOMAIN sent.calls : Done(k))
  BY DEF StartCall, Replying
<1>3. plan' = plan
  BY <1>1 DEF plan
<1>4. /\ DOMAIN sent.calls = Began /\ Len(sent.calls) \in Nat
      /\ DOMAIN plan.calls = 1 .. Len(plan.calls) /\ Len(plan.calls) \in Nat
      /\ \A k \in DOMAIN plan.calls : Len(plan.calls[k].parts) \in Nat
  BY <1>2, SentFacts
<1>5. new.parts = 0 /\ ~new.ended
  OBVIOUS
<1> HIDE DEF plan, new
<1>6. /\ Len(sent'.calls) = n /\ sent'.calls[n] = new
      /\ \A k \in Began : sent'.calls[k] = sent.calls[k]
  <2>1. sent.calls \in Seq(SentCalls)
    BY SentType DEF SentOK
  <2> QED
    BY <1>1, <1>4, <2>1, AppendProperties DEF Began
<1>7. Began' = Began \cup {n} /\ n - 1 = Len(sent.calls) /\ n <= Len(plan.calls) /\ n \notin Began
  BY <1>1, <1>4, <1>6 DEF Began
<1>8. \A k \in Began : (Whole(k))' = Whole(k) /\ (Done(k))' = Done(k)
  BY <1>3, <1>6 DEF Whole, Done
<1>9. \A k \in Began' :
          /\ sent'.calls[k].parts <= Len(plan.calls[k].parts)
          /\ ~sent'.calls[k].named => sent'.calls[k].parts = 0
          /\ sent'.calls[k].ended => (Whole(k))' /\ plan.ends = "each"
  <2> SUFFICES ASSUME NEW k \in Began'
               PROVE  /\ sent'.calls[k].parts <= Len(plan.calls[k].parts)
                      /\ ~sent'.calls[k].named => sent'.calls[k].parts = 0
                      /\ sent'.calls[k].ended => (Whole(k))' /\ plan.ends = "each"
    OBVIOUS
  <2>1. CASE k \in Began
    BY <1>2, <1>6, <1>8, <2>1 DEF SentFits
  <2>2. CASE k = n
    <3>1. Len(plan.calls[k].parts) \in Nat
      BY <1>1, <1>4, <2>2
    <3> QED
      BY <1>5, <1>6, <2>2, <3>1
  <2> QED
    BY <1>7, <2>1, <2>2
<1>10. ~plan.parallel => ~sent'.torn /\ \A k \in 1 .. (Len(sent'.calls) - 1) : (Done(k))'
  BY <1>1, <1>2, <1>4, <1>6, <1>7, <1>8 DEF SentFits, Began
<1> QED
  BY <1>1, <1>2, <1>3, <1>6, <1>7, <1>9, <1>10 DEF SentFits

\* A call that is whole, or whole and ended, stays so.
LEMMA NameCallFits ==
    ASSUME TypeOK, SentFits, NEW k \in DOMAIN sent.calls, NameCall(k)
    PROVE  /\ TypeOK' /\ SentFits' /\ k \in Began /\ k \in DOMAIN plan.calls /\ job.kind = "reply"
           /\ job' = job /\ plan' = plan /\ Began' = Began
           /\ \A j \in Began : Whole(j) => (Whole(j))'
<1>1. job.kind = "reply" /\ ~sent.calls[k].named
  BY DEF NameCall, Replying
<1>2. k \in Began /\ k \in DOMAIN plan.calls
  BY <1>1, SentFacts, BeganIsPlanned
<1>3. /\ TypeOK' /\ job' = job /\ Len(sent'.calls) = Len(sent.calls)
      /\ \A j \in DOMAIN sent.calls \ {k} : sent'.calls[j] = sent.calls[j]
      /\ sent'.calls[k].named /\ sent'.calls[k].parts = sent.calls[k].parts
      /\ sent'.calls[k].ended = sent.calls[k].ended
      /\ sent'.torn = sent.torn /\ sent'.closed = sent.closed /\ sent'.said = sent.said
  BY <1>2, NameCallIs
<1>4. plan' = plan
  BY <1>3 DEF plan
<1>5. DOMAIN sent.calls = Began /\ Len(sent.calls) \in Nat
  BY <1>1, SentFacts
<1> HIDE DEF plan
<1>6. Began' = Began
  BY <1>3 DEF Began
<1>7. \A j \in Began : (Whole(j) => (Whole(j))') /\ (Done(j) => (Done(j))')
  BY <1>3, <1>4, <1>5 DEF Whole, Done
<1>8. SentFits'
  <2>1. \A j \in Began :
           /\ sent'.calls[j].parts <= Len(plan.calls[j].parts)
           /\ ~sent'.calls[j].named => sent'.calls[j].parts = 0
           /\ sent'.calls[j].ended => (Whole(j))' /\ plan.ends = "each"
    <3> SUFFICES ASSUME NEW j \in Began
                 PROVE  /\ sent'.calls[j].parts <= Len(plan.calls[j].parts)
                        /\ ~sent'.calls[j].named => sent'.calls[j].parts = 0
                        /\ sent'.calls[j].ended => (Whole(j))' /\ plan.ends = "each"
      OBVIOUS
    <3>1. /\ sent.calls[j].parts <= Len(plan.calls[j].parts)
          /\ ~sent.calls[j].named => sent.calls[j].parts = 0
          /\ sent.calls[j].ended => Whole(j) /\ plan.ends = "each"
      BY <1>1 DEF SentFits
    <3>2. CASE j = k
      BY <1>1, <1>3, <1>4, <1>5, <1>6, <1>7, <3>1, <3>2
    <3>3. CASE j # k
      BY <1>1, <1>3, <1>4, <1>5, <1>6, <1>7, <3>1, <3>3
    <3> QED
      BY <3>2, <3>3
  <2>2. ~plan.parallel => ~sent'.torn /\ \A j \in 1 .. (Len(sent.calls) - 1) : (Done(j))'
    <3>1. 1 .. (Len(sent.calls) - 1) \subseteq Began
      BY <1>1, <1>3, <1>4, <1>5, <1>6, <1>7 DEF Began
    <3> QED
      BY <1>1, <1>3, <1>4, <1>5, <1>6, <1>7, <3>1 DEF SentFits
  <2> QED
    BY <1>1, <1>3, <1>4, <1>5, <1>6, <1>7, <2>1, <2>2 DEF SentFits
<1> QED
  BY <1>1, <1>2, <1>3, <1>4, <1>6, <1>7, <1>8

LEMMA SendPartFits ==
    ASSUME TypeOK, SentFits, NEW k \in DOMAIN sent.calls, SendPart(k)
    PROVE  /\ TypeOK' /\ SentFits' /\ k \in Began /\ k \in DOMAIN plan.calls /\ job.kind = "reply"
           /\ job' = job /\ plan' = plan /\ Began' = Began
           /\ sent.calls[k].parts <= Len(plan.calls[k].parts)
           /\ \A j \in Began : Whole(j) => (Whole(j))'
<1>1. job.kind = "reply" /\ sent.calls[k].named /\ ~Whole(k)
  BY DEF SendPart, Replying
<1>2. k \in Began /\ k \in DOMAIN plan.calls
  BY <1>1, SentFacts, BeganIsPlanned
<1>3. sent.calls[k].parts <= Len(plan.calls[k].parts)
  BY <1>1, <1>2 DEF SentFits
<1>4. /\ TypeOK' /\ job' = job /\ Len(sent'.calls) = Len(sent.calls)
      /\ \A j \in DOMAIN sent.calls \ {k} : sent'.calls[j] = sent.calls[j]
      /\ sent'.calls[k].named = sent.calls[k].named
      /\ sent'.calls[k].parts = sent.calls[k].parts + 1
      /\ sent'.calls[k].ended = sent.calls[k].ended
      /\ sent'.torn = sent.torn /\ sent'.closed = sent.closed /\ sent'.said = sent.said
      /\ sent.calls[k].parts + 1 \in 1 .. Len(plan.calls[k].parts)
  BY <1>2, <1>3, SendPartIs
<1>5. plan' = plan
  BY <1>4 DEF plan
<1>6. /\ DOMAIN sent.calls = Began /\ Len(sent.calls) \in Nat
      /\ sent.calls[k].parts \in Nat /\ Len(plan.calls[k].parts) \in Nat
  BY <1>1, <1>2, SentFacts
<1> HIDE DEF plan
<1>7. Began' = Began
  BY <1>4 DEF Began
<1>8. \A j \in Began : (Whole(j) => (Whole(j))') /\ (Done(j) => (Done(j))')
  BY <1>1, <1>4, <1>5, <1>6 DEF Whole, Done
<1>9. sent'.calls[k].parts <= Len(plan.calls[k].parts)
  BY <1>4, <1>6
<1>10. SentFits'
  <2>1. \A j \in Began :
           /\ sent'.calls[j].parts <= Len(plan.calls[j].parts)
           /\ ~sent'.calls[j].named => sent'.calls[j].parts = 0
           /\ sent'.calls[j].ended => (Whole(j))' /\ plan.ends = "each"
    <3> SUFFICES ASSUME NEW j \in Began
                 PROVE  /\ sent'.calls[j].parts <= Len(plan.calls[j].parts)
                        /\ ~sent'.calls[j].named => sent'.calls[j].parts = 0
                        /\ sent'.calls[j].ended => (Whole(j))' /\ plan.ends = "each"
      OBVIOUS
    <3>1. /\ sent.calls[j].parts <= Len(plan.calls[j].parts)
          /\ ~sent.calls[j].named => sent.calls[j].parts = 0
          /\ sent.calls[j].ended => Whole(j) /\ plan.ends = "each"
      BY <1>1 DEF SentFits
    <3>2. CASE j = k
      BY <1>1, <1>4, <1>5, <1>6, <1>7, <1>8, <1>9, <3>1, <3>2
    <3>3. CASE j # k
      BY <1>1, <1>4, <1>5, <1>6, <1>7, <1>8, <1>9, <3>1, <3>3
    <3> QED
      BY <3>2, <3>3
  <2>2. ~plan.parallel => ~sent'.torn /\ \A j \in 1 .. (Len(sent.calls) - 1) : (Done(j))'
    <3>1. 1 .. (Len(sent.calls) - 1) \subseteq Began
      BY <1>1, <1>4, <1>5, <1>6, <1>7, <1>8, <1>9 DEF Began
    <3> QED
      BY <1>1, <1>4, <1>5, <1>6, <1>7, <1>8, <1>9, <3>1 DEF SentFits
  <2> QED
    BY <1>1, <1>4, <1>5, <1>6, <1>7, <1>8, <1>9, <2>1, <2>2 DEF SentFits
<1> QED
  BY <1>1, <1>2, <1>3, <1>4, <1>5, <1>7, <1>8, <1>10

LEMMA EndCallFits ==
    ASSUME TypeOK, SentFits, NEW k \in DOMAIN sent.calls, EndCall(k)
    PROVE  /\ TypeOK' /\ SentFits' /\ k \in Began /\ k \in DOMAIN plan.calls /\ job.kind = "reply"
           /\ job' = job /\ plan' = plan /\ Began' = Began
           /\ \A j \in Began : (Whole(j))' = Whole(j)
           /\ ~plan.parallel => ~sent'.torn
<1>1. job.kind = "reply" /\ Whole(k) /\ plan.ends = "each" /\ ~sent.calls[k].ended
  BY DEF EndCall, Replying
<1>2. k \in Began /\ k \in DOMAIN plan.calls
  BY <1>1, SentFacts, BeganIsPlanned
<1>3. /\ TypeOK' /\ job' = job /\ Len(sent'.calls) = Len(sent.calls)
      /\ \A j \in DOMAIN sent.calls \ {k} : sent'.calls[j] = sent.calls[j]
      /\ sent'.calls[k].named = sent.calls[k].named
      /\ sent'.calls[k].parts = sent.calls[k].parts /\ sent'.calls[k].ended
      /\ sent'.torn = (sent.torn \/ Tears(k)) /\ sent'.closed = sent.closed /\ sent'.said = sent.said
  BY EndCallIs
<1>4. plan' = plan
  BY <1>3 DEF plan
<1>5. DOMAIN sent.calls = Began /\ Len(sent.calls) \in Nat
  BY <1>1, SentFacts
<1> HIDE DEF plan
<1>6. Began' = Began
  BY <1>3 DEF Began
<1>7. \A j \in Began : ((Whole(j))' = Whole(j)) /\ (Done(j) => (Done(j))')
  BY <1>3, <1>4, <1>5 DEF Whole, Done
<1>8. ~plan.parallel => ~Tears(k)
  <2> SUFFICES ASSUME ~plan.parallel, NEW j \in DOMAIN sent.calls \ {k} PROVE sent.calls[j].ended \/ Whole(j)
    BY DEF Tears
  <2>1. \A i \in 1 .. (Len(sent.calls) - 1) : Done(i)
    BY <1>1 DEF SentFits
  <2>2. ~Done(k)
    BY <1>1 DEF Done
  <2>3. k = Len(sent.calls)
    BY <1>2, <1>5, <2>1, <2>2 DEF Began
  <2>4. j \in 1 .. (Len(sent.calls) - 1)
    BY <1>5, <2>3 DEF Began
  <2> QED
    BY <2>1, <2>4 DEF Done
<1>9. SentFits'
  <2>1. \A j \in Began :
           /\ sent'.calls[j].parts <= Len(plan.calls[j].parts)
           /\ ~sent'.calls[j].named => sent'.calls[j].parts = 0
           /\ sent'.calls[j].ended => (Whole(j))' /\ plan.ends = "each"
    <3> SUFFICES ASSUME NEW j \in Began
                 PROVE  /\ sent'.calls[j].parts <= Len(plan.calls[j].parts)
                        /\ ~sent'.calls[j].named => sent'.calls[j].parts = 0
                        /\ sent'.calls[j].ended => (Whole(j))' /\ plan.ends = "each"
      OBVIOUS
    <3>1. /\ sent.calls[j].parts <= Len(plan.calls[j].parts)
          /\ ~sent.calls[j].named => sent.calls[j].parts = 0
          /\ sent.calls[j].ended => Whole(j) /\ plan.ends = "each"
      BY <1>1 DEF SentFits
    <3>2. CASE j = k
      BY <1>1, <1>3, <1>4, <1>5, <1>6, <1>7, <1>8, <3>1, <3>2
    <3>3. CASE j # k
      BY <1>1, <1>3, <1>4, <1>5, <1>6, <1>7, <1>8, <3>1, <3>3
    <3> QED
      BY <3>2, <3>3
  <2>2. ~plan.parallel => ~sent'.torn /\ \A j \in 1 .. (Len(sent.calls) - 1) : (Done(j))'
    <3>1. 1 .. (Len(sent.calls) - 1) \subseteq Began
      BY <1>1, <1>3, <1>4, <1>5, <1>6, <1>7, <1>8 DEF Began
    <3> QED
      BY <1>1, <1>3, <1>4, <1>5, <1>6, <1>7, <1>8, <3>1 DEF SentFits
  <2> QED
    BY <1>1, <1>3, <1>4, <1>5, <1>6, <1>7, <1>8, <2>1, <2>2 DEF SentFits
<1> QED
  BY <1>1, <1>2, <1>3, <1>4, <1>6, <1>7, <1>8, <1>9 DEF SentFits

LEMMA EndAllFits == ASSUME TypeOK, SentFits, EndAll PROVE TypeOK' /\ SentFits' /\ plan' = plan
<1>1. /\ TypeOK' /\ job' = job /\ sent'.calls = sent.calls /\ sent'.torn = sent.torn
      /\ sent'.said = sent.said
  BY EndAllIs
<1>2. plan.ends = "once"
  BY DEF EndAll
<1>3. plan' = plan
  BY <1>1 DEF plan
<1> HIDE DEF plan
<1> QED
  BY <1>1, <1>2, <1>3 DEF SentFits, Began, Whole, Done

LEMMA GiveReasonFits == ASSUME TypeOK, SentFits, GiveReason PROVE TypeOK' /\ SentFits' /\ plan' = plan
<1>1. /\ TypeOK' /\ job' = job /\ sent'.calls = sent.calls /\ sent'.torn = sent.torn
      /\ sent'.said = sent.said /\ sent'.closed = sent.closed
  BY GiveReasonIs
<1>2. plan' = plan
  BY <1>1 DEF plan
<1> HIDE DEF plan
<1> QED
  BY <1>1, <1>2 DEF SentFits, Began, Whole, Done

LEMMA CountUsageFits == ASSUME TypeOK, SentFits, CountUsage PROVE TypeOK' /\ SentFits' /\ plan' = plan
<1>1. /\ TypeOK' /\ job' = job /\ sent'.calls = sent.calls /\ sent'.torn = sent.torn
      /\ sent'.said = sent.said /\ sent'.closed = sent.closed
  BY CountUsageIs
<1>2. plan' = plan
  BY <1>1 DEF plan
<1> HIDE DEF plan
<1> QED
  BY <1>1, <1>2 DEF SentFits, Began, Whole, Done

\* An action after which nothing more is sent.
Settling == Ask \/ LookUp \/ EndReply \/ Break \/ UNCHANGED vars

LEMMA SettlingFits == ASSUME TypeOK, SentFits, Settling PROVE TypeOK' /\ SentFits' /\ plan' = plan
<1>1. /\ job' = job /\ sent' = sent /\ chat' = chat
      /\ stream' = stream \/ stream' = [stream EXCEPT !.error = TRUE]
  BY DEF Settling, Ask, LookUp, EndReply, Break, vars
<1>2. StreamOK(stream')
  <2>1. StreamOK(stream)
    BY DEF TypeOK
  <2>2. [stream EXCEPT !.error = TRUE].calls = stream.calls
        /\ [stream EXCEPT !.error = TRUE].text = stream.text
        /\ [stream EXCEPT !.error = TRUE].finish = stream.finish
        /\ [stream EXCEPT !.error = TRUE].error
        /\ DOMAIN [stream EXCEPT !.error = TRUE] = DOMAIN stream
    BY <2>1 DEF StreamOK, StreamStart
  <2> QED
    BY <1>1, <2>1, <2>2 DEF StreamOK
<1>3. TypeOK'
  BY <1>1, <1>2 DEF TypeOK
<1>4. plan' = plan
  BY <1>1 DEF plan
<1> HIDE DEF plan
<1> QED
  BY <1>1, <1>3, <1>4 DEF SentFits, Began, Whole, Done

LEMMA StartIsTyped == ASSUME Init PROVE TypeOK /\ SentFits
<1>1. DOMAIN <<>> = {} /\ Len(<<>>) = 0 /\ \A S : <<>> \in Seq(S)
  BY EmptySeq
<1>2. sent = NothingSent /\ chat = FoldStart /\ stream = StreamStart
  BY DEF Init
<1>3. SentOK(sent)
  <2> DEFINE none == <<>>
  <2>1. none \in Seq(SentCalls)
    BY <1>1
  <2> HIDE DEF none
  <2>2. [said |-> 0, calls |-> none, closed |-> FALSE, finish |-> FALSE, usage |-> FALSE, torn |-> FALSE]
        \in [said : Nat, calls : Seq(SentCalls), closed : BOOLEAN, finish : BOOLEAN,
             usage : BOOLEAN, torn : BOOLEAN]
    BY <2>1
  <2> QED
    BY <1>2, <2>2 DEF NothingSent, SentOK, none
<1>4. ChatOK(chat)
  BY <1>1, <1>2 DEF ChatOK, FoldStart, NoText, Finished
<1>5. StreamOK(stream)
  BY <1>1, <1>2, FS_EmptySet DEF StreamOK, StreamStart, NoText, Finished
<1>6. TypeOK
  BY <1>3, <1>4, <1>5 DEF TypeOK, SentOK, SentCalls, Init
<1>7. SentFits
  <2> SUFFICES ASSUME job.kind = "reply" PROVE SentFits
    BY DEF SentFits
  <2>1. plan.said \in Seq(STRING) /\ Len(plan.calls) \in Nat
    BY <1>6, SentFacts
  <2>2. sent.said = 0 /\ sent.calls = <<>> /\ ~sent.torn /\ ~sent.closed
    BY <1>2 DEF NothingSent
  <2> HIDE DEF plan
  <2>3. Len(plan.said) \in Nat
    BY <2>1
  <2>4. Began = {} /\ 1 .. (Len(sent.calls) - 1) = {}
    BY <1>1, <2>2 DEF Began
  <2> QED
    BY <1>1, <2>1, <2>2, <2>3, <2>4 DEF SentFits
<1> QED
  BY <1>6, <1>7

LEMMA StepFits == ASSUME TypeOK, SentFits, [Next]_vars PROVE TypeOK' /\ SentFits'
<1>1. CASE Say \/ StartCall
  BY <1>1, SayFits, StartCallFits
<1>2. ASSUME NEW k \in DOMAIN sent.calls, NameCall(k) \/ SendPart(k) \/ EndCall(k)
      PROVE TypeOK' /\ SentFits'
  BY <1>2, NameCallFits, SendPartFits, EndCallFits
<1>3. CASE EndAll \/ GiveReason \/ CountUsage
  BY <1>3, EndAllFits, GiveReasonFits, CountUsageFits
<1>4. CASE Settling
  BY <1>4, SettlingFits
<1> QED
  BY <1>1, <1>2, <1>3, <1>4 DEF Next, Settling

\* In every reachable state the variables have the types that TypeOK gives
\* them: the slots of chat are those its order names, and a call that is
\* sent is a call of the plan.
THEOREM TypeCorrect == Spec => []TypeOK
<1>1. Init => TypeOK /\ SentFits
  BY StartIsTyped
<1>2. TypeOK /\ SentFits /\ [Next]_vars => (TypeOK /\ SentFits)'
  BY StepFits
<1> QED
  BY <1>1, <1>2, PTL DEF Spec

----------------------------------------------------------------------------
(* A reply that failed or broke.                                           *)

\* An event that says nothing of a failure.
LEMMA KeepsFail ==
    ASSUME FailFollows, Replying, job' = job, result' = result, sent'.finish = sent.finish,
           chat'.failed = chat.failed, stream'.error = stream.error
    PROVE  FailFollows'
<1>1. plan' = plan
  BY DEF plan
<1>2. Pending' = Pending
  BY DEF Pending
<1> HIDE DEF plan
<1> QED
  BY <1>1, <1>2 DEF FailFollows, Replying, Scored

LEMMA SayFails == ASSUME TypeOK, FailFollows, Say PROVE FailFollows'
<1>1. /\ job' = job /\ result' = result /\ sent' = [sent EXCEPT !.said = sent.said + 1]
      /\ Hear([ev |-> "Text", part |-> plan.said[sent.said + 1]]) /\ plan.said[sent.said + 1] \in STRING
  BY SayIs
<1>2. sent'.finish = sent.finish
  BY <1>1, SentType DEF SentOK
<1>3. chat'.failed = chat.failed /\ stream'.error = stream.error
  <2> DEFINE part == plan.said[sent.said + 1]
  <2>1. part \in STRING /\ Hear([ev |-> "Text", part |-> part])
    BY <1>1
  <2> HIDE DEF part
  <2> QED
    BY <2>1, HearText
<1> QED
  BY <1>1, <1>2, <1>3, KeepsFail DEF Say

LEMMA BeginFails ==
    ASSUME TypeOK, NEW index \in Nat, NEW id \in Ids, NEW tool \in Tools, Hear(Begin(index, id, tool))
    PROVE  chat'.failed = chat.failed /\ stream'.error = stream.error
<1>1. ChatOK(chat)
  BY DEF TypeOK
<1>2. chat' = FoldStartCall(chat, Begin(index, id, tool)) /\ stream'.error = stream.error
  BY HearStart
<1>3. StartsCall(chat, chat', index, id, tool)
  BY <1>1, <1>2, FoldStartIs, Zenon
<1> QED
  BY <1>2, <1>3 DEF StartsCall

LEMMA StartCallFails == ASSUME TypeOK, FailFollows, StartCall PROVE FailFollows'
<1> DEFINE call == plan.calls[Len(sent.calls) + 1]
           tool == IF plan.split THEN "none" ELSE call.tool
<1>1. /\ job' = job /\ result' = result /\ sent'.finish = sent.finish
      /\ Hear(Begin(call.index, call.id, tool))
      /\ call.index \in Nat /\ call.id \in Ids /\ tool \in Tools
  BY StartCallIs
<1>2. chat'.failed = chat.failed /\ stream'.error = stream.error
  <2> HIDE DEF call, tool
  <2> QED
    BY <1>1, BeginFails
<1> QED
  BY <1>1, <1>2, KeepsFail DEF StartCall

LEMMA NameCallFails ==
    ASSUME TypeOK, SentFits, FailFollows, NEW k \in DOMAIN sent.calls, NameCall(k)
    PROVE  FailFollows'
<1>1. k \in DOMAIN plan.calls
  BY NameCallFits
<1>2. /\ job' = job /\ result' = result /\ sent'.finish = sent.finish
      /\ Hear(Begin(plan.calls[k].index, "", plan.calls[k].tool))
      /\ plan.calls[k].index \in Nat /\ "" \in Ids /\ plan.calls[k].tool \in Tools
  BY <1>1, NameCallIs
<1>3. chat'.failed = chat.failed /\ stream'.error = stream.error
  <2> HIDE DEF plan
  <2> QED
    BY <1>2, BeginFails
<1> QED
  BY <1>2, <1>3, KeepsFail DEF NameCall

LEMMA SendPartFails ==
    ASSUME TypeOK, SentFits, FailFollows, NEW k \in DOMAIN sent.calls, SendPart(k)
    PROVE  FailFollows'
<1> DEFINE index == plan.calls[k].index
           part == plan.calls[k].parts[sent.calls[k].parts + 1]
<1>1. k \in DOMAIN plan.calls /\ sent.calls[k].parts <= Len(plan.calls[k].parts)
  BY SendPartFits
<1>2. /\ job' = job /\ result' = result /\ sent'.finish = sent.finish
      /\ Hear([ev |-> "Delta", index |-> index, part |-> part])
      /\ index \in Nat /\ part \in STRING
  BY <1>1, SendPartIs
<1>3. chat'.failed = chat.failed /\ stream'.error = stream.error
  <2> HIDE DEF index, part
  <2>1. ChatOK(chat)
    BY DEF TypeOK
  <2>2. /\ chat' = IF index \in DOMAIN chat.slots
                   THEN [chat EXCEPT !.slots[index].args = Append(@, part)] ELSE chat
        /\ stream'.error = stream.error
    BY <1>2, HearDelta
  <2>3. CASE index \in DOMAIN chat.slots
    BY <1>2, <2>1, <2>2, <2>3, FoldDeltaIs
  <2> QED
    BY <2>2, <2>3
<1> QED
  BY <1>2, <1>3, KeepsFail DEF SendPart

LEMMA EndsFail ==
    ASSUME TypeOK, Hear(Event("End")) PROVE chat'.failed = chat.failed /\ stream'.error = stream.error
<1>1. ChatOK(chat)
  BY DEF TypeOK
<1>2. chat' = FlushToolSlots(chat) /\ stream'.error = stream.error
  BY HearEnd
<1> QED
  BY <1>1, <1>2, FlushType

LEMMA MapClientErrorKind == \A e : MapClientError(e).kind \notin {"Ok", "Pending", "Asked", "Hints"}
<1> SUFFICES ASSUME NEW e PROVE MapClientError(e).kind \notin {"Ok", "Pending", "Asked", "Hints"}
  OBVIOUS
<1>1. \A kind, text : Failed(kind, text).kind = kind
  BY DEF Failed
<1>2. \A text : LlmOrNotFound(text).kind \in {"NotFound", "Llm"}
  BY <1>1, Zenon DEF LlmOrNotFound
<1>3. \A text : Unreachable(text).kind = "Unreachable"
  BY <1>1, Zenon DEF Unreachable
<1> QED
  BY <1>1, <1>2, <1>3 DEF MapClientError

LEMMA EndReplyFails == ASSUME FailFollows, EndReply PROVE FailFollows'
<1>1. /\ job.kind = "reply" /\ result = Pending /\ result' = ScoredCompletion(chat)
      /\ job' = job /\ sent' = sent /\ chat' = chat /\ stream' = stream
  BY DEF EndReply, Replying
<1>2. result'.kind \in {"Ok", "Transient"} /\ (result'.kind = "Ok" <=> ~chat.failed)
  BY <1>1 DEF ScoredCompletion
<1>3. result' # Pending
  BY <1>2 DEF Pending
<1>4. plan' = plan
  BY <1>1 DEF plan
<1> HIDE DEF plan
<1> QED
  BY <1>1, <1>2, <1>3, <1>4 DEF FailFollows, Scored, Pending

LEMMA BreakFails == ASSUME TypeOK, FailFollows, Break PROVE FailFollows'
<1>1. /\ job.kind = "reply" /\ result = Pending /\ result' = MapClientError(plan.breaks)
      /\ job' = job /\ sent' = sent /\ chat' = chat /\ stream' = [stream EXCEPT !.error = TRUE]
  BY DEF Break, Replying
<1>2. stream'.error
  BY <1>1 DEF TypeOK, StreamOK, StreamStart
<1>3. result'.kind \notin {"Ok", "Pending"}
  BY <1>1, MapClientErrorKind
<1>4. result' # Pending
  BY <1>3 DEF Pending
<1>5. plan' = plan
  BY <1>1 DEF plan
<1> HIDE DEF plan
<1> QED
  BY <1>1, <1>2, <1>3, <1>4, <1>5 DEF FailFollows, Scored, Pending

LEMMA OtherFails == ASSUME FailFollows, Ask \/ LookUp \/ UNCHANGED vars PROVE FailFollows'
<1>1. job' = job /\ sent' = sent /\ chat' = chat /\ stream' = stream
  BY DEF Ask, LookUp, vars
<1>2. result' = result \/ (job.kind # "reply" /\ result'.kind \in {"Asked", "Hints"})
  BY DEF Ask, LookUp, vars
<1>3. result'.kind \in {"Asked", "Hints"} => result' # Pending
  BY DEF Pending
<1>4. plan' = plan
  BY <1>1 DEF plan
<1> HIDE DEF plan
<1> QED
  BY <1>1, <1>2, <1>3, <1>4 DEF FailFollows, Scored, Pending

LEMMA StepFails ==
    ASSUME TypeOK, SentFits, FailFollows, [Next]_vars PROVE FailFollows'
<1>1. CASE Say \/ StartCall
  BY <1>1, SayFails, StartCallFails
<1>2. ASSUME NEW k \in DOMAIN sent.calls, NameCall(k) \/ SendPart(k)
      PROVE FailFollows'
  BY <1>2, NameCallFails, SendPartFails
<1>3. ASSUME NEW k \in DOMAIN sent.calls, EndCall(k)
      PROVE FailFollows'
  <2>1. job' = job /\ result' = result /\ sent'.finish = sent.finish /\ Hear(Event("End"))
    BY <1>3, EndCallIs
  <2> QED
    BY <1>3, <2>1, EndsFail, KeepsFail DEF EndCall
<1>4. CASE EndAll
  <2>1. job' = job /\ result' = result /\ sent'.finish = sent.finish /\ Hear(Event("End"))
    BY <1>4, EndAllIs
  <2> QED
    BY <1>4, <2>1, EndsFail, KeepsFail DEF EndAll
<1>5. CASE GiveReason
  <2>1. /\ job' = job /\ result' = result /\ sent'.finish
        /\ Hear([ev |-> "Finish", reason |-> plan.reason]) /\ plan.reason \in STRING
    BY <1>5, GiveReasonIs
  <2>2. ~sent.finish /\ job.kind = "reply" /\ result = Pending
    BY <1>5 DEF GiveReason, Replying
  <2>3. plan' = plan
    BY <2>1 DEF plan
  <2> HIDE DEF plan
  <2>4. /\ chat'.failed = (chat.failed \/ plan.reason \in FailedReasons)
        /\ stream'.error = (stream.error \/ plan.reason \in FailedReasons)
    BY <2>1, HearFinish
  <2> QED
    BY <2>1, <2>2, <2>3, <2>4 DEF FailFollows, Scored, Pending
<1>6. CASE CountUsage
  <2>1. job' = job /\ result' = result /\ sent'.finish = sent.finish /\ Hear(Event("Usage"))
    BY <1>6, CountUsageIs
  <2> QED
    BY <1>6, <2>1, HearUsage, KeepsFail DEF CountUsage
<1>7. CASE Settling
  BY <1>7, EndReplyFails, BreakFails, OtherFails DEF Settling
<1> QED
  BY <1>1, <1>2, <1>3, <1>4, <1>5, <1>6, <1>7 DEF Next, Settling

\* A reply that broke, or that ended with a failure, is scored by neither
\* reading, whatever was sent of it before; and what one reads as an answer
\* the other does not read as an error.
THEOREM NeitherScoresTheBroken == Spec => []BrokenIsNeverScored
<1> DEFINE I == TypeOK /\ SentFits /\ FailFollows
<1>1. Init => I
  <2> SUFFICES ASSUME Init PROVE FailFollows
    BY StartIsTyped
  <2> QED
    BY DEF Init, FailFollows, NothingSent, FoldStart, StreamStart, Scored, Pending
<1>2. I /\ [Next]_vars => I'
  BY StepFits, StepFails
<1>3. I => BrokenIsNeverScored
  <2> SUFFICES ASSUME I PROVE BrokenIsNeverScored
    OBVIOUS
  <2>1. Scored => result # Pending
    BY DEF Scored, Pending
  <2> HIDE DEF plan
  <2> QED
    BY <2>1 DEF BrokenIsNeverScored, FailFollows, FailedReasons
<1> QED
  BY <1>1, <1>2, <1>3, PTL DEF Spec

----------------------------------------------------------------------------
(* Catalogs.                                                               *)

\* The row that is found, if one is.
RowAt(rows, id) == SelectInSeq(rows, LAMBDA row : row.id = id)

LEMMA FoundRow ==
    ASSUME NEW R, NEW rows \in Seq(R), NEW id
    PROVE  \/ RowAt(rows, id) = 0 /\ \A i \in DOMAIN rows : rows[i].id # id
           \/ RowAt(rows, id) # 0 /\ RowAt(rows, id) \in DOMAIN rows /\ rows[RowAt(rows, id)].id = id
<1> DEFINE found == {i \in 1 .. Len(rows) : rows[i].id = id}
           at == RowAt(rows, id)
<1>1. at = IF found # {} THEN Min(found) ELSE 0
  BY DEF SelectInSeq, RowAt
<1>2. DOMAIN rows = 1 .. Len(rows)
  OBVIOUS
<1>3. CASE found = {}
  <2>1. at = 0
    BY <1>1, <1>3
  <2>2. \A i \in DOMAIN rows : rows[i].id # id
    BY <1>2, <1>3
  <2> QED
    BY <2>1, <2>2
<1>4. CASE found # {}
  <2>1. found \subseteq Nat
    OBVIOUS
  <2>2. \E x \in found : \A y \in found : x <= y
    <3> HIDE DEF found
    <3> QED
      BY <1>4, <2>1, LeastNat
  <2>3. Min(found) \in found
    <3> HIDE DEF found
    <3> QED
      BY <2>2 DEF Min
  <2>4. at = Min(found)
    BY <1>1, <1>4
  <2>5. at \in found
    <3> HIDE DEF found, at
    <3> QED
      BY <2>3, <2>4
  <2> QED
    BY <1>2, <2>5
<1> QED
  BY <1>3, <1>4

\* What the rows of the model, if it has one, let a host say.
SaysOfRow(hints, r) == hints.window = r.window /\ hints.vision = IF r.vision = "yes" THEN "yes" ELSE "none"
RowsOf(host, id) == {r \in ToSet(host.rows) : r.id = id}

LEMMA ListedIs ==
    ASSUME NEW host, host.rows \in Seq([id : STRING, window : Nat, vision : Seen]), NEW id
    PROVE  \/ LookupHostCatalog(host, id) = NoHints
           \/ ~host.fails /\ \E r \in RowsOf(host, id) : SaysOfRow(LookupHostCatalog(host, id), r)
<1> DEFINE at == RowAt(host.rows, id)
           listed == LookupHostCatalog(host, id)
           rows == RowsOf(host, id)
<1>1. at = 0 \/ (at # 0 /\ at \in DOMAIN host.rows /\ host.rows[at].id = id)
  BY FoundRow
<1>2. listed = IF host.fails \/ at = 0 THEN NoHints ELSE FromWireListed(host.rows[at])
  BY DEF LookupHostCatalog, RowAt
<1> HIDE DEF at, listed
<1>3. CASE host.fails \/ at = 0
  BY <1>2, <1>3 DEF listed
<1>4. CASE ~(host.fails \/ at = 0)
  <2>1. host.rows[at] \in rows
    BY <1>1, <1>4 DEF ToSet, RowsOf
  <2>2. SaysOfRow(listed, host.rows[at])
    BY <1>2, <1>4 DEF FromWireListed, SaysOfRow
  <2> QED
    BY <1>4, <2>1, <2>2 DEF listed
<1> QED
  BY <1>3, <1>4

LEMMA HintsKeepToTheFlags ==
    ASSUME NEW j, ListsAsHostsDo(j)
    PROVE  LET h == ResolveHostCatalog(j.flags, j.host, j.model)
               rows == {r \in ToSet(j.host.rows) : r.id = j.model} IN
           /\ h.vision = "no" => j.flags.vision = "no"
           /\ j.flags.window # 0 => h.window = j.flags.window
           /\ j.flags.vision # "none" => h.vision = j.flags.vision
           /\ (j.host.fails \/ rows = {}) => (h.window = j.flags.window /\ h.vision = j.flags.vision)
           /\ h.window \in {j.flags.window} \cup {r.window : r \in rows}
           /\ h.vision = "yes" => (j.flags.vision = "yes" \/ \E r \in rows : r.vision = "yes")
<1> DEFINE flags == j.flags
           rows == {r \in ToSet(j.host.rows) : r.id = j.model}
           asked == flags.window = 0 \/ flags.vision = "none"
           listed == IF asked THEN LookupHostCatalog(j.host, j.model) ELSE NoHints
           h == ResolveHostCatalog(flags, j.host, j.model)
<1>1. flags.window \in Nat /\ flags.vision \in Seen
  BY DEF ListsAsHostsDo
<1>2. /\ h.window = IF flags.window # 0 THEN flags.window ELSE listed.window
      /\ h.vision = IF flags.vision # "none" THEN flags.vision ELSE listed.vision
  BY DEF ResolveHostCatalog, MergeAdvertisedContext, MergeVisionCatalog
<1>3. \/ listed.window = 0 /\ listed.vision = "none"
      \/ ~j.host.fails /\ \E r \in rows : SaysOfRow(listed, r)
  <2>1. NoHints.window = 0 /\ NoHints.vision = "none"
    BY DEF NoHints
  <2>2. j.host.rows \in Seq([id : STRING, window : Nat, vision : Seen])
    BY DEF ListsAsHostsDo
  <2>3. \/ LookupHostCatalog(j.host, j.model) = NoHints
        \/ ~j.host.fails /\ \E r \in RowsOf(j.host, j.model) : SaysOfRow(LookupHostCatalog(j.host, j.model), r)
    BY <2>2, ListedIs
  <2>4. rows = RowsOf(j.host, j.model)
    BY DEF RowsOf
  <2> HIDE DEF rows
  <2> QED
    BY <2>1, <2>3, <2>4
<1> HIDE DEF h, listed, rows, flags
<1> QED
  BY <1>1, <1>2, <1>3 DEF h, rows, flags, Seen, SaysOfRow

\* The hints for a model never say that it cannot see unless the user's flag
\* says so, never change a flag, and come from the flags alone when the host
\* fails or has no row for the model, from one of the model's rows otherwise.
THEOREM HostsOnlyAdd == Spec => []CatalogKeepsToTheFlags
<1> DEFINE I == TypeOK /\ SentFits /\ CatalogKeepsToTheFlags
<1>1. Init => I
  <2> SUFFICES ASSUME Init PROVE CatalogKeepsToTheFlags
    BY StartIsTyped
  <2> QED
    BY DEF Init, CatalogKeepsToTheFlags, Pending
<1>2. I /\ [Next]_vars => I'
  <2> SUFFICES ASSUME I, [Next]_vars PROVE CatalogKeepsToTheFlags'
    BY StepFits
  <2>1. CASE result' = result /\ job' = job
    BY <2>1 DEF CatalogKeepsToTheFlags
  <2>2. CASE LookUp
    <3>1. /\ job.kind = "catalog" /\ job' = job
          /\ result' = [kind |-> "Hints", hints |-> ResolveHostCatalog(job.flags, job.host, job.model)]
      BY <2>2 DEF LookUp
    <3>2. ListsAsHostsDo(job)
      BY <3>1, JobShapes
    <3>3. result'.hints = ResolveHostCatalog(job.flags, job.host, job.model)
      BY <3>1
    <3> QED
      BY <3>1, <3>2, <3>3, HintsKeepToTheFlags DEF CatalogKeepsToTheFlags
  <2>3. CASE Ask
    BY <2>3 DEF Ask, CatalogKeepsToTheFlags
  <2>4. CASE EndReply
    BY <2>4 DEF EndReply, ScoredCompletion, CatalogKeepsToTheFlags
  <2>5. CASE Break
    BY <2>5, MapClientErrorKind DEF Break, CatalogKeepsToTheFlags
  <2>6. CASE Say \/ StartCall \/ EndAll \/ GiveReason \/ CountUsage
    BY <2>1, <2>6 DEF Say, StartCall, EndAll, GiveReason, CountUsage, Hear
  <2>7. CASE \E k \in DOMAIN sent.calls : NameCall(k) \/ SendPart(k) \/ EndCall(k)
    BY <2>1, <2>7 DEF NameCall, SendPart, EndCall, Hear
  <2>8. CASE UNCHANGED vars
    BY <2>1, <2>8 DEF vars
  <2> QED
    BY <2>2, <2>3, <2>4, <2>5, <2>6, <2>7, <2>8 DEF Next
<1>3. I => CatalogKeepsToTheFlags
  OBVIOUS
<1> QED
  BY <1>1, <1>2, <1>3, PTL DEF Spec

----------------------------------------------------------------------------
(* What is heard of a call.                                                *)

\* What was sent of a sequence, and a piece more, and all of it.
LEMMA PrefixGrows ==
    ASSUME NEW S, NEW s \in Seq(S), NEW m \in 1 .. Len(s)
    PROVE  SubSeq(s, 1, m) = Append(SubSeq(s, 1, m - 1), s[m])
<1>1. SubSeq(s, 1, m) = SubSeq(s, 1, m - 1) \o <<s[m]>>
  BY SubSeqRecursiveSecond
<1>2. SubSeq(s, 1, m - 1) \in Seq(S)
  BY SubSeqProperties
<1>3. s[m] \in S
  OBVIOUS
<1> QED
  BY <1>1, <1>2, <1>3, AppendIsConcat

LEMMA HeardWhole ==
    ASSUME TypeOK, job.kind = "reply", NEW k \in DOMAIN plan.calls, Whole(k)
    PROVE  Heard(k) = plan.calls[k].parts /\ HeardTool(k) = plan.calls[k].tool
<1>1. plan.calls[k].parts \in Seq(STRING) /\ sent.calls[k].parts = Len(plan.calls[k].parts)
      /\ sent.calls[k].named
  BY SentFacts DEF Whole
<1> HIDE DEF plan
<1> QED
  BY <1>1, SubSeqFull DEF Heard, HeardTool

LEMMA StartCallHeard ==
    ASSUME TypeOK, SentFits, StartCall, NEW n, n = Len(sent.calls) + 1
    PROVE  /\ job.kind = "reply" /\ plan' = plan /\ job' = job
           /\ Len(sent'.calls) = n /\ Began' = Began \cup {n} /\ n \notin Began /\ n \in DOMAIN plan.calls
           /\ \A k \in Began :
                 /\ sent'.calls[k] = sent.calls[k] /\ (Whole(k))' = Whole(k)
                 /\ (Heard(k))' = Heard(k) /\ (HeardTool(k))' = HeardTool(k)
           /\ ~sent'.calls[n].ended /\ (Heard(n))' = <<>>
           /\ Hear(Begin(IndexOf(plan, n), plan.calls[n].id, (HeardTool(n))'))
           /\ IndexOf(plan, n) \in Nat /\ plan.calls[n].id \in Ids /\ (HeardTool(n))' \in Tools
           /\ sent'.torn = sent.torn /\ sent'.closed = sent.closed
           /\ \/ OwnIndexes(plan)
              \/ plan.ends = "each" /\ ~plan.parallel /\ \A k \in Began : sent.calls[k].ended
<1> DEFINE new == [named |-> ~plan.split, parts |-> 0, ended |-> FALSE]
           tool == IF plan.split THEN "none" ELSE plan.calls[n].tool
<1>1. /\ job' = job /\ n \in DOMAIN plan.calls /\ sent'.calls = Append(sent.calls, new)
      /\ sent'.torn = sent.torn /\ sent'.closed = sent.closed
      /\ Hear(Begin(plan.calls[n].index, plan.calls[n].id, tool))
      /\ plan.calls[n].index \in Nat /\ plan.calls[n].id \in Ids /\ tool \in Tools
  BY StartCallIs
<1>2. job.kind = "reply" /\ (plan.parallel \/ \A k \in DOMAIN sent.calls : Done(k))
  BY DEF StartCall, Replying
<1>3. plan' = plan
  BY <1>1 DEF plan
<1>4. /\ DOMAIN sent.calls = Began /\ Len(sent.calls) \in Nat /\ RepliesAsVendorsDo(plan)
      /\ plan.parallel \in BOOLEAN
  BY <1>2, SentFacts
<1>5. new.parts = 0 /\ ~new.ended /\ new.named = ~plan.split
  OBVIOUS
<1> HIDE DEF plan, new
<1>6. /\ Len(sent'.calls) = n /\ sent'.calls[n] = new
      /\ \A k \in Began : sent'.calls[k] = sent.calls[k]
  <2>1. sent.calls \in Seq(SentCalls)
    BY SentType DEF SentOK
  <2> QED
    BY <1>1, <1>4, <2>1, AppendProperties DEF Began
<1>7. Began' = Began \cup {n} /\ n \notin Began
  BY <1>4, <1>6 DEF Began
<1>8. \A k \in Began :
         (Whole(k))' = Whole(k) /\ (Heard(k))' = Heard(k) /\ (HeardTool(k))' = HeardTool(k)
  BY <1>3, <1>6 DEF Whole, Heard, HeardTool
<1>9. (Heard(n))' = <<>>
  BY <1>3, <1>5, <1>6, SubSeqEmpty DEF Heard
<1>10. (HeardTool(n))' = tool
  BY <1>3, <1>5, <1>6 DEF HeardTool
<1>11. \/ OwnIndexes(plan)
       \/ plan.ends = "each" /\ ~plan.parallel /\ \A k \in Began : sent.calls[k].ended
  <2>1. OwnIndexes(plan) \/ (plan.ends = "each" /\ ~plan.parallel)
    BY <1>4 DEF RepliesAsVendorsDo
  <2> QED
    BY <1>2, <1>4, <2>1 DEF Done
<1> HIDE DEF tool
<1> QED
  BY <1>1, <1>2, <1>3, <1>5, <1>6, <1>7, <1>8, <1>9, <1>10, <1>11 DEF IndexOf

LEMMA NameCallHeard ==
    ASSUME TypeOK, SentFits, NEW k \in DOMAIN sent.calls, NameCall(k)
    PROVE  /\ job.kind = "reply" /\ plan' = plan /\ job' = job
           /\ Len(sent'.calls) = Len(sent.calls) /\ Began' = Began /\ k \in Began /\ k \in DOMAIN plan.calls
           /\ \A j \in Began :
                 /\ sent'.calls[j].ended = sent.calls[j].ended /\ (Whole(j) => (Whole(j))')
                 /\ (Heard(j))' = Heard(j) /\ (j # k => (HeardTool(j))' = HeardTool(j))
           /\ ~Whole(k) /\ ~sent.calls[k].ended /\ Heard(k) = <<>>
           /\ HeardTool(k) = "none" /\ (HeardTool(k))' = plan.calls[k].tool
           /\ Hear(Begin(IndexOf(plan, k), "", plan.calls[k].tool))
           /\ IndexOf(plan, k) \in Nat /\ "" \in Ids /\ plan.calls[k].tool \in Tools
           /\ sent'.torn = sent.torn /\ sent'.closed = sent.closed
<1>1. /\ k \in Began /\ k \in DOMAIN plan.calls /\ job.kind = "reply" /\ job' = job /\ plan' = plan
      /\ Began' = Began /\ \A j \in Began : Whole(j) => (Whole(j))'
  BY NameCallFits
<1>2. /\ Len(sent'.calls) = Len(sent.calls)
      /\ \A j \in DOMAIN sent.calls \ {k} : sent'.calls[j] = sent.calls[j]
      /\ sent'.calls[k].named /\ sent'.calls[k].parts = sent.calls[k].parts
      /\ sent'.calls[k].ended = sent.calls[k].ended
      /\ sent'.torn = sent.torn /\ sent'.closed = sent.closed
      /\ Hear(Begin(plan.calls[k].index, "", plan.calls[k].tool))
      /\ plan.calls[k].index \in Nat /\ "" \in Ids /\ plan.calls[k].tool \in Tools
  BY <1>1, NameCallIs
<1>3. DOMAIN sent.calls = Began
  BY <1>1, SentFacts
<1>4. ~sent.calls[k].named
  BY DEF NameCall
<1> HIDE DEF plan
<1>5. ~Whole(k) /\ ~sent.calls[k].ended /\ sent.calls[k].parts = 0
  BY <1>1, <1>4 DEF Whole, SentFits
<1>6. \A j \in Began :
         /\ sent'.calls[j].ended = sent.calls[j].ended
         /\ (Heard(j))' = Heard(j) /\ (j # k => (HeardTool(j))' = HeardTool(j))
  BY <1>1, <1>2, <1>3 DEF Heard, HeardTool
<1>7. HeardTool(k) = "none" /\ (HeardTool(k))' = plan.calls[k].tool
  BY <1>1, <1>2, <1>4 DEF HeardTool
<1>8. Heard(k) = <<>>
  BY <1>5, SubSeqEmpty DEF Heard
<1> QED
  BY <1>1, <1>2, <1>5, <1>6, <1>7, <1>8 DEF IndexOf

LEMMA SendPartHeard ==
    ASSUME TypeOK, SentFits, NEW k \in DOMAIN sent.calls, SendPart(k)
    PROVE  \E part \in STRING :
           /\ job.kind = "reply" /\ plan' = plan /\ job' = job
           /\ Len(sent'.calls) = Len(sent.calls) /\ Began' = Began /\ k \in Began /\ k \in DOMAIN plan.calls
           /\ \A j \in Began :
                 /\ sent'.calls[j].ended = sent.calls[j].ended /\ (Whole(j) => (Whole(j))')
                 /\ (HeardTool(j))' = HeardTool(j) /\ (j # k => (Heard(j))' = Heard(j))
           /\ ~Whole(k) /\ ~sent.calls[k].ended /\ (Heard(k))' = Append(Heard(k), part)
           /\ Hear([ev |-> "Delta", index |-> IndexOf(plan, k), part |-> part])
           /\ IndexOf(plan, k) \in Nat
           /\ sent'.torn = sent.torn /\ sent'.closed = sent.closed
<1> DEFINE parts == plan.calls[k].parts
           m == sent.calls[k].parts + 1
           part == parts[m]
<1>1. /\ k \in Began /\ k \in DOMAIN plan.calls /\ job.kind = "reply" /\ job' = job /\ plan' = plan
      /\ Began' = Began /\ sent.calls[k].parts <= Len(parts)
      /\ \A j \in Began : Whole(j) => (Whole(j))'
  BY SendPartFits
<1>2. /\ Len(sent'.calls) = Len(sent.calls)
      /\ \A j \in DOMAIN sent.calls \ {k} : sent'.calls[j] = sent.calls[j]
      /\ sent'.calls[k].named = sent.calls[k].named /\ sent'.calls[k].parts = m
      /\ sent'.calls[k].ended = sent.calls[k].ended
      /\ sent'.torn = sent.torn /\ sent'.closed = sent.closed
      /\ Hear([ev |-> "Delta", index |-> plan.calls[k].index, part |-> part])
      /\ plan.calls[k].index \in Nat /\ m \in 1 .. Len(parts) /\ part \in STRING
  BY <1>1, SendPartIs
<1>3. DOMAIN sent.calls = Began /\ parts \in Seq(STRING) /\ sent.calls[k].parts \in Nat
  BY <1>1, SentFacts
<1>4. ~Whole(k)
  BY DEF SendPart
<1> HIDE DEF plan
<1>5. ~sent.calls[k].ended
  BY <1>1, <1>4 DEF SentFits
<1>6. \A j \in Began :
         /\ sent'.calls[j].ended = sent.calls[j].ended
         /\ (HeardTool(j))' = HeardTool(j) /\ (j # k => (Heard(j))' = Heard(j))
  BY <1>1, <1>2, <1>3 DEF Heard, HeardTool
<1>7. (Heard(k))' = Append(Heard(k), part)
  <2>1. (Heard(k))' = SubSeq(parts, 1, m) /\ Heard(k) = SubSeq(parts, 1, m - 1)
    <3>1. m - 1 = sent.calls[k].parts
      BY <1>3
    <3> QED
      BY <1>1, <1>2, <3>1 DEF Heard
  <2> HIDE DEF parts, m
  <2> QED
    BY <1>2, <1>3, <2>1, PrefixGrows
<1> HIDE DEF part, m, parts
<1> QED
  BY <1>1, <1>2, <1>4, <1>5, <1>6, <1>7 DEF IndexOf

LEMMA EndCallHeard ==
    ASSUME TypeOK, SentFits, NEW k \in DOMAIN sent.calls, EndCall(k)
    PROVE  /\ job.kind = "reply" /\ plan' = plan /\ job' = job
           /\ Len(sent'.calls) = Len(sent.calls) /\ Began' = Began /\ k \in Began /\ k \in DOMAIN plan.calls
           /\ \A j \in Began :
                 /\ (Whole(j))' = Whole(j) /\ (Heard(j))' = Heard(j) /\ (HeardTool(j))' = HeardTool(j)
                 /\ j # k => sent'.calls[j].ended = sent.calls[j].ended
           /\ Whole(k) /\ ~sent.calls[k].ended /\ sent'.calls[k].ended /\ plan.ends = "each"
           /\ Hear(Event("End"))
           /\ ~sent'.torn => ~sent.torn /\ \A j \in Began : Whole(j)
           /\ sent'.closed = sent.closed
<1>1. /\ k \in Began /\ k \in DOMAIN plan.calls /\ job.kind = "reply" /\ job' = job /\ plan' = plan
      /\ Began' = Began /\ \A j \in Began : (Whole(j))' = Whole(j)
  BY EndCallFits
<1>2. /\ Len(sent'.calls) = Len(sent.calls)
      /\ \A j \in DOMAIN sent.calls \ {k} : sent'.calls[j] = sent.calls[j]
      /\ sent'.calls[k].named = sent.calls[k].named
      /\ sent'.calls[k].parts = sent.calls[k].parts /\ sent'.calls[k].ended
      /\ sent'.torn = (sent.torn \/ Tears(k)) /\ sent'.closed = sent.closed
      /\ Hear(Event("End"))
  BY EndCallIs
<1>3. DOMAIN sent.calls = Began
  BY <1>1, SentFacts
<1>4. Whole(k) /\ ~sent.calls[k].ended /\ plan.ends = "each"
  BY DEF EndCall
<1> HIDE DEF plan
<1>5. \A j \in Began :
         /\ (Heard(j))' = Heard(j) /\ (HeardTool(j))' = HeardTool(j)
         /\ j # k => sent'.calls[j].ended = sent.calls[j].ended
  BY <1>1, <1>2, <1>3 DEF Heard, HeardTool
<1>6. ~sent'.torn => ~sent.torn /\ \A j \in Began : Whole(j)
  <2> SUFFICES ASSUME ~sent'.torn, NEW j \in Began PROVE ~sent.torn /\ Whole(j)
    BY <1>1
  <2>1. ~sent.torn /\ ~Tears(k)
    BY <1>2
  <2>2. j # k => sent.calls[j].ended \/ Whole(j)
    BY <1>3, <2>1 DEF Tears
  <2>3. sent.calls[j].ended => Whole(j)
    BY <1>1 DEF SentFits
  <2> QED
    BY <1>4, <2>1, <2>2, <2>3
<1> QED
  BY <1>1, <1>2, <1>4, <1>5, <1>6

----------------------------------------------------------------------------
(* The calls of an answer, as long as no end tears one apart.              *)

LEMMA ParsedByArgs == \A a, b : a.args = b.args => Parsed(a) = Parsed(b)
BY DEF Parsed

LEMMA MadeOfType ==
    ASSUME NEW p \in Plans, NEW k \in DOMAIN p.calls
    PROVE  MadeOf(p, k) \in Seq(ChatCalls)
<1> DEFINE C == [index : Nat, id : STRING, tool : STRING, parts : Seq(STRING)]
           calls == p.calls
           call == p.calls[k]
           args == IF Parsed([args |-> call.parts]) = "path" THEN "path" ELSE "no_path"
<1>1. call.id \in STRING /\ call.tool \in STRING
  <2>1. calls \in Seq(C) /\ k \in DOMAIN calls
    BY DEF Plans
  <2> HIDE DEF calls, C
  <2>2. calls[k] \in C
    BY <2>1
  <2> QED
    BY <2>2 DEF C, calls
<1>2. args \in {"path", "no_path"}
  OBVIOUS
<1> HIDE DEF call, args
<1>3. call.id \in Ids /\ call.tool \in Tools
  BY <1>1, Zenon DEF Ids, Tools
<1>4. [id |-> call.id, tool |-> call.tool, args |-> args] \in ChatCalls
  BY <1>2, <1>3 DEF ChatCalls
<1>5. Made(call) \in ChatCalls
  BY <1>4 DEF Made, args
<1>6. <<Made(call)>> \in Seq(ChatCalls) /\ <<>> \in Seq(ChatCalls)
  BY <1>5
<1>7. MadeOf(p, k) = IF call.tool = "none" THEN <<>> ELSE <<Made(call)>>
  BY DEF MadeOf, call
<1> QED
  BY <1>6, <1>7

LEMMA MadeSeq ==
    ASSUME NEW p \in Plans, NEW n \in 0 .. Len(p.calls)
    PROVE  LET s == [k \in 1 .. n |-> MadeOf(p, k)] IN
           s \in Seq(Seq(ChatCalls)) /\ Len(s) = n /\ \A k \in 1 .. n : s[k] = MadeOf(p, k)
<1>1. DOMAIN p.calls = 1 .. Len(p.calls) /\ Len(p.calls) \in Nat
  BY DEF Plans
<1>2. \A k \in 1 .. n : MadeOf(p, k) \in Seq(ChatCalls)
  BY <1>1, MadeOfType
<1> QED
  BY <1>1, <1>2

\* What is made of the calls up to one, and of the others up to another.
LEMMA MadeJoins ==
    ASSUME NEW p \in Plans, NEW n \in 0 .. Len(p.calls), NEW m \in 0 .. n,
           NEW t \in Seq(Seq(ChatCalls)), Len(t) = n - m,
           \A i \in 1 .. (n - m) : t[i] = MadeOf(p, m + i)
    PROVE  MadeUpTo(p, n) = MadeUpTo(p, m) \o FlattenSeq(t)
<1> DEFINE s == [k \in 1 .. m |-> MadeOf(p, k)]
           u == [k \in 1 .. n |-> MadeOf(p, k)]
<1>1. n \in Nat /\ m \in Nat /\ m \in 0 .. Len(p.calls)
  BY DEF Plans
<1>2. s \in Seq(Seq(ChatCalls)) /\ Len(s) = m /\ \A k \in 1 .. m : s[k] = MadeOf(p, k)
  BY <1>1, MadeSeq
<1>3. u \in Seq(Seq(ChatCalls)) /\ Len(u) = n /\ \A k \in 1 .. n : u[k] = MadeOf(p, k)
  BY <1>1, MadeSeq
<1>4. MadeUpTo(p, m) = FlattenSeq(s) /\ MadeUpTo(p, n) = FlattenSeq(u)
  BY DEF MadeUpTo
<1> HIDE DEF s, u
<1>5. /\ s \o t \in Seq(Seq(ChatCalls)) /\ Len(s \o t) = m + (n - m)
      /\ \A i \in 1 .. (m + (n - m)) : (s \o t)[i] = IF i <= m THEN s[i] ELSE t[i - m]
  <2>1. /\ s \o t \in Seq(Seq(ChatCalls)) /\ Len(s \o t) = Len(s) + Len(t)
        /\ \A i \in 1 .. (Len(s) + Len(t)) : (s \o t)[i] = IF i <= Len(s) THEN s[i] ELSE t[i - Len(s)]
    BY <1>2, ConcatProperties
  <2>2. Len(s) = m /\ Len(t) = n - m
    BY <1>2
  <2> QED
    BY <2>1, <2>2, Zenon
<1>6. Len(s \o t) = n
  BY <1>1, <1>5
<1>7. \A i \in 1 .. n : u[i] = (s \o t)[i]
  <2> SUFFICES ASSUME NEW i \in 1 .. n PROVE u[i] = (s \o t)[i]
    OBVIOUS
  <2>1. u[i] = MadeOf(p, i) /\ i \in 1 .. (m + (n - m))
    BY <1>1, <1>3
  <2>2. CASE i <= m
    BY <1>2, <1>5, <2>1, <2>2
  <2>3. CASE ~(i <= m)
    <3>1. i - m \in 1 .. (n - m) /\ m + (i - m) = i
      BY <1>1, <2>3
    <3>2. t[i - m] = MadeOf(p, i)
      BY <3>1
    <3> QED
      BY <1>5, <2>1, <2>3, <3>2
  <2> QED
    BY <2>2, <2>3
<1>8. u = s \o t
  BY <1>3, <1>5, <1>6, <1>7, SeqEqual
<1> QED
  BY <1>2, <1>4, <1>8, FlattenConcat

\* When every call begun is whole, taking the slots takes the calls left.
LEMMA FlushMakes ==
    ASSUME TypeOK, SentFits, job.kind = "reply", NEW m \in 0 .. Len(sent.calls), Holding(m),
           \A k \in Began : Whole(k)
    PROVE  FlushToolSlots(chat).calls = MadeUpTo(plan, Len(sent.calls))
<1> DEFINE n == Len(sent.calls)
<1>1. /\ n \in Nat /\ DOMAIN plan.calls = 1 .. Len(plan.calls) /\ Len(plan.calls) \in Nat
      /\ RepliesAsVendorsDo(plan)
  BY SentFacts
<1> HIDE DEF plan
<1>2. n \in 0 .. Len(plan.calls) /\ plan \in Plans
  BY <1>1 DEF SentFits, RepliesAsVendorsDo
<1>3. ChatOK(chat)
  BY DEF TypeOK
<1>4. FlushToolSlots(chat).calls = MadeUpTo(plan, m) \o FlattenSeq(Pushed(chat))
  BY <1>3, FlushType DEF Holding
<1>5. Pushed(chat) \in Seq(Seq(ChatCalls)) /\ Len(Pushed(chat)) = n - m
  BY <1>3, PushedType DEF ChatOK, Holding
<1>6. ASSUME NEW i \in 1 .. (n - m) PROVE Pushed(chat)[i] = MadeOf(plan, m + i)
  <2> DEFINE k == m + i
             slot == chat.slots[IndexOf(plan, k)]
  <2>1. k \in (m + 1) .. n /\ k - m = i /\ k \in Began /\ k \in DOMAIN plan.calls
    BY <1>1, <1>2 DEF Began
  <2>2. Heard(k) = plan.calls[k].parts /\ HeardTool(k) = plan.calls[k].tool
    <3> HIDE DEF k
    <3> QED
      BY <2>1, HeardWhole
  <2>3. /\ chat.order[i] = IndexOf(plan, k)
        /\ slot.id = plan.calls[k].id /\ slot.tool = plan.calls[k].tool /\ slot.args = plan.calls[k].parts
    BY <2>1, <2>2 DEF Holding
  <2>4. Pushed(chat)[i] = PushCall(slot)
    <3>1. i \in 1 .. Len(chat.order)
      BY DEF Holding
    <3> QED
      BY <2>3, <3>1 DEF Pushed
  <2>5. Parsed(slot) = Parsed([args |-> plan.calls[k].parts])
    <3> HIDE DEF slot, k
    <3>1. [args |-> plan.calls[k].parts].args = slot.args
      BY <2>3
    <3> QED
      BY <3>1, ParsedByArgs
  <2>6. PushCall(slot) = MadeOf(plan, k)
    <3> HIDE DEF slot, k
    <3> QED
      BY <2>3, <2>5 DEF PushCall, MadeOf, Made
  <2> QED
    BY <2>4, <2>6
<1>7. MadeUpTo(plan, n) = MadeUpTo(plan, m) \o FlattenSeq(Pushed(chat))
  <2> HIDE DEF n
  <2> QED
    BY <1>2, <1>5, <1>6, MadeJoins DEF n
<1> QED
  BY <1>4, <1>7

\* Nothing of the calls changes.
LEMMA SameHeard ==
    ASSUME plan' = plan, sent'.calls = sent.calls
    PROVE  /\ Began' = Began
           /\ \A k : /\ (Whole(k))' = Whole(k) /\ (Heard(k))' = Heard(k)
                     /\ (HeardTool(k))' = HeardTool(k) /\ sent'.calls[k].ended = sent.calls[k].ended
<1> HIDE DEF plan
<1> QED
  BY DEF Began, Whole, Heard, HeardTool

LEMMA KeepHolding ==
    ASSUME plan' = plan, sent'.calls = sent.calls, SameCalls(chat', chat), NEW m, Holding(m)
    PROVE  (Holding(m))'
<1>1. /\ Began' = Began
      /\ \A k : /\ (Whole(k))' = Whole(k) /\ (Heard(k))' = Heard(k)
                /\ (HeardTool(k))' = HeardTool(k) /\ sent'.calls[k].ended = sent.calls[k].ended
  BY SameHeard
<1> HIDE DEF plan
<1> QED
  BY <1>1 DEF Holding, SameCalls

\* One call that is not taken changes, and its slot with it.
LEMMA HoldingOneSlot ==
    ASSUME TypeOK, job.kind = "reply", plan' = plan, Len(sent'.calls) = Len(sent.calls),
           NEW m \in 0 .. Len(sent.calls), Holding(m), NEW k \in (m + 1) .. Len(sent.calls),
           chat'.calls = chat.calls, chat'.order = chat.order, DOMAIN chat'.slots = DOMAIN chat.slots,
           \A i \in DOMAIN chat.slots \ {IndexOf(plan, k)} : chat'.slots[i] = chat.slots[i],
           chat'.slots[IndexOf(plan, k)].id = chat.slots[IndexOf(plan, k)].id,
           chat'.slots[IndexOf(plan, k)].tool = (HeardTool(k))',
           chat'.slots[IndexOf(plan, k)].args = (Heard(k))',
           \A j \in Began :
              /\ sent'.calls[j].ended = sent.calls[j].ended /\ (Whole(j) => (Whole(j))')
              /\ j # k => (Heard(j))' = Heard(j) /\ (HeardTool(j))' = HeardTool(j)
    PROVE  (Holding(m))'
<1> DEFINE n == Len(sent.calls)
<1>1. n \in Nat /\ m \in Nat
  BY SentFacts
<1> HIDE DEF plan
<1>2. \A j \in (m + 1) .. n : j \in Began
  BY <1>1 DEF Began
<1>3. \A j \in 1 .. m : (Whole(j))'
  BY <1>1 DEF Holding, Began
<1>4. ASSUME NEW j \in (m + 1) .. n
      PROVE  /\ ~sent'.calls[j].ended
             /\ chat'.order[j - m] = IndexOf(plan, j)
             /\ chat'.slots[IndexOf(plan, j)].id = plan.calls[j].id
             /\ chat'.slots[IndexOf(plan, j)].tool = (HeardTool(j))'
             /\ chat'.slots[IndexOf(plan, j)].args = (Heard(j))'
  <2>1. /\ ~sent.calls[j].ended
        /\ chat.order[j - m] = IndexOf(plan, j)
        /\ chat.slots[IndexOf(plan, j)].id = plan.calls[j].id
        /\ chat.slots[IndexOf(plan, j)].tool = HeardTool(j)
        /\ chat.slots[IndexOf(plan, j)].args = Heard(j)
        /\ IndexOf(plan, j) \in DOMAIN chat.slots
    BY DEF Holding
  <2>2. CASE j = k
    BY <1>2, <2>1, <2>2
  <2>3. CASE j # k
    <3>1. IndexOf(plan, j) # IndexOf(plan, k)
      BY <2>3 DEF Holding
    <3> QED
      BY <1>2, <2>1, <2>3, <3>1
  <2> QED
    BY <2>2, <2>3
<1> QED
  BY <1>3, <1>4 DEF Holding

\* One call more, in a slot of its own.
LEMMA HoldingOneMore ==
    ASSUME TypeOK, job.kind = "reply", plan' = plan, NEW n, n = Len(sent.calls) + 1, Len(sent'.calls) = n,
           NEW m \in 0 .. Len(sent.calls), Holding(m),
           IndexOf(plan, n) \in Nat, IndexOf(plan, n) \notin DOMAIN chat.slots,
           chat'.calls = chat.calls, chat'.order = Append(chat.order, IndexOf(plan, n)),
           DOMAIN chat'.slots = DOMAIN chat.slots \cup {IndexOf(plan, n)},
           \A i \in DOMAIN chat.slots \ {IndexOf(plan, n)} : chat'.slots[i] = chat.slots[i],
           chat'.slots[IndexOf(plan, n)].id = plan.calls[n].id,
           chat'.slots[IndexOf(plan, n)].tool = (HeardTool(n))',
           chat'.slots[IndexOf(plan, n)].args = (Heard(n))',
           ~sent'.calls[n].ended,
           \A j \in Began :
              /\ sent'.calls[j] = sent.calls[j] /\ (Whole(j))' = Whole(j)
              /\ (Heard(j))' = Heard(j) /\ (HeardTool(j))' = HeardTool(j)
    PROVE  (Holding(m))'
<1> DEFINE l == Len(sent.calls)
<1>1. l \in Nat /\ m \in Nat /\ n \in Nat /\ n = l + 1
  BY SentFacts
<1> HIDE DEF plan
<1>2. \A j \in (m + 1) .. n : j # n => j \in Began /\ j \in (m + 1) .. l
  BY <1>1 DEF Began
<1>3. \A j \in 1 .. m : (Whole(j))'
  BY <1>1 DEF Holding, Began
<1>4. chat.order \in Seq(Nat) /\ Len(chat.order) = l - m
  BY DEF TypeOK, ChatOK, Holding
<1>5. /\ Len(chat'.order) = n - m /\ chat'.order[n - m] = IndexOf(plan, n)
      /\ \A j \in 1 .. (l - m) : chat'.order[j] = chat.order[j]
  <2>1. /\ Len(chat'.order) = Len(chat.order) + 1
        /\ chat'.order[Len(chat.order) + 1] = IndexOf(plan, n)
        /\ \A j \in 1 .. Len(chat.order) : chat'.order[j] = chat.order[j]
    BY <1>4, AppendProperties
  <2>2. (l - m) + 1 = n - m
    BY <1>1
  <2> HIDE DEF l
  <2> QED
    BY <1>4, <2>1, <2>2
<1>6. ASSUME NEW j \in (m + 1) .. n
      PROVE  /\ ~sent'.calls[j].ended
             /\ chat'.order[j - m] = IndexOf(plan, j)
             /\ chat'.slots[IndexOf(plan, j)].id = plan.calls[j].id
             /\ chat'.slots[IndexOf(plan, j)].tool = (HeardTool(j))'
             /\ chat'.slots[IndexOf(plan, j)].args = (Heard(j))'
             /\ j # n => IndexOf(plan, j) \in DOMAIN chat.slots
  <2>1. CASE j = n
    BY <1>5, <2>1
  <2>2. CASE j # n
    <3>1. j \in Began /\ j \in (m + 1) .. l
      BY <1>2, <2>2
    <3>2. /\ ~sent.calls[j].ended
          /\ chat.order[j - m] = IndexOf(plan, j)
          /\ chat.slots[IndexOf(plan, j)].id = plan.calls[j].id
          /\ chat.slots[IndexOf(plan, j)].tool = HeardTool(j)
          /\ chat.slots[IndexOf(plan, j)].args = Heard(j)
          /\ IndexOf(plan, j) \in DOMAIN chat.slots
      BY <3>1 DEF Holding
    <3>3. j - m \in 1 .. (l - m)
      BY <1>1, <3>1
    <3> QED
      BY <1>5, <3>1, <3>2, <3>3
  <2> QED
    BY <2>1, <2>2
<1>7. \A a, b \in (m + 1) .. n : IndexOf(plan, a) = IndexOf(plan, b) => a = b
  <2> SUFFICES ASSUME NEW a \in (m + 1) .. n, NEW b \in (m + 1) .. n, IndexOf(plan, a) = IndexOf(plan, b)
               PROVE a = b
    OBVIOUS
  <2>1. CASE a # n /\ b # n
    BY <1>2, <2>1 DEF Holding
  <2>2. CASE a = n \/ b = n
    BY <1>6, <2>2
  <2> QED
    BY <2>1, <2>2
<1>8. DOMAIN chat'.slots = {IndexOf(plan, j) : j \in (m + 1) .. n}
  <2>1. DOMAIN chat.slots = {IndexOf(plan, j) : j \in (m + 1) .. l}
    BY DEF Holding
  <2>2. (m + 1) .. n = ((m + 1) .. l) \cup {n}
    BY <1>1
  <2> QED
    BY <2>1, <2>2
<1>9. chat'.calls = MadeUpTo(plan, m)
  BY DEF Holding
<1>10. chat'.calls = MadeUpTo(plan', m) /\ Len(chat'.order) = Len(sent'.calls) - m
  BY <1>5, <1>9
<1>11. DOMAIN chat'.slots = {IndexOf(plan', k) : k \in (m + 1) .. Len(sent'.calls)}
  BY <1>8
<1>12. \A k \in (m + 1) .. Len(sent'.calls) :
          /\ ~sent'.calls[k].ended
          /\ chat'.order[k - m] = IndexOf(plan', k)
          /\ chat'.slots[IndexOf(plan', k)].id = plan'.calls[k].id
          /\ chat'.slots[IndexOf(plan', k)].tool = (HeardTool(k))'
          /\ chat'.slots[IndexOf(plan', k)].args = (Heard(k))'
  BY <1>6
<1>13. \A a, b \in (m + 1) .. Len(sent'.calls) : IndexOf(plan', a) = IndexOf(plan', b) => a = b
  BY <1>7
<1> QED
  BY <1>3, <1>10, <1>11, <1>12, <1>13 DEF Holding

\* chat hears nothing of a call.
LEMMA ChatUnmoved ==
    ASSUME ChatFollows, job' = job, sent'.calls = sent.calls, sent'.torn = sent.torn,
           SameCalls(chat', chat)
    PROVE  ChatFollows'
<1>1. plan' = plan
  BY DEF plan
<1> HIDE DEF plan
<1> SUFFICES ASSUME job.kind = "reply", ~sent.torn
             PROVE  \E m \in 0 .. Len(sent'.calls) : (Holding(m))'
  BY DEF ChatFollows
<1>2. PICK m \in 0 .. Len(sent.calls) : Holding(m)
  BY DEF ChatFollows
<1>3. (Holding(m))'
  BY <1>1, <1>2, KeepHolding
<1> QED
  BY <1>3

\* What chat makes of a start, in a slot of its own and in one that is open.
LEMMA FreshSlot ==
    ASSUME NEW x, ChatOK(x), NEW at \in Nat, NEW who \in Ids, NEW name \in Tools,
           at \notin DOMAIN x.slots, NEW h, h = FoldStartCall(x, Begin(at, who, name))
    PROVE  /\ h.calls = x.calls /\ DOMAIN h.slots = DOMAIN x.slots \cup {at}
           /\ \A i \in DOMAIN x.slots \ {at} : h.slots[i] = x.slots[i]
           /\ h.order = Append(x.order, at)
           /\ h.slots[at].id = who /\ h.slots[at].tool = name /\ h.slots[at].args = <<>>
<1>1. StartsCall(x, h, at, who, name)
  BY FoldStartIs, Zenon
<1> QED
  BY <1>1 DEF StartsCall

LEMMA StartCallFollows == ASSUME TypeOK, SentFits, ChatFollows, StartCall PROVE ChatFollows'
<1>0. PICK n : n = Len(sent.calls) + 1
  OBVIOUS
<1>1. /\ job.kind = "reply" /\ plan' = plan /\ job' = job
      /\ Len(sent'.calls) = n /\ Began' = Began \cup {n} /\ n \notin Began /\ n \in DOMAIN plan.calls
      /\ \A k \in Began :
            /\ sent'.calls[k] = sent.calls[k] /\ (Whole(k))' = Whole(k)
            /\ (Heard(k))' = Heard(k) /\ (HeardTool(k))' = HeardTool(k)
      /\ ~sent'.calls[n].ended /\ (Heard(n))' = <<>>
      /\ Hear(Begin(IndexOf(plan, n), plan.calls[n].id, (HeardTool(n))'))
      /\ IndexOf(plan, n) \in Nat /\ plan.calls[n].id \in Ids /\ (HeardTool(n))' \in Tools
      /\ sent'.torn = sent.torn
      /\ \/ OwnIndexes(plan)
         \/ plan.ends = "each" /\ ~plan.parallel /\ \A k \in Began : sent.calls[k].ended
  BY <1>0, StartCallHeard
<1>2. Len(sent.calls) \in Nat /\ Len(plan.calls) \in Nat /\ DOMAIN plan.calls = 1 .. Len(plan.calls)
  BY <1>1, SentFacts
<1> HIDE DEF plan
<1> SUFFICES ASSUME ~sent.torn
             PROVE  \E m \in 0 .. Len(sent'.calls) : (Holding(m))'
  BY <1>1 DEF ChatFollows
<1>3. PICK m \in 0 .. Len(sent.calls) : Holding(m)
  BY <1>1 DEF ChatFollows
<1> DEFINE at == IndexOf(plan, n)
<1>4. at \notin DOMAIN chat.slots
  <2> SUFFICES ASSUME NEW k \in (m + 1) .. Len(sent.calls), at = IndexOf(plan, k) PROVE FALSE
    BY <1>3 DEF Holding
  <2>1. k \in Began /\ k # n /\ k \in DOMAIN plan.calls
    BY <1>0, <1>1, <1>2 DEF Began
  <2>2. ~sent.calls[k].ended
    BY <1>3 DEF Holding
  <2>3. CASE OwnIndexes(plan)
    BY <1>1, <2>1, <2>3 DEF OwnIndexes, IndexOf
  <2> QED
    BY <1>1, <2>1, <2>2, <2>3
<1> DEFINE who == plan.calls[n].id
<1>5. PICK name \in Tools : name = (HeardTool(n))'
  BY <1>1
<1>6. chat' = FoldStartCall(chat, Begin(at, who, name))
  BY <1>1, <1>5, HearStart
<1>7. /\ chat'.calls = chat.calls /\ DOMAIN chat'.slots = DOMAIN chat.slots \cup {at}
      /\ \A i \in DOMAIN chat.slots \ {at} : chat'.slots[i] = chat.slots[i]
      /\ chat'.order = Append(chat.order, at)
      /\ chat'.slots[at].id = who /\ chat'.slots[at].tool = name /\ chat'.slots[at].args = <<>>
  <2>1. ChatOK(chat) /\ at \in Nat /\ who \in Ids /\ name \in Tools
    BY <1>1 DEF TypeOK
  <2> HIDE DEF at, who
  <2> QED
    BY <1>4, <1>6, <2>1, FreshSlot
<1>8. /\ chat'.slots[at].id = who /\ chat'.slots[at].tool = (HeardTool(n))'
      /\ chat'.slots[at].args = (Heard(n))'
  BY <1>1, <1>5, <1>7
<1>9. (Holding(m))'
  <2>1. \A j \in Began :
           /\ sent'.calls[j] = sent.calls[j] /\ (Whole(j))' = Whole(j)
           /\ (Heard(j))' = Heard(j) /\ (HeardTool(j))' = HeardTool(j)
    BY <1>1
  <2> QED
    BY <1>0, <1>1, <1>3, <1>4, <1>7, <1>8, <2>1, HoldingOneMore
<1> QED
  BY <1>0, <1>1, <1>2, <1>9

\* A call that is not whole is not taken, and has a slot.
LEMMA NotTaken ==
    ASSUME TypeOK, job.kind = "reply", NEW m \in 0 .. Len(sent.calls), Holding(m),
           NEW k \in Began, ~Whole(k)
    PROVE  /\ k \in (m + 1) .. Len(sent.calls) /\ IndexOf(plan, k) \in DOMAIN chat.slots
           /\ chat.slots[IndexOf(plan, k)].tool = HeardTool(k)
           /\ chat.slots[IndexOf(plan, k)].args = Heard(k)
<1>1. Len(sent.calls) \in Nat
  BY SentFacts
<1> HIDE DEF plan
<1>2. k \in (m + 1) .. Len(sent.calls)
  BY <1>1 DEF Holding, Began
<1> QED
  BY <1>2 DEF Holding

LEMMA NameCallFollows ==
    ASSUME TypeOK, SentFits, ChatFollows, NEW k \in DOMAIN sent.calls, NameCall(k)
    PROVE  ChatFollows'
<1>1. /\ job.kind = "reply" /\ plan' = plan /\ job' = job
      /\ Len(sent'.calls) = Len(sent.calls) /\ k \in Began
      /\ \A j \in Began :
            /\ sent'.calls[j].ended = sent.calls[j].ended /\ (Whole(j) => (Whole(j))')
            /\ (Heard(j))' = Heard(j) /\ (j # k => (HeardTool(j))' = HeardTool(j))
      /\ ~Whole(k) /\ HeardTool(k) = "none" /\ (HeardTool(k))' = plan.calls[k].tool
      /\ Hear(Begin(IndexOf(plan, k), "", plan.calls[k].tool))
      /\ IndexOf(plan, k) \in Nat /\ "" \in Ids /\ plan.calls[k].tool \in Tools
      /\ sent'.torn = sent.torn
  BY NameCallHeard
<1> HIDE DEF plan
<1> SUFFICES ASSUME ~sent.torn
             PROVE  \E m \in 0 .. Len(sent'.calls) : (Holding(m))'
  BY <1>1 DEF ChatFollows
<1>2. PICK m \in 0 .. Len(sent.calls) : Holding(m)
  BY <1>1 DEF ChatFollows
<1> DEFINE at == IndexOf(plan, k)
           name == plan.calls[k].tool
<1>3. /\ k \in (m + 1) .. Len(sent.calls) /\ at \in DOMAIN chat.slots
      /\ chat.slots[at].tool = "none" /\ chat.slots[at].args = Heard(k)
  BY <1>1, <1>2, NotTaken
<1>4. chat' = FoldStartCall(chat, Begin(at, "", name))
  BY <1>1, HearStart
<1>5. /\ chat'.calls = chat.calls /\ DOMAIN chat'.slots = DOMAIN chat.slots
      /\ \A i \in DOMAIN chat.slots \ {at} : chat'.slots[i] = chat.slots[i]
      /\ chat'.order = chat.order
      /\ chat'.slots[at].id = Keep("", chat.slots[at].id, "")
      /\ chat'.slots[at].tool = Keep(name, chat.slots[at].tool, "none")
      /\ chat'.slots[at].args = chat.slots[at].args
  <2>1. PICK who \in Ids : who = ""
    BY <1>1
  <2>2. ChatOK(chat) /\ at \in Nat /\ name \in Tools
    BY <1>1 DEF TypeOK
  <2> HIDE DEF at, name
  <2>3. /\ chat'.calls = chat.calls /\ DOMAIN chat'.slots = DOMAIN chat.slots
        /\ \A i \in DOMAIN chat.slots \ {at} : chat'.slots[i] = chat.slots[i]
        /\ chat'.order = chat.order
        /\ chat'.slots[at].id = Keep(who, chat.slots[at].id, "")
        /\ chat'.slots[at].tool = Keep(name, chat.slots[at].tool, "none")
        /\ chat'.slots[at].args = chat.slots[at].args
    <3>1. at \in DOMAIN chat.slots /\ chat' = FoldStartCall(chat, Begin(at, who, name))
      BY <1>3, <1>4, <2>1
    <3>2. StartsCall(chat, chat', at, who, name)
      BY <2>1, <2>2, <3>1, FoldStartIs, Zenon
    <3>3. DOMAIN chat.slots \cup {at} = DOMAIN chat.slots
      BY <3>1
    <3> QED
      BY <3>1, <3>2, <3>3 DEF StartsCall
  <2> QED
    BY <2>1, <2>3
<1>6. /\ chat'.slots[at].id = chat.slots[at].id /\ chat'.slots[at].tool = (HeardTool(k))'
      /\ chat'.slots[at].args = (Heard(k))' /\ DOMAIN chat'.slots = DOMAIN chat.slots
  <2>1. Keep(name, "none", "none") = name /\ Keep("", chat.slots[at].id, "") = chat.slots[at].id
    BY DEF Keep
  <2> HIDE DEF at, name
  <2> QED
    BY <1>1, <1>3, <1>5, <2>1 DEF name
<1>7. (Holding(m))'
  <2>1. \A j \in Began :
           /\ sent'.calls[j].ended = sent.calls[j].ended /\ (Whole(j) => (Whole(j))')
           /\ j # k => (Heard(j))' = Heard(j) /\ (HeardTool(j))' = HeardTool(j)
    BY <1>1
  <2> QED
    BY <1>1, <1>2, <1>3, <1>5, <1>6, <2>1, HoldingOneSlot
<1> QED
  BY <1>1, <1>7

LEMMA SendPartFollows ==
    ASSUME TypeOK, SentFits, ChatFollows, NEW k \in DOMAIN sent.calls, SendPart(k)
    PROVE  ChatFollows'
<1>1. PICK part \in STRING :
      /\ job.kind = "reply" /\ plan' = plan /\ job' = job
      /\ Len(sent'.calls) = Len(sent.calls) /\ k \in Began
      /\ \A j \in Began :
            /\ sent'.calls[j].ended = sent.calls[j].ended /\ (Whole(j) => (Whole(j))')
            /\ (HeardTool(j))' = HeardTool(j) /\ (j # k => (Heard(j))' = Heard(j))
      /\ ~Whole(k) /\ (Heard(k))' = Append(Heard(k), part)
      /\ Hear([ev |-> "Delta", index |-> IndexOf(plan, k), part |-> part])
      /\ IndexOf(plan, k) \in Nat /\ sent'.torn = sent.torn
  BY SendPartHeard
<1> HIDE DEF plan
<1> SUFFICES ASSUME ~sent.torn
             PROVE  \E m \in 0 .. Len(sent'.calls) : (Holding(m))'
  BY <1>1 DEF ChatFollows
<1>2. PICK m \in 0 .. Len(sent.calls) : Holding(m)
  BY <1>1 DEF ChatFollows
<1> DEFINE at == IndexOf(plan, k)
<1>3. /\ k \in (m + 1) .. Len(sent.calls) /\ at \in DOMAIN chat.slots
      /\ chat.slots[at].tool = HeardTool(k) /\ chat.slots[at].args = Heard(k)
  BY <1>1, <1>2, NotTaken
<1>4. chat' = IF at \in DOMAIN chat.slots
              THEN [chat EXCEPT !.slots[at].args = Append(@, part)] ELSE chat
  BY <1>1, HearDelta
<1>5. /\ chat'.calls = chat.calls /\ DOMAIN chat'.slots = DOMAIN chat.slots
      /\ \A i \in DOMAIN chat.slots \ {at} : chat'.slots[i] = chat.slots[i]
      /\ chat'.order = chat.order
      /\ chat'.slots[at].id = chat.slots[at].id /\ chat'.slots[at].tool = chat.slots[at].tool
      /\ chat'.slots[at].args = Append(chat.slots[at].args, part)
  <2>1. ChatOK(chat)
    BY DEF TypeOK
  <2> HIDE DEF at
  <2> QED
    BY <1>3, <1>4, <2>1, FoldDeltaIs
<1>6. chat'.slots[at].tool = (HeardTool(k))' /\ chat'.slots[at].args = (Heard(k))'
  BY <1>1, <1>3, <1>5
<1>7. (Holding(m))'
  <2>1. \A j \in Began :
           /\ sent'.calls[j].ended = sent.calls[j].ended /\ (Whole(j) => (Whole(j))')
           /\ j # k => (Heard(j))' = Heard(j) /\ (HeardTool(j))' = HeardTool(j)
    BY <1>1
  <2> QED
    BY <1>1, <1>2, <1>3, <1>5, <1>6, <2>1, HoldingOneSlot
<1> QED
  BY <1>1, <1>7

\* An end that finds every call whole.
LEMMA TakenAll ==
    ASSUME TypeOK, SentFits, job.kind = "reply", plan' = plan, Len(sent'.calls) = Len(sent.calls),
           NEW m \in 0 .. Len(sent.calls), Holding(m), \A j \in Began : Whole(j) /\ (Whole(j))',
           Hear(Event("End"))
    PROVE  (Holding(m))' \/ \E i \in 0 .. Len(sent'.calls) : (Holding(i))'
<1>1. chat' = FlushToolSlots(chat)
  BY HearEnd
<1>2. chat'.calls = MadeUpTo(plan, Len(sent.calls))
  BY <1>1, FlushMakes
<1>3. chat'.slots = <<>> /\ chat'.order = <<>>
  BY <1>1, FlushType DEF TypeOK
<1>4. Len(sent.calls) \in Nat
  BY SentFacts
<1>5. PICK n : n = Len(sent.calls)
  OBVIOUS
<1>6. DOMAIN chat'.slots = {} /\ Len(chat'.order) = 0 /\ (n + 1) .. n = {}
  BY <1>3, <1>4, <1>5
<1> HIDE DEF plan
<1>7. (Holding(n))'
  BY <1>2, <1>4, <1>5, <1>6 DEF Holding, Began
<1> QED
  BY <1>4, <1>5, <1>7

LEMMA EndCallFollows ==
    ASSUME TypeOK, SentFits, ChatFollows, NEW k \in DOMAIN sent.calls, EndCall(k)
    PROVE  ChatFollows'
<1>1. /\ job.kind = "reply" /\ plan' = plan /\ job' = job
      /\ Len(sent'.calls) = Len(sent.calls)
      /\ \A j \in Began : (Whole(j))' = Whole(j)
      /\ Hear(Event("End"))
      /\ ~sent'.torn => ~sent.torn /\ \A j \in Began : Whole(j)
  BY EndCallHeard
<1> HIDE DEF plan
<1> SUFFICES ASSUME ~sent'.torn
             PROVE  \E m \in 0 .. Len(sent'.calls) : (Holding(m))'
  BY <1>1 DEF ChatFollows
<1>2. PICK m \in 0 .. Len(sent.calls) : Holding(m)
  BY <1>1 DEF ChatFollows
<1>3. \A j \in Began : Whole(j) /\ (Whole(j))'
  BY <1>1
<1> QED
  BY <1>1, <1>2, <1>3, TakenAll

LEMMA EndAllFollows == ASSUME TypeOK, SentFits, ChatFollows, EndAll PROVE ChatFollows'
<1>1. /\ job' = job /\ sent'.calls = sent.calls /\ sent'.torn = sent.torn /\ Hear(Event("End"))
  BY EndAllIs
<1>2. /\ job.kind = "reply" /\ \A k \in DOMAIN sent.calls : Whole(k)
  BY DEF EndAll, Replying
<1>3. plan' = plan
  BY <1>1 DEF plan
<1>4. DOMAIN sent.calls = Began
  BY <1>2, SentFacts
<1> HIDE DEF plan
<1> SUFFICES ASSUME ~sent.torn
             PROVE  \E m \in 0 .. Len(sent'.calls) : (Holding(m))'
  BY <1>1, <1>2 DEF ChatFollows
<1>5. PICK m \in 0 .. Len(sent.calls) : Holding(m)
  BY <1>2 DEF ChatFollows
<1>6. \A j \in Began : Whole(j) /\ (Whole(j))'
  BY <1>1, <1>2, <1>3, <1>4, SameHeard
<1> QED
  BY <1>1, <1>2, <1>3, <1>5, <1>6, TakenAll

\* A step in which the vendor neither sends a call nor ends one.
LEMMA QuietStep ==
    ASSUME TypeOK, Say \/ GiveReason \/ CountUsage \/ Settling
    PROVE  job' = job /\ sent'.calls = sent.calls /\ sent'.torn = sent.torn /\ SameCalls(chat', chat)
<1>1. CASE Say
  <2> DEFINE part == plan.said[sent.said + 1]
  <2>1. /\ job' = job /\ sent' = [sent EXCEPT !.said = sent.said + 1]
        /\ part \in STRING /\ Hear([ev |-> "Text", part |-> part])
    BY <1>1, SayIs
  <2>2. sent'.calls = sent.calls /\ sent'.torn = sent.torn
    BY <2>1, SentType DEF SentOK
  <2> HIDE DEF part
  <2>3. SameCalls(chat', chat)
    BY <2>1, HearText
  <2> QED
    BY <2>1, <2>2, <2>3
<1>2. CASE GiveReason
  <2>1. /\ job' = job /\ sent'.calls = sent.calls /\ sent'.torn = sent.torn
        /\ Hear([ev |-> "Finish", reason |-> plan.reason]) /\ plan.reason \in STRING
    BY <1>2, GiveReasonIs
  <2> HIDE DEF plan
  <2>2. SameCalls(chat', chat)
    BY <2>1, HearFinish
  <2> QED
    BY <2>1, <2>2
<1>3. CASE CountUsage
  <2>1. job' = job /\ sent'.calls = sent.calls /\ sent'.torn = sent.torn /\ Hear(Event("Usage"))
    BY <1>3, CountUsageIs
  <2> QED
    BY <2>1, HearUsage
<1>4. CASE Settling
  BY <1>4 DEF Settling, Ask, LookUp, EndReply, Break, vars, SameCalls
<1> QED
  BY <1>1, <1>2, <1>3, <1>4

LEMMA StepFollows ==
    ASSUME TypeOK, SentFits, ChatFollows, [Next]_vars PROVE ChatFollows'
<1>1. CASE Say \/ GiveReason \/ CountUsage \/ Settling
  BY <1>1, QuietStep, ChatUnmoved
<1>2. CASE StartCall \/ EndAll
  BY <1>2, StartCallFollows, EndAllFollows
<1>3. ASSUME NEW k \in DOMAIN sent.calls, NameCall(k) \/ SendPart(k) \/ EndCall(k)
      PROVE ChatFollows'
  BY <1>3, NameCallFollows, SendPartFollows, EndCallFollows
<1> QED
  BY <1>1, <1>2, <1>3 DEF Next, Settling

----------------------------------------------------------------------------
(* A call that was torn apart never gets the arguments of another.         *)

\* What a slot comes to is of its call.
LEMMA PushIsTaken ==
    ASSUME TypeOK, SentFits, job.kind = "reply", NEW k \in Began, NEW slot \in Slots, SlotOf(k, slot)
    PROVE  \A got \in ToSet(PushCall(slot)) : Taken(plan, got)
<1> SUFFICES ASSUME NEW got \in ToSet(PushCall(slot)) PROVE Taken(plan, got)
  OBVIOUS
<1> DEFINE c == [id |-> slot.id, tool |-> slot.tool, args |-> IF Parsed(slot) = "path" THEN "path" ELSE "no_path"]
<1>1. slot.tool # "none" /\ got = c
  <2>1. PushCall(slot) = IF slot.tool = "none" THEN <<>> ELSE <<c>>
    BY DEF PushCall
  <2> HIDE DEF c
  <2> QED
    BY <2>1 DEF ToSet
<1>2. got.tool = slot.tool /\ (got.args = "path" => Parsed(slot) = "path")
  BY <1>1
<1>3. slot.tool = HeardTool(k) /\ slot.args = Heard(k)
  BY <1>1 DEF SlotOf
<1>4. sent.calls[k].named /\ got.tool = plan.calls[k].tool /\ got.tool # "none"
  BY <1>1, <1>2, <1>3 DEF HeardTool
<1>5. k \in DOMAIN plan.calls
  BY BeganIsPlanned
<1>6. /\ RepliesAsVendorsDo(plan) /\ sent.calls[k].parts \in Nat
      /\ plan.calls[k].parts \in Seq(STRING) /\ Len(plan.calls[k].parts) \in Nat
      /\ sent.calls[k].parts <= Len(plan.calls[k].parts)
  BY <1>5, SentFacts DEF SentFits
<1> HIDE DEF plan, c
<1>7. got.args = "path" => JudgedOf(plan, k) = "path"
  <2> SUFFICES ASSUME got.args = "path" PROVE JudgedOf(plan, k) = "path"
    OBVIOUS
  <2>1. slot.args = PathParts
    BY <1>2 DEF Parsed, PathParts
  <2>2. SubSeq(plan.calls[k].parts, 1, sent.calls[k].parts) = PathParts
    BY <1>3, <2>1 DEF Heard
  <2>3. sent.calls[k].parts = Len(plan.calls[k].parts)
    BY <1>5, <1>6, <2>2 DEF RepliesAsVendorsDo
  <2>4. plan.calls[k].parts = PathParts
    BY <1>6, <2>2, <2>3, SubSeqFull
  <2> QED
    BY <1>2, <2>1, <2>4, ParsedByArgs DEF JudgedOf
<1> QED
  BY <1>4, <1>5, <1>7 DEF Taken, TakenFrom

LEMMA FlushTakes ==
    ASSUME TypeOK, SentFits, ChatNeverMixes, job.kind = "reply", OwnIndexes(plan)
    PROVE  \A got \in ToSet(FlushToolSlots(chat).calls) : Taken(plan, got)
<1>1. ChatOK(chat)
  BY DEF TypeOK
<1>2. FlushToolSlots(chat).calls = chat.calls \o FlattenSeq(Pushed(chat))
  BY <1>1, FlushType
<1>3. Pushed(chat) \in Seq(Seq(ChatCalls)) /\ FlattenSeq(Pushed(chat)) \in Seq(ChatCalls)
      /\ Len(Pushed(chat)) = Len(chat.order) /\ chat.calls \in Seq(ChatCalls)
  BY <1>1, PushedType DEF ChatOK
<1> HIDE DEF plan
<1> SUFFICES ASSUME NEW got \in ToSet(FlushToolSlots(chat).calls) PROVE Taken(plan, got)
  OBVIOUS
<1>4. got \in ToSet(chat.calls) \/ got \in ToSet(FlattenSeq(Pushed(chat)))
  BY <1>2, <1>3, ConcatMembers
<1>5. CASE got \in ToSet(chat.calls)
  BY <1>5 DEF ChatNeverMixes
<1>6. CASE got \in ToSet(FlattenSeq(Pushed(chat)))
  <2>1. PICK i \in 1 .. Len(Pushed(chat)) : got \in ToSet(Pushed(chat)[i])
    BY <1>3, <1>6, FlattenMembers
  <2> DEFINE slot == chat.slots[chat.order[i]]
  <2>2. i \in 1 .. Len(chat.order) /\ Pushed(chat)[i] = PushCall(slot)
    BY <1>3, <2>1 DEF Pushed
  <2>3. chat.order[i] \in DOMAIN chat.slots /\ slot \in Slots
    BY <1>1, <2>2 DEF ChatOK
  <2>4. PICK k \in Began : SlotOf(k, slot)
    BY <2>3 DEF ChatNeverMixes
  <2> HIDE DEF slot
  <2> QED
    BY <2>1, <2>2, <2>3, <2>4, PushIsTaken
<1> QED
  BY <1>4, <1>5, <1>6

\* One slot changes, or is new, with what was heard of its call.
LEMMA OneSlotMixes ==
    ASSUME job.kind = "reply", job' = job, plan' = plan, ChatNeverMixes, NEW k \in Began',
           Began \subseteq Began', chat'.calls = chat.calls,
           DOMAIN chat'.slots \subseteq DOMAIN chat.slots \cup {IndexOf(plan, k)},
           \A i \in DOMAIN chat.slots \ {IndexOf(plan, k)} : chat'.slots[i] = chat.slots[i],
           OwnIndexes(plan) /\ IndexOf(plan, k) \in DOMAIN chat'.slots =>
               /\ chat'.slots[IndexOf(plan, k)].tool \in {"none", (HeardTool(k))'}
               /\ chat'.slots[IndexOf(plan, k)].args = (Heard(k))',
           \A j \in Began \ {k} : (Heard(j))' = Heard(j) /\ (HeardTool(j))' = HeardTool(j)
    PROVE  ChatNeverMixes'
<1> HIDE DEF plan
<1> SUFFICES ASSUME OwnIndexes(plan)
             PROVE  /\ \A i \in DOMAIN chat'.slots :
                          \E j \in Began' : /\ IndexOf(plan, j) = i
                                            /\ chat'.slots[i].tool \in {"none", (HeardTool(j))'}
                                            /\ chat'.slots[i].args = (Heard(j))'
                    /\ \A got \in ToSet(chat'.calls) : Taken(plan, got)
  BY DEF ChatNeverMixes, SlotOf
<1>1. ASSUME NEW i \in DOMAIN chat'.slots
      PROVE  \E j \in Began' : /\ IndexOf(plan, j) = i
                               /\ chat'.slots[i].tool \in {"none", (HeardTool(j))'}
                               /\ chat'.slots[i].args = (Heard(j))'
  <2>1. CASE i = IndexOf(plan, k)
    BY <2>1
  <2>2. CASE i # IndexOf(plan, k)
    <3>1. i \in DOMAIN chat.slots /\ chat'.slots[i] = chat.slots[i]
      BY <2>2
    <3>2. PICK j \in Began : IndexOf(plan, j) = i /\ SlotOf(j, chat.slots[i])
      BY <3>1 DEF ChatNeverMixes
    <3>3. j # k
      BY <2>2, <3>2
    <3>4. /\ j \in Began' /\ IndexOf(plan, j) = i
          /\ chat'.slots[i].tool \in {"none", (HeardTool(j))'} /\ chat'.slots[i].args = (Heard(j))'
      BY <3>1, <3>2, <3>3 DEF SlotOf
    <3> QED
      BY <3>4
  <2> QED
    BY <2>1, <2>2
<1>2. \A got \in ToSet(chat'.calls) : Taken(plan, got)
  BY DEF ChatNeverMixes
<1> QED
  BY <1>1, <1>2

\* The slot of a call of its own index is of it.
LEMMA OwnSlot ==
    ASSUME TypeOK, SentFits, ChatNeverMixes, job.kind = "reply", OwnIndexes(plan),
           NEW k \in DOMAIN plan.calls, IndexOf(plan, k) \in DOMAIN chat.slots
    PROVE  k \in Began /\ SlotOf(k, chat.slots[IndexOf(plan, k)])
<1>1. PICK j \in Began : IndexOf(plan, j) = IndexOf(plan, k) /\ SlotOf(j, chat.slots[IndexOf(plan, k)])
  BY DEF ChatNeverMixes
<1>2. j \in DOMAIN plan.calls
  BY BeganIsPlanned
<1> HIDE DEF plan
<1>3. j = k
  BY <1>1, <1>2 DEF OwnIndexes, IndexOf
<1> QED
  BY <1>1, <1>3

LEMMA StartCallMixes == ASSUME TypeOK, SentFits, ChatNeverMixes, StartCall PROVE ChatNeverMixes'
<1>0. PICK n : n = Len(sent.calls) + 1
  OBVIOUS
<1>1. /\ job.kind = "reply" /\ plan' = plan /\ job' = job
      /\ Began' = Began \cup {n} /\ n \notin Began /\ n \in DOMAIN plan.calls
      /\ \A k \in Began : (Heard(k))' = Heard(k) /\ (HeardTool(k))' = HeardTool(k)
      /\ (Heard(n))' = <<>>
      /\ Hear(Begin(IndexOf(plan, n), plan.calls[n].id, (HeardTool(n))'))
      /\ IndexOf(plan, n) \in Nat /\ plan.calls[n].id \in Ids /\ (HeardTool(n))' \in Tools
  BY <1>0, StartCallHeard
<1> DEFINE at == IndexOf(plan, n)
           who == plan.calls[n].id
<1>2. PICK name \in Tools : name = (HeardTool(n))'
  BY <1>1
<1>3. chat' = FoldStartCall(chat, Begin(at, who, name))
  BY <1>1, <1>2, HearStart
<1>4. StartsCall(chat, chat', at, who, name)
  <2>1. ChatOK(chat) /\ at \in Nat /\ who \in Ids /\ name \in Tools
    BY <1>1 DEF TypeOK
  <2> HIDE DEF at, who
  <2> QED
    BY <1>3, <2>1, FoldStartIs, Zenon
<1>5. OwnIndexes(plan) => at \notin DOMAIN chat.slots
  BY <1>1, OwnSlot
<1>6. /\ chat'.calls = chat.calls /\ DOMAIN chat'.slots = DOMAIN chat.slots \cup {at}
      /\ \A i \in DOMAIN chat.slots \ {at} : chat'.slots[i] = chat.slots[i]
      /\ OwnIndexes(plan) => chat'.slots[at].tool = (HeardTool(n))' /\ chat'.slots[at].args = (Heard(n))'
  <2> HIDE DEF at, who
  <2> QED
    BY <1>1, <1>2, <1>4, <1>5 DEF StartsCall
<1>7. n \in Began' /\ Began \subseteq Began'
  BY <1>1
<1> HIDE DEF plan
<1> QED
  BY <1>1, <1>6, <1>7, OneSlotMixes

LEMMA NameCallMixes ==
    ASSUME TypeOK, SentFits, ChatNeverMixes, NEW k \in DOMAIN sent.calls, NameCall(k)
    PROVE  ChatNeverMixes'
<1>1. /\ job.kind = "reply" /\ plan' = plan /\ job' = job
      /\ Began' = Began /\ k \in Began /\ k \in DOMAIN plan.calls
      /\ \A j \in Began : (Heard(j))' = Heard(j) /\ (j # k => (HeardTool(j))' = HeardTool(j))
      /\ Heard(k) = <<>> /\ HeardTool(k) = "none" /\ (HeardTool(k))' = plan.calls[k].tool
      /\ Hear(Begin(IndexOf(plan, k), "", plan.calls[k].tool))
      /\ IndexOf(plan, k) \in Nat /\ "" \in Ids /\ plan.calls[k].tool \in Tools
  BY NameCallHeard
<1> DEFINE at == IndexOf(plan, k)
           name == plan.calls[k].tool
<1>2. PICK who \in Ids : who = ""
  BY <1>1
<1>3. chat' = FoldStartCall(chat, Begin(at, who, name))
  BY <1>1, <1>2, HearStart
<1>4. StartsCall(chat, chat', at, who, name)
  <2>1. ChatOK(chat) /\ at \in Nat /\ who \in Ids /\ name \in Tools
    BY <1>1 DEF TypeOK
  <2> HIDE DEF at, name
  <2> QED
    BY <1>3, <2>1, FoldStartIs, Zenon
<1>5. OwnIndexes(plan) /\ at \in DOMAIN chat.slots =>
          chat.slots[at].tool = "none" /\ chat.slots[at].args = Heard(k)
  BY <1>1, OwnSlot DEF SlotOf
<1>6. Keep(name, "none", "none") = name
  BY DEF Keep
<1>7. /\ chat'.calls = chat.calls /\ DOMAIN chat'.slots = DOMAIN chat.slots \cup {at}
      /\ \A i \in DOMAIN chat.slots \ {at} : chat'.slots[i] = chat.slots[i]
      /\ OwnIndexes(plan) => chat'.slots[at].tool = name /\ chat'.slots[at].args = Heard(k)
  <2> HIDE DEF at, name
  <2> QED
    BY <1>1, <1>4, <1>5, <1>6 DEF StartsCall
<1>8. OwnIndexes(plan) => chat'.slots[at].tool = (HeardTool(k))' /\ chat'.slots[at].args = (Heard(k))'
  BY <1>1, <1>7
<1> HIDE DEF plan
<1> QED
  BY <1>1, <1>7, <1>8, OneSlotMixes

LEMMA SendPartMixes ==
    ASSUME TypeOK, SentFits, ChatNeverMixes, NEW k \in DOMAIN sent.calls, SendPart(k)
    PROVE  ChatNeverMixes'
<1>1. PICK part \in STRING :
      /\ job.kind = "reply" /\ plan' = plan /\ job' = job
      /\ Began' = Began /\ k \in Began /\ k \in DOMAIN plan.calls
      /\ \A j \in Began : (HeardTool(j))' = HeardTool(j) /\ (j # k => (Heard(j))' = Heard(j))
      /\ (Heard(k))' = Append(Heard(k), part)
      /\ Hear([ev |-> "Delta", index |-> IndexOf(plan, k), part |-> part])
      /\ IndexOf(plan, k) \in Nat
  BY SendPartHeard
<1> DEFINE at == IndexOf(plan, k)
<1>2. chat' = IF at \in DOMAIN chat.slots
              THEN [chat EXCEPT !.slots[at].args = Append(@, part)] ELSE chat
  BY <1>1, HearDelta
<1>3. CASE at \in DOMAIN chat.slots
  <2>1. /\ chat'.calls = chat.calls /\ DOMAIN chat'.slots = DOMAIN chat.slots
        /\ \A i \in DOMAIN chat.slots \ {at} : chat'.slots[i] = chat.slots[i]
        /\ chat'.slots[at].tool = chat.slots[at].tool
        /\ chat'.slots[at].args = Append(chat.slots[at].args, part)
    <3>1. ChatOK(chat)
      BY DEF TypeOK
    <3> HIDE DEF at
    <3> QED
      BY <1>2, <1>3, <3>1, FoldDeltaIs
  <2>2. OwnIndexes(plan) => chat.slots[at].tool \in {"none", HeardTool(k)} /\ chat.slots[at].args = Heard(k)
    BY <1>1, <1>3, OwnSlot DEF SlotOf
  <2>3. OwnIndexes(plan) =>
            chat'.slots[at].tool \in {"none", (HeardTool(k))'} /\ chat'.slots[at].args = (Heard(k))'
    BY <1>1, <2>1, <2>2
  <2> HIDE DEF plan
  <2> QED
    BY <1>1, <2>1, <2>3, OneSlotMixes
<1>4. CASE at \notin DOMAIN chat.slots
  <2>1. chat' = chat
    BY <1>2, <1>4
  <2> HIDE DEF plan
  <2> QED
    BY <1>1, <1>4, <2>1, OneSlotMixes
<1> QED
  BY <1>3, <1>4

LEMMA EndMixes ==
    ASSUME TypeOK, SentFits, ChatNeverMixes, job.kind = "reply", job' = job, Hear(Event("End"))
    PROVE  ChatNeverMixes'
<1>1. chat' = FlushToolSlots(chat) /\ plan' = plan
  BY HearEnd DEF plan
<1>2. DOMAIN chat'.slots = {}
  <2>1. chat'.slots = <<>>
    BY <1>1, FlushType DEF TypeOK
  <2> QED
    BY <2>1
<1>3. OwnIndexes(plan) => \A got \in ToSet(chat'.calls) : Taken(plan, got)
  BY <1>1, FlushTakes
<1> HIDE DEF plan
<1> QED
  BY <1>1, <1>2, <1>3 DEF ChatNeverMixes

LEMMA UnmovedMixes ==
    ASSUME ChatNeverMixes, job' = job, sent'.calls = sent.calls, SameCalls(chat', chat)
    PROVE  ChatNeverMixes'
<1>1. plan' = plan
  BY DEF plan
<1> HIDE DEF plan
<1>2. /\ Began' = Began
      /\ \A k : (Heard(k))' = Heard(k) /\ (HeardTool(k))' = HeardTool(k)
  BY <1>1, SameHeard
<1> QED
  BY <1>1, <1>2 DEF ChatNeverMixes, SlotOf, SameCalls

LEMMA StepMixes ==
    ASSUME TypeOK, SentFits, ChatNeverMixes, [Next]_vars PROVE ChatNeverMixes'
<1>1. CASE Say \/ GiveReason \/ CountUsage \/ Settling
  BY <1>1, QuietStep, UnmovedMixes
<1>2. CASE StartCall
  BY <1>2, StartCallMixes
<1>3. ASSUME NEW k \in DOMAIN sent.calls, NameCall(k) \/ SendPart(k)
      PROVE ChatNeverMixes'
  BY <1>3, NameCallMixes, SendPartMixes
<1>4. ASSUME NEW k \in DOMAIN sent.calls, EndCall(k)
      PROVE ChatNeverMixes'
  BY <1>4, EndCallHeard, EndMixes
<1>5. CASE EndAll
  <2>1. job.kind = "reply" /\ job' = job /\ Hear(Event("End"))
    BY <1>5, EndAllIs DEF EndAll, Replying
  <2> QED
    BY <2>1, EndMixes
<1> QED
  BY <1>1, <1>2, <1>3, <1>4, <1>5 DEF Next, Settling

----------------------------------------------------------------------------
(* The stream.                                                             *)

LEMMA BeginLeaves ==
    ASSUME TypeOK, NEW index \in Nat, NEW id \in Ids, NEW tool \in Tools, Hear(Begin(index, id, tool))
    PROVE  chat'.finish = chat.finish /\ chat'.text = chat.text
<1>1. ChatOK(chat)
  BY DEF TypeOK
<1>2. chat' = FoldStartCall(chat, Begin(index, id, tool))
  BY HearStart
<1>3. StartsCall(chat, chat', index, id, tool)
  BY <1>1, <1>2, FoldStartIs, Zenon
<1> QED
  BY <1>3 DEF StartsCall

LEMMA DeltaLeaves ==
    ASSUME TypeOK, NEW index \in Nat, NEW part \in STRING,
           Hear([ev |-> "Delta", index |-> index, part |-> part])
    PROVE  chat'.finish = chat.finish /\ chat'.text = chat.text
<1>1. ChatOK(chat)
  BY DEF TypeOK
<1>2. chat' = IF index \in DOMAIN chat.slots
              THEN [chat EXCEPT !.slots[index].args = Append(@, part)] ELSE chat
  BY HearDelta
<1>3. CASE index \in DOMAIN chat.slots
  BY <1>1, <1>2, <1>3, FoldDeltaIs
<1> QED
  BY <1>2, <1>3

LEMMA EndLeaves ==
    ASSUME TypeOK, Hear(Event("End")) PROVE chat'.finish = chat.finish /\ chat'.text = chat.text
<1>1. ChatOK(chat)
  BY DEF TypeOK
<1>2. chat' = FlushToolSlots(chat)
  BY HearEnd
<1> QED
  BY <1>1, <1>2, FlushType

\* Nothing of the calls reaches the stream.
LEMMA StreamUnmoved ==
    ASSUME StreamFollows, job' = job, sent'.calls = sent.calls, sent'.closed = sent.closed,
           ~stream'.error => /\ ~stream.error /\ stream'.calls = stream.calls
                             /\ stream.finish = chat.finish => stream'.finish = chat'.finish
    PROVE  StreamFollows'
<1>1. plan' = plan
  BY DEF plan
<1> HIDE DEF plan
<1>2. /\ Began' = Began
      /\ \A k : /\ (Whole(k))' = Whole(k) /\ (Heard(k))' = Heard(k)
                /\ (HeardTool(k))' = HeardTool(k) /\ sent'.calls[k].ended = sent.calls[k].ended
  BY <1>1, SameHeard
<1> SUFFICES ASSUME job.kind = "reply", ~stream'.error
             PROVE  /\ stream'.finish = chat'.finish
                    /\ \E open \in SUBSET Began' : (Watching(open))'
                    /\ Judged'
  BY DEF StreamFollows
<1>3. PICK open \in SUBSET Began : Watching(open)
  BY DEF StreamFollows
<1>4. (Watching(open))'
  BY <1>1, <1>2, <1>3 DEF Watching
<1>5. Judged'
  BY <1>1, <1>2 DEF Judged, StreamFollows
<1> QED
  BY <1>2, <1>4, <1>5 DEF StreamFollows

LEMMA QuietStream ==
    ASSUME TypeOK, StreamFollows, Say \/ GiveReason \/ CountUsage \/ Settling
    PROVE  StreamFollows'
<1>1. CASE Say
  <2> DEFINE part == plan.said[sent.said + 1]
  <2>1. /\ job' = job /\ sent' = [sent EXCEPT !.said = sent.said + 1]
        /\ part \in STRING /\ Hear([ev |-> "Text", part |-> part])
    BY <1>1, SayIs
  <2>2. sent'.calls = sent.calls /\ sent'.closed = sent.closed
    BY <2>1, SentType DEF SentOK
  <2> HIDE DEF part
  <2>3. /\ stream'.calls = stream.calls /\ stream'.error = stream.error
        /\ stream'.finish = stream.finish /\ chat'.finish = chat.finish
    BY <2>1, HearText
  <2> QED
    BY <2>1, <2>2, <2>3, StreamUnmoved
<1>2. CASE GiveReason
  <2>1. /\ job' = job /\ sent'.calls = sent.calls /\ sent'.closed = sent.closed
        /\ Hear([ev |-> "Finish", reason |-> plan.reason]) /\ plan.reason \in STRING
    BY <1>2, GiveReasonIs
  <2> HIDE DEF plan
  <2>2. /\ chat'.finish = FinishFromReason(plan.reason) /\ stream'.calls = stream.calls
        /\ ~stream'.error => ~stream.error /\ stream'.finish = FinishFromReason(plan.reason)
    BY <2>1, HearFinish
  <2> QED
    BY <2>1, <2>2, StreamUnmoved
<1>3. CASE CountUsage
  <2>1. /\ job' = job /\ sent'.calls = sent.calls /\ sent'.closed = sent.closed /\ Hear(Event("Usage"))
    BY <1>3, CountUsageIs
  <2>2. stream' = stream /\ chat'.finish = chat.finish
    BY <2>1, HearUsage
  <2> QED
    BY <2>1, <2>2, StreamUnmoved
<1>4. CASE Settling
  <2>1. /\ job' = job /\ sent' = sent /\ chat' = chat
        /\ stream' = stream \/ stream' = [stream EXCEPT !.error = TRUE]
    BY <1>4 DEF Settling, Ask, LookUp, EndReply, Break, vars
  <2>2. [stream EXCEPT !.error = TRUE].error
    BY DEF TypeOK, StreamOK, StreamStart
  <2>3. ~stream'.error => stream' = stream
    BY <2>1, <2>2
  <2> QED
    BY <2>1, <2>3, StreamUnmoved
<1> QED
  BY <1>1, <1>2, <1>3, <1>4

\* A slot of the stream is of a call that is open.
LEMMA FreshOnStream ==
    ASSUME TypeOK, SentFits, job.kind = "reply", NEW open \in SUBSET Began, Watching(open),
           NEW n \in DOMAIN plan.calls, n \notin Began,
           \/ OwnIndexes(plan)
           \/ plan.ends = "each" /\ ~plan.parallel /\ \A k \in Began : sent.calls[k].ended
    PROVE  IndexOf(plan, n) \notin DOMAIN stream.calls.slots
<1> SUFFICES ASSUME NEW k \in open, IndexOf(plan, k) = IndexOf(plan, n) PROVE FALSE
  BY DEF Watching
<1>1. k \in Began /\ k \in DOMAIN plan.calls
  BY BeganIsPlanned
<1> HIDE DEF plan
<1>2. CASE OwnIndexes(plan)
  BY <1>1, <1>2 DEF OwnIndexes, IndexOf
<1>3. CASE plan.ends = "each" /\ ~plan.parallel /\ \A j \in Began : sent.calls[j].ended
  BY <1>1, <1>3 DEF Watching
<1> QED
  BY <1>2, <1>3

LEMMA StartCallStreams == ASSUME TypeOK, SentFits, StreamFollows, StartCall PROVE StreamFollows'
<1>0. PICK n : n = Len(sent.calls) + 1
  OBVIOUS
<1>1. /\ job.kind = "reply" /\ plan' = plan /\ job' = job
      /\ Began' = Began \cup {n} /\ n \notin Began /\ n \in DOMAIN plan.calls
      /\ \A k \in Began :
            /\ sent'.calls[k] = sent.calls[k] /\ (Whole(k))' = Whole(k)
            /\ (Heard(k))' = Heard(k) /\ (HeardTool(k))' = HeardTool(k)
      /\ ~sent'.calls[n].ended /\ (Heard(n))' = <<>>
      /\ Hear(Begin(IndexOf(plan, n), plan.calls[n].id, (HeardTool(n))'))
      /\ IndexOf(plan, n) \in Nat /\ plan.calls[n].id \in Ids /\ (HeardTool(n))' \in Tools
      /\ sent'.closed = sent.closed
      /\ \/ OwnIndexes(plan)
         \/ plan.ends = "each" /\ ~plan.parallel /\ \A k \in Began : sent.calls[k].ended
  BY <1>0, StartCallHeard
<1> DEFINE at == IndexOf(plan, n)
           who == plan.calls[n].id
<1>2. PICK name \in Tools : name = (HeardTool(n))'
  BY <1>1
<1>3. /\ Hear(Begin(at, who, name)) /\ stream'.error = stream.error /\ stream'.finish = stream.finish
      /\ ~stream.error => stream'.calls = OnStart(stream.calls, Begin(at, who, name))
      /\ chat'.finish = chat.finish
  <2>1. Hear(Begin(at, who, name)) /\ at \in Nat /\ who \in Ids
    BY <1>1, <1>2
  <2> HIDE DEF at, who
  <2> QED
    BY <2>1, HearStart, BeginLeaves
<1> HIDE DEF plan
<1> SUFFICES ASSUME ~stream'.error
             PROVE  /\ stream'.finish = chat'.finish
                    /\ \E open \in SUBSET Began' : (Watching(open))'
                    /\ Judged'
  BY <1>1 DEF StreamFollows
<1>4. PICK open \in SUBSET Began : Watching(open)
  BY <1>1, <1>3 DEF StreamFollows
<1>5. at \notin DOMAIN stream.calls.slots
  BY <1>1, <1>4, FreshOnStream
<1>6. CallsOK(stream.calls)
  BY StreamCallsOK DEF TypeOK
<1>7. SlotAt(stream.calls, at) = NoSlot /\ NoSlot.tool = "none"
  BY <1>5 DEF SlotAt, NoSlot
<1>8. /\ DOMAIN stream'.calls.slots = DOMAIN stream.calls.slots \cup {at}
      /\ \A i \in DOMAIN stream.calls.slots \ {at} : stream'.calls.slots[i] = stream.calls.slots[i]
      /\ stream'.calls.slots[at].tool = name /\ (name # "none" => stream'.calls.slots[at].args = <<>>)
      /\ stream'.calls.best = stream.calls.best
      /\ stream'.calls.other = (stream.calls.other \/ name \notin {"none", "read_file"})
  <2> DEFINE g == OnStart(stream.calls, Begin(at, who, name))
  <2>1. stream'.calls = g /\ at \in Nat
    BY <1>1, <1>3
  <2>2. stream.calls.other \in BOOLEAN
    BY <1>6 DEF CallsOK
  <2>4. OpensSlot(stream.calls, g, at, name)
    <3> HIDE DEF at, who
    <3> QED
      BY <1>6, <2>1, OnStartIs, Zenon
  <2>3. /\ DOMAIN g.slots = DOMAIN stream.calls.slots \cup {at}
        /\ \A i \in DOMAIN stream.calls.slots \ {at} : g.slots[i] = stream.calls.slots[i]
        /\ name = "none" => /\ g.slots[at] = NoSlot /\ g.best = stream.calls.best
                            /\ g.other = stream.calls.other
        /\ name # "none" => /\ g.slots[at].tool = name /\ g.slots[at].args = <<>>
                            /\ g.best = stream.calls.best
                            /\ g.other = (stream.calls.other \/ name # "read_file")
    <3> HIDE DEF at, who
    <3> QED
      BY <1>7, <2>4 DEF OpensSlot
  <2> HIDE DEF at, g
  <2> QED
    BY <1>7, <2>1, <2>2, <2>3
<1>9. (Watching(open \cup {n}))'
  <2> DEFINE opened == open \cup {n}
  <2>1. DOMAIN stream'.calls.slots = {IndexOf(plan, k) : k \in opened}
    BY <1>4, <1>8 DEF Watching
  <2>2. \A k \in open : IndexOf(plan, k) \in DOMAIN stream.calls.slots /\ k \in Began
    BY <1>4 DEF Watching
  <2>3. \A a, b \in opened : IndexOf(plan, a) = IndexOf(plan, b) => a = b
    BY <1>4, <1>5, <2>2 DEF Watching
  <2>4. \A k \in opened :
           /\ stream'.calls.slots[IndexOf(plan, k)].tool = (HeardTool(k))'
           /\ (HeardTool(k))' = "read_file" => stream'.calls.slots[IndexOf(plan, k)].args = (Heard(k))'
           /\ plan.parallel \/ plan.ends # "each" \/ ~sent'.calls[k].ended
    <3> SUFFICES ASSUME NEW k \in opened
                 PROVE  /\ stream'.calls.slots[IndexOf(plan, k)].tool = (HeardTool(k))'
                        /\ (HeardTool(k))' = "read_file" =>
                              stream'.calls.slots[IndexOf(plan, k)].args = (Heard(k))'
                        /\ plan.parallel \/ plan.ends # "each" \/ ~sent'.calls[k].ended
      OBVIOUS
    <3>1. CASE k = n
      BY <1>1, <1>2, <1>8, <3>1
    <3>2. CASE k \in open
      BY <1>1, <1>4, <1>5, <1>8, <2>2, <3>2 DEF Watching
    <3> QED
      BY <3>1, <3>2
  <2>5. \A k \in Began' \ opened :
           /\ (Whole(k))' /\ (sent'.calls[k].ended \/ sent'.closed)
           /\ plan.calls[k].tool = "read_file" => JudgedOf(plan, k) \in stream'.calls.best
    BY <1>1, <1>4, <1>8 DEF Watching
  <2> HIDE DEF opened, at
  <2>6. (Watching(opened))'
    BY <1>1, <2>1, <2>3, <2>4, <2>5 DEF Watching
  <2> QED
    BY <2>6 DEF opened
<1>10. Judged'
  <2>1. Judged
    BY <1>1, <1>3 DEF StreamFollows
  <2>2. stream'.calls.other = \E k \in Began' : (HeardTool(k))' \notin {"none", "read_file"}
    BY <1>1, <1>2, <1>8, <2>1 DEF Judged
  <2>3. \A b \in stream'.calls.best : \E k \in Began' : (HeardTool(k))' = "read_file" /\ b = JudgedOf(plan, k)
    BY <1>1, <1>8, <2>1 DEF Judged
  <2> QED
    BY <1>1, <2>2, <2>3 DEF Judged
<1> QED
  BY <1>1, <1>3, <1>9, <1>10 DEF StreamFollows

\* The slot of one call that is open changes with it.
LEMMA OneSlotStreams ==
    ASSUME plan' = plan, Began' = Began, NEW open \in SUBSET Began, Watching(open), NEW k \in open,
           sent'.closed = sent.closed,
           DOMAIN stream'.calls.slots = DOMAIN stream.calls.slots \cup {IndexOf(plan, k)},
           \A i \in DOMAIN stream.calls.slots \ {IndexOf(plan, k)} :
               stream'.calls.slots[i] = stream.calls.slots[i],
           stream'.calls.slots[IndexOf(plan, k)].tool = (HeardTool(k))',
           (HeardTool(k))' = "read_file" => stream'.calls.slots[IndexOf(plan, k)].args = (Heard(k))',
           stream'.calls.best = stream.calls.best,
           \A j \in Began :
              /\ sent'.calls[j].ended = sent.calls[j].ended /\ (Whole(j) => (Whole(j))')
              /\ j # k => (Heard(j))' = Heard(j) /\ (HeardTool(j))' = HeardTool(j)
    PROVE  (Watching(open))'
<1> HIDE DEF plan
<1>1. \A j \in open : IndexOf(plan, j) \in DOMAIN stream.calls.slots /\ j \in Began
  BY DEF Watching
<1>2. DOMAIN stream'.calls.slots = {IndexOf(plan, j) : j \in open}
  BY <1>1 DEF Watching
<1>3. \A a, b \in open : IndexOf(plan, a) = IndexOf(plan, b) => a = b
  BY DEF Watching
<1>4. \A j \in open :
         /\ stream'.calls.slots[IndexOf(plan, j)].tool = (HeardTool(j))'
         /\ (HeardTool(j))' = "read_file" => stream'.calls.slots[IndexOf(plan, j)].args = (Heard(j))'
         /\ plan.parallel \/ plan.ends # "each" \/ ~sent'.calls[j].ended
  <2> SUFFICES ASSUME NEW j \in open
               PROVE  /\ stream'.calls.slots[IndexOf(plan, j)].tool = (HeardTool(j))'
                      /\ (HeardTool(j))' = "read_file" =>
                            stream'.calls.slots[IndexOf(plan, j)].args = (Heard(j))'
                      /\ plan.parallel \/ plan.ends # "each" \/ ~sent'.calls[j].ended
    OBVIOUS
  <2>1. CASE j = k
    BY <1>1, <2>1 DEF Watching
  <2>2. CASE j # k
    <3>1. IndexOf(plan, j) # IndexOf(plan, k)
      BY <1>3, <2>2
    <3> QED
      BY <1>1, <2>2, <3>1 DEF Watching
  <2> QED
    BY <2>1, <2>2
<1>5. \A j \in Began \ open :
         /\ (Whole(j))' /\ (sent'.calls[j].ended \/ sent'.closed)
         /\ plan.calls[j].tool = "read_file" => JudgedOf(plan, j) \in stream'.calls.best
  BY DEF Watching
<1> QED
  BY <1>2, <1>3, <1>4, <1>5 DEF Watching

LEMMA NameCallStreams ==
    ASSUME TypeOK, SentFits, StreamFollows, NEW k \in DOMAIN sent.calls, NameCall(k)
    PROVE  StreamFollows'
<1>1. /\ job.kind = "reply" /\ plan' = plan /\ job' = job
      /\ Began' = Began /\ k \in Began /\ k \in DOMAIN plan.calls
      /\ \A j \in Began :
            /\ sent'.calls[j].ended = sent.calls[j].ended /\ (Whole(j) => (Whole(j))')
            /\ (Heard(j))' = Heard(j) /\ (j # k => (HeardTool(j))' = HeardTool(j))
      /\ ~Whole(k) /\ Heard(k) = <<>>
      /\ HeardTool(k) = "none" /\ (HeardTool(k))' = plan.calls[k].tool
      /\ Hear(Begin(IndexOf(plan, k), "", plan.calls[k].tool))
      /\ IndexOf(plan, k) \in Nat /\ "" \in Ids /\ plan.calls[k].tool \in Tools
      /\ sent'.closed = sent.closed
  BY NameCallHeard
<1> DEFINE at == IndexOf(plan, k)
           name == plan.calls[k].tool
<1>2. PICK who \in Ids : who = ""
  BY <1>1
<1>3. /\ Hear(Begin(at, who, name)) /\ stream'.error = stream.error /\ stream'.finish = stream.finish
      /\ ~stream.error => stream'.calls = OnStart(stream.calls, Begin(at, who, name))
      /\ chat'.finish = chat.finish
  <2>1. Hear(Begin(at, who, name)) /\ at \in Nat /\ name \in Tools
    BY <1>1, <1>2
  <2> HIDE DEF at, name
  <2> QED
    BY <2>1, HearStart, BeginLeaves
<1> HIDE DEF plan
<1> SUFFICES ASSUME ~stream'.error
             PROVE  /\ stream'.finish = chat'.finish
                    /\ \E open \in SUBSET Began' : (Watching(open))'
                    /\ Judged'
  BY <1>1 DEF StreamFollows
<1>4. PICK open \in SUBSET Began : Watching(open)
  BY <1>1, <1>3 DEF StreamFollows
<1>5. /\ k \in open /\ at \in DOMAIN stream.calls.slots
      /\ stream.calls.slots[at].tool = "none"
  BY <1>1, <1>4 DEF Watching
<1>6. CallsOK(stream.calls)
  BY StreamCallsOK DEF TypeOK
<1>7. SlotAt(stream.calls, at) = stream.calls.slots[at]
  BY <1>5 DEF SlotAt
<1>8. OpensSlot(stream.calls, stream'.calls, at, name)
  <2>1. stream'.calls = OnStart(stream.calls, Begin(at, who, name)) /\ at \in Nat /\ name \in Tools
    BY <1>1, <1>3
  <2> HIDE DEF at, name
  <2> QED
    BY <1>6, <2>1, OnStartIs, Zenon
<1>9. /\ DOMAIN stream'.calls.slots = DOMAIN stream.calls.slots \cup {at}
      /\ \A i \in DOMAIN stream.calls.slots \ {at} : stream'.calls.slots[i] = stream.calls.slots[i]
      /\ stream'.calls.slots[at].tool = name /\ (name # "none" => stream'.calls.slots[at].args = <<>>)
      /\ stream'.calls.best = stream.calls.best
      /\ stream'.calls.other = (stream.calls.other \/ name \notin {"none", "read_file"})
  <2>1. stream.calls.other \in BOOLEAN
    BY <1>6 DEF CallsOK
  <2> HIDE DEF at, name
  <2> QED
    BY <1>5, <1>7, <1>8, <2>1 DEF OpensSlot
<1>10. (Watching(open))'
  <2>1. /\ stream'.calls.slots[at].tool = (HeardTool(k))'
        /\ (HeardTool(k))' = "read_file" => stream'.calls.slots[at].args = (Heard(k))'
    BY <1>1, <1>9
  <2>2. \A j \in Began :
           /\ sent'.calls[j].ended = sent.calls[j].ended /\ (Whole(j) => (Whole(j))')
           /\ j # k => (Heard(j))' = Heard(j) /\ (HeardTool(j))' = HeardTool(j)
    BY <1>1
  <2> QED
    BY <1>1, <1>4, <1>5, <1>9, <2>1, <2>2, OneSlotStreams
<1>11. Judged'
  <2>1. Judged
    BY <1>1, <1>3 DEF StreamFollows
  <2>2. stream'.calls.other = \E j \in Began' : (HeardTool(j))' \notin {"none", "read_file"}
    BY <1>1, <1>9, <2>1 DEF Judged
  <2>3. \A b \in stream'.calls.best : \E j \in Began' : (HeardTool(j))' = "read_file" /\ b = JudgedOf(plan, j)
    <3> SUFFICES ASSUME NEW b \in stream.calls.best
                 PROVE \E j \in Began' : (HeardTool(j))' = "read_file" /\ b = JudgedOf(plan, j)
      BY <1>9
    <3>1. PICK j \in Began : HeardTool(j) = "read_file" /\ b = JudgedOf(plan, j)
      BY <2>1 DEF Judged
    <3>2. j # k
      BY <1>1, <3>1
    <3> QED
      BY <1>1, <3>1, <3>2
  <2> QED
    BY <1>1, <2>2, <2>3 DEF Judged
<1> QED
  BY <1>1, <1>3, <1>10, <1>11 DEF StreamFollows

LEMMA SendPartStreams ==
    ASSUME TypeOK, SentFits, StreamFollows, NEW k \in DOMAIN sent.calls, SendPart(k)
    PROVE  StreamFollows'
<1>1. PICK part \in STRING :
      /\ job.kind = "reply" /\ plan' = plan /\ job' = job
      /\ Began' = Began /\ k \in Began /\ k \in DOMAIN plan.calls
      /\ \A j \in Began :
            /\ sent'.calls[j].ended = sent.calls[j].ended /\ (Whole(j) => (Whole(j))')
            /\ (HeardTool(j))' = HeardTool(j) /\ (j # k => (Heard(j))' = Heard(j))
      /\ ~Whole(k) /\ (Heard(k))' = Append(Heard(k), part)
      /\ Hear([ev |-> "Delta", index |-> IndexOf(plan, k), part |-> part])
      /\ IndexOf(plan, k) \in Nat /\ sent'.closed = sent.closed
  BY SendPartHeard
<1> DEFINE at == IndexOf(plan, k)
<1>3. /\ stream'.error = stream.error /\ stream'.finish = stream.finish
      /\ ~stream.error =>
            stream'.calls = OnDelta(stream.calls, [ev |-> "Delta", index |-> at, part |-> part])
      /\ chat'.finish = chat.finish
  <2>1. Hear([ev |-> "Delta", index |-> at, part |-> part]) /\ at \in Nat
    BY <1>1
  <2> HIDE DEF at
  <2> QED
    BY <2>1, HearDelta, DeltaLeaves
<1> HIDE DEF plan
<1> SUFFICES ASSUME ~stream'.error
             PROVE  /\ stream'.finish = chat'.finish
                    /\ \E open \in SUBSET Began' : (Watching(open))'
                    /\ Judged'
  BY <1>1 DEF StreamFollows
<1>4. PICK open \in SUBSET Began : Watching(open)
  BY <1>1, <1>3 DEF StreamFollows
<1>5. /\ k \in open /\ at \in DOMAIN stream.calls.slots
      /\ stream.calls.slots[at].tool = HeardTool(k)
      /\ HeardTool(k) = "read_file" => stream.calls.slots[at].args = Heard(k)
  BY <1>1, <1>4 DEF Watching
<1>6. CallsOK(stream.calls)
  BY StreamCallsOK DEF TypeOK
<1>7. SlotAt(stream.calls, at) = stream.calls.slots[at]
  BY <1>5 DEF SlotAt
<1>8. FillsSlot(stream.calls, stream'.calls, at, part)
  <2>1. stream'.calls = OnDelta(stream.calls, [ev |-> "Delta", index |-> at, part |-> part]) /\ at \in Nat
    BY <1>1, <1>3
  <2> HIDE DEF at
  <2> QED
    BY <1>6, <2>1, OnDeltaIs, Zenon
<1>9. /\ DOMAIN stream'.calls.slots = DOMAIN stream.calls.slots \cup {at}
      /\ \A i \in DOMAIN stream.calls.slots \ {at} : stream'.calls.slots[i] = stream.calls.slots[i]
      /\ stream'.calls.slots[at].tool = HeardTool(k)
      /\ HeardTool(k) = "read_file" => stream'.calls.slots[at].args = Append(Heard(k), part)
      /\ stream'.calls.best = stream.calls.best /\ stream'.calls.other = stream.calls.other
  <2> HIDE DEF at
  <2> QED
    BY <1>5, <1>7, <1>8 DEF FillsSlot
<1>10. (Watching(open))'
  <2>1. /\ stream'.calls.slots[at].tool = (HeardTool(k))'
        /\ (HeardTool(k))' = "read_file" => stream'.calls.slots[at].args = (Heard(k))'
    BY <1>1, <1>9
  <2>2. \A j \in Began :
           /\ sent'.calls[j].ended = sent.calls[j].ended /\ (Whole(j) => (Whole(j))')
           /\ j # k => (Heard(j))' = Heard(j) /\ (HeardTool(j))' = HeardTool(j)
    BY <1>1
  <2> QED
    BY <1>1, <1>4, <1>5, <1>9, <2>1, <2>2, OneSlotStreams
<1>11. Judged'
  BY <1>1, <1>3, <1>9 DEF Judged, StreamFollows
<1> QED
  BY <1>1, <1>3, <1>10, <1>11 DEF StreamFollows

LEMMA OneAtMost ==
    ASSUME NEW S, IsFiniteSet(S), ~(Cardinality(S) > 1), NEW a \in S, NEW b \in S
    PROVE  a = b
<1>1. Cardinality(S) \in Nat
  BY FS_CardinalityType
<1>2. Cardinality(S) = 0 \/ Cardinality(S) = 1
  BY <1>1
<1>3. Cardinality(S) # 0
  BY FS_EmptySet
<1>4. \E x : S = {x}
  BY <1>2, <1>3, FS_Singleton
<1> QED
  BY <1>4

\* What the slots of the calls that are open, all of them whole, come to.
LEMMA OpenIsJudged ==
    ASSUME TypeOK, SentFits, job.kind = "reply", NEW open \in SUBSET Began, Watching(open), Judged,
           \A k \in open : Whole(k),
           NEW best, best = stream.calls.best \cup Flush(stream.calls.slots)
    PROVE  /\ \A k \in Began : plan.calls[k].tool = "read_file" => JudgedOf(plan, k) \in best
           /\ \A b \in best : \E k \in Began : HeardTool(k) = "read_file" /\ b = JudgedOf(plan, k)
<1> DEFINE slots == stream.calls.slots
<1>1. \A k \in open : Heard(k) = plan.calls[k].parts /\ HeardTool(k) = plan.calls[k].tool
  BY BeganIsPlanned, HeardWhole
<1> HIDE DEF plan
<1>2. \A k \in open :
         /\ IndexOf(plan, k) \in DOMAIN slots
         /\ slots[IndexOf(plan, k)].tool = plan.calls[k].tool
         /\ plan.calls[k].tool = "read_file" => slots[IndexOf(plan, k)].args = plan.calls[k].parts
  BY <1>1 DEF Watching
<1>3. \A k \in open : plan.calls[k].tool = "read_file" => Parsed(slots[IndexOf(plan, k)]) = JudgedOf(plan, k)
  <2> SUFFICES ASSUME NEW k \in open, plan.calls[k].tool = "read_file"
               PROVE  Parsed(slots[IndexOf(plan, k)]) = JudgedOf(plan, k)
    OBVIOUS
  <2> DEFINE slot == slots[IndexOf(plan, k)]
             made == [args |-> plan.calls[k].parts]
  <2>1. slot.args = made.args
    BY <1>2
  <2> HIDE DEF slot, made
  <2>2. Parsed(slot) = Parsed(made)
    BY <2>1, ParsedByArgs
  <2> QED
    BY <2>2 DEF JudgedOf, slot, made
<1>4. \A k \in Began : plan.calls[k].tool = "read_file" => JudgedOf(plan, k) \in best
  <2> SUFFICES ASSUME NEW k \in Began, plan.calls[k].tool = "read_file"
               PROVE  JudgedOf(plan, k) \in best
    OBVIOUS
  <2>1. CASE k \in open
    <3>1. Parsed(slots[IndexOf(plan, k)]) \in Flush(slots)
      BY <1>2, <2>1 DEF Flush
    <3> QED
      BY <1>3, <2>1, <3>1
  <2>2. CASE k \notin open
    BY <2>2 DEF Watching
  <2> QED
    BY <2>1, <2>2
<1>5. \A b \in best : \E k \in Began : HeardTool(k) = "read_file" /\ b = JudgedOf(plan, k)
  <2> SUFFICES ASSUME NEW b \in best
               PROVE  \E k \in Began : HeardTool(k) = "read_file" /\ b = JudgedOf(plan, k)
    OBVIOUS
  <2>1. CASE b \in stream.calls.best
    BY <2>1 DEF Judged
  <2>2. CASE b \in Flush(slots)
    <3>1. PICK i \in DOMAIN slots : slots[i].tool = "read_file" /\ b = Parsed(slots[i])
      BY <2>2 DEF Flush
    <3>2. PICK k \in open : i = IndexOf(plan, k)
      BY <3>1 DEF Watching
    <3> QED
      BY <1>1, <1>2, <1>3, <3>1, <3>2
  <2> QED
    BY <2>1, <2>2
<1> QED
  BY <1>4, <1>5

\* An end takes them while no more than one slot is open.
LEMMA EndTakes ==
    ASSUME TypeOK, SentFits, job.kind = "reply", NEW open \in SUBSET Began, Watching(open), Judged,
           \A k \in open : Whole(k), ~stream.error, Hear(Event("End")),
           ~(Cardinality(DOMAIN stream.calls.slots) > 1)
    PROVE  /\ DOMAIN stream'.calls.slots = {} /\ stream'.calls.other = stream.calls.other
           /\ \A k \in Began : plan.calls[k].tool = "read_file" => JudgedOf(plan, k) \in stream'.calls.best
           /\ \A b \in stream'.calls.best :
                 \E k \in Began : HeardTool(k) = "read_file" /\ b = JudgedOf(plan, k)
<1> DEFINE g == OnEnd(stream.calls)
<1>1. stream'.calls = g /\ CallsOK(stream.calls)
  BY HearEnd, StreamCallsOK DEF TypeOK
<1>2. /\ g.other = stream.calls.other /\ g.slots = <<>>
      /\ g.best = stream.calls.best \cup Flush(stream.calls.slots)
  BY <1>1, OnEndIs
<1> HIDE DEF g
<1>3. PICK best : best = stream.calls.best \cup Flush(stream.calls.slots)
  OBVIOUS
<1>4. /\ \A k \in Began : plan.calls[k].tool = "read_file" => JudgedOf(plan, k) \in best
      /\ \A b \in best : \E k \in Began : HeardTool(k) = "read_file" /\ b = JudgedOf(plan, k)
  BY <1>3, OpenIsJudged
<1> HIDE DEF plan
<1>5. DOMAIN stream'.calls.slots = {}
  BY <1>1, <1>2
<1> QED
  BY <1>1, <1>2, <1>3, <1>4, <1>5

LEMMA EndCallStreams ==
    ASSUME TypeOK, SentFits, StreamFollows, NEW k \in DOMAIN sent.calls, EndCall(k)
    PROVE  StreamFollows'
<1>1. /\ job.kind = "reply" /\ plan' = plan /\ job' = job
      /\ Began' = Began /\ k \in Began
      /\ \A j \in Began :
            /\ (Whole(j))' = Whole(j) /\ (Heard(j))' = Heard(j) /\ (HeardTool(j))' = HeardTool(j)
            /\ j # k => sent'.calls[j].ended = sent.calls[j].ended
      /\ Whole(k) /\ ~sent.calls[k].ended /\ sent'.calls[k].ended /\ plan.ends = "each"
      /\ Hear(Event("End")) /\ sent'.closed = sent.closed
  BY EndCallHeard
<1>2. /\ stream'.error = stream.error /\ stream'.finish = stream.finish
      /\ ~stream.error => stream'.calls = OnEnd(stream.calls)
      /\ chat'.finish = chat.finish
  BY <1>1, HearEnd, EndLeaves
<1>3. Len(sent.calls) \in Nat /\ plan.parallel \in BOOLEAN
  BY <1>1, SentFacts
<1> HIDE DEF plan
<1> SUFFICES ASSUME ~stream'.error
             PROVE  /\ stream'.finish = chat'.finish
                    /\ \E open \in SUBSET Began' : (Watching(open))'
                    /\ Judged'
  BY <1>1 DEF StreamFollows
<1>4. /\ \E open \in SUBSET Began : Watching(open)
      /\ Judged /\ stream.finish = chat.finish
  BY <1>1, <1>2 DEF StreamFollows
<1>5. PICK open \in SUBSET Began : Watching(open)
  BY <1>4
<1>6. CallsOK(stream.calls)
  BY StreamCallsOK DEF TypeOK
<1>7. k \in open /\ IndexOf(plan, k) \in DOMAIN stream.calls.slots
  <2>1. ~sent.closed
    BY <1>1 DEF SentFits
  <2> QED
    BY <1>1, <1>5, <2>1 DEF Watching
<1>8. CASE Cardinality(DOMAIN stream.calls.slots) > 1
  <2>1. stream'.calls = stream.calls
    BY <1>2, <1>6, <1>8, OnEndIs
  <2>2. plan.parallel
    <3> SUFFICES ASSUME ~plan.parallel PROVE FALSE
      BY <1>3
    <3>1. \A j \in open : ~sent.calls[j].ended
      BY <1>1, <1>5 DEF Watching
    <3>2. \A j \in 1 .. (Len(sent.calls) - 1) : sent.calls[j].ended
      BY <1>1 DEF SentFits, Done
    <3>3. \A j \in open : j = Len(sent.calls)
      BY <1>3, <3>1, <3>2 DEF Began
    <3>4. open = {k}
      BY <1>7, <3>3
    <3>5. DOMAIN stream.calls.slots = {IndexOf(plan, k)}
      BY <1>5, <3>4 DEF Watching
    <3>6. Cardinality(DOMAIN stream.calls.slots) = 1
      BY <3>5, FS_Singleton
    <3> QED
      BY <1>8, <3>6
  <2>3. (Watching(open))'
    BY <1>1, <1>5, <2>1, <2>2 DEF Watching
  <2>4. Judged'
    BY <1>1, <1>4, <2>1 DEF Judged
  <2> QED
    BY <1>1, <1>2, <1>4, <2>3, <2>4
<1>9. CASE ~(Cardinality(DOMAIN stream.calls.slots) > 1)
  <2>1. open = {k}
    <3> SUFFICES ASSUME NEW j \in open PROVE j = k
      BY <1>7
    <3>1. IndexOf(plan, j) \in DOMAIN stream.calls.slots
      BY <1>5 DEF Watching
    <3>2. IndexOf(plan, j) = IndexOf(plan, k)
      BY <1>6, <1>7, <1>9, <3>1, OneAtMost DEF CallsOK
    <3> QED
      BY <1>5, <1>7, <3>2 DEF Watching
  <2>2. /\ DOMAIN stream'.calls.slots = {} /\ stream'.calls.other = stream.calls.other
        /\ \A j \in Began : plan.calls[j].tool = "read_file" => JudgedOf(plan, j) \in stream'.calls.best
        /\ \A b \in stream'.calls.best :
              \E j \in Began : HeardTool(j) = "read_file" /\ b = JudgedOf(plan, j)
    BY <1>1, <1>2, <1>4, <1>5, <1>9, <2>1, EndTakes
  <2>3. \A j \in Began : (Whole(j))' /\ (sent'.calls[j].ended \/ sent'.closed)
    BY <1>1, <1>5, <2>1 DEF Watching
  <2> DEFINE none == {}
  <2>4. none \in SUBSET Began' /\ \A j : j \notin none
    OBVIOUS
  <2>5. {IndexOf(plan, j) : j \in none} = {}
    OBVIOUS
  <2> HIDE DEF none
  <2>6. (Watching(none))'
    BY <1>1, <2>2, <2>3, <2>4, <2>5 DEF Watching
  <2>7. Judged'
    BY <1>1, <1>4, <2>2 DEF Judged
  <2> QED
    BY <1>2, <1>4, <2>4, <2>6, <2>7
<1> QED
  BY <1>8, <1>9

LEMMA EndAllStreams == ASSUME TypeOK, SentFits, StreamFollows, EndAll PROVE StreamFollows'
<1>1. /\ job' = job /\ sent'.calls = sent.calls /\ sent'.closed /\ Hear(Event("End"))
  BY EndAllIs
<1>2. job.kind = "reply" /\ plan.ends = "once" /\ \A k \in DOMAIN sent.calls : Whole(k)
  BY DEF EndAll, Replying
<1>3. plan' = plan
  BY <1>1 DEF plan
<1>4. DOMAIN sent.calls = Began
  BY <1>2, SentFacts
<1> HIDE DEF plan
<1>5. /\ Began' = Began
      /\ \A k : /\ (Whole(k))' = Whole(k) /\ (Heard(k))' = Heard(k)
                /\ (HeardTool(k))' = HeardTool(k) /\ sent'.calls[k].ended = sent.calls[k].ended
  BY <1>1, <1>3, SameHeard
<1>6. /\ stream'.error = stream.error /\ stream'.finish = stream.finish
      /\ ~stream.error => stream'.calls = OnEnd(stream.calls)
      /\ chat'.finish = chat.finish
  BY <1>1, HearEnd, EndLeaves
<1> SUFFICES ASSUME ~stream'.error
             PROVE  /\ stream'.finish = chat'.finish
                    /\ \E open \in SUBSET Began' : (Watching(open))'
                    /\ Judged'
  BY <1>1, <1>2 DEF StreamFollows
<1>7. /\ \E open \in SUBSET Began : Watching(open)
      /\ Judged /\ stream.finish = chat.finish
  BY <1>2, <1>6 DEF StreamFollows
<1>8. PICK open \in SUBSET Began : Watching(open)
  BY <1>7
<1>9. CallsOK(stream.calls)
  BY StreamCallsOK DEF TypeOK
<1>10. CASE Cardinality(DOMAIN stream.calls.slots) > 1
  <2>1. stream'.calls = stream.calls
    BY <1>6, <1>9, <1>10, OnEndIs
  <2>2. (Watching(open))'
    BY <1>1, <1>3, <1>5, <1>8, <2>1 DEF Watching
  <2>3. Judged'
    BY <1>3, <1>5, <1>7, <2>1 DEF Judged
  <2> QED
    BY <1>5, <1>6, <1>7, <2>2, <2>3
<1>11. CASE ~(Cardinality(DOMAIN stream.calls.slots) > 1)
  <2>1. \A j \in open : Whole(j)
    BY <1>2, <1>4
  <2>2. /\ DOMAIN stream'.calls.slots = {} /\ stream'.calls.other = stream.calls.other
        /\ \A j \in Began : plan.calls[j].tool = "read_file" => JudgedOf(plan, j) \in stream'.calls.best
        /\ \A b \in stream'.calls.best :
              \E j \in Began : HeardTool(j) = "read_file" /\ b = JudgedOf(plan, j)
    BY <1>1, <1>2, <1>6, <1>7, <1>8, <1>11, <2>1, EndTakes
  <2>3. \A j \in Began : (Whole(j))' /\ sent'.closed
    BY <1>1, <1>2, <1>4, <1>5
  <2> DEFINE none == {}
  <2>4. none \in SUBSET Began' /\ \A j : j \notin none
    OBVIOUS
  <2>5. {IndexOf(plan, j) : j \in none} = {}
    OBVIOUS
  <2> HIDE DEF none
  <2>6. (Watching(none))'
    BY <1>3, <1>5, <2>2, <2>3, <2>4, <2>5 DEF Watching
  <2>7. Judged'
    BY <1>3, <1>5, <1>7, <2>2 DEF Judged
  <2> QED
    BY <1>6, <1>7, <2>4, <2>6, <2>7
<1> QED
  BY <1>10, <1>11

LEMMA StepStreams ==
    ASSUME TypeOK, SentFits, StreamFollows, [Next]_vars PROVE StreamFollows'
<1>1. CASE Say \/ GiveReason \/ CountUsage \/ Settling
  BY <1>1, QuietStream
<1>2. CASE StartCall \/ EndAll
  BY <1>2, StartCallStreams, EndAllStreams
<1>3. ASSUME NEW k \in DOMAIN sent.calls, NameCall(k) \/ SendPart(k) \/ EndCall(k)
      PROVE StreamFollows'
  BY <1>3, NameCallStreams, SendPartStreams, EndCallStreams
<1> QED
  BY <1>1, <1>2, <1>3 DEF Next, Settling

----------------------------------------------------------------------------
(* The calls of a whole reply, as both readings have them.                 *)

LEMMA MadeCallsAre == MadeCalls = MadeUpTo(plan, Len(plan.calls))
<1> HIDE DEF plan
<1> QED
  BY DEF MadeCalls, MadeUpTo, MadeOf

LEMMA MadeMembers ==
    ASSUME NEW p \in Plans
    PROVE  LET calls == MadeUpTo(p, Len(p.calls)) IN
           /\ \A x : x \in ToSet(calls) <=>
                     \E k \in DOMAIN p.calls : p.calls[k].tool # "none" /\ x = Made(p.calls[k])
           /\ calls = <<>> <=> \A k \in DOMAIN p.calls : p.calls[k].tool = "none"
<1>0. PICK n : n = Len(p.calls)
  OBVIOUS
<1> DEFINE s == [k \in 1 .. n |-> MadeOf(p, k)]
           calls == MadeUpTo(p, n)
<1>1. n \in Nat /\ DOMAIN p.calls = 1 .. n /\ n \in 0 .. Len(p.calls)
  BY <1>0 DEF Plans
<1>2. s \in Seq(Seq(ChatCalls)) /\ Len(s) = n /\ \A k \in 1 .. n : s[k] = MadeOf(p, k)
  BY <1>1, MadeSeq
<1>3. calls = FlattenSeq(s)
  BY DEF MadeUpTo
<1> HIDE DEF s, calls
<1>4. \A k \in 1 .. n : \A x : x \in ToSet(MadeOf(p, k)) <=> p.calls[k].tool # "none" /\ x = Made(p.calls[k])
  BY DEF MadeOf, ToSet
<1>5. \A x : x \in ToSet(calls) <=> \E k \in DOMAIN p.calls : p.calls[k].tool # "none" /\ x = Made(p.calls[k])
  BY <1>1, <1>2, <1>3, <1>4, FlattenMembers
<1>6. calls \in Seq(ChatCalls)
  BY <1>2, <1>3, FlattenType
<1>7. calls = <<>> <=> ToSet(calls) = {}
  <2>1. /\ Len(calls) \in Nat /\ DOMAIN calls = 1 .. Len(calls)
        /\ calls = <<>> <=> Len(calls) = 0
    BY <1>6, EmptySeq
  <2>2. ToSet(calls) = {} <=> DOMAIN calls = {}
    BY DEF ToSet
  <2>3. \A m \in Nat : 1 .. m = {} <=> m = 0
    OBVIOUS
  <2> QED
    BY <2>1, <2>2, <2>3
<1>8. calls = <<>> <=> \A k \in DOMAIN p.calls : p.calls[k].tool = "none"
  BY <1>5, <1>7
<1> QED
  BY <1>0, <1>5, <1>8 DEF calls

LEMMA MadeFields ==
    ASSUME NEW p, NEW k
    PROVE  /\ Made(p.calls[k]).tool = p.calls[k].tool
           /\ Made(p.calls[k]).args = "path" <=> JudgedOf(p, k) = "path"
BY DEF Made, JudgedOf

\* At the end of a reply all of it was sent.
LEMMA EndReplyIs ==
    ASSUME TypeOK, SentFits, EndReply
    PROVE  /\ job.kind = "reply" /\ result = Pending /\ result' = ScoredCompletion(chat)
           /\ job' = job /\ sent' = sent /\ chat' = chat /\ stream' = stream /\ plan' = plan
           /\ plan \in Plans /\ RepliesAsVendorsDo(plan) /\ sent.said = Len(plan.said)
           /\ Len(sent.calls) = Len(plan.calls) /\ DOMAIN plan.calls = Began
           /\ \A k \in Began : Whole(k)
<1>1. /\ job.kind = "reply" /\ result = Pending /\ result' = ScoredCompletion(chat)
      /\ job' = job /\ sent' = sent /\ chat' = chat /\ stream' = stream /\ AllSent
  BY DEF EndReply, Replying
<1>2. plan' = plan
  BY <1>1 DEF plan
<1>3. DOMAIN plan.calls = 1 .. Len(plan.calls) /\ RepliesAsVendorsDo(plan)
  BY <1>1, SentFacts
<1> HIDE DEF plan
<1>4. /\ sent.said = Len(plan.said) /\ Len(sent.calls) = Len(plan.calls)
      /\ \A k \in DOMAIN plan.calls : Whole(k)
  BY <1>1 DEF AllSent, Done
<1> QED
  BY <1>1, <1>2, <1>3, <1>4 DEF Began, RepliesAsVendorsDo

\* The answer of a reply that did not fail.
LEMMA AnswerIs ==
    ASSUME TypeOK, SentFits, EndReply
    PROVE  /\ Scored' <=> ~chat.failed
           /\ Scored' =>
                 LET calls == FlushToolSlots(chat).calls IN
                 /\ result'.answer.text = StripThinkBlocks(chat.text)
                 /\ result'.answer.calls = calls
                 /\ result'.answer.finish =
                       IF calls # <<>> /\ chat.finish = "Stop" THEN "ToolCalls" ELSE chat.finish
<1> DEFINE g == FlushToolSlots(chat)
           answer == Folded(chat)
<1>1. result' = ScoredCompletion(chat)
  BY EndReplyIs
<1>2. g.text = chat.text /\ g.finish = chat.finish
  BY FlushType DEF TypeOK
<1>3. /\ answer.text = FoldedText(g.text) /\ answer.calls = g.calls
      /\ answer.finish = IF g.calls # <<>> /\ g.finish = "Stop" THEN "ToolCalls" ELSE g.finish
  <2> HIDE DEF g
  <2> QED
    BY DEF Folded, g
<1> HIDE DEF g, answer
<1>4. chat.failed => result'.kind = "Transient"
  BY <1>1 DEF ScoredCompletion
<1>5. ~chat.failed => result'.kind = "Ok" /\ result'.answer = answer
  BY <1>1 DEF ScoredCompletion, answer
<1> QED
  BY <1>2, <1>3, <1>4, <1>5 DEF Scored, FoldedText, g

\* What the answer's calls are of.
LEMMA AnswerCalls ==
    ASSUME TypeOK, SentFits, ChatFollows, ChatNeverMixes, EndReply
    PROVE  /\ ~sent.torn => FlushToolSlots(chat).calls = MadeUpTo(plan, Len(plan.calls))
           /\ \A got \in ToSet(FlushToolSlots(chat).calls) : Taken(plan, got)
<1>1. /\ job.kind = "reply" /\ plan \in Plans /\ RepliesAsVendorsDo(plan)
      /\ Len(sent.calls) = Len(plan.calls) /\ \A k \in Began : Whole(k)
      /\ OwnIndexes(plan) => \A got \in ToSet(FlushToolSlots(chat).calls) : Taken(plan, got)
  BY EndReplyIs, FlushTakes
<1>2. CASE ~sent.torn
  <2>1. PICK m \in 0 .. Len(sent.calls) : Holding(m)
    BY <1>1, <1>2 DEF ChatFollows
  <2>2. FlushToolSlots(chat).calls = MadeUpTo(plan, Len(plan.calls))
    <3>1. FlushToolSlots(chat).calls = MadeUpTo(plan, Len(sent.calls))
      BY <1>1, <2>1, FlushMakes
    <3> HIDE DEF plan
    <3> QED
      BY <1>1, <3>1
  <2>3. \A x : x \in ToSet(MadeUpTo(plan, Len(plan.calls))) =>
               \E k \in DOMAIN plan.calls : plan.calls[k].tool # "none" /\ x = Made(plan.calls[k])
    BY <1>1, MadeMembers
  <2> HIDE DEF plan
  <2>4. \A got \in ToSet(FlushToolSlots(chat).calls) : Taken(plan, got)
    BY <2>2, <2>3, MadeFields DEF Taken, TakenFrom
  <2> QED
    BY <2>2, <2>4
<1>3. CASE sent.torn
  <2>1. plan.parallel \in BOOLEAN
    BY <1>1, SentFacts
  <2> HIDE DEF plan
  <2>2. plan.parallel
    BY <1>1, <1>3, <2>1 DEF SentFits
  <2>3. OwnIndexes(plan)
    BY <1>1, <2>2 DEF RepliesAsVendorsDo
  <2> QED
    BY <1>1, <1>3, <2>3
<1> QED
  BY <1>2, <1>3

\* What the stream comes to at the end of a reply.
LEMMA StreamReads ==
    ASSUME TypeOK, SentFits, StreamFollows, EndReply, ~stream.error,
           NEW best, best = stream.calls.best \cup Flush(stream.calls.slots)
    PROVE  /\ "path" \in best <=>
                 \E k \in DOMAIN plan.calls : plan.calls[k].tool = "read_file" /\ JudgedOf(plan, k) = "path"
           /\ best # {} \/ stream.calls.other <=> \E k \in DOMAIN plan.calls : plan.calls[k].tool # "none"
<1>1. job.kind = "reply" /\ DOMAIN plan.calls = Began /\ \A k \in Began : Whole(k)
  BY EndReplyIs
<1>2. \A k \in Began : HeardTool(k) = plan.calls[k].tool
  BY <1>1, HeardWhole
<1>3. (\E open \in SUBSET Began : Watching(open)) /\ Judged
  BY <1>1 DEF StreamFollows
<1>4. /\ \A k \in Began : plan.calls[k].tool = "read_file" => JudgedOf(plan, k) \in best
      /\ \A b \in best : \E k \in Began : HeardTool(k) = "read_file" /\ b = JudgedOf(plan, k)
  BY <1>1, <1>3, OpenIsJudged
<1>5. stream.calls.other = \E k \in Began : HeardTool(k) \notin {"none", "read_file"}
  BY <1>3 DEF Judged
<1> HIDE DEF plan
<1>6. "path" \in best <=> \E k \in Began : plan.calls[k].tool = "read_file" /\ JudgedOf(plan, k) = "path"
  BY <1>2, <1>4
<1>7. best # {} <=> \E k \in Began : plan.calls[k].tool = "read_file"
  BY <1>2, <1>4
<1>8. stream.calls.other <=> \E k \in Began : plan.calls[k].tool \notin {"none", "read_file"}
  BY <1>2, <1>5
<1> QED
  BY <1>1, <1>6, <1>7, <1>8

LEMMA GradesAgree ==
    ASSUME TypeOK, SentFits, StreamFollows, EndReply, ~stream.error
    PROVE  StreamGrade = ChatGrade(MadeCalls)
<1> DEFINE best == stream.calls.best \cup Flush(stream.calls.slots)
<1>1. plan \in Plans /\ MadeCalls = MadeUpTo(plan, Len(plan.calls))
  BY EndReplyIs, MadeCallsAre
<1>2. /\ "path" \in best <=>
            \E k \in DOMAIN plan.calls : plan.calls[k].tool = "read_file" /\ JudgedOf(plan, k) = "path"
      /\ best # {} \/ stream.calls.other <=> \E k \in DOMAIN plan.calls : plan.calls[k].tool # "none"
  BY StreamReads
<1>3. /\ \A x : x \in ToSet(MadeCalls) <=>
                \E k \in DOMAIN plan.calls : plan.calls[k].tool # "none" /\ x = Made(plan.calls[k])
      /\ MadeCalls = <<>> <=> \A k \in DOMAIN plan.calls : plan.calls[k].tool = "none"
  BY <1>1, MadeMembers
<1> HIDE DEF plan, best
<1>4. (\E c \in ToSet(MadeCalls) : c.tool = "read_file" /\ c.args = "path") <=> "path" \in best
  BY <1>2, <1>3, MadeFields
<1>5. MadeCalls # <<>> <=> best # {} \/ stream.calls.other
  BY <1>2, <1>3
<1>6. StreamGrade = Grade("path" \in best, best # {} \/ stream.calls.other)
  BY DEF StreamGrade, best
<1> QED
  BY <1>4, <1>5, <1>6 DEF ChatGrade, Grade

\* Both readings at the end of a reply.
LEMMA EndReplyReads ==
    ASSUME TypeOK, SentFits, ChatFollows, ChatNeverMixes, StreamFollows, FailFollows, EndReply
    PROVE  CallsAsMade' /\ ChatAndStreamAgree'
<1> SUFFICES ASSUME Scored' PROVE CallsAsMade' /\ ChatAndStreamAgree'
  BY DEF CallsAsMade, ChatAndStreamAgree
<1> DEFINE calls == FlushToolSlots(chat).calls
<1>1. /\ job.kind = "reply" /\ result = Pending /\ sent' = sent /\ stream' = stream /\ plan' = plan
      /\ plan \in Plans
  BY EndReplyIs
<1>2. /\ ~chat.failed /\ result'.answer.calls = calls
      /\ result'.answer.finish = IF calls # <<>> /\ chat.finish = "Stop" THEN "ToolCalls" ELSE chat.finish
  BY AnswerIs
<1>3. ~stream.error /\ stream.finish = chat.finish
  BY <1>1, <1>2 DEF FailFollows, StreamFollows
<1>4. /\ ~sent.torn => calls = MadeCalls
      /\ \A got \in ToSet(calls) : Taken(plan, got)
  BY AnswerCalls, MadeCallsAre
<1>5. StreamGrade = ChatGrade(MadeCalls)
  BY <1>3, GradesAgree
<1>6. /\ \A x : x \in ToSet(MadeCalls) <=>
                \E k \in DOMAIN plan.calls : plan.calls[k].tool # "none" /\ x = Made(plan.calls[k])
      /\ MadeCalls = <<>> <=> \A k \in DOMAIN plan.calls : plan.calls[k].tool = "none"
  BY <1>1, MadeCallsAre, MadeMembers
<1>7. calls \in Seq(ChatCalls)
  <2>1. ChatOK(FlushToolSlots(chat))
    BY FlushType DEF TypeOK
  <2> QED
    BY <2>1 DEF ChatOK
<1>8. MadeCalls' = MadeCalls /\ StreamGrade' = StreamGrade
  <2>1. StreamGrade' = StreamGrade
    BY <1>1 DEF StreamGrade
  <2> HIDE DEF plan
  <2> QED
    BY <1>1, <2>1 DEF MadeCalls
<1> HIDE DEF plan, calls
<1>9. \A got \in ToSet(calls) :
         /\ MadeCalls # <<>>
         /\ got.args = "path" => \E c \in ToSet(MadeCalls) : c.tool = got.tool /\ c.args = "path"
  <2> SUFFICES ASSUME NEW got \in ToSet(calls)
               PROVE  /\ MadeCalls # <<>>
                      /\ got.args = "path" => \E c \in ToSet(MadeCalls) : c.tool = got.tool /\ c.args = "path"
    OBVIOUS
  <2>1. PICK k \in DOMAIN plan.calls : TakenFrom(plan, k, got) /\ got.tool # "none"
    BY <1>4 DEF Taken
  <2>2. Made(plan.calls[k]) \in ToSet(MadeCalls) /\ MadeCalls # <<>>
    BY <1>6, <2>1 DEF TakenFrom
  <2> QED
    BY <2>1, <2>2, MadeFields DEF TakenFrom
<1>10. calls # <<>> => MadeCalls # <<>>
  <2> SUFFICES ASSUME calls # <<>> PROVE MadeCalls # <<>>
    OBVIOUS
  <2>1. calls[1] \in ToSet(calls)
    <3>1. Len(calls) \in Nat \ {0} /\ DOMAIN calls = 1 .. Len(calls)
      BY <1>7, EmptySeq
    <3> QED
      BY <3>1 DEF ToSet
  <2> QED
    BY <1>9, <2>1
<1>11. CallsAsMade'
  BY <1>1, <1>2, <1>4, <1>8, <1>9 DEF CallsAsMade
<1>12. ChatAndStreamAgree'
  BY <1>1, <1>2, <1>3, <1>4, <1>5, <1>8, <1>10 DEF ChatAndStreamAgree, ChatGrade
<1> QED
  BY <1>11, <1>12

\* Only the end of a reply scores it.
LEMMA OnlyEndsScore ==
    ASSUME [Next]_vars, ~EndReply
    PROVE  UNCHANGED vars \/ ~Scored'
<1>1. CASE Ask \/ LookUp
  BY <1>1 DEF Ask, LookUp, Scored
<1>2. CASE Break
  BY <1>2, MapClientErrorKind DEF Break, Scored
<1>3. CASE Say \/ StartCall \/ EndAll \/ GiveReason \/ CountUsage
  BY <1>3 DEF Say, StartCall, EndAll, GiveReason, CountUsage, Hear, Replying, Scored, Pending
<1>4. ASSUME NEW k \in DOMAIN sent.calls, NameCall(k) \/ SendPart(k) \/ EndCall(k)
      PROVE ~Scored'
  <2>1. result = Pending /\ result' = result
    BY <1>4, Zenon DEF NameCall, SendPart, EndCall, Hear, Replying
  <2> QED
    BY <2>1 DEF Scored, Pending
<1> QED
  BY <1>1, <1>2, <1>3, <1>4 DEF Next

\* Before anything is sent both readings are at their start.
LEMMA StartFollows ==
    ASSUME Init
    PROVE  ChatFollows /\ ChatNeverMixes /\ StreamFollows
<1>1. /\ sent.calls = <<>> /\ Len(sent.calls) = 0 /\ Began = {}
      /\ chat.calls = <<>> /\ chat.order = <<>> /\ DOMAIN chat.slots = {} /\ chat.finish = "Stop"
      /\ DOMAIN stream.calls.slots = {} /\ stream.calls.best = {} /\ stream.calls.other = FALSE
      /\ stream.finish = "Stop"
  BY DEF Init, NothingSent, FoldStart, StreamStart, Began
<1>2. MadeUpTo(plan, 0) = <<>>
  <2>1. [k \in 1 .. 0 |-> MadeOf(plan, k)] = <<>>
    OBVIOUS
  <2> QED
    BY <2>1, FlattenNone DEF MadeUpTo
<1> HIDE DEF plan
<1>3. Holding(0)
  <2>1. 1 .. 0 = {} /\ (0 + 1) .. 0 = {} /\ Len(chat.order) = 0
    BY <1>1
  <2> QED
    BY <1>1, <1>2, <2>1 DEF Holding
<1>4. ChatFollows
  BY <1>1, <1>3 DEF ChatFollows
<1>5. ChatNeverMixes
  <2>1. ToSet(chat.calls) = {}
    BY <1>1 DEF ToSet
  <2> QED
    BY <1>1, <2>1 DEF ChatNeverMixes
<1>6. StreamFollows
  <2>1. PICK open \in SUBSET Began : open = {}
    OBVIOUS
  <2>2. {IndexOf(plan, k) : k \in open} = {}
    BY <2>1
  <2>3. Watching(open)
    BY <1>1, <2>1, <2>2 DEF Watching
  <2>4. Judged
    BY <1>1 DEF Judged
  <2> QED
    BY <1>1, <2>3, <2>4 DEF StreamFollows
<1> QED
  BY <1>4, <1>5, <1>6

----------------------------------------------------------------------------
(* Text.                                                                   *)

LEMMA KeepsText ==
    ASSUME TextFollows, job' = job, sent'.said = sent.said, chat'.text = chat.text
    PROVE  TextFollows'
<1>1. plan' = plan
  BY DEF plan
<1> HIDE DEF plan
<1> QED
  BY <1>1 DEF TextFollows

LEMMA SayAddsText == ASSUME TypeOK, TextFollows, Say PROVE TextFollows'
<1> DEFINE n == sent.said + 1
           part == plan.said[n]
<1>1. /\ job' = job /\ sent' = [sent EXCEPT !.said = n] /\ n \in 1 .. Len(plan.said)
      /\ part \in STRING /\ Hear([ev |-> "Text", part |-> part])
  BY SayIs
<1>2. job.kind = "reply" /\ plan' = plan
  BY <1>1 DEF Say, Replying, plan
<1>3. plan.said \in Seq(STRING) /\ sent.said \in Nat
  BY <1>2, SentFacts
<1>4. sent'.said = n
  BY <1>1, SentType DEF SentOK
<1>5. chat'.text = Append(chat.text, part)
  <2> HIDE DEF part
  <2> QED
    BY <1>1, HearText
<1>6. SubSeq(plan.said, 1, n) = Append(SubSeq(plan.said, 1, sent.said), part)
  <2> DEFINE said == plan.said
  <2>1. said \in Seq(STRING) /\ n \in 1 .. Len(said) /\ n - 1 = sent.said
    BY <1>1, <1>3
  <2> HIDE DEF said
  <2>2. SubSeq(said, 1, n) = Append(SubSeq(said, 1, n - 1), said[n])
    BY <2>1, PrefixGrows
  <2> QED
    BY <2>1, <2>2 DEF said
<1> HIDE DEF plan, n, part
<1> QED
  BY <1>2, <1>4, <1>5, <1>6 DEF TextFollows

LEMMA StepAddsText == ASSUME TypeOK, SentFits, TextFollows, [Next]_vars PROVE TextFollows'
<1>1. CASE Say
  BY <1>1, SayAddsText
<1>2. CASE StartCall
  <2> DEFINE call == plan.calls[Len(sent.calls) + 1]
             tool == IF plan.split THEN "none" ELSE call.tool
             index == call.index
             id == call.id
  <2>1. /\ job' = job /\ sent'.said = sent.said /\ Hear(Begin(index, id, tool))
        /\ index \in Nat /\ id \in Ids /\ tool \in Tools
    BY <1>2, StartCallIs
  <2>2. chat'.text = chat.text
    <3> HIDE DEF index, id, tool
    <3> QED
      BY <2>1, BeginLeaves
  <2> QED
    BY <2>1, <2>2, KeepsText
<1>3. ASSUME NEW k \in DOMAIN sent.calls, NameCall(k) PROVE TextFollows'
  <2>1. k \in DOMAIN plan.calls
    BY <1>3, NameCallFits
  <2>2. /\ job' = job /\ sent'.said = sent.said
        /\ Hear(Begin(plan.calls[k].index, "", plan.calls[k].tool))
        /\ plan.calls[k].index \in Nat /\ "" \in Ids /\ plan.calls[k].tool \in Tools
    BY <1>3, <2>1, NameCallIs
  <2>3. chat'.text = chat.text
    <3> HIDE DEF plan
    <3> QED
      BY <2>2, BeginLeaves
  <2> QED
    BY <2>2, <2>3, KeepsText
<1>4. ASSUME NEW k \in DOMAIN sent.calls, SendPart(k) PROVE TextFollows'
  <2> DEFINE index == plan.calls[k].index
             part == plan.calls[k].parts[sent.calls[k].parts + 1]
  <2>1. k \in DOMAIN plan.calls /\ sent.calls[k].parts <= Len(plan.calls[k].parts)
    BY <1>4, SendPartFits
  <2>2. /\ job' = job /\ sent'.said = sent.said
        /\ Hear([ev |-> "Delta", index |-> index, part |-> part]) /\ index \in Nat /\ part \in STRING
    BY <1>4, <2>1, SendPartIs
  <2>3. chat'.text = chat.text
    <3> HIDE DEF index, part
    <3> QED
      BY <2>2, DeltaLeaves
  <2> QED
    BY <2>2, <2>3, KeepsText
<1>5. ASSUME NEW k \in DOMAIN sent.calls, EndCall(k) PROVE TextFollows'
  BY <1>5, EndCallIs, EndLeaves, KeepsText
<1>6. CASE EndAll
  BY <1>6, EndAllIs, EndLeaves, KeepsText
<1>7. CASE GiveReason
  <2>1. /\ job' = job /\ sent'.said = sent.said
        /\ Hear([ev |-> "Finish", reason |-> plan.reason]) /\ plan.reason \in STRING
    BY <1>7, GiveReasonIs
  <2>2. chat'.text = chat.text
    <3> HIDE DEF plan
    <3> QED
      BY <2>1, HearFinish
  <2> QED
    BY <2>1, <2>2, KeepsText
<1>8. CASE CountUsage
  BY <1>8, CountUsageIs, HearUsage, KeepsText
<1>9. CASE Settling
  <2>1. job' = job /\ sent' = sent /\ chat' = chat
    BY <1>9 DEF Settling, Ask, LookUp, EndReply, Break, vars
  <2> QED
    BY <2>1, KeepsText
<1> QED
  BY <1>1, <1>2, <1>3, <1>4, <1>5, <1>6, <1>7, <1>8, <1>9 DEF Next, Settling

----------------------------------------------------------------------------
(* Thoughts.                                                               *)

\* What StripThinkBlocks has before the first piece and after each.
Strips(R, text) ==
    /\ R[0] = [at |-> "out", out |-> <<>>]
    /\ \A i \in 1 .. Len(text) : R[i] = StripStep(text, R[i - 1], i)

LEMMA StripsTo ==
    ASSUME NEW text \in Seq(STRING)
    PROVE  \E R : Strips(R, text) /\ StripThinkBlocks(text) = R[Len(text)].out
<1>1. PICK n \in Nat : n = Len(text)
  OBVIOUS
<1> DEFINE start == [at |-> "out", out |-> <<>>]
           Step(R, i) == IF i = 0 THEN start ELSE StripStep(text, R[i - 1], i)
           Fits(R, k) == R = [i \in 0 .. k |-> Step(R, i)]
           T == {k \in Nat : \E R : Fits(R, k)}
<1>2. 0 \in T
  <2> DEFINE Q == [i \in 0 .. 0 |-> start]
  <2> HIDE DEF start
  <2>1. \A i \in 0 .. 0 : Step(Q, i) = start
    OBVIOUS
  <2>2. Fits(Q, 0)
    <3> HIDE DEF Step
    <3> QED
      BY <2>1
  <2> HIDE DEF Fits, Q
  <2> QED
    BY <2>2
<1>3. ASSUME NEW k \in 0 .. (n - 1), k \in T PROVE k + 1 \in T
  <2>1. PICK R : Fits(R, k)
    BY <1>3
  <2> DEFINE Q == [i \in 0 .. (k + 1) |-> IF i <= k THEN R[i] ELSE Step(R, k + 1)]
  <2> HIDE DEF start
  <2>2. \A i \in 0 .. k : Q[i] = R[i]
    OBVIOUS
  <2>3. \A i \in 0 .. (k + 1) : Step(Q, i) = Step(R, i)
    <3> SUFFICES ASSUME NEW i \in 0 .. (k + 1) PROVE Step(Q, i) = Step(R, i)
      OBVIOUS
    <3>1. CASE i = 0
      BY <3>1
    <3>2. CASE i # 0
      <4>1. i - 1 \in 0 .. k
        BY <3>2
      <4>2. Q[i - 1] = R[i - 1]
        BY <2>2, <4>1
      <4> HIDE DEF Q
      <4> QED
        BY <3>2, <4>2
    <3> QED
      BY <3>1, <3>2
  <2>4. \A i \in 0 .. k : R[i] = Step(R, i)
    <3> HIDE DEF Step
    <3> QED
      BY <2>1
  <2>5. Fits(Q, k + 1)
    <3> HIDE DEF Step
    <3>1. ASSUME NEW i \in 0 .. (k + 1) PROVE (IF i <= k THEN R[i] ELSE Step(R, k + 1)) = Step(Q, i)
      <4>1. CASE i <= k
        <5>1. i \in 0 .. k
          BY <4>1
        <5> HIDE DEF Q
        <5> QED
          BY <2>3, <2>4, <4>1, <5>1
      <4>2. CASE i = k + 1
        <5> HIDE DEF Q
        <5> QED
          BY <2>3, <4>2
      <4> QED
        BY <4>1, <4>2
    <3> QED
      BY <3>1
  <2>6. k + 1 \in Nat
    BY <1>3
  <2> HIDE DEF Q, Fits
  <2> QED
    BY <2>5, <2>6
<1>4. \A i \in 0 .. n : i \in T
  <2> HIDE DEF T
  <2> QED
    BY <1>2, <1>3, UpTo
<1> DEFINE upTo == CHOOSE R : Fits(R, n)
<1>5. Fits(upTo, n)
  <2>1. \E R : Fits(R, n)
    <3> HIDE DEF Fits, upTo
    <3>1. n \in T
      BY <1>4
    <3> QED
      BY <3>1
  <2> QED
    BY <2>1, Zenon
<1>6. StripThinkBlocks(text) = upTo[n].out
  BY <1>1, Zenon DEF StripThinkBlocks
<1>7. \A i \in 0 .. n : upTo[i] = Step(upTo, i)
  <2> HIDE DEF upTo, Step
  <2> QED
    BY <1>5
<1>8. Strips(upTo, text)
  <2> HIDE DEF upTo
  <2> QED
    BY <1>1, <1>7 DEF Strips
<1> QED
  <2> HIDE DEF upTo
  <2> QED
    BY <1>1, <1>6, <1>8

Places == {"out", "open", "in", "close"}
Strip == [at : Places, out : Seq(STRING)]

\* Where a piece leaves the text, by where the one before it left it.
StripsOne(text, r, g, i) ==
    /\ g.at = CASE r.at = "open"  -> "in"
                [] r.at = "close" -> "out"
                [] r.at = "in"    -> IF TagAt(text, i, Close) THEN "close" ELSE "in"
                [] r.at = "out"   -> IF TagAt(text, i, Open) THEN "open" ELSE "out"
    /\ g.out = IF r.at = "out" /\ ~TagAt(text, i, Open) THEN Append(r.out, text[i]) ELSE r.out

LEMMA StripStepIs ==
    ASSUME NEW text \in Seq(STRING), NEW r \in Strip, NEW i \in 1 .. Len(text),
           NEW g, g = StripStep(text, r, i)
    PROVE  g \in Strip /\ StripsOne(text, r, g, i)
<1>1. text[i] \in STRING /\ r.at \in Places /\ r.out \in Seq(STRING)
  BY DEF Strip
<1> DEFINE more == Append(r.out, text[i])
<1>2. more \in Seq(STRING)
  BY <1>1
<1>3. CASE r.at = "open"
  <2>1. g = [r EXCEPT !.at = "in"]
    BY <1>3 DEF StripStep
  <2> QED
    BY <1>1, <1>3, <2>1 DEF Strip, Places, StripsOne
<1>4. CASE r.at = "close"
  <2>1. g = [r EXCEPT !.at = "out"]
    BY <1>4 DEF StripStep
  <2> QED
    BY <1>1, <1>4, <2>1 DEF Strip, Places, StripsOne
<1>5. CASE r.at = "in"
  <2>1. g = IF TagAt(text, i, Close) THEN [r EXCEPT !.at = "close"] ELSE r
    BY <1>5 DEF StripStep
  <2> QED
    BY <1>1, <1>5, <2>1 DEF Strip, Places, StripsOne
<1>6. CASE r.at = "out"
  <2>1. g = IF TagAt(text, i, Open) THEN [r EXCEPT !.at = "open"] ELSE [r EXCEPT !.out = more]
    BY <1>6 DEF StripStep
  <2> HIDE DEF more
  <2>2. /\ g \in Strip
        /\ g.at = IF TagAt(text, i, Open) THEN "open" ELSE "out"
        /\ g.out = IF TagAt(text, i, Open) THEN r.out ELSE more
    BY <1>1, <1>2, <1>6, <2>1 DEF Strip, Places
  <2> QED
    BY <1>6, <2>2 DEF StripsOne, more
<1> QED
  BY <1>1, <1>3, <1>4, <1>5, <1>6 DEF Places

\* A piece that begins or ends an opening tag begins no closing tag, and one
\* that ends a closing tag begins no opening tag.
LEMMA TagsApart ==
    ASSUME NEW text, NEW i \in Nat
    PROVE  /\ TagAt(text, i, Open) => ~TagAt(text, i, Close) /\ ~TagAt(text, i + 1, Close)
           /\ TagAt(text, i, Close) => ~TagAt(text, i + 1, Open)
<1>1. TagAt(text, i, Open) => text[i] = "<th" /\ text[i + 1] = "ink>"
  BY DEF TagAt, Open
<1>2. TagAt(text, i, Close) => text[i] = "</th" /\ text[i + 1] = "ink>"
  BY DEF TagAt, Close
<1>3. TagAt(text, i + 1, Open) => text[i + 1] = "<th"
  BY DEF TagAt, Open
<1>4. TagAt(text, i + 1, Close) => text[i + 1] = "</th"
  BY DEF TagAt, Close
<1> QED
  BY <1>1, <1>2, <1>3, <1>4

\* A thought open at piece i began before it, and no closing tag began since.
Thinking(text, j, i) == TagAt(text, j, Open) /\ \A k \in j .. i : ~TagAt(text, k, Close)
\* Every thought begun up to piece i was over with it.
AllOver(text, i) == \A j \in 1 .. i : TagAt(text, j, Open) => \E k \in j .. (i - 1) : TagAt(text, k, Close)

StripAt(text, r, i) ==
    /\ r \in Strip
    /\ r.at = "open" => i \in 1 .. Len(text) /\ TagAt(text, i, Open)
    /\ r.at = "in" => \E j \in 1 .. (i - 1) : Thinking(text, j, i)
    /\ r.at = "close" => TagAt(text, i, Close) /\ \E j \in 1 .. (i - 1) : Thinking(text, j, i - 1)
    /\ r.at = "out" => AllOver(text, i)

LEMMA StripStepKeeps ==
    ASSUME NEW text \in Seq(STRING), NEW i \in 1 .. Len(text), NEW r, StripAt(text, r, i - 1),
           NEW g, g = StripStep(text, r, i)
    PROVE  /\ StripAt(text, g, i)
           /\ g.out = r.out \o (IF InThought(text, i) THEN <<>> ELSE <<text[i]>>)
<1>1. r \in Strip /\ r.at \in Places /\ r.out \in Seq(STRING) /\ text[i] \in STRING
  BY DEF StripAt, Strip
<1>2. g \in Strip /\ StripsOne(text, r, g, i)
  BY <1>1, StripStepIs, Zenon
<1>3. /\ i \in Nat /\ i - 1 \in Nat /\ (i - 1) + 1 = i /\ (i - 1) - 1 = i - 2 /\ i \in 1 .. Len(text)
  OBVIOUS
<1>4. r.out \o <<>> = r.out /\ r.out \o <<text[i]>> = Append(r.out, text[i])
  BY <1>1, ConcatEmptySeq, AppendIsConcat
<1>5. CASE r.at = "open"
  <2>1. i - 1 \in 1 .. Len(text) /\ TagAt(text, i - 1, Open)
    BY <1>5 DEF StripAt
  <2>2. ~TagAt(text, i - 1, Close) /\ ~TagAt(text, i, Close)
    BY <1>3, <2>1, TagsApart
  <2>3. g.at = "in" /\ g.out = r.out
    BY <1>2, <1>5 DEF StripsOne
  <2>4. Thinking(text, i - 1, i) /\ i - 1 \in 1 .. (i - 1)
    BY <2>1, <2>2 DEF Thinking
  <2>5. InThought(text, i)
    BY <2>1, <2>2 DEF InThought
  <2> QED
    BY <1>2, <1>4, <2>3, <2>4, <2>5 DEF StripAt
<1>6. CASE r.at = "close"
  <2>1. TagAt(text, i - 1, Close)
    BY <1>6 DEF StripAt
  <2>2. PICK j \in 1 .. (i - 2) : Thinking(text, j, i - 2)
    BY <1>3, <1>6 DEF StripAt
  <2>3. g.at = "out" /\ g.out = r.out
    BY <1>2, <1>6 DEF StripsOne
  <2>4. ~TagAt(text, i, Open)
    BY <1>3, <2>1, TagsApart
  <2>5. AllOver(text, i)
    BY <2>1, <2>4 DEF AllOver
  <2>6. InThought(text, i)
    BY <2>2 DEF InThought, Thinking
  <2> QED
    BY <1>2, <1>4, <2>3, <2>5, <2>6 DEF StripAt
<1>7. CASE r.at = "in"
  <2>1. PICK j \in 1 .. (i - 2) : Thinking(text, j, i - 1)
    BY <1>3, <1>7 DEF StripAt
  <2>2. g.at = (IF TagAt(text, i, Close) THEN "close" ELSE "in") /\ g.out = r.out
    BY <1>2, <1>7 DEF StripsOne
  <2>3. j \in 1 .. (i - 1) /\ (~TagAt(text, i, Close) => Thinking(text, j, i))
    BY <2>1 DEF Thinking
  <2>4. InThought(text, i)
    BY <2>1 DEF InThought, Thinking
  <2> QED
    BY <1>2, <1>4, <2>1, <2>2, <2>3, <2>4 DEF StripAt
<1>8. CASE r.at = "out"
  <2>1. AllOver(text, i - 1)
    BY <1>8 DEF StripAt
  <2>2. /\ g.at = IF TagAt(text, i, Open) THEN "open" ELSE "out"
        /\ g.out = IF TagAt(text, i, Open) THEN r.out ELSE Append(r.out, text[i])
    BY <1>2, <1>8 DEF StripsOne
  <2>3. ~TagAt(text, i, Open) => AllOver(text, i)
    BY <2>1 DEF AllOver
  <2>4. InThought(text, i) <=> TagAt(text, i, Open)
    <3>1. TagAt(text, i, Open) => InThought(text, i)
      BY DEF InThought
    <3>2. ASSUME InThought(text, i), ~TagAt(text, i, Open) PROVE FALSE
      <4>1. PICK j \in 1 .. i : TagAt(text, j, Open) /\ \A k \in j .. (i - 2) : ~TagAt(text, k, Close)
        BY <3>2 DEF InThought
      <4>2. j \in 1 .. (i - 1)
        BY <3>2, <4>1
      <4> QED
        BY <1>3, <2>1, <4>1, <4>2 DEF AllOver
    <3> QED
      BY <3>1, <3>2
  <2> QED
    BY <1>2, <1>3, <1>4, <2>2, <2>3, <2>4 DEF StripAt
<1> QED
  BY <1>1, <1>5, <1>6, <1>7, <1>8 DEF Places

\* What is left of a text are the pieces that are in no thought.
LEMMA ThoughtsGo ==
    ASSUME NEW text \in Seq(STRING)
    PROVE  StripThinkBlocks(text) =
               FlattenSeq([i \in 1 .. Len(text) |-> IF InThought(text, i) THEN <<>> ELSE <<text[i]>>])
<1> DEFINE kept == [i \in 1 .. Len(text) |-> IF InThought(text, i) THEN <<>> ELSE <<text[i]>>]
<1>1. PICK n \in Nat : n = Len(text)
  OBVIOUS
<1>2. PICK R : Strips(R, text) /\ StripThinkBlocks(text) = R[n].out
  BY <1>1, StripsTo
<1>3. kept \in Seq(Seq(STRING)) /\ Len(kept) = n
      /\ \A i \in 1 .. n : kept[i] = IF InThought(text, i) THEN <<>> ELSE <<text[i]>>
  <2>1. \A i \in 1 .. n : <<>> \in Seq(STRING) /\ <<text[i]>> \in Seq(STRING)
    BY <1>1
  <2>2. \A i \in 1 .. n : (IF InThought(text, i) THEN <<>> ELSE <<text[i]>>) \in Seq(STRING)
    BY <2>1
  <2> QED
    BY <1>1, <2>2
<1> HIDE DEF kept
<1>4. R[0].out = <<>> /\ StripAt(text, R[0], 0)
  <2>1. R[0].at = "out" /\ R[0].out = <<>> /\ R[0] \in Strip
    <3> DEFINE nothing == <<>>
    <3>1. nothing \in Seq(STRING)
      OBVIOUS
    <3>2. R[0] = [at |-> "out", out |-> nothing]
      BY <1>2 DEF Strips
    <3> HIDE DEF nothing
    <3>3. R[0].at = "out" /\ R[0].out = nothing /\ R[0] \in Strip
      BY <3>1, <3>2 DEF Strip, Places
    <3> QED
      BY <3>3 DEF nothing
  <2> QED
    BY <2>1 DEF StripAt, AllOver
<1> DEFINE T == {i \in Nat : StripAt(text, R[i], i)}
<1>5. ASSUME NEW i \in 0 .. (n - 1), i \in T PROVE i + 1 \in T
  <2>1. i + 1 \in 1 .. Len(text) /\ (i + 1) - 1 = i /\ i + 1 \in Nat
    BY <1>1
  <2>2. R[i + 1] = StripStep(text, R[i], i + 1)
    BY <1>2, <2>1 DEF Strips
  <2>3. StripAt(text, R[i + 1], i + 1)
    BY <1>5, <2>1, <2>2, StripStepKeeps
  <2> QED
    BY <2>1, <2>3
<1>6. \A i \in 0 .. n : StripAt(text, R[i], i)
  <2>1. 0 \in T
    BY <1>4
  <2> HIDE DEF T
  <2>2. \A i \in 0 .. n : i \in T
    BY <1>5, <2>1, UpTo
  <2> QED
    BY <2>2 DEF T
<1> DEFINE Q == [i \in 0 .. n |-> R[i].out]
<1>7. Joins(Q, kept)
  <2>1. Q[0] = <<>>
    BY <1>4
  <2>2. ASSUME NEW i \in 1 .. n PROVE Q[i] = Q[i - 1] \o kept[i]
    <3>1. i - 1 \in 0 .. n /\ i \in 0 .. n /\ i \in 1 .. Len(text)
      BY <1>1
    <3>2. R[i] = StripStep(text, R[i - 1], i) /\ StripAt(text, R[i - 1], i - 1)
      BY <1>2, <1>6, <3>1 DEF Strips
    <3>3. R[i].out = R[i - 1].out \o (IF InThought(text, i) THEN <<>> ELSE <<text[i]>>)
      BY <3>1, <3>2, StripStepKeeps
    <3>4. Q[i] = R[i].out /\ Q[i - 1] = R[i - 1].out
      BY <3>1
    <3> QED
      BY <1>3, <3>3, <3>4
  <2> HIDE DEF Q
  <2> QED
    BY <1>3, <2>1, <2>2 DEF Joins
<1>8. Q[n] = R[n].out
  BY <1>1
<1>9. FlattenSeq(kept) = Q[n]
  <2> HIDE DEF Q
  <2> QED
    BY <1>3, <1>7, FlattenIs
<1> QED
  BY <1>2, <1>8, <1>9 DEF kept

----------------------------------------------------------------------------
(* Conversations.                                                          *)

MapSeq(f, s) == [i \in 1 .. Len(s) |-> f[s[i]]]

LEMMA MapIs ==
    ASSUME NEW P, NEW s \in Seq(P), NEW f
    PROVE  Len(MapSeq(f, s)) = Len(s) /\ \A i \in 1 .. Len(s) : MapSeq(f, s)[i] = f[s[i]]
<1>1. Len(s) \in Nat
  OBVIOUS
<1> QED
  BY <1>1 DEF MapSeq

LEMMA MapType ==
    ASSUME NEW P, NEW Q, NEW f, \A x \in P : f[x] \in Q, NEW s \in Seq(P)
    PROVE  MapSeq(f, s) \in Seq(Q)
<1>1. \A i \in 1 .. Len(s) : f[s[i]] \in Q
  OBVIOUS
<1>2. Len(s) \in Nat
  OBVIOUS
<1> QED
  BY <1>1, <1>2 DEF MapSeq

LEMMA MapConcat ==
    ASSUME NEW P, NEW f, NEW s \in Seq(P), NEW t \in Seq(P)
    PROVE  MapSeq(f, s \o t) = MapSeq(f, s) \o MapSeq(f, t)
<1> DEFINE Q == {f[x] : x \in P}
           u == s \o t
           a == MapSeq(f, s)
           b == MapSeq(f, t)
           c == MapSeq(f, u)
           m == Len(s)
           n == Len(t)
<1>1. /\ u \in Seq(P) /\ Len(u) = m + n
      /\ \A i \in 1 .. (m + n) : u[i] = IF i <= m THEN s[i] ELSE t[i - m]
  BY ConcatProperties
<1>2. \A x \in P : f[x] \in Q
  OBVIOUS
<1> HIDE DEF u, Q
<1>3. a \in Seq(Q) /\ Len(a) = m /\ \A i \in 1 .. m : a[i] = f[s[i]]
  BY <1>2, MapType, MapIs
<1>4. b \in Seq(Q) /\ Len(b) = n /\ \A i \in 1 .. n : b[i] = f[t[i]]
  BY <1>2, MapType, MapIs
<1>5. c \in Seq(Q) /\ Len(c) = Len(u) /\ \A i \in 1 .. Len(u) : c[i] = f[u[i]]
  BY <1>1, <1>2, MapType, MapIs
<1>6. m \in Nat /\ n \in Nat
  OBVIOUS
<1> HIDE DEF a, b, c, m, n
<1>7. /\ a \o b \in Seq(Q) /\ Len(a \o b) = m + n
      /\ \A i \in 1 .. (m + n) : (a \o b)[i] = IF i <= m THEN a[i] ELSE b[i - m]
  <2>1. /\ a \o b \in Seq(Q) /\ Len(a \o b) = Len(a) + Len(b)
        /\ \A i \in 1 .. (Len(a) + Len(b)) : (a \o b)[i] = IF i <= Len(a) THEN a[i] ELSE b[i - Len(a)]
    BY <1>3, <1>4, ConcatProperties
  <2>2. Len(a) = m /\ Len(b) = n
    BY <1>3, <1>4
  <2> QED
    BY <2>1, <2>2, Zenon
<1>8. Len(c) = m + n /\ \A i \in 1 .. (m + n) : c[i] = f[u[i]]
  BY <1>1, <1>5
<1>9. \A i \in 1 .. (m + n) : c[i] = (a \o b)[i]
  <2> SUFFICES ASSUME NEW i \in 1 .. (m + n) PROVE c[i] = (a \o b)[i]
    OBVIOUS
  <2>1. CASE i <= m
    <3>1. i \in 1 .. m
      BY <1>6, <2>1
    <3>2. c[i] = f[s[i]] /\ (a \o b)[i] = a[i]
      BY <1>1, <1>7, <1>8, <2>1
    <3> QED
      BY <1>3, <3>1, <3>2
  <2>2. CASE ~(i <= m)
    <3>1. i - m \in 1 .. n
      BY <1>6, <2>2
    <3>2. c[i] = f[t[i - m]] /\ (a \o b)[i] = b[i - m]
      BY <1>1, <1>7, <1>8, <2>2
    <3> QED
      BY <1>4, <3>1, <3>2
  <2> QED
    BY <2>1, <2>2
<1>10. c = a \o b
  BY <1>5, <1>7, <1>8, <1>9, SeqEqual
<1> QED
  BY <1>10 DEF a, b, c, u

LEMMA MapNone == ASSUME NEW f PROVE MapSeq(f, <<>>) = <<>> /\ FlattenSeq(MapSeq(f, <<>>)) = <<>>
<1>1. MapSeq(f, <<>>) = <<>>
  BY DEF MapSeq
<1> QED
  BY <1>1, FlattenNone

LEMMA MapOne ==
    ASSUME NEW Q, NEW f, NEW x, f[x] \in Seq(Q)
    PROVE  FlattenSeq(MapSeq(f, <<x>>)) = f[x]
<1>1. MapSeq(f, <<x>>) = <<f[x]>>
  BY DEF MapSeq
<1> QED
  BY <1>1, FlattenOne

MapsInto(f, P, Q) == \A x \in P : f[x] \in Seq(Q)
ComesOf(t, f, s) == Len(t) = Len(s) /\ \A i \in 1 .. Len(s) : t[i] = FlattenSeq(MapSeq(f, s[i]))

\* To put sequences together and then what comes of their elements is to put
\* together what comes of each sequence.
LEMMA FlattenMaps ==
    ASSUME NEW P, NEW Q, NEW f, MapsInto(f, P, Q), NEW s \in Seq(Seq(P)),
           NEW t \in Seq(Seq(Q)), ComesOf(t, f, s)
    PROVE  FlattenSeq(MapSeq(f, FlattenSeq(s))) = FlattenSeq(t)
<1> USE DEF MapsInto, ComesOf
<1>1. PICK n \in Nat : n = Len(s)
  OBVIOUS
<1>2. PICK R : Joins(R, s) /\ FlattenSeq(s) = R[n]
  BY <1>1, FlattenJoins
<1>3. \A i \in 0 .. n : R[i] \in Seq(P)
  BY <1>1, <1>2, JoinsType
<1> DEFINE W == [i \in 0 .. n |-> FlattenSeq(MapSeq(f, R[i]))]
<1>4. W[0] = <<>>
  <2>1. R[0] = <<>>
    BY <1>2 DEF Joins
  <2> QED
    BY <2>1, MapNone
<1>5. ASSUME NEW i \in 1 .. n PROVE W[i] = W[i - 1] \o t[i]
  <2>1. i - 1 \in 0 .. n /\ i \in 0 .. n /\ i \in 1 .. Len(s)
    BY <1>1
  <2>2. R[i] = R[i - 1] \o s[i] /\ R[i - 1] \in Seq(P) /\ s[i] \in Seq(P)
    <3>1. R[i] = R[i - 1] \o s[i]
      BY <1>2, <2>1 DEF Joins
    <3>2. R[i - 1] \in Seq(P)
      BY <1>3, <2>1
    <3>3. s[i] \in Seq(P)
      BY <2>1
    <3> QED
      BY <3>1, <3>2, <3>3
  <2>3. MapSeq(f, R[i]) = MapSeq(f, R[i - 1]) \o MapSeq(f, s[i])
    <3> DEFINE a == R[i - 1]
               b == s[i]
    <3>1. a \in Seq(P) /\ b \in Seq(P) /\ R[i] = a \o b
      BY <2>2
    <3> HIDE DEF a, b
    <3>2. MapSeq(f, a \o b) = MapSeq(f, a) \o MapSeq(f, b)
      BY <3>1, MapConcat
    <3> QED
      BY <3>1, <3>2 DEF a, b
  <2>4. MapSeq(f, R[i - 1]) \in Seq(Seq(Q)) /\ MapSeq(f, s[i]) \in Seq(Seq(Q))
    BY <2>2, MapType
  <2>5. FlattenSeq(MapSeq(f, R[i])) = FlattenSeq(MapSeq(f, R[i - 1])) \o FlattenSeq(MapSeq(f, s[i]))
    BY <2>3, <2>4, FlattenConcat
  <2>6. t[i] = FlattenSeq(MapSeq(f, s[i]))
    BY <2>1
  <2> QED
    BY <2>1, <2>5, <2>6
<1>6. Joins(W, t)
  <2> HIDE DEF W
  <2> QED
    BY <1>1, <1>4, <1>5 DEF Joins
<1>7. W[n] = FlattenSeq(MapSeq(f, FlattenSeq(s)))
  BY <1>1, <1>2
<1>8. FlattenSeq(t) = W[n]
  <2> HIDE DEF W
  <2> QED
    BY <1>1, <1>6, FlattenIs
<1> QED
  BY <1>7, <1>8

Parts == [type : {"text", "image"}, body : STRING]
TextOfPart == [x \in Parts |-> TextOf(x)]
ImageOfPart == [x \in Parts |-> IF IsText(x) THEN <<>> ELSE <<x>>]
PartsText(parts) == FlattenSeq(MapSeq(TextOfPart, parts))

LEMMA PartTypes == \A x \in Parts : TextOfPart[x] \in Seq(STRING) /\ ImageOfPart[x] \in Seq(Parts)
<1>1. ASSUME NEW x \in Parts PROVE TextOf(x) \in Seq(STRING)
  <2>1. x.body \in STRING
    BY DEF Parts
  <2>2. <<x.body>> \in Seq(STRING) /\ <<>> \in Seq(STRING)
    BY <2>1
  <2> QED
    BY <2>2 DEF TextOf
<1>2. ASSUME NEW x \in Parts PROVE (IF IsText(x) THEN <<>> ELSE <<x>>) \in Seq(Parts)
  <2>1. <<x>> \in Seq(Parts) /\ <<>> \in Seq(Parts)
    OBVIOUS
  <2> QED
    BY <2>1
<1> QED
  BY <1>1, <1>2 DEF TextOfPart, ImageOfPart

LEMMA PartsAre ==
    ASSUME NEW parts \in Seq(Parts)
    PROVE  /\ \A content : content.parts = parts => ContentText(content) = PartsText(parts)
           /\ PartsText(parts) \in Seq(STRING)
           /\ Images(parts) = FlattenSeq(MapSeq(ImageOfPart, parts)) /\ Images(parts) \in Seq(Parts)
<1>1. \A i \in 1 .. Len(parts) : parts[i] \in Parts
  OBVIOUS
<1>2. [i \in 1 .. Len(parts) |-> TextOf(parts[i])] = MapSeq(TextOfPart, parts)
  BY <1>1 DEF MapSeq, TextOfPart
<1>3. [i \in 1 .. Len(parts) |-> IF IsText(parts[i]) THEN <<>> ELSE <<parts[i]>>] = MapSeq(ImageOfPart, parts)
  BY <1>1 DEF MapSeq, ImageOfPart
<1>4. MapSeq(TextOfPart, parts) \in Seq(Seq(STRING)) /\ MapSeq(ImageOfPart, parts) \in Seq(Seq(Parts))
  BY PartTypes, MapType
<1>5. \A content : content.parts = parts => ContentText(content) = PartsText(parts)
  BY <1>2 DEF ContentText, PartsText
<1>6. Images(parts) = FlattenSeq(MapSeq(ImageOfPart, parts))
  BY <1>3 DEF Images
<1> QED
  BY <1>4, <1>5, <1>6, FlattenType DEF PartsText

ItemKinds == {"call", "output", "assistant", "system", "user"}
SentItems == [item : ItemKinds, id : Ids, text : Seq(STRING), parts : Seq(Parts)]
ItemText == [it \in SentItems |-> it.text \o ContentText([parts |-> it.parts])]
ItemImages == [it \in SentItems |-> Images(it.parts)]

IsItem(it, item, id, text, parts) == it = [item |-> item, id |-> id, text |-> text, parts |-> parts]

LEMMA ItemType ==
    ASSUME NEW item \in ItemKinds, NEW id \in Ids, NEW text \in Seq(STRING), NEW parts \in Seq(Parts),
           NEW it, IsItem(it, item, id, text, parts)
    PROVE  it \in SentItems /\ it.item = item /\ it.id = id /\ it.text = text /\ it.parts = parts
BY DEF SentItems, IsItem

LEMMA ItemCarries ==
    ASSUME NEW it \in SentItems
    PROVE  /\ ItemText[it] = it.text \o PartsText(it.parts) /\ ItemText[it] \in Seq(STRING)
           /\ ItemImages[it] = Images(it.parts) /\ ItemImages[it] \in Seq(Parts)
<1>1. it.parts \in Seq(Parts) /\ it.text \in Seq(STRING)
  BY DEF SentItems
<1> DEFINE content == [parts |-> it.parts]
<1>2. content.parts = it.parts
  OBVIOUS
<1> HIDE DEF content
<1>3. ContentText(content) = PartsText(it.parts) /\ PartsText(it.parts) \in Seq(STRING)
      /\ Images(it.parts) \in Seq(Parts)
  BY <1>1, <1>2, PartsAre
<1>4. ItemText[it] = it.text \o ContentText(content) /\ ItemImages[it] = Images(it.parts)
  BY DEF ItemText, ItemImages, content
<1>5. it.text \o PartsText(it.parts) \in Seq(STRING)
  BY <1>1, <1>3, ConcatProperties
<1> QED
  BY <1>3, <1>4, <1>5

LEMMA NoParts == PartsText(<<>>) = <<>> /\ Images(<<>>) = <<>>
<1>1. Images(<<>>) = FlattenSeq(MapSeq(ImageOfPart, <<>>))
  <2>1. <<>> \in Seq(Parts)
    OBVIOUS
  <2> QED
    BY <2>1, PartsAre, Zenon
<1> QED
  BY <1>1, MapNone DEF PartsText

\* The images of a content have no text, and are all images.
LEMMA ImagesStay ==
    ASSUME NEW parts \in Seq(Parts), NEW images, images = Images(parts)
    PROVE  images \in Seq(Parts) /\ PartsText(images) = <<>> /\ Images(images) = images
<1>1. PICK s : s = MapSeq(ImageOfPart, parts)
  OBVIOUS
<1>2. images = FlattenSeq(s) /\ images \in Seq(Parts)
  BY <1>1, PartsAre
<1>3. s \in Seq(Seq(Parts))
  <2>1. \A x \in Parts : ImageOfPart[x] \in Seq(Parts)
    BY PartTypes
  <2> QED
    BY <1>1, <2>1, MapType
<1>4. \A i \in 1 .. Len(s) : s[i] = <<>> \/ \E x \in Parts : s[i] = <<x>> /\ ~IsText(x)
  <2> SUFFICES ASSUME NEW i \in 1 .. Len(s)
               PROVE  s[i] = <<>> \/ \E x \in Parts : s[i] = <<x>> /\ ~IsText(x)
    OBVIOUS
  <2>1. Len(s) = Len(parts) /\ s[i] = ImageOfPart[parts[i]]
    BY <1>1, MapIs
  <2>2. parts[i] \in Parts
    BY <2>1
  <2> QED
    BY <2>1, <2>2 DEF ImageOfPart
<1>5. \A i \in 1 .. Len(s) :
         FlattenSeq(MapSeq(TextOfPart, s[i])) = <<>> /\ FlattenSeq(MapSeq(ImageOfPart, s[i])) = s[i]
  <2> SUFFICES ASSUME NEW i \in 1 .. Len(s)
               PROVE  /\ FlattenSeq(MapSeq(TextOfPart, s[i])) = <<>>
                      /\ FlattenSeq(MapSeq(ImageOfPart, s[i])) = s[i]
    OBVIOUS
  <2>1. CASE s[i] = <<>>
    BY <2>1, MapNone
  <2>2. ASSUME NEW x \in Parts, s[i] = <<x>>, ~IsText(x)
        PROVE  /\ FlattenSeq(MapSeq(TextOfPart, s[i])) = <<>>
               /\ FlattenSeq(MapSeq(ImageOfPart, s[i])) = s[i]
    <3>1. TextOfPart[x] = <<>> /\ ImageOfPart[x] = <<x>>
      BY <2>2 DEF TextOfPart, ImageOfPart, TextOf
    <3>2. TextOfPart[x] \in Seq(STRING) /\ ImageOfPart[x] \in Seq(Parts)
      BY PartTypes
    <3>3. FlattenSeq(MapSeq(TextOfPart, <<x>>)) = TextOfPart[x]
      BY <3>2, MapOne
    <3>4. FlattenSeq(MapSeq(ImageOfPart, <<x>>)) = ImageOfPart[x]
      BY <3>2, MapOne
    <3> QED
      BY <2>2, <3>1, <3>3, <3>4
  <2> QED
    BY <1>4, <2>1, <2>2
<1>6. PartsText(images) = <<>>
  <2> DEFINE t == [i \in 1 .. Len(s) |-> <<>>]
  <2>1. t \in Seq(Seq(STRING)) /\ Len(t) = Len(s) /\ \A i \in 1 .. Len(s) : t[i] = <<>>
    <3>1. Len(s) \in Nat /\ <<>> \in Seq(STRING)
      BY <1>3
    <3> QED
      BY <3>1
  <2> HIDE DEF t
  <2>2. \A x \in Parts : TextOfPart[x] \in Seq(STRING)
    BY PartTypes
  <2>5. \A i \in 1 .. Len(s) : t[i] = FlattenSeq(MapSeq(TextOfPart, s[i]))
    BY <1>5, <2>1
  <2>3. FlattenSeq(MapSeq(TextOfPart, FlattenSeq(s))) = FlattenSeq(t)
    <3>1. t \in Seq(Seq(STRING))
      BY <2>1
    <3>2. MapsInto(TextOfPart, Parts, STRING) /\ ComesOf(t, TextOfPart, s)
      BY <2>1, <2>2, <2>5 DEF MapsInto, ComesOf
    <3> QED
      BY <1>3, <3>1, <3>2, FlattenMaps
  <2>4. FlattenSeq(t) = <<>>
    BY <2>1, FlattenEmpties
  <2> QED
    BY <1>2, <2>3, <2>4 DEF PartsText
<1>7. Images(images) = images
  <2>1. MapsInto(ImageOfPart, Parts, Parts) /\ ComesOf(s, ImageOfPart, s)
    BY <1>5, PartTypes DEF MapsInto, ComesOf
  <2>2. FlattenSeq(MapSeq(ImageOfPart, FlattenSeq(s))) = FlattenSeq(s)
    BY <1>3, <2>1, FlattenMaps
  <2> QED
    BY <1>2, <2>2, PartsAre
<1> QED
  BY <1>2, <1>6, <1>7

\* A content as its parts.
LEMMA ContentIs ==
    ASSUME NEW content \in MessageContents,
           content.whole => Len(content.parts) = 1 /\ content.parts[1].type = "text",
           NEW parts, parts = ContentParts(content)
    PROVE  /\ parts \in Seq(Parts)
           /\ ContentText(content) \in Seq(STRING) /\ Images(content.parts) \in Seq(Parts)
           /\ PartsText(parts) = ContentText(content) /\ Images(parts) = Images(content.parts)
           /\ parts = <<>> => ContentText(content) = <<>> /\ Images(content.parts) = <<>>
<1>1. content.parts \in Seq(Parts)
  BY DEF MessageContents, Parts
<1>2. /\ ContentText(content) = PartsText(content.parts) /\ ContentText(content) \in Seq(STRING)
      /\ Images(content.parts) = FlattenSeq(MapSeq(ImageOfPart, content.parts))
      /\ Images(content.parts) \in Seq(Parts)
  BY <1>1, PartsAre
<1>3. CASE ~(content.whole /\ ContentText(content) = <<>>)
  <2>1. parts = content.parts
    BY <1>3 DEF ContentParts
  <2> QED
    BY <1>1, <1>2, <2>1, NoParts
<1>4. CASE content.whole /\ ContentText(content) = <<>>
  <2>1. parts = <<>>
    BY <1>4 DEF ContentParts
  <2>2. PICK x \in Parts : content.parts = <<x>> /\ IsText(x)
    <3>1. content.parts[1] \in Parts /\ content.parts = <<content.parts[1]>> /\ IsText(content.parts[1])
      BY <1>1, <1>4 DEF IsText
    <3> QED
      BY <3>1
  <2>3. ImageOfPart[x] = <<>> /\ ImageOfPart[x] \in Seq(Parts)
    BY <2>2 DEF ImageOfPart
  <2>4. FlattenSeq(MapSeq(ImageOfPart, <<x>>)) = ImageOfPart[x]
    BY <2>3, MapOne
  <2>5. Images(content.parts) = <<>>
    BY <1>2, <2>2, <2>3, <2>4
  <2>6. parts \in Seq(Parts)
    BY <2>1
  <2> QED
    BY <1>2, <1>4, <2>1, <2>5, <2>6, NoParts
<1> QED
  BY <1>3, <1>4

\* What one message comes to.
Carries(items, msg) ==
    /\ items \in Seq(SentItems)
    /\ FlattenSeq(MapSeq(ItemText, items)) = ContentText(msg.content)
    /\ FlattenSeq(MapSeq(ItemImages, items)) =
           IF msg.role = "system" THEN <<>> ELSE Images(msg.content.parts)
    /\ \A it \in ToSet(items) : it.item = "output" => msg.role = "tool" /\ it.id = msg.id
    /\ msg.role = "assistant" =>
           \A id \in ToSet(msg.calls) : \E it \in ToSet(items) : it.item = "call" /\ it.id = id

LEMMA OneItem ==
    ASSUME NEW it \in SentItems, NEW items, items = <<it>>
    PROVE  /\ items \in Seq(SentItems) /\ ToSet(items) = {it}
           /\ FlattenSeq(MapSeq(ItemText, items)) = it.text \o PartsText(it.parts)
           /\ FlattenSeq(MapSeq(ItemImages, items)) = Images(it.parts)
<1>1. /\ ItemText[it] = it.text \o PartsText(it.parts) /\ ItemText[it] \in Seq(STRING)
      /\ ItemImages[it] = Images(it.parts) /\ ItemImages[it] \in Seq(Parts)
  BY ItemCarries
<1>2. FlattenSeq(MapSeq(ItemText, <<it>>)) = ItemText[it]
  BY <1>1, MapOne
<1>3. FlattenSeq(MapSeq(ItemImages, <<it>>)) = ItemImages[it]
  BY <1>1, MapOne
<1>4. items \in Seq(SentItems) /\ ToSet(items) = {it}
  BY DEF ToSet
<1> QED
  BY <1>1, <1>2, <1>3, <1>4

LEMMA CallItemIs ==
    ASSUME NEW id \in STRING
    PROVE  /\ CallItem(id) \in SentItems /\ CallItem(id).item = "call" /\ CallItem(id).id = id
           /\ CallItem(id).text = <<>> /\ CallItem(id).parts = <<>>
<1>1. PICK it : it = CallItem(id)
  OBVIOUS
<1>2. id \in Ids
  BY Zenon DEF Ids
<1>3. <<>> \in Seq(STRING) /\ <<>> \in Seq(Parts) /\ "call" \in ItemKinds
  BY DEF ItemKinds
<1>4. it = [item |-> "call", id |-> id, text |-> <<>>, parts |-> <<>>]
  BY <1>1 DEF CallItem
<1>5. it \in SentItems /\ it.item = "call" /\ it.id = id /\ it.text = <<>> /\ it.parts = <<>>
  BY <1>2, <1>3, <1>4 DEF SentItems
<1> QED
  BY <1>1, <1>5, Zenon

\* The items of calls carry nothing but the calls.
LEMMA CallsCarry ==
    ASSUME NEW ids \in Seq(STRING), NEW calls, calls = [i \in 1 .. Len(ids) |-> CallItem(ids[i])]
    PROVE  /\ calls \in Seq(SentItems)
           /\ FlattenSeq(MapSeq(ItemText, calls)) = <<>> /\ FlattenSeq(MapSeq(ItemImages, calls)) = <<>>
           /\ \A it \in ToSet(calls) : it.item = "call"
           /\ \A id \in ToSet(ids) : \E it \in ToSet(calls) : it.item = "call" /\ it.id = id
<1>1. Len(calls) = Len(ids) /\ DOMAIN calls = 1 .. Len(ids) /\ Len(ids) \in Nat
  OBVIOUS
<1>2. \A i \in 1 .. Len(ids) :
         calls[i] \in SentItems /\ calls[i].item = "call" /\ calls[i].id = ids[i]
         /\ calls[i].text = <<>> /\ calls[i].parts = <<>>
  <2> SUFFICES ASSUME NEW i \in 1 .. Len(ids)
               PROVE  calls[i] \in SentItems /\ calls[i].item = "call" /\ calls[i].id = ids[i]
                      /\ calls[i].text = <<>> /\ calls[i].parts = <<>>
    OBVIOUS
  <2>1. ids[i] \in STRING /\ calls[i] = CallItem(ids[i])
    OBVIOUS
  <2> QED
    BY <2>1, CallItemIs
<1>3. calls \in Seq(SentItems)
  BY <1>1, <1>2
<1>4. \A i \in 1 .. Len(ids) : ItemText[calls[i]] = <<>> /\ ItemImages[calls[i]] = <<>>
  <2> SUFFICES ASSUME NEW i \in 1 .. Len(ids)
               PROVE  ItemText[calls[i]] = <<>> /\ ItemImages[calls[i]] = <<>>
    OBVIOUS
  <2>1. ItemText[calls[i]] = calls[i].text \o PartsText(calls[i].parts)
        /\ ItemImages[calls[i]] = Images(calls[i].parts)
    BY <1>2, ItemCarries
  <2>2. <<>> \o <<>> = <<>>
    BY EmptySeq, ConcatEmptySeq
  <2> QED
    BY <1>2, <2>1, <2>2, NoParts
<1>5. \A it \in SentItems : ItemText[it] \in Seq(STRING) /\ ItemImages[it] \in Seq(Parts)
  BY ItemCarries
<1>6. FlattenSeq(MapSeq(ItemText, calls)) = <<>>
  <2>1. PICK t : t = MapSeq(ItemText, calls)
    OBVIOUS
  <2>2. t \in Seq(Seq(STRING))
    BY <1>3, <1>5, <2>1, MapType
  <2>3. Len(t) = Len(calls) /\ \A i \in 1 .. Len(calls) : t[i] = ItemText[calls[i]]
    BY <1>3, <2>1, MapIs
  <2>4. \A i \in 1 .. Len(t) : t[i] = <<>>
    BY <1>1, <1>4, <2>3
  <2> QED
    BY <2>1, <2>2, <2>4, FlattenEmpties
<1>7. FlattenSeq(MapSeq(ItemImages, calls)) = <<>>
  <2>1. PICK t : t = MapSeq(ItemImages, calls)
    OBVIOUS
  <2>2. t \in Seq(Seq(Parts))
    BY <1>3, <1>5, <2>1, MapType
  <2>3. Len(t) = Len(calls) /\ \A i \in 1 .. Len(calls) : t[i] = ItemImages[calls[i]]
    BY <1>3, <2>1, MapIs
  <2>4. \A i \in 1 .. Len(t) : t[i] = <<>>
    BY <1>1, <1>4, <2>3
  <2> QED
    BY <2>1, <2>2, <2>4, FlattenEmpties
<1>8. \A it \in ToSet(calls) : it.item = "call"
  BY <1>1, <1>2 DEF ToSet
<1>9. \A id \in ToSet(ids) : \E it \in ToSet(calls) : it.item = "call" /\ it.id = id
  BY <1>1, <1>2 DEF ToSet
<1> QED
  BY <1>3, <1>6, <1>7, <1>8, <1>9

LEMMA AssistantCarries ==
    ASSUME NEW msg \in Messages, msg.role = "assistant",
           msg.content.whole => Len(msg.content.parts) = 1 /\ msg.content.parts[1].type = "text",
           NEW items, items = AssistantItems(msg)
    PROVE  Carries(items, msg)
<1>1. msg.content \in MessageContents /\ msg.calls \in Seq(STRING)
  BY DEF Messages
<1>2. PICK parts : parts = ContentParts(msg.content)
  OBVIOUS
<1>3. /\ parts \in Seq(Parts)
      /\ ContentText(msg.content) \in Seq(STRING) /\ Images(msg.content.parts) \in Seq(Parts)
      /\ PartsText(parts) = ContentText(msg.content) /\ Images(parts) = Images(msg.content.parts)
      /\ parts = <<>> => ContentText(msg.content) = <<>> /\ Images(msg.content.parts) = <<>>
  BY <1>1, <1>2, ContentIs
<1>4. PICK calls : calls = [i \in 1 .. Len(msg.calls) |-> CallItem(msg.calls[i])]
  OBVIOUS
<1>5. /\ calls \in Seq(SentItems)
      /\ FlattenSeq(MapSeq(ItemText, calls)) = <<>> /\ FlattenSeq(MapSeq(ItemImages, calls)) = <<>>
      /\ \A it \in ToSet(calls) : it.item = "call"
      /\ \A id \in ToSet(msg.calls) : \E it \in ToSet(calls) : it.item = "call" /\ it.id = id
  BY <1>1, <1>4, CallsCarry
<1>6. CASE parts = <<>>
  <2>1. items = calls
    BY <1>2, <1>4, <1>6 DEF AssistantItems
  <2> QED
    BY <1>3, <1>5, <1>6, <2>1 DEF Carries
<1>7. CASE parts # <<>>
  <2>1. PICK it : it = [item |-> "assistant", id |-> "", text |-> <<>>, parts |-> parts]
    OBVIOUS
  <2>2. it \in SentItems /\ it.item = "assistant" /\ it.text = <<>> /\ it.parts = parts
    <3>1. PICK none : none = ""
      OBVIOUS
    <3>4. none \in Ids
      BY <3>1, Zenon DEF Ids
    <3>2. "assistant" \in ItemKinds /\ <<>> \in Seq(STRING)
      BY DEF ItemKinds
    <3>3. IsItem(it, "assistant", none, <<>>, parts)
      BY <2>1, <3>1 DEF IsItem
    <3> QED
      BY <1>3, <3>2, <3>3, <3>4 DEF IsItem, SentItems
  <2>3. PICK last : last = <<it>>
    OBVIOUS
  <2>4. /\ last \in Seq(SentItems) /\ ToSet(last) = {it}
        /\ FlattenSeq(MapSeq(ItemText, last)) = it.text \o PartsText(it.parts)
        /\ FlattenSeq(MapSeq(ItemImages, last)) = Images(it.parts)
    BY <2>2, <2>3, OneItem
  <2>5. items = calls \o last
    <3>1. items = Append(calls, it)
      BY <1>2, <1>4, <1>7, <2>1 DEF AssistantItems
    <3> QED
      BY <1>5, <2>2, <2>3, <3>1, AppendIsConcat
  <2>6. items \in Seq(SentItems) /\ ToSet(items) = ToSet(calls) \cup {it}
    BY <1>5, <2>4, <2>5, ConcatProperties, ConcatMembers
  <2>7. \A x \in SentItems : ItemText[x] \in Seq(STRING) /\ ItemImages[x] \in Seq(Parts)
    BY ItemCarries
  <2>8. FlattenSeq(MapSeq(ItemText, items)) = ContentText(msg.content)
    <3>1. MapSeq(ItemText, items) = MapSeq(ItemText, calls) \o MapSeq(ItemText, last)
      BY <1>5, <2>4, <2>5, MapConcat
    <3>2. MapSeq(ItemText, calls) \in Seq(Seq(STRING)) /\ MapSeq(ItemText, last) \in Seq(Seq(STRING))
      BY <1>5, <2>4, <2>7, MapType
    <3>4. FlattenSeq(MapSeq(ItemText, calls) \o MapSeq(ItemText, last)) =
              FlattenSeq(MapSeq(ItemText, calls)) \o FlattenSeq(MapSeq(ItemText, last))
      BY <3>2, FlattenConcat
    <3>3. FlattenSeq(MapSeq(ItemText, items)) = <<>> \o (<<>> \o ContentText(msg.content))
      BY <1>3, <1>5, <2>2, <2>4, <3>1, <3>4, Zenon
    <3> QED
      BY <1>3, <3>3, ConcatEmptySeq
  <2>9. FlattenSeq(MapSeq(ItemImages, items)) = Images(msg.content.parts)
    <3>1. MapSeq(ItemImages, items) = MapSeq(ItemImages, calls) \o MapSeq(ItemImages, last)
      BY <1>5, <2>4, <2>5, MapConcat
    <3>2. MapSeq(ItemImages, calls) \in Seq(Seq(Parts)) /\ MapSeq(ItemImages, last) \in Seq(Seq(Parts))
      BY <1>5, <2>4, <2>7, MapType
    <3>4. FlattenSeq(MapSeq(ItemImages, calls) \o MapSeq(ItemImages, last)) =
              FlattenSeq(MapSeq(ItemImages, calls)) \o FlattenSeq(MapSeq(ItemImages, last))
      BY <3>2, FlattenConcat
    <3>3. FlattenSeq(MapSeq(ItemImages, items)) = <<>> \o Images(msg.content.parts)
      BY <1>3, <1>5, <2>2, <2>4, <3>1, <3>4, Zenon
    <3> QED
      BY <1>3, <3>3, ConcatEmptySeq
  <2>10. \A x \in ToSet(items) : x.item \in {"call", "assistant"}
    BY <1>5, <2>2, <2>6
  <2>11. \A id \in ToSet(msg.calls) : \E x \in ToSet(items) : x.item = "call" /\ x.id = id
    BY <1>5, <2>6
  <2> QED
    BY <2>6, <2>8, <2>9, <2>10, <2>11 DEF Carries
<1> QED
  BY <1>6, <1>7

LEMMA MessageCarries ==
    ASSUME NEW msg \in Messages,
           msg.content.whole => Len(msg.content.parts) = 1 /\ msg.content.parts[1].type = "text",
           NEW items, items = Items(msg)
    PROVE  Carries(items, msg)
<1>1. /\ msg.content \in MessageContents /\ msg.id \in STRING
      /\ msg.role \in {"system", "user", "assistant", "tool"}
  BY DEF Messages
<1>2. PICK parts : parts = ContentParts(msg.content)
  OBVIOUS
<1>3. /\ parts \in Seq(Parts)
      /\ ContentText(msg.content) \in Seq(STRING) /\ Images(msg.content.parts) \in Seq(Parts)
      /\ PartsText(parts) = ContentText(msg.content) /\ Images(parts) = Images(msg.content.parts)
  BY <1>1, <1>2, ContentIs
<1>4. PICK none : none = ""
  OBVIOUS
<1>5. /\ none \in Ids /\ msg.id \in Ids /\ <<>> \in Seq(STRING) /\ <<>> \in Seq(Parts)
      /\ "system" \in ItemKinds /\ "user" \in ItemKinds /\ "output" \in ItemKinds
  <2>1. none \in Ids /\ msg.id \in Ids
    BY <1>1, <1>4, Zenon DEF Ids
  <2>2. <<>> \in Seq(STRING) /\ <<>> \in Seq(Parts)
    OBVIOUS
  <2>3. "system" \in ItemKinds /\ "user" \in ItemKinds /\ "output" \in ItemKinds
    BY DEF ItemKinds
  <2> QED
    BY <2>1, <2>2, <2>3
<1>6. \A text \in Seq(STRING) : text \o <<>> = text /\ <<>> \o text = text
  BY ConcatEmptySeq
<1>7. CASE msg.role = "system"
  <2>1. PICK text : text = ContentText(msg.content)
    OBVIOUS
  <2>2. PICK it : it = [item |-> "system", id |-> none, text |-> text, parts |-> <<>>]
    OBVIOUS
  <2>3. it \in SentItems /\ it.item = "system" /\ it.text = text /\ it.parts = <<>>
    <3>1. IsItem(it, "system", none, text, <<>>)
      BY <2>2 DEF IsItem
    <3> QED
      BY <1>3, <1>5, <2>1, <3>1 DEF IsItem, SentItems
  <2>4. items = <<it>>
    BY <1>4, <1>7, <2>1, <2>2 DEF Items
  <2>5. /\ items \in Seq(SentItems) /\ ToSet(items) = {it}
        /\ FlattenSeq(MapSeq(ItemText, items)) = text \o <<>>
        /\ FlattenSeq(MapSeq(ItemImages, items)) = <<>>
    BY <2>3, <2>4, OneItem, NoParts
  <2> QED
    BY <1>3, <1>6, <1>7, <2>1, <2>3, <2>5 DEF Carries
<1>8. CASE msg.role = "user"
  <2>1. PICK it : it = [item |-> "user", id |-> none, text |-> <<>>, parts |-> parts]
    OBVIOUS
  <2>2. it \in SentItems /\ it.item = "user" /\ it.text = <<>> /\ it.parts = parts
    <3>1. IsItem(it, "user", none, <<>>, parts)
      BY <2>1 DEF IsItem
    <3> QED
      BY <1>3, <1>5, <3>1 DEF IsItem, SentItems
  <2>3. items = <<it>>
    BY <1>2, <1>4, <1>8, <2>1 DEF Items
  <2>4. /\ items \in Seq(SentItems) /\ ToSet(items) = {it}
        /\ FlattenSeq(MapSeq(ItemText, items)) = <<>> \o PartsText(parts)
        /\ FlattenSeq(MapSeq(ItemImages, items)) = Images(parts)
    BY <2>2, <2>3, OneItem
  <2> QED
    BY <1>3, <1>6, <1>8, <2>2, <2>4 DEF Carries
<1>9. CASE msg.role = "tool"
  <2>1. PICK text : text = ContentText(msg.content)
    OBVIOUS
  <2>2. PICK images : images = Images(parts)
    OBVIOUS
  <2>3. images \in Seq(Parts) /\ PartsText(images) = <<>> /\ Images(images) = images
    BY <1>3, <2>2, ImagesStay
  <2>4. PICK it : it = [item |-> "output", id |-> msg.id, text |-> text, parts |-> images]
    OBVIOUS
  <2>5. it \in SentItems /\ it.item = "output" /\ it.id = msg.id /\ it.text = text /\ it.parts = images
    <3>1. IsItem(it, "output", msg.id, text, images)
      BY <2>4 DEF IsItem
    <3> QED
      BY <1>3, <1>5, <2>1, <2>3, <3>1, ItemType
  <2>6. items = <<it>>
    BY <1>2, <1>9, <2>1, <2>2, <2>4 DEF Items, ToolItem
  <2>7. /\ items \in Seq(SentItems) /\ ToSet(items) = {it}
        /\ FlattenSeq(MapSeq(ItemText, items)) = text \o <<>>
        /\ FlattenSeq(MapSeq(ItemImages, items)) = images
    BY <2>3, <2>5, <2>6, OneItem
  <2> QED
    BY <1>3, <1>6, <1>9, <2>1, <2>2, <2>5, <2>7 DEF Carries
<1>10. CASE msg.role = "assistant"
  <2>1. items = AssistantItems(msg)
    BY <1>10 DEF Items
  <2> QED
    BY <1>10, <2>1, AssistantCarries
<1> QED
  BY <1>1, <1>7, <1>8, <1>9, <1>10

\* A result comes after its call when the messages do.
AfterItsCall(items, i) ==
    items[i].item = "output" =>
        \E j \in 1 .. (i - 1) : items[j].item = "call" /\ items[j].id = items[i].id

LEMMA MessagesAre ==
    ASSUME NEW msgs, AsksAsCanactDoes(msgs), NEW i \in 1 .. Len(msgs)
    PROVE  /\ msgs[i] \in Messages /\ Carries(Items(msgs[i]), msgs[i])
           /\ ContentText(msgs[i].content) \in Seq(STRING) /\ Images(msgs[i].content.parts) \in Seq(Parts)
           /\ msgs[i].role = "tool" =>
                 \E j \in 1 .. (i - 1) : msgs[j].role = "assistant" /\ msgs[i].id \in ToSet(msgs[j].calls)
<1>1. msgs \in Seq(Messages) /\ i \in DOMAIN msgs
  BY DEF AsksAsCanactDoes
<1>2. msgs[i] \in Messages
  BY <1>1
<1>3. msgs[i].content.whole =>
          Len(msgs[i].content.parts) = 1 /\ msgs[i].content.parts[1].type = "text"
  BY <1>1 DEF AsksAsCanactDoes
<1>4. msgs[i].role = "tool" =>
          \E j \in 1 .. (i - 1) : msgs[j].role = "assistant" /\ msgs[i].id \in ToSet(msgs[j].calls)
  BY <1>1 DEF AsksAsCanactDoes
<1>5. PICK msg : msg = msgs[i]
  OBVIOUS
<1>6. Carries(Items(msg), msg)
  BY <1>2, <1>3, <1>5, MessageCarries
<1>7. PICK content : content = msg.content
  OBVIOUS
<1>8. content \in MessageContents
  BY <1>2, <1>5, <1>7 DEF Messages
<1>9. ContentText(content) \in Seq(STRING) /\ Images(content.parts) \in Seq(Parts)
  BY <1>3, <1>5, <1>7, <1>8, ContentIs
<1> QED
  BY <1>2, <1>4, <1>5, <1>6, <1>7, <1>9

LEMMA ResultsComeAfter ==
    ASSUME NEW msgs, AsksAsCanactDoes(msgs), NEW s \in Seq(Seq(SentItems)), Len(s) = Len(msgs),
           \A i \in 1 .. Len(msgs) : s[i] = Items(msgs[i]),
           NEW R, Joins(R, s)
    PROVE  \A m \in 0 .. Len(s) : \A i \in 1 .. Len(R[m]) : AfterItsCall(R[m], i)
<1> DEFINE T == {m \in Nat : \A i \in 1 .. Len(R[m]) : AfterItsCall(R[m], i)}
<1>1. Len(s) \in Nat
  OBVIOUS
<1>2. \A m \in 0 .. Len(s) : R[m] \in Seq(SentItems)
  BY JoinsType
<1>3. 0 \in T
  <2>1. R[0] = <<>> /\ Len(R[0]) = 0
    BY DEF Joins
  <2> QED
    BY <2>1
<1>4. ASSUME NEW m \in 0 .. (Len(s) - 1), m \in T PROVE m + 1 \in T
  <2>1. m + 1 \in 1 .. Len(s) /\ (m + 1) - 1 = m /\ m \in 0 .. Len(s)
    BY <1>1
  <2>2. PICK a \in Seq(SentItems) : a = R[m]
    BY <1>2, <2>1
  <2>3. PICK b \in Seq(SentItems) : b = s[m + 1]
    BY <2>1
  <2>4. PICK c : c = R[m + 1]
    OBVIOUS
  <2>5. c = a \o b
    BY <2>1, <2>2, <2>3, <2>4 DEF Joins
  <2>6. /\ c \in Seq(SentItems) /\ Len(c) = Len(a) + Len(b)
        /\ \A i \in 1 .. (Len(a) + Len(b)) : c[i] = IF i <= Len(a) THEN a[i] ELSE b[i - Len(a)]
    BY <2>5, ConcatProperties
  <2>7. Len(a) \in Nat /\ Len(b) \in Nat
    OBVIOUS
  <2>8. \A i \in 1 .. Len(a) : AfterItsCall(a, i)
    BY <1>4, <2>2
  <2>9. PICK msg : msg = msgs[m + 1]
    OBVIOUS
  <2>10. Carries(b, msg)
    BY <2>1, <2>3, <2>9, MessagesAre
  <2>11. ASSUME NEW i \in 1 .. Len(c) PROVE AfterItsCall(c, i)
    <3>1. CASE i <= Len(a)
      <4>1. i \in 1 .. Len(a) /\ i \in 1 .. (Len(a) + Len(b)) /\ c[i] = a[i]
        BY <2>6, <2>7, <3>1
      <4>2. ASSUME c[i].item = "output"
            PROVE \E j \in 1 .. (i - 1) : c[j].item = "call" /\ c[j].id = c[i].id
        <5>1. PICK j \in 1 .. (i - 1) : a[j].item = "call" /\ a[j].id = a[i].id
          BY <2>8, <4>1, <4>2 DEF AfterItsCall
        <5>2. j \in 1 .. (Len(a) + Len(b)) /\ j <= Len(a)
          BY <2>7, <3>1, <4>1
        <5>3. c[j] = a[j]
          BY <2>6, <5>2
        <5> QED
          BY <4>1, <5>1, <5>3
      <4> QED
        BY <4>2 DEF AfterItsCall
    <3>2. CASE ~(i <= Len(a))
      <4>1. i \in 1 .. (Len(a) + Len(b)) /\ i - Len(a) \in 1 .. Len(b) /\ c[i] = b[i - Len(a)]
        BY <2>6, <2>7, <3>2
      <4>2. c[i] \in ToSet(b)
        BY <4>1 DEF ToSet
      <4>3. ASSUME c[i].item = "output"
            PROVE \E j \in 1 .. (i - 1) : c[j].item = "call" /\ c[j].id = c[i].id
        <5>1. msg.role = "tool" /\ c[i].id = msg.id
          BY <2>10, <4>2, <4>3 DEF Carries
        <5>2. PICK j \in 1 .. m : msgs[j].role = "assistant" /\ msg.id \in ToSet(msgs[j].calls)
          BY <2>1, <2>9, <5>1, MessagesAre
        <5>3. j \in 1 .. Len(msgs) /\ j \in 1 .. Len(s)
          BY <1>1, <2>1
        <5>4. Carries(s[j], msgs[j])
          BY <5>3, MessagesAre
        <5>5. PICK it \in ToSet(s[j]) : it.item = "call" /\ it.id = msg.id
          BY <5>2, <5>4 DEF Carries
        <5>6. it \in ToSet(R[m])
          BY <2>1, <5>2, <5>5, JoinsMembers
        <5>7. PICK k \in 1 .. Len(a) : a[k] = it
          BY <2>2, <5>6 DEF ToSet
        <5>8. k \in 1 .. (Len(a) + Len(b)) /\ k <= Len(a) /\ k \in 1 .. (i - 1)
          BY <2>7, <3>2, <4>1
        <5>9. c[k] = it
          BY <2>6, <5>7, <5>8
        <5> QED
          BY <5>1, <5>5, <5>8, <5>9
      <4> QED
        BY <4>3 DEF AfterItsCall
    <3> QED
      BY <3>1, <3>2
  <2>12. \A i \in 1 .. Len(R[m + 1]) : AfterItsCall(R[m + 1], i)
    BY <2>4, <2>11
  <2> QED
    BY <2>1, <2>12
<1>5. \A m \in 0 .. Len(s) : m \in T
  <2> HIDE DEF T
  <2> QED
    BY <1>1, <1>3, <1>4, UpTo
<1> QED
  BY <1>5

\* What is asked of the vendor is the conversation.
LEMMA RequestCarries ==
    ASSUME NEW msgs, AsksAsCanactDoes(msgs), NEW items, items = IrRequest(msgs)
    PROVE  /\ Texts(items) = FlattenSeq([i \in 1 .. Len(msgs) |-> ContentText(msgs[i].content)])
           /\ FlattenSeq([i \in 1 .. Len(items) |-> Images(items[i].parts)]) =
                  FlattenSeq([i \in 1 .. Len(msgs) |->
                      IF msgs[i].role = "system" THEN <<>> ELSE Images(msgs[i].content.parts)])
           /\ \A i \in DOMAIN items : AfterItsCall(items, i)
<1>1. msgs \in Seq(Messages) /\ Len(msgs) \in Nat
  BY DEF AsksAsCanactDoes
<1>2. PICK s : s = [i \in 1 .. Len(msgs) |-> Items(msgs[i])]
  OBVIOUS
<1>3. \A i \in 1 .. Len(msgs) : s[i] = Items(msgs[i])
  BY <1>2
<1>4. Len(s) = Len(msgs)
  BY <1>1, <1>2
<1>5. \A i \in 1 .. Len(msgs) : Carries(s[i], msgs[i])
  BY <1>3, MessagesAre
<1>6. s \in Seq(Seq(SentItems))
  <2>1. \A i \in 1 .. Len(msgs) : Items(msgs[i]) \in Seq(SentItems)
    BY <1>3, <1>5 DEF Carries
  <2> QED
    BY <1>1, <1>2, <2>1
<1>7. items = FlattenSeq(s) /\ items \in Seq(SentItems)
  BY <1>2, <1>6, FlattenType DEF IrRequest
<1>8. \A i \in 1 .. Len(items) : items[i] \in SentItems
  BY <1>7
<1>9. Texts(items) = FlattenSeq(MapSeq(ItemText, items))
  <2>1. [i \in 1 .. Len(items) |-> items[i].text \o ContentText([parts |-> items[i].parts])] =
            MapSeq(ItemText, items)
    BY <1>8, Zenon DEF MapSeq, ItemText
  <2> QED
    BY <2>1 DEF Texts
<1>10. [i \in 1 .. Len(items) |-> Images(items[i].parts)] = MapSeq(ItemImages, items)
  BY <1>8, Zenon DEF MapSeq, ItemImages
<1>11. MapsInto(ItemText, SentItems, STRING) /\ MapsInto(ItemImages, SentItems, Parts)
  BY ItemCarries DEF MapsInto
<1>12. FlattenSeq(MapSeq(ItemText, items)) =
           FlattenSeq([i \in 1 .. Len(msgs) |-> ContentText(msgs[i].content)])
  <2>1. PICK t : t = [i \in 1 .. Len(msgs) |-> ContentText(msgs[i].content)]
    OBVIOUS
  <2>2. \A i \in 1 .. Len(msgs) : ContentText(msgs[i].content) \in Seq(STRING)
    BY MessagesAre
  <2>3. t \in Seq(Seq(STRING)) /\ Len(t) = Len(msgs)
    BY <1>1, <2>1, <2>2
  <2>4. \A i \in 1 .. Len(msgs) : t[i] = FlattenSeq(MapSeq(ItemText, s[i]))
    BY <1>5, <2>1 DEF Carries
  <2>5. ComesOf(t, ItemText, s)
    BY <1>4, <2>3, <2>4 DEF ComesOf
  <2>6. FlattenSeq(MapSeq(ItemText, FlattenSeq(s))) = FlattenSeq(t)
    BY <1>6, <1>11, <2>3, <2>5, FlattenMaps
  <2> QED
    BY <1>7, <2>1, <2>6, Zenon
<1>13. FlattenSeq(MapSeq(ItemImages, items)) =
           FlattenSeq([i \in 1 .. Len(msgs) |->
               IF msgs[i].role = "system" THEN <<>> ELSE Images(msgs[i].content.parts)])
  <2>1. PICK t : t = [i \in 1 .. Len(msgs) |->
                         IF msgs[i].role = "system" THEN <<>> ELSE Images(msgs[i].content.parts)]
    OBVIOUS
  <2>2. \A i \in 1 .. Len(msgs) :
            (IF msgs[i].role = "system" THEN <<>> ELSE Images(msgs[i].content.parts)) \in Seq(Parts)
    <3>1. <<>> \in Seq(Parts) /\ \A i \in 1 .. Len(msgs) : Images(msgs[i].content.parts) \in Seq(Parts)
      BY MessagesAre
    <3> QED
      BY <3>1
  <2>3. t \in Seq(Seq(Parts)) /\ Len(t) = Len(msgs)
    BY <1>1, <2>1, <2>2
  <2>4. \A i \in 1 .. Len(msgs) : t[i] = FlattenSeq(MapSeq(ItemImages, s[i]))
    BY <1>5, <2>1 DEF Carries
  <2>5. ComesOf(t, ItemImages, s)
    BY <1>4, <2>3, <2>4 DEF ComesOf
  <2>6. FlattenSeq(MapSeq(ItemImages, FlattenSeq(s))) = FlattenSeq(t)
    BY <1>6, <1>11, <2>3, <2>5, FlattenMaps
  <2> QED
    BY <1>7, <2>1, <2>6, Zenon
<1>14. \A i \in DOMAIN items : AfterItsCall(items, i)
  <2>1. PICK R : Joins(R, s) /\ items = R[Len(s)]
    BY <1>6, <1>7, FlattenJoins
  <2>2. Len(s) \in 0 .. Len(s)
    BY <1>1, <1>4
  <2>3. \A i \in 1 .. Len(items) : AfterItsCall(items, i)
    BY <1>3, <1>4, <1>6, <2>1, <2>2, ResultsComeAfter
  <2> QED
    BY <1>7, <2>3
<1> QED
  BY <1>9, <1>10, <1>12, <1>13, <1>14

----------------------------------------------------------------------------
(* What is sent, and what is read.                                         *)

\* The text of an answer is what was said outside of thoughts.
LEMMA EndReplyKeepsToText ==
    ASSUME TypeOK, SentFits, TextFollows, EndReply
    PROVE  ThoughtsAreNotAnswers'
<1>1. /\ job.kind = "reply" /\ plan' = plan /\ plan \in Plans /\ sent.said = Len(plan.said)
  BY EndReplyIs
<1>2. Scored' => result'.answer.text = StripThinkBlocks(chat.text)
  BY AnswerIs
<1> HIDE DEF plan
<1>3. PICK said : said = plan.said
  OBVIOUS
<1>4. said \in Seq(STRING)
  BY <1>1, <1>3 DEF Plans
<1>5. chat.text = said
  <2>1. SubSeq(said, 1, Len(said)) = said
    BY <1>4, SubSeqFull
  <2> QED
    BY <1>1, <1>3, <2>1 DEF TextFollows
<1>6. StripThinkBlocks(said) =
          FlattenSeq([i \in 1 .. Len(said) |-> IF InThought(said, i) THEN <<>> ELSE <<said[i]>>])
  BY <1>4, ThoughtsGo
<1> QED
  BY <1>1, <1>2, <1>3, <1>5, <1>6, Zenon DEF ThoughtsAreNotAnswers

LEMMA AskSendsEachOnce ==
    ASSUME TypeOK, Ask
    PROVE  EachTextOnce'
<1>1. AsksAsCanactDoes(job.messages) /\ job' = job
  BY JobShapes DEF Ask
<1>2. PICK msgs : msgs = job.messages
  OBVIOUS
<1>3. PICK items : items = IrRequest(msgs)
  OBVIOUS
<1>4. result'.items = items
  BY <1>2, <1>3 DEF Ask
<1>5. job'.messages = msgs
  BY <1>1, <1>2
<1>6. /\ Texts(items) = FlattenSeq([i \in 1 .. Len(msgs) |-> ContentText(msgs[i].content)])
      /\ FlattenSeq([i \in 1 .. Len(items) |-> Images(items[i].parts)]) =
             FlattenSeq([i \in 1 .. Len(msgs) |->
                 IF msgs[i].role = "system" THEN <<>> ELSE Images(msgs[i].content.parts)])
      /\ \A i \in DOMAIN items : AfterItsCall(items, i)
  BY <1>1, <1>2, <1>3, RequestCarries
<1> QED
  BY <1>4, <1>5, <1>6, Zenon DEF EachTextOnce, AfterItsCall

\* Nothing else asks the vendor.
LEMMA OnlyAskAsks ==
    ASSUME [Next]_vars, ~Ask
    PROVE  UNCHANGED vars \/ result'.kind # "Asked"
<1>1. CASE LookUp
  BY <1>1 DEF LookUp
<1>2. CASE Break
  BY <1>2, MapClientErrorKind DEF Break
<1>3. CASE Say \/ StartCall \/ EndAll \/ GiveReason \/ CountUsage
  BY <1>3 DEF Say, StartCall, EndAll, GiveReason, CountUsage, Hear, Replying, Pending
<1>4. ASSUME NEW k \in DOMAIN sent.calls, NameCall(k) \/ SendPart(k) \/ EndCall(k)
      PROVE result'.kind # "Asked"
  <2>1. result = Pending /\ result' = result
    BY <1>4, Zenon DEF NameCall, SendPart, EndCall, Hear, Replying
  <2> QED
    BY <2>1 DEF Pending
<1>5. CASE EndReply
  <2>1. result' = ScoredCompletion(chat)
    BY <1>5 DEF EndReply
  <2>2. ScoredCompletion(chat).kind \in {"Transient", "Ok"}
    BY DEF ScoredCompletion
  <2> QED
    BY <2>1, <2>2
<1> QED
  BY <1>1, <1>2, <1>3, <1>4, <1>5 DEF Next

LEMMA StandsAsItWas ==
    ASSUME UNCHANGED vars, ReadAsSent
    PROVE  ReadAsSent'
<1>1. plan' = plan /\ result' = result /\ sent' = sent /\ stream' = stream /\ job' = job
  BY DEF vars, plan
<1>2. StreamGrade' = StreamGrade /\ Scored' = Scored
  BY <1>1 DEF StreamGrade, Scored
<1> HIDE DEF plan
<1>3. MadeCalls' = MadeCalls
  BY <1>1 DEF MadeCalls
<1>4. CallsAsMade' /\ ChatAndStreamAgree'
  BY <1>1, <1>2, <1>3 DEF CallsAsMade, ChatAndStreamAgree, ReadAsSent
<1>5. ThoughtsAreNotAnswers'
  BY <1>1, <1>2, Zenon DEF ThoughtsAreNotAnswers, ReadAsSent
<1>6. EachTextOnce'
  BY <1>1, Zenon DEF EachTextOnce, ReadAsSent
<1> QED
  BY <1>4, <1>5, <1>6 DEF ReadAsSent

\* A conversation is sent whole: each text and each image once and in order,
\* and each result after its call.  And however a vendor cuts its reply, mixes
\* the parts of its calls and closes them, the answer has the calls it made,
\* with their ids and arguments, unless an end tore one apart, and even then
\* never one call with the arguments of another; one who streams the reply
\* and one who waits for it come to the same grade and the same reason to
\* stop; and the text is what was said outside of thoughts.
THEOREM SentAndReadWhole == Spec => []ReadAsSent
<1> DEFINE F == ChatFollows /\ ChatNeverMixes /\ StreamFollows /\ FailFollows /\ TextFollows
           I == TypeOK /\ SentFits /\ F /\ ReadAsSent
<1>1. Init => I
  <2> SUFFICES ASSUME Init PROVE F /\ ReadAsSent
    BY StartIsTyped
  <2>1. ~Scored /\ result.kind # "Asked"
    BY DEF Init, Scored, Pending
  <2>2. FailFollows
    BY DEF Init, FailFollows, NothingSent, FoldStart, StreamStart, Scored, Pending
  <2>3. TextFollows
    <3>1. sent.said = 0 /\ chat.text = <<>>
      BY DEF Init, NothingSent, FoldStart, NoText
    <3> HIDE DEF plan
    <3>2. job.kind = "reply" => plan.said \in Seq(STRING)
      BY StartIsTyped, SentFacts
    <3>3. \A said \in Seq(STRING) : SubSeq(said, 1, 0) = <<>>
      OBVIOUS
    <3> QED
      BY <3>1, <3>2, <3>3 DEF TextFollows
  <2> QED
    BY <2>1, <2>2, <2>3, StartFollows
       DEF ReadAsSent, CallsAsMade, ChatAndStreamAgree, ThoughtsAreNotAnswers, EachTextOnce
<1>2. I /\ [Next]_vars => I'
  <2> SUFFICES ASSUME I, [Next]_vars PROVE I'
    OBVIOUS
  <2>1. TypeOK' /\ SentFits'
    BY StepFits
  <2>2. F'
    BY StepFollows, StepMixes, StepStreams, StepFails, StepAddsText
  <2>3. ReadAsSent'
    <3>1. CASE UNCHANGED vars
      BY <3>1, StandsAsItWas
    <3>2. CASE ~UNCHANGED vars
      <4>1. CallsAsMade' /\ ChatAndStreamAgree' /\ ThoughtsAreNotAnswers'
        <5>1. CASE EndReply
          BY <5>1, EndReplyReads, EndReplyKeepsToText
        <5>2. CASE ~EndReply
          <6>1. ~Scored'
            BY <3>2, <5>2, OnlyEndsScore
          <6> QED
            BY <6>1 DEF CallsAsMade, ChatAndStreamAgree, ThoughtsAreNotAnswers
        <5> QED
          BY <5>1, <5>2
      <4>2. EachTextOnce'
        <5>1. CASE Ask
          BY <5>1, AskSendsEachOnce
        <5>2. CASE ~Ask
          <6>1. result'.kind # "Asked"
            BY <3>2, <5>2, OnlyAskAsks
          <6> QED
            BY <6>1 DEF EachTextOnce
        <5> QED
          BY <5>1, <5>2
      <4> QED
        BY <4>1, <4>2 DEF ReadAsSent
    <3> QED
      BY <3>1, <3>2
  <2> QED
    BY <2>1, <2>2, <2>3
<1>3. I => ReadAsSent
  OBVIOUS
<1> QED
  BY <1>1, <1>2, <1>3, PTL DEF Spec

----------------------------------------------------------------------------
(* Redaction.                                                              *)

\* What Redact has before the first piece and after each.
Redacts(R, text) ==
    /\ R[0] = [mode |-> "plain", out |-> <<>>]
    /\ \A i \in 1 .. Len(text) : R[i] = RedactStep(text, R[i - 1], i)

LEMMA RedactsTo ==
    ASSUME NEW text \in Seq(STRING)
    PROVE  \E R : Redacts(R, text) /\ Redact(text) = R[Len(text)].out
<1>1. PICK n \in Nat : n = Len(text)
  OBVIOUS
<1> DEFINE start == [mode |-> "plain", out |-> <<>>]
           Step(R, i) == IF i = 0 THEN start ELSE RedactStep(text, R[i - 1], i)
           Fits(R, k) == R = [i \in 0 .. k |-> Step(R, i)]
           T == {k \in Nat : \E R : Fits(R, k)}
<1>2. 0 \in T
  <2> DEFINE Q == [i \in 0 .. 0 |-> start]
  <2> HIDE DEF start
  <2>1. \A i \in 0 .. 0 : Step(Q, i) = start
    OBVIOUS
  <2>2. Fits(Q, 0)
    <3> HIDE DEF Step
    <3> QED
      BY <2>1
  <2> HIDE DEF Fits, Q
  <2> QED
    BY <2>2
<1>3. ASSUME NEW k \in 0 .. (n - 1), k \in T PROVE k + 1 \in T
  <2>1. PICK R : Fits(R, k)
    BY <1>3
  <2> DEFINE Q == [i \in 0 .. (k + 1) |-> IF i <= k THEN R[i] ELSE Step(R, k + 1)]
  <2> HIDE DEF start
  <2>2. \A i \in 0 .. k : Q[i] = R[i]
    OBVIOUS
  <2>3. \A i \in 0 .. (k + 1) : Step(Q, i) = Step(R, i)
    <3> SUFFICES ASSUME NEW i \in 0 .. (k + 1) PROVE Step(Q, i) = Step(R, i)
      OBVIOUS
    <3>1. CASE i = 0
      BY <3>1
    <3>2. CASE i # 0
      <4>1. i - 1 \in 0 .. k
        BY <3>2
      <4>2. Q[i - 1] = R[i - 1]
        BY <2>2, <4>1
      <4> HIDE DEF Q
      <4> QED
        BY <3>2, <4>2
    <3> QED
      BY <3>1, <3>2
  <2>4. \A i \in 0 .. k : R[i] = Step(R, i)
    <3> HIDE DEF Step
    <3> QED
      BY <2>1
  <2>5. Fits(Q, k + 1)
    <3> HIDE DEF Step
    <3>1. ASSUME NEW i \in 0 .. (k + 1) PROVE (IF i <= k THEN R[i] ELSE Step(R, k + 1)) = Step(Q, i)
      <4>1. CASE i <= k
        <5>1. i \in 0 .. k
          BY <4>1
        <5> HIDE DEF Q
        <5> QED
          BY <2>3, <2>4, <4>1, <5>1
      <4>2. CASE i = k + 1
        <5> HIDE DEF Q
        <5> QED
          BY <2>3, <4>2
      <4> QED
        BY <4>1, <4>2
    <3> QED
      BY <3>1
  <2>6. k + 1 \in Nat
    BY <1>3
  <2> HIDE DEF Q, Fits
  <2> QED
    BY <2>5, <2>6
<1>4. \A i \in 0 .. n : i \in T
  <2> HIDE DEF T
  <2> QED
    BY <1>2, <1>3, UpTo
<1> DEFINE upTo == CHOOSE R : Fits(R, n)
<1>5. Fits(upTo, n)
  <2>1. \E R : Fits(R, n)
    <3> HIDE DEF Fits, upTo
    <3>1. n \in T
      BY <1>4
    <3> QED
      BY <3>1
  <2> QED
    BY <2>1, Zenon
<1>6. Redact(text) = upTo[n].out
  BY <1>1, Zenon DEF Redact
<1>7. \A i \in 0 .. n : upTo[i] = Step(upTo, i)
  <2> HIDE DEF upTo, Step
  <2> QED
    BY <1>5
<1>8. Redacts(upTo, text)
  <2> HIDE DEF upTo
  <2> QED
    BY <1>1, <1>7 DEF Redacts
<1> QED
  <2> HIDE DEF upTo
  <2> QED
    BY <1>1, <1>6, <1>8

Modes == {"plain", "header", "bearer", "token", "key"}
OutWords == STRING \cup {Redacted, RedactedKey}
RedactOK(r) == DOMAIN r = {"mode", "out"} /\ r.mode \in Modes /\ r.out \in Seq(OutWords)

\* What one piece does to the mode and to what is told.
LEMMA PlainIs ==
    ASSUME NEW text \in Seq(STRING), NEW i \in 1 .. Len(text), NEW out \in Seq(OutWords),
           NEW r, r = Plain(text, i, out)
    PROVE  /\ RedactOK(r)
           /\ r.mode = IF HeaderAt(text, i) THEN "header" ELSE IF BearerAt(text, i) THEN "bearer"
                       ELSE IF text[i] = "sk-" THEN "key" ELSE "plain"
           /\ r.out = Append(out, IF text[i] = "sk-" THEN RedactedKey ELSE text[i])
<1>1. text[i] \in OutWords /\ RedactedKey \in OutWords
  <2>1. text[i] \in STRING
    OBVIOUS
  <2> QED
    BY <2>1, Zenon DEF OutWords
<1>2. \A x \in OutWords : Append(out, x) \in Seq(OutWords)
  OBVIOUS
<1>3. HeaderAt(text, i) => text[i] # "sk-" /\ ~BearerAt(text, i)
  BY DEF HeaderAt, BearerAt, Headers
<1>4. BearerAt(text, i) => text[i] # "sk-"
  BY DEF BearerAt
<1>5. CASE HeaderAt(text, i)
  BY <1>1, <1>2, <1>3, <1>5 DEF Plain, RedactOK, Modes
<1>6. CASE BearerAt(text, i)
  BY <1>1, <1>2, <1>3, <1>4, <1>6 DEF Plain, RedactOK, Modes
<1>7. CASE ~HeaderAt(text, i) /\ ~BearerAt(text, i) /\ text[i] = "sk-"
  BY <1>1, <1>2, <1>7 DEF Plain, RedactOK, Modes
<1>8. CASE ~HeaderAt(text, i) /\ ~BearerAt(text, i) /\ text[i] # "sk-"
  BY <1>1, <1>2, <1>8 DEF Plain, RedactOK, Modes
<1> QED
  BY <1>5, <1>6, <1>7, <1>8

\* Each way a step can go: a separator copied, a token begun, a token begun
\* that is over at once, a piece dropped, or a piece read as plain text.
Goes(text, i, r, s) ==
    LET x == text[i] IN
    \/ /\ Copies(r.mode, x) /\ s.mode = r.mode /\ s.out = Append(r.out, x)
    \/ /\ r.mode = "bearer" \/ (r.mode = "header" /\ ~BearerAt(text, i))
       /\ ~Copies(r.mode, x) /\ x \notin TokenEnds
       /\ s.mode = "token" /\ s.out = Append(r.out, Redacted)
    \/ /\ r.mode = "bearer" \/ (r.mode = "header" /\ ~BearerAt(text, i))
       /\ ~Copies(r.mode, x) /\ x \in TokenEnds
       /\ s.mode = "plain" /\ s.out = Append(Append(r.out, Redacted), x)
    \/ Skips(r.mode, x) /\ s = r
    \/ /\ r.mode \in {"plain", "token", "key"} \/ (r.mode = "header" /\ BearerAt(text, i))
       /\ ~Skips(r.mode, x)
       /\ s.mode = IF HeaderAt(text, i) THEN "header" ELSE IF BearerAt(text, i) THEN "bearer"
                   ELSE IF x = "sk-" THEN "key" ELSE "plain"
       /\ s.out = Append(r.out, IF x = "sk-" THEN RedactedKey ELSE x)

LEMMA StepGoes ==
    ASSUME NEW text \in Seq(STRING), NEW i \in 1 .. Len(text), NEW r, RedactOK(r),
           NEW s, s = RedactStep(text, r, i)
    PROVE  RedactOK(s) /\ Goes(text, i, r, s)
<1>1. /\ text[i] \in OutWords /\ Redacted \in OutWords
      /\ r.out \in Seq(OutWords) /\ r.mode \in Modes /\ DOMAIN r = {"mode", "out"}
  <2>1. text[i] \in STRING
    OBVIOUS
  <2>2. text[i] \in OutWords /\ Redacted \in OutWords
    BY <2>1, Zenon DEF OutWords
  <2> QED
    BY <2>2 DEF RedactOK
<1>2. /\ Append(r.out, text[i]) \in Seq(OutWords) /\ Append(r.out, Redacted) \in Seq(OutWords)
      /\ Append(Append(r.out, Redacted), text[i]) \in Seq(OutWords)
  BY <1>1
<1>3. CASE Copies(r.mode, text[i])
  <2>1. s = [mode |-> r.mode, out |-> Append(r.out, text[i])]
    BY <1>3 DEF RedactStep
  <2>2. s.mode = r.mode /\ s.out = Append(r.out, text[i]) /\ DOMAIN s = {"mode", "out"}
    BY <2>1
  <2> QED
    BY <1>1, <1>2, <1>3, <2>2 DEF RedactOK, Goes
<1>4. CASE /\ ~Copies(r.mode, text[i])
           /\ r.mode = "bearer" \/ (r.mode = "header" /\ ~BearerAt(text, i))
  <2>1. s = Token(text, i, r.out)
    BY <1>4 DEF RedactStep
  <2>2. CASE text[i] \notin TokenEnds
    <3>1. s = [mode |-> "token", out |-> Append(r.out, Redacted)]
      BY <2>1, <2>2 DEF Token
    <3>2. s.mode = "token" /\ s.out = Append(r.out, Redacted) /\ DOMAIN s = {"mode", "out"}
      BY <3>1
    <3> QED
      BY <1>2, <1>4, <2>2, <3>2 DEF RedactOK, Goes, Modes
  <2>3. CASE text[i] \in TokenEnds
    <3>1. PICK out : out = Append(r.out, Redacted)
      OBVIOUS
    <3>2. out \in Seq(OutWords) /\ s = Plain(text, i, out)
      BY <1>2, <2>1, <2>3, <3>1 DEF Token
    <3>3. ~HeaderAt(text, i) /\ ~BearerAt(text, i) /\ text[i] # "sk-"
      BY <2>3 DEF HeaderAt, BearerAt, Headers, TokenEnds, Space
    <3>4. RedactOK(s) /\ s.mode = "plain" /\ s.out = Append(out, text[i])
      BY <3>2, <3>3, PlainIs
    <3> QED
      BY <1>4, <2>3, <3>1, <3>4 DEF Goes
  <2> QED
    BY <2>2, <2>3
<1>5. CASE /\ ~Copies(r.mode, text[i])
           /\ ~(r.mode = "bearer" \/ (r.mode = "header" /\ ~BearerAt(text, i)))
           /\ Skips(r.mode, text[i])
  <2>1. s = r
    BY <1>5 DEF RedactStep
  <2> QED
    BY <1>5, <2>1 DEF Goes
<1>6. CASE /\ ~Copies(r.mode, text[i])
           /\ ~(r.mode = "bearer" \/ (r.mode = "header" /\ ~BearerAt(text, i)))
           /\ ~Skips(r.mode, text[i])
  <2>1. s = Plain(text, i, r.out)
    BY <1>6 DEF RedactStep
  <2>2. /\ RedactOK(s)
        /\ s.mode = IF HeaderAt(text, i) THEN "header" ELSE IF BearerAt(text, i) THEN "bearer"
                    ELSE IF text[i] = "sk-" THEN "key" ELSE "plain"
        /\ s.out = Append(r.out, IF text[i] = "sk-" THEN RedactedKey ELSE text[i])
    BY <1>1, <2>1, PlainIs
  <2>3. r.mode \in {"plain", "token", "key"} \/ (r.mode = "header" /\ BearerAt(text, i))
    BY <1>1, <1>6 DEF Modes
  <2> QED
    BY <1>6, <2>2, <2>3 DEF Goes
<1> QED
  BY <1>3, <1>4, <1>5, <1>6

LEMMA RedactsType ==
    ASSUME NEW text \in Seq(STRING), NEW R, Redacts(R, text)
    PROVE  /\ \A i \in 0 .. Len(text) : RedactOK(R[i])
           /\ \A i \in 1 .. Len(text) : RedactOK(R[i - 1]) /\ Goes(text, i, R[i - 1], R[i])
<1> DEFINE T == {i \in Nat : RedactOK(R[i])}
<1>1. Len(text) \in Nat
  OBVIOUS
<1>2. 0 \in T
  <2>1. PICK r : r = R[0]
    OBVIOUS
  <2>2. r = [mode |-> "plain", out |-> <<>>]
    BY <2>1 DEF Redacts
  <2>3. r.mode = "plain" /\ r.out = <<>> /\ DOMAIN r = {"mode", "out"}
    BY <2>2
  <2>4. <<>> \in Seq(OutWords)
    OBVIOUS
  <2> QED
    BY <2>1, <2>3, <2>4 DEF RedactOK, Modes
<1>3. ASSUME NEW i \in 1 .. Len(text), RedactOK(R[i - 1])
      PROVE  RedactOK(R[i]) /\ Goes(text, i, R[i - 1], R[i])
  BY <1>3, StepGoes DEF Redacts
<1>4. ASSUME NEW i \in 0 .. (Len(text) - 1), i \in T PROVE i + 1 \in T
  <2>1. i + 1 \in 1 .. Len(text) /\ (i + 1) - 1 = i /\ i + 1 \in Nat
    BY <1>1
  <2> QED
    BY <1>3, <1>4, <2>1
<1>5. \A i \in 0 .. Len(text) : i \in T
  <2> HIDE DEF T
  <2> QED
    BY <1>1, <1>2, <1>4, UpTo
<1>6. \A i \in 1 .. Len(text) : RedactOK(R[i - 1])
  <2>1. \A i \in 1 .. Len(text) : i - 1 \in 0 .. Len(text)
    BY <1>1
  <2> QED
    BY <1>5, <2>1
<1> QED
  BY <1>3, <1>5, <1>6

\* The mode after the piece at i, by what came before.
InHeader(text, i) == \E j \in 1 .. i : HeaderAt(text, j) /\ \A k \in (j + 1) .. i : text[k] \in Separators
InBearer(text, i) == \E j \in 1 .. i : BearerAt(text, j) /\ \A k \in (j + 1) .. i : text[k] = Space
InToken(text, i) == \E j \in 1 .. (i - 1) : TokenOf(text, j, i)
InKey(text, i) == \E j \in 1 .. i : KeyOf(text, j, i)
ModeTells(text, i, mode) ==
    /\ mode = "header" <=> InHeader(text, i)
    /\ mode = "bearer" <=> InBearer(text, i)
    /\ mode = "token" <=> InToken(text, i)
    /\ mode = "key" => InKey(text, i)
    /\ InKey(text, i) => mode \in {"key", "token"}

\* How each of them goes on from one piece to the next.
LEMMA InHeaderStep ==
    ASSUME NEW text, NEW i \in Nat, i > 0
    PROVE  InHeader(text, i) <=> HeaderAt(text, i) \/ (InHeader(text, i - 1) /\ text[i] \in Separators)
<1>1. \A j \in 1 .. (i - 1) : (j + 1) .. i = ((j + 1) .. (i - 1)) \cup {i}
  OBVIOUS
<1>2. 1 .. i = (1 .. (i - 1)) \cup {i} /\ (i + 1) .. i = {}
  OBVIOUS
<1> QED
  BY <1>1, <1>2, Zenon DEF InHeader

LEMMA InBearerStep ==
    ASSUME NEW text, NEW i \in Nat, i > 0
    PROVE  InBearer(text, i) <=> BearerAt(text, i) \/ (InBearer(text, i - 1) /\ text[i] = Space)
<1> DEFINE Blank(j, e) == \A k \in (j + 1) .. e : text[k] = Space
<1>1. \A j \in 1 .. (i - 1) : Blank(j, i) <=> text[i] = Space /\ Blank(j, i - 1)
  OBVIOUS
<1>2. Blank(i, i)
  OBVIOUS
<1>3. \A j : j \in 1 .. i <=> j = i \/ j \in 1 .. (i - 1)
  OBVIOUS
<1>4. \A e : InBearer(text, e) <=> \E j \in 1 .. e : BearerAt(text, j) /\ Blank(j, e)
  BY Zenon DEF InBearer
<1> HIDE DEF Blank
<1> QED
  BY <1>1, <1>2, <1>3, <1>4, Zenon

LEMMA InKeyStep ==
    ASSUME NEW text, NEW i \in Nat, i > 0
    PROVE  InKey(text, i) <=> text[i] = "sk-" \/ (InKey(text, i - 1) /\ OfKey(text[i]))
<1>1. \A j \in 1 .. (i - 1) : (j + 1) .. i = ((j + 1) .. (i - 1)) \cup {i}
  OBVIOUS
<1>2. 1 .. i = (1 .. (i - 1)) \cup {i} /\ (i + 1) .. i = {}
  OBVIOUS
<1> QED
  BY <1>1, <1>2, Zenon DEF InKey, KeyOf

Begins(text, i) ==
    \/ InHeader(text, i - 1) /\ text[i] \notin Separators /\ ~BearerAt(text, i)
    \/ InBearer(text, i - 1)
LEMMA InTokenStep ==
    ASSUME NEW text, NEW i \in Nat, i > 0
    PROVE  InToken(text, i) <=> text[i] \notin TokenEnds /\ (InToken(text, i - 1) \/ Begins(text, i))
<1> DEFINE Behind(j, a, e) ==
               \/ /\ HeaderAt(text, j) /\ text[a] \notin Separators /\ ~BearerAt(text, a)
                  /\ \A k \in a .. e : text[k] \notin TokenEnds
                  /\ \A k \in (j + 1) .. (a - 1) : text[k] \in Separators
               \/ /\ BearerAt(text, j)
                  /\ \A k \in a .. e : text[k] \notin TokenEnds
                  /\ \A k \in (j + 1) .. (a - 1) : text[k] = Space
<1>1. \A e : \A j : TokenOf(text, j, e) <=> \E a \in (j + 1) .. e : Behind(j, a, e)
  BY Zenon DEF TokenOf
<1>2. \A a \in 1 .. (i - 1) : a .. i = (a .. (i - 1)) \cup {i}
  OBVIOUS
<1>3. i .. i = {i}
  OBVIOUS
<1>4. \A j : \A a \in 1 .. (i - 1) : Behind(j, a, i) <=> text[i] \notin TokenEnds /\ Behind(j, a, i - 1)
  <2>1. \A a \in 1 .. (i - 1) : (\A k \in a .. i : text[k] \notin TokenEnds) <=>
            text[i] \notin TokenEnds /\ \A k \in a .. (i - 1) : text[k] \notin TokenEnds
    BY <1>2
  <2> QED
    BY <2>1, Zenon
<1>5. \A j : Behind(j, i, i) <=>
          /\ text[i] \notin TokenEnds
          /\ \/ /\ HeaderAt(text, j) /\ text[i] \notin Separators /\ ~BearerAt(text, i)
                /\ \A k \in (j + 1) .. (i - 1) : text[k] \in Separators
             \/ BearerAt(text, j) /\ \A k \in (j + 1) .. (i - 1) : text[k] = Space
  BY <1>3, Zenon
<1> HIDE DEF Behind
<1>6. InToken(text, i) <=> \E j \in 1 .. (i - 1) : \E a \in (j + 1) .. i : Behind(j, a, i)
  BY <1>1, Zenon DEF InToken
<1>7. InToken(text, i - 1) <=> \E j \in 1 .. (i - 2) : \E a \in (j + 1) .. (i - 1) : Behind(j, a, i - 1)
  <2>1. (i - 1) - 1 = i - 2
    OBVIOUS
  <2> QED
    BY <1>1, <2>1, Zenon DEF InToken
<1>8. (\E j \in 1 .. (i - 1) : \E a \in (j + 1) .. i : Behind(j, a, i)) <=>
          \/ \E j \in 1 .. (i - 2) : \E a \in (j + 1) .. (i - 1) : Behind(j, a, i)
          \/ \E j \in 1 .. (i - 1) : Behind(j, i, i)
  <2>1. ASSUME NEW j \in 1 .. (i - 1), NEW a \in (j + 1) .. i, Behind(j, a, i), a # i
        PROVE  j \in 1 .. (i - 2) /\ a \in (j + 1) .. (i - 1)
    BY <2>1
  <2>2. \A j \in 1 .. (i - 2) : j \in 1 .. (i - 1) /\ \A a \in (j + 1) .. (i - 1) : a \in (j + 1) .. i
    OBVIOUS
  <2>3. \A j \in 1 .. (i - 1) : i \in (j + 1) .. i
    OBVIOUS
  <2> QED
    BY <2>1, <2>2, <2>3, Zenon
<1>9. \A j \in 1 .. (i - 2) : \A a \in (j + 1) .. (i - 1) : a \in 1 .. (i - 1)
  OBVIOUS
<1>10. (\E j \in 1 .. (i - 2) : \E a \in (j + 1) .. (i - 1) : Behind(j, a, i)) <=>
           text[i] \notin TokenEnds /\ InToken(text, i - 1)
  BY <1>4, <1>7, <1>9, Zenon
<1>11. (\E j \in 1 .. (i - 1) : Behind(j, i, i)) <=> text[i] \notin TokenEnds /\ Begins(text, i)
  BY <1>5, Zenon DEF Begins, InHeader, InBearer
<1> QED
  BY <1>6, <1>8, <1>10, <1>11

\* A secret's piece is no header, no bearer and no word that is looked for.
LEMMA NotAnnounced ==
    ASSUME NEW text \in Seq(STRING), KeysAreAnnounced(text), NEW i \in 1 .. Len(text)
    PROVE  /\ text[i] = "KEY" => InToken(text, i) \/ InKey(text, i)
           /\ InToken(text, i) \/ (InKey(text, i - 1) /\ OfKey(text[i])) =>
                  ~HeaderAt(text, i) /\ ~BearerAt(text, i) /\ text[i] \notin PhraseWords
<1>1. i \in DOMAIN text /\ i \in Nat /\ i > 0 /\ \A j \in 1 .. (i - 1) : j \in 1 .. i
  OBVIOUS
<1>2. InKey(text, i - 1) /\ OfKey(text[i]) => \E j \in 1 .. (i - 1) : KeyOf(text, j, i)
  <2>1. \A j \in 1 .. (i - 1) : (j + 1) .. i = ((j + 1) .. (i - 1)) \cup {i}
    BY <1>1
  <2> QED
    BY <2>1, Zenon DEF InKey, KeyOf
<1>3. text[i] = "KEY" => \E j \in 1 .. (i - 1) : TokenOf(text, j, i) \/ KeyOf(text, j, i)
  BY <1>1, Zenon DEF KeysAreAnnounced
<1>4. \A j \in 1 .. (i - 1) : TokenOf(text, j, i) \/ KeyOf(text, j, i) =>
          ~HeaderAt(text, i) /\ ~BearerAt(text, i) /\ text[i] \notin PhraseWords
  BY <1>1, Zenon DEF KeysAreAnnounced
<1>5. text[i] = "KEY" => InToken(text, i) \/ InKey(text, i)
  BY <1>1, <1>3, Zenon DEF InToken, InKey
<1>6. InToken(text, i) => \E j \in 1 .. (i - 1) : TokenOf(text, j, i)
  BY Zenon DEF InToken
<1> QED
  BY <1>2, <1>4, <1>5, <1>6, Zenon

LEMMA ModesTell ==
    ASSUME NEW text \in Seq(STRING), KeysAreAnnounced(text), NEW R, Redacts(R, text)
    PROVE  \A i \in 0 .. Len(text) : ModeTells(text, i, R[i].mode)
<1> DEFINE T == {i \in Nat : ModeTells(text, i, R[i].mode)}
<1>1. Len(text) \in Nat
  OBVIOUS
<1>2. 0 \in T
  <2>1. R[0].mode = "plain"
    BY DEF Redacts
  <2>2. ~InHeader(text, 0) /\ ~InBearer(text, 0) /\ ~InToken(text, 0) /\ ~InKey(text, 0)
    <3>1. 1 .. 0 = {} /\ 1 .. (0 - 1) = {}
      OBVIOUS
    <3> QED
      BY <3>1 DEF InHeader, InBearer, InToken, InKey
  <2> QED
    BY <2>1, <2>2 DEF ModeTells
<1>3. ASSUME NEW i \in 1 .. Len(text), ModeTells(text, i - 1, R[i - 1].mode)
      PROVE  ModeTells(text, i, R[i].mode)
  <2>1. i \in Nat /\ i > 0
    BY <1>1
  <2>2. PICK old : old = R[i - 1]
    OBVIOUS
  <2>3. PICK new : new = R[i]
    OBVIOUS
  <2>4. PICK x : x = text[i]
    OBVIOUS
  <2>5. RedactOK(old) /\ Goes(text, i, old, new)
    BY <2>2, <2>3, RedactsType
  <2>6. old.mode \in Modes
    BY <2>5 DEF RedactOK
  <2>7. /\ InHeader(text, i) <=> HeaderAt(text, i) \/ (old.mode = "header" /\ x \in Separators)
        /\ InBearer(text, i) <=> BearerAt(text, i) \/ (old.mode = "bearer" /\ x = Space)
        /\ InToken(text, i) <=>
               /\ x \notin TokenEnds
               /\ \/ old.mode \in {"token", "bearer"}
                  \/ old.mode = "header" /\ x \notin Separators /\ ~BearerAt(text, i)
    BY <1>3, <2>1, <2>2, <2>4, InHeaderStep, InBearerStep, InTokenStep DEF ModeTells, Begins
  <2>8. /\ InKey(text, i) => x = "sk-" \/ (old.mode \in {"key", "token"} /\ OfKey(x))
        /\ x = "sk-" \/ (old.mode = "key" /\ OfKey(x)) => InKey(text, i)
    BY <1>3, <2>1, <2>2, <2>4, InKeyStep DEF ModeTells
  <2>9. InToken(text, i) \/ (old.mode = "key" /\ OfKey(x)) => ~HeaderAt(text, i) /\ ~BearerAt(text, i)
    BY <1>3, <2>2, <2>4, NotAnnounced DEF ModeTells
  <2>10. /\ HeaderAt(text, i) => x \in Headers
         /\ BearerAt(text, i) => x = "bearer"
    BY <2>4 DEF HeaderAt, BearerAt
  <2>11. /\ Headers \cap (Marks \cup {"bearer", "sk-"}) = {} /\ "bearer" \notin Marks /\ "sk-" \notin Marks
         /\ TokenEnds \subseteq Marks /\ Separators \subseteq Marks /\ Space \in Separators \cap TokenEnds
         /\ OfKey(x) => x \notin TokenEnds
         /\ x \notin Marks => OfKey(x)
    BY DEF Headers, Marks, Separators, TokenEnds, Space, OfKey
  <2>12. /\ old.mode = "header" /\ x \in Separators => new.mode = "header"
         /\ old.mode = "bearer" /\ x = Space => new.mode = "bearer"
         /\ InToken(text, i) => new.mode = "token"
    <3>1. CASE Copies(old.mode, x)
      BY <2>4, <2>5, <2>7, <2>9, <2>10, <2>11, <3>1 DEF Goes, Copies, Skips
    <3>2. CASE ~Copies(old.mode, x)
      BY <2>4, <2>5, <2>7, <2>9, <2>10, <2>11, <3>2 DEF Goes, Copies, Skips
    <3> QED
      BY <3>1, <3>2
  <2>13. ~Copies(old.mode, x) /\ ~InToken(text, i) /\ ~Skips(old.mode, x) =>
            new.mode = IF HeaderAt(text, i) THEN "header" ELSE IF BearerAt(text, i) THEN "bearer"
                       ELSE IF x = "sk-" THEN "key" ELSE "plain"
    BY <2>4, <2>5, <2>6, <2>7, <2>10, <2>11 DEF Goes, Copies, Skips, Modes
  <2>14. Skips(old.mode, x) => new.mode = old.mode
    BY <2>4, <2>5 DEF Goes, Copies, Skips
  <2>15. old.mode = "key" /\ OfKey(x) => new.mode = "key"
    BY <2>14 DEF Skips
  <2>16. Copies(old.mode, x) => new.mode = old.mode
    BY <2>12 DEF Copies
  <2> HIDE DEF T
  <2> QED
    BY <2>3, <2>6, <2>7, <2>8, <2>9, <2>10, <2>11, <2>12, <2>13, <2>14, <2>16 DEF ModeTells, Copies, Skips, Modes
<1>4. ASSUME NEW i \in 0 .. (Len(text) - 1), i \in T PROVE i + 1 \in T
  <2>1. i + 1 \in 1 .. Len(text) /\ (i + 1) - 1 = i /\ i + 1 \in Nat
    BY <1>1
  <2> QED
    BY <1>3, <1>4, <2>1
<1>5. \A i \in 0 .. Len(text) : i \in T
  <2> HIDE DEF T
  <2> QED
    BY <1>1, <1>2, <1>4, UpTo
<1> QED
  BY <1>5

\* What is told of a text.
Reds == {Redacted, RedactedKey}
Looked == PhraseWords \cup {Space}

\* Back to the last redaction, the end of what is told is the end of the text.
Clean(text, i, out) ==
    \A d \in 0 .. (Len(out) - 1) : (\A e \in 0 .. d : out[Len(out) - e] \notin Reds) =>
        d < i /\ out[Len(out) - d] = text[i - d]
EndsRed(out) == Len(out) > 0 /\ out[Len(out)] \in Reds
ToldOK(text, i, r) == Clean(text, i, r.out) /\ (r.mode \in {"token", "key"} => EndsRed(r.out))

LEMMA CleanRed ==
    ASSUME NEW text, NEW i, NEW out, out \in Seq(OutWords), EndsRed(out)
    PROVE  Clean(text, i, out)
<1>1. Len(out) \in Nat /\ Len(out) - 0 = Len(out)
  OBVIOUS
<1> QED
  BY <1>1 DEF Clean, EndsRed

LEMMA CleanAppend ==
    ASSUME NEW text, NEW i \in Nat, i > 0, NEW out \in Seq(OutWords), Clean(text, i - 1, out),
           NEW x \in OutWords, x = text[i]
    PROVE  Clean(text, i, Append(out, x))
<1>1. PICK n \in Nat : n = Len(out)
  OBVIOUS
<1>2. PICK new : new = Append(out, x)
  OBVIOUS
<1>3. Len(new) = n + 1 /\ new[n + 1] = x /\ \A j \in 1 .. n : new[j] = out[j]
  BY <1>1, <1>2
<1>4. SUFFICES ASSUME NEW d \in 0 .. n, \A e \in 0 .. d : new[(n + 1) - e] \notin Reds
               PROVE  d < i /\ new[(n + 1) - d] = text[i - d]
  <2>1. PICK m : m = n + 1
    OBVIOUS
  <2>2. Len(new) = m /\ m - 1 = n
    BY <1>1, <1>3, <2>1
  <2>3. Clean(text, i, new) <=>
            \A d \in 0 .. n : (\A e \in 0 .. d : new[m - e] \notin Reds) => d < i /\ new[m - d] = text[i - d]
    BY <2>2, Zenon DEF Clean
  <2> QED
    BY <1>2, <2>1, <2>3, Zenon
<1>5. CASE d = 0
  BY <1>3, <1>5
<1>6. CASE d > 0
  <2>1. d - 1 \in 0 .. (n - 1)
    BY <1>6
  <2>2. ASSUME NEW e \in 0 .. (d - 1) PROVE out[n - e] \notin Reds
    <3>1. e + 1 \in 0 .. d /\ (n + 1) - (e + 1) = n - e /\ n - e \in 1 .. n
      OBVIOUS
    <3> QED
      BY <1>3, <1>4, <3>1
  <2>3. d - 1 < i - 1 /\ out[n - (d - 1)] = text[(i - 1) - (d - 1)]
    BY <1>1, <2>1, <2>2 DEF Clean
  <2>4. n - (d - 1) = (n + 1) - d /\ (i - 1) - (d - 1) = i - d /\ (n + 1) - d \in 1 .. n
    BY <1>6
  <2> QED
    BY <1>3, <2>3, <2>4
<1> QED
  BY <1>5, <1>6

\* What a piece adds to what is told: nothing, a redaction, the piece, or both.
Adds(x, old, new) ==
    \/ new = old
    \/ new = Append(old, x)
    \/ \E red \in Reds : new = Append(old, red)
    \/ new = Append(Append(old, Redacted), x)

LEMMA GoesOn ==
    ASSUME NEW text \in Seq(STRING), NEW i \in 1 .. Len(text), NEW old, RedactOK(old),
           NEW new, RedactOK(new), Goes(text, i, old, new), ToldOK(text, i - 1, old)
    PROVE  ToldOK(text, i, new) /\ Adds(text[i], old.out, new.out)
<1>1. PICK x : x = text[i]
  OBVIOUS
<1>2. x \in OutWords /\ Redacted \in OutWords /\ RedactedKey \in OutWords
  <2>1. x \in STRING
    BY <1>1
  <2> QED
    BY <2>1, Zenon DEF OutWords
<1>3. i \in Nat /\ i > 0
  OBVIOUS
<1>4. PICK s \in Seq(OutWords) : s = old.out
  BY DEF RedactOK
<1>5. Clean(text, i - 1, s) /\ (old.mode \in {"token", "key"} => EndsRed(s))
  BY <1>4 DEF ToldOK
<1>6. \A red \in Reds : EndsRed(Append(s, red)) /\ Append(s, red) \in Seq(OutWords)
  BY <1>2 DEF EndsRed, Reds
<1>7. Clean(text, i, Append(s, x))
  BY <1>1, <1>2, <1>3, <1>5, CleanAppend
<1>8. \A red \in Reds : Clean(text, i, Append(s, red))
  BY <1>6, CleanRed
<1>9. Clean(text, i, Append(Append(s, Redacted), x))
  <2>1. PICK t : t = Append(s, Redacted)
    OBVIOUS
  <2>2. t \in Seq(OutWords) /\ EndsRed(t)
    BY <1>6, <2>1 DEF Reds
  <2>3. Clean(text, i - 1, t)
    BY <2>2, CleanRed
  <2>4. Clean(text, i, Append(t, x))
    BY <1>1, <1>2, <1>3, <2>2, <2>3, CleanAppend
  <2> QED
    BY <2>1, <2>4
<1>10. CASE Copies(old.mode, x) /\ new.mode = old.mode /\ new.out = Append(s, x)
  BY <1>1, <1>4, <1>7, <1>10 DEF ToldOK, Copies, Adds
<1>11. CASE new.mode = "token" /\ new.out = Append(s, Redacted)
  BY <1>1, <1>4, <1>6, <1>8, <1>11 DEF ToldOK, Adds, Reds
<1>12. CASE new.mode = "plain" /\ new.out = Append(Append(s, Redacted), x)
  BY <1>1, <1>4, <1>9, <1>12 DEF ToldOK, Adds
<1>13. CASE Skips(old.mode, x) /\ new = old
  <2>1. EndsRed(s) /\ new.out = s
    BY <1>4, <1>5, <1>13 DEF Skips
  <2>2. Clean(text, i, s)
    BY <2>1, CleanRed
  <2> QED
    BY <1>4, <2>1, <2>2 DEF ToldOK, Adds
<1>14. CASE /\ new.mode = IF HeaderAt(text, i) THEN "header" ELSE IF BearerAt(text, i) THEN "bearer"
                          ELSE IF x = "sk-" THEN "key" ELSE "plain"
            /\ new.out = Append(s, IF x = "sk-" THEN RedactedKey ELSE x)
  <2>1. CASE x = "sk-"
    <3>1. new.out = Append(s, RedactedKey) /\ RedactedKey \in Reds
      BY <1>14, <2>1 DEF Reds
    <3> QED
      BY <1>4, <1>6, <1>8, <3>1 DEF ToldOK, Adds
  <2>2. CASE x # "sk-"
    <3>1. new.out = Append(s, x) /\ new.mode \notin {"token", "key"}
      BY <1>14, <2>2
    <3> QED
      BY <1>1, <1>4, <1>7, <3>1 DEF ToldOK, Adds
  <2> QED
    BY <2>1, <2>2
<1> QED
  BY <1>1, <1>4, <1>10, <1>11, <1>12, <1>13, <1>14 DEF Goes

LEMMA AllTold ==
    ASSUME NEW text \in Seq(STRING), NEW R, Redacts(R, text)
    PROVE  /\ \A i \in 0 .. Len(text) : ToldOK(text, i, R[i]) /\ R[i].out \in Seq(OutWords)
           /\ \A i \in 1 .. Len(text) : Adds(text[i], R[i - 1].out, R[i].out)
<1> DEFINE T == {i \in Nat : ToldOK(text, i, R[i])}
<1>1. Len(text) \in Nat
  OBVIOUS
<1>2. 0 \in T
  <2>1. R[0].mode = "plain" /\ R[0].out = <<>>
    BY DEF Redacts
  <2>2. Len(<<>>) = 0
    OBVIOUS
  <2> QED
    BY <2>1, <2>2 DEF ToldOK, Clean
<1>3. ASSUME NEW i \in 1 .. Len(text), ToldOK(text, i - 1, R[i - 1])
      PROVE  ToldOK(text, i, R[i]) /\ Adds(text[i], R[i - 1].out, R[i].out)
  <2>1. RedactOK(R[i - 1]) /\ Goes(text, i, R[i - 1], R[i]) /\ RedactOK(R[i])
    <3>1. i \in 0 .. Len(text)
      BY <1>1
    <3> QED
      BY <3>1, RedactsType
  <2> QED
    BY <1>3, <2>1, GoesOn
<1>4. ASSUME NEW i \in 0 .. (Len(text) - 1), i \in T PROVE i + 1 \in T
  <2>1. i + 1 \in 1 .. Len(text) /\ (i + 1) - 1 = i /\ i + 1 \in Nat
    BY <1>1
  <2> QED
    BY <1>3, <1>4, <2>1
<1>5. \A i \in 0 .. Len(text) : i \in T
  <2> HIDE DEF T
  <2> QED
    BY <1>1, <1>2, <1>4, UpTo
<1>6. \A i \in 1 .. Len(text) : ToldOK(text, i - 1, R[i - 1])
  <2>1. \A i \in 1 .. Len(text) : i - 1 \in 0 .. Len(text)
    BY <1>1
  <2> QED
    BY <1>5, <2>1
<1> QED
  BY <1>3, <1>5, <1>6, RedactsType DEF RedactOK

\* No key is told: a piece of a secret leaves a redaction as the last of what is told.
LEMMA KeysGo ==
    ASSUME NEW text \in Seq(STRING), KeysAreAnnounced(text), NEW R, Redacts(R, text)
    PROVE  \A i \in 0 .. Len(text) : \A k \in 1 .. Len(R[i].out) : R[i].out[k] # "KEY"
<1> DEFINE Free(out) == \A k \in 1 .. Len(out) : out[k] # "KEY"
           T == {i \in Nat : Free(R[i].out)}
<1>1. Len(text) \in Nat
  OBVIOUS
<1>2. 0 \in T
  <2>1. R[0].out = <<>> /\ Len(<<>>) = 0
    BY DEF Redacts
  <2> QED
    BY <2>1
<1>3. ASSUME NEW i \in 1 .. Len(text), Free(R[i - 1].out) PROVE Free(R[i].out)
  <2>1. i \in 0 .. Len(text) /\ i - 1 \in 0 .. Len(text)
    BY <1>1
  <2>2. PICK old \in Seq(OutWords) : old = R[i - 1].out
    BY <2>1, AllTold
  <2>3. PICK new \in Seq(OutWords) : new = R[i].out
    BY <2>1, AllTold
  <2>4. PICK x : x = text[i]
    OBVIOUS
  <2>5. Adds(x, old, new)
    BY <2>2, <2>3, <2>4, AllTold
  <2>6. x \in OutWords /\ Redacted \in OutWords /\ RedactedKey \in OutWords
    <3>1. x \in STRING
      BY <2>4
    <3> QED
      BY <3>1, Zenon DEF OutWords
  <2>7. x = "KEY" => EndsRed(new)
    <3>1. x = "KEY" => InToken(text, i) \/ InKey(text, i)
      BY <2>4, NotAnnounced
    <3>2. InToken(text, i) \/ InKey(text, i) => R[i].mode \in {"token", "key"}
      BY <2>1, ModesTell DEF ModeTells
    <3>3. R[i].mode \in {"token", "key"} => EndsRed(new)
      BY <2>1, <2>3, AllTold DEF ToldOK
    <3> QED
      BY <3>1, <3>2, <3>3
  <2>8. Free(old)
    BY <1>3, <2>2
  <2>9. new[Len(new)] # "KEY" \/ new = old
    BY <2>5, <2>6, <2>7 DEF Adds, EndsRed, Reds, Redacted, RedactedKey
  <2>10. Redacted # "KEY" /\ RedactedKey # "KEY"
    BY DEF Redacted, RedactedKey
  <2>11. Free(new)
    <3>1. CASE new = old
      BY <2>8, <3>1
    <3>2. CASE new # old /\ \E y \in OutWords : new = Append(old, y)
      <4>1. PICK y \in OutWords : new = Append(old, y)
        BY <3>2
      <4>2. \A k \in 1 .. Len(new) : k = Len(new) \/ (k \in 1 .. Len(old) /\ new[k] = old[k])
        BY <4>1
      <4> QED
        BY <2>8, <2>9, <3>2, <4>2
    <3>3. CASE new # old /\ new = Append(Append(old, Redacted), x)
      <4>1. \A k \in 1 .. Len(new) : \/ k = Len(new)
                                     \/ k = Len(old) + 1 /\ new[k] = Redacted
                                     \/ k \in 1 .. Len(old) /\ new[k] = old[k]
        BY <2>6, <3>3
      <4> QED
        BY <2>8, <2>9, <2>10, <3>3, <4>1
    <3> QED
      BY <2>5, <2>6, <3>1, <3>2, <3>3 DEF Adds, Reds
  <2> QED
    BY <2>3, <2>11
<1>4. ASSUME NEW i \in 0 .. (Len(text) - 1), i \in T PROVE i + 1 \in T
  <2>1. i + 1 \in 1 .. Len(text) /\ (i + 1) - 1 = i /\ i + 1 \in Nat
    BY <1>1
  <2> QED
    BY <1>3, <1>4, <2>1
<1>5. \A i \in 0 .. Len(text) : i \in T
  <2> HIDE DEF T
  <2> QED
    BY <1>1, <1>2, <1>4, UpTo
<1> QED
  BY <1>5

\* A phrase from the piece after a on.
IsAt(s, a, w) == a + Len(w) <= Len(s) /\ \A k \in 1 .. Len(w) : s[a + k] = w[k]
Occurs(s, w) == \E a \in Nat : IsAt(s, a, w)

LEMMA HoldsIs ==
    ASSUME NEW P, NEW s \in Seq(P), NEW Q, NEW w \in Seq(Q)
    PROVE  Holds(s, w) <=> Occurs(s, w)
<1>1. PICK n \in Nat : n = Len(s)
  OBVIOUS
<1>2. PICK m \in Nat : m = Len(w)
  OBVIOUS
<1>3. \A a : a \in 0 .. (n - m) <=> a \in Nat /\ a + m <= n
  OBVIOUS
<1>4. ASSUME NEW a \in Nat, a + m <= n
      PROVE  SubSeq(s, a + 1, a + m) = w <=> \A k \in 1 .. m : s[a + k] = w[k]
  <2>1. PICK t : t = SubSeq(s, a + 1, a + m)
    OBVIOUS
  <2>2. t \in Seq(P) /\ Len(t) = m /\ \A k \in 1 .. m : t[k] = s[a + k]
    <3>1. a + 1 \in 1 .. (n + 1) /\ a + m \in (a + 1 - 1) .. n
      BY <1>4
    <3> QED
      BY <1>1, <1>4, <2>1, SubSeqProperties
  <2>3. t = w <=> \A k \in 1 .. m : t[k] = w[k]
    <3>1. t = [k \in 1 .. m |-> t[k]] /\ w = [k \in 1 .. m |-> w[k]]
      BY <1>2, <2>2
    <3> QED
      BY <3>1
  <2> QED
    BY <2>1, <2>2, <2>3
<1> QED
  BY <1>1, <1>2, <1>3, <1>4, Zenon DEF Holds, Occurs, IsAt

\* What is told holds no phrase that the text does not hold.
LEMMA NothingIsPutIn ==
    ASSUME NEW text \in Seq(STRING), NEW R, Redacts(R, text), NEW w \in Seq(Looked), Len(w) > 0
    PROVE  \A i \in 0 .. Len(text) : Occurs(R[i].out, w) => Occurs(text, w)
<1> DEFINE T == {i \in Nat : Occurs(R[i].out, w) => Occurs(text, w)}
<1>1. PICK n \in Nat : n = Len(text)
  OBVIOUS
<1>2. PICK m \in Nat : m = Len(w) /\ m > 0
  OBVIOUS
<1>3. 0 \in T
  <2>1. R[0].out = <<>> /\ Len(<<>>) = 0
    BY DEF Redacts
  <2> QED
    BY <1>2, <2>1 DEF Occurs, IsAt
<1>4. \A k \in 1 .. m : w[k] \notin Reds
  <2>1. \A x \in Looked : x \notin Reds
    BY DEF Looked, PhraseWords, Reds, Redacted, RedactedKey, Space
  <2> QED
    BY <1>2, <2>1
<1>5. ASSUME NEW i \in 1 .. n, Occurs(R[i - 1].out, w) => Occurs(text, w), Occurs(R[i].out, w)
      PROVE  Occurs(text, w)
  <2>1. i \in 0 .. n /\ i - 1 \in 0 .. n /\ i \in Nat
    BY <1>1
  <2>2. PICK old \in Seq(OutWords) : old = R[i - 1].out
    BY <1>1, <2>1, AllTold
  <2>3. PICK new \in Seq(OutWords) : new = R[i].out
    BY <1>1, <2>1, AllTold
  <2>4. PICK x : x = text[i]
    OBVIOUS
  <2>5. Adds(x, old, new) /\ Clean(text, i, new)
    BY <1>1, <2>1, <2>2, <2>3, <2>4, AllTold DEF ToldOK
  <2>6. x \in OutWords /\ Redacted \in OutWords /\ RedactedKey \in OutWords
    <3>1. x \in STRING
      BY <1>1, <2>4
    <3> QED
      BY <3>1, Zenon DEF OutWords
  <2>7. PICK p \in Nat : p = Len(old)
    OBVIOUS
  <2>8. PICK q \in Nat : q = Len(new)
    OBVIOUS
  <2>9. (\A k \in 1 .. p : new[k] = old[k]) /\ (q \in {p, p + 1} \/ (q = p + 2 /\ new[p + 1] = Redacted))
    <3>1. CASE new = old
      BY <2>7, <2>8, <3>1
    <3>2. ASSUME NEW y \in OutWords, new = Append(old, y) PROVE (\A k \in 1 .. p : new[k] = old[k]) /\ q = p + 1
      BY <2>7, <2>8, <3>2
    <3>3. CASE new = Append(Append(old, Redacted), x)
      BY <2>6, <2>7, <2>8, <3>3
    <3> QED
      BY <2>5, <2>6, <3>1, <3>2, <3>3 DEF Adds, Reds
  <2>10. PICK a \in Nat : a + m <= q /\ \A k \in 1 .. m : new[a + k] = w[k]
    BY <1>2, <1>5, <2>3, <2>8 DEF Occurs, IsAt
  <2>11. CASE a + m <= p
    <3>1. \A k \in 1 .. m : old[a + k] = w[k]
      BY <2>9, <2>10, <2>11
    <3>2. Occurs(old, w)
      BY <1>2, <2>7, <2>11, <3>1 DEF Occurs, IsAt
    <3> QED
      BY <1>5, <2>2, <3>2
  <2>12. CASE a + m = q
    <3>1. ASSUME NEW e \in 0 .. (m - 1) PROVE new[q - e] = w[m - e] /\ w[m - e] \notin Reds
      <4>1. m - e \in 1 .. m /\ a + (m - e) = q - e
        BY <2>12
      <4> QED
        BY <1>4, <2>10, <4>1
    <3>2. ASSUME NEW d \in 0 .. (m - 1) PROVE d < i /\ new[q - d] = text[i - d]
      <4>1. d \in 0 .. (q - 1) /\ \A e \in 0 .. d : new[q - e] \notin Reds
        <5>1. \A e \in 0 .. d : e \in 0 .. (m - 1)
          OBVIOUS
        <5> QED
          BY <2>12, <3>1, <5>1
      <4> QED
        BY <2>5, <2>8, <4>1 DEF Clean
    <3>3. i - m \in Nat /\ (i - m) + m <= n
      <4>1. m - 1 \in 0 .. (m - 1)
        BY <1>2
      <4>2. m - 1 < i
        BY <3>2, <4>1
      <4> QED
        BY <4>2
    <3>4. ASSUME NEW k \in 1 .. m PROVE text[(i - m) + k] = w[k]
      <4>1. m - k \in 0 .. (m - 1) /\ i - (m - k) = (i - m) + k /\ m - (m - k) = k
        OBVIOUS
      <4> QED
        BY <3>1, <3>2, <4>1
    <3> QED
      BY <1>1, <1>2, <3>3, <3>4 DEF Occurs, IsAt
  <2>13. CASE a + m > p /\ a + m # q
    <3>1. a + m = p + 1 /\ new[p + 1] = Redacted
      BY <2>9, <2>10, <2>13
    <3>2. w[m] = Redacted
      BY <1>2, <2>10, <3>1
    <3> QED
      BY <1>2, <1>4, <3>2 DEF Reds
  <2> QED
    BY <2>11, <2>12, <2>13
<1>6. ASSUME NEW i \in 0 .. (n - 1), i \in T PROVE i + 1 \in T
  <2>1. i + 1 \in 1 .. n /\ (i + 1) - 1 = i /\ i + 1 \in Nat
    BY <1>1
  <2> QED
    BY <1>5, <1>6, <2>1
<1>7. \A i \in 0 .. n : i \in T
  <2> HIDE DEF T
  <2> QED
    BY <1>3, <1>6, UpTo
<1> QED
  BY <1>1, <1>7

\* In plain text a word that is looked for and the blank after it are told.
LEMMA WordIsTold ==
    ASSUME NEW text \in Seq(STRING), KeysAreAnnounced(text), NEW R, Redacts(R, text),
           NEW i \in 1 .. Len(text),
           text[i] \in PhraseWords \/ (text[i] = Space /\ R[i - 1].mode = "plain")
    PROVE  R[i].mode = "plain" /\ R[i].out = Append(R[i - 1].out, text[i])
<1>1. PICK old : old = R[i - 1]
  OBVIOUS
<1>2. PICK new : new = R[i]
  OBVIOUS
<1>3. PICK x : x = text[i]
  OBVIOUS
<1>4. RedactOK(old) /\ Goes(text, i, old, new)
  BY <1>1, <1>2, RedactsType
<1>5. x \in Looked => ~HeaderAt(text, i) /\ ~BearerAt(text, i) /\ x # "sk-"
  BY <1>3 DEF Looked, PhraseWords, Space, HeaderAt, BearerAt, Headers
<1>6. x \in PhraseWords => x \notin Marks
  BY DEF PhraseWords, Marks, Separators, TokenEnds, Space
<1>7. x \in PhraseWords => old.mode = "plain"
  <2>1. SUFFICES ASSUME x \in PhraseWords PROVE old.mode = "plain"
    OBVIOUS
  <2>2. x \notin TokenEnds /\ x \notin Separators /\ OfKey(x)
    BY <1>6, <2>1 DEF Marks, OfKey
  <2>3. ~InToken(text, i) /\ ~InKey(text, i - 1)
    BY <1>3, <2>1, <2>2, NotAnnounced
  <2>4. i \in Nat /\ i > 0 /\ i - 1 \in 0 .. Len(text)
    OBVIOUS
  <2>5. ~InToken(text, i - 1) /\ ~Begins(text, i)
    BY <1>3, <2>2, <2>3, <2>4, InTokenStep
  <2>6. ~InHeader(text, i - 1) /\ ~InBearer(text, i - 1)
    BY <1>3, <1>5, <2>1, <2>2, <2>5 DEF Begins, Looked
  <2>7. old.mode \notin {"header", "bearer", "token", "key"}
    <3>1. ModeTells(text, i - 1, old.mode)
      BY <1>1, <2>4, ModesTell
    <3>2. (old.mode = "key") => FALSE
      BY <2>3, <3>1 DEF ModeTells
    <3> QED
      BY <2>5, <2>6, <3>1, <3>2 DEF ModeTells
  <2> QED
    BY <1>4, <2>7 DEF RedactOK, Modes
<1>8. old.mode = "plain" /\ x \in Looked
  BY <1>1, <1>3, <1>7 DEF Looked
<1> QED
  BY <1>1, <1>2, <1>3, <1>4, <1>5, <1>8 DEF Goes, Copies, Skips

LEMMA OutGrows ==
    ASSUME NEW text \in Seq(STRING), NEW R, Redacts(R, text), NEW w \in Seq(Looked)
    PROVE  \A i \in 0 .. Len(text) : Occurs(R[i].out, w) => Occurs(R[Len(text)].out, w)
<1>1. PICK n \in Nat : n = Len(text)
  OBVIOUS
<1>2. ASSUME NEW i \in 1 .. n, Occurs(R[i - 1].out, w) PROVE Occurs(R[i].out, w)
  <2>1. i \in 0 .. n /\ i - 1 \in 0 .. n
    BY <1>1
  <2>2. PICK old \in Seq(OutWords) : old = R[i - 1].out
    BY <1>1, <2>1, AllTold
  <2>3. PICK new \in Seq(OutWords) : new = R[i].out
    BY <1>1, <2>1, AllTold
  <2>4. Adds(text[i], old, new)
    BY <1>1, <2>2, <2>3, AllTold
  <2>5. text[i] \in OutWords /\ Redacted \in OutWords /\ RedactedKey \in OutWords
    <3>1. text[i] \in STRING
      BY <1>1
    <3> QED
      BY <3>1, Zenon DEF OutWords
  <2>6. Len(old) <= Len(new) /\ \A k \in 1 .. Len(old) : new[k] = old[k]
    <3>1. CASE new = old
      BY <3>1
    <3>2. ASSUME NEW y \in OutWords, new = Append(old, y) PROVE Len(old) <= Len(new) /\ \A k \in 1 .. Len(old) : new[k] = old[k]
      BY <3>2
    <3>3. CASE new = Append(Append(old, Redacted), text[i])
      BY <2>5, <3>3
    <3> QED
      BY <2>4, <2>5, <3>1, <3>2, <3>3 DEF Adds, Reds
  <2>7. PICK m \in Nat : m = Len(w)
    OBVIOUS
  <2>8. PICK a \in Nat : a + m <= Len(old) /\ \A k \in 1 .. m : old[a + k] = w[k]
    BY <1>2, <2>2, <2>7 DEF Occurs, IsAt
  <2>9. a + m <= Len(new) /\ \A k \in 1 .. m : new[a + k] = w[k]
    BY <2>6, <2>8
  <2> QED
    BY <2>3, <2>7, <2>9 DEF Occurs, IsAt
<1> SUFFICES ASSUME NEW i \in 0 .. n, Occurs(R[i].out, w) PROVE Occurs(R[n].out, w)
  BY <1>1
<1> DEFINE T == {j \in Nat : Occurs(R[j].out, w)}
<1>3. i \in T /\ i \in Nat
  OBVIOUS
<1>4. ASSUME NEW j \in i .. (n - 1), j \in T PROVE j + 1 \in T
  <2>1. j + 1 \in 1 .. n /\ (j + 1) - 1 = j /\ j + 1 \in Nat
    OBVIOUS
  <2> QED
    BY <1>2, <1>4, <2>1
<1>5. \A j \in i .. n : j \in T
  <2> HIDE DEF T
  <2> QED
    BY <1>3, <1>4, UpTo
<1> QED
  BY <1>5

\* What is told holds each phrase that the text holds.
LEMMA NothingIsTakenOut ==
    ASSUME NEW text \in Seq(STRING), KeysAreAnnounced(text), NEW R, Redacts(R, text),
           NEW w \in Seq(Looked), Len(w) > 0, w[1] \in PhraseWords, Occurs(text, w)
    PROVE  Occurs(R[Len(text)].out, w)
<1>1. PICK n \in Nat : n = Len(text)
  OBVIOUS
<1>2. PICK m \in Nat : m = Len(w) /\ m > 0
  OBVIOUS
<1>3. PICK b \in Nat : b + m <= n /\ \A k \in 1 .. m : text[b + k] = w[k]
  BY <1>1, <1>2 DEF Occurs, IsAt
<1>4. PICK start \in Seq(OutWords) : start = R[b].out
  <2>1. b \in 0 .. n
    BY <1>2, <1>3
  <2> QED
    BY <1>1, <2>1, AllTold
<1>5. PICK p \in Nat : p = Len(start)
  OBVIOUS
<1> DEFINE Told(k) == /\ k > 0 => R[b + k].mode = "plain"
                      /\ Len(R[b + k].out) = p + k
                      /\ \A j \in 1 .. k : R[b + k].out[p + j] = w[j]
           T == {k \in Nat : Told(k)}
<1>6. 0 \in T
  <2>1. b + 0 = b /\ p + 0 = p /\ 1 .. 0 = {}
    OBVIOUS
  <2> QED
    BY <1>4, <1>5, <2>1
<1>7. ASSUME NEW k \in 0 .. (m - 1), k \in T PROVE k + 1 \in T
  <2>1. PICK i : i = b + k + 1
    OBVIOUS
  <2>2. i \in 1 .. n /\ i - 1 = b + k /\ k + 1 \in 1 .. m /\ b + (k + 1) = i /\ i - 1 \in 0 .. n /\ k + 1 \in Nat
    BY <1>3, <2>1
  <2>3. text[i] = w[k + 1] /\ w[k + 1] \in Looked
    BY <1>2, <1>3, <2>2
  <2>4. PICK old \in Seq(OutWords) : old = R[i - 1].out
    BY <1>1, <2>2, AllTold
  <2>5. Told(k)
    BY <1>7
  <2>6. text[i] \in PhraseWords \/ (text[i] = Space /\ R[i - 1].mode = "plain")
    <3>1. CASE k = 0
      BY <2>3, <3>1
    <3>2. CASE k > 0
      BY <2>2, <2>3, <2>5, <3>2 DEF Looked
    <3> QED
      BY <3>1, <3>2
  <2>7. R[i].mode = "plain" /\ R[i].out = Append(old, text[i])
    BY <1>1, <2>2, <2>4, <2>6, WordIsTold
  <2>8. text[i] \in OutWords
    <3>1. text[i] \in STRING
      BY <1>1, <2>2
    <3> QED
      BY <3>1, Zenon DEF OutWords
  <2>9. Len(old) = p + k /\ \A j \in 1 .. k : old[p + j] = w[j]
    BY <2>2, <2>4, <2>5
  <2>10. PICK new : new = R[i].out
    OBVIOUS
  <2>11. Len(new) = p + (k + 1) /\ \A j \in 1 .. (k + 1) : new[p + j] = w[j]
    <3>1. new = Append(old, text[i]) /\ Len(new) = Len(old) + 1 /\ new[Len(old) + 1] = text[i]
          /\ \A j \in 1 .. Len(old) : new[j] = old[j]
      BY <2>7, <2>8, <2>10
    <3>2. \A j \in 1 .. (k + 1) : j = k + 1 \/ (j \in 1 .. k /\ p + j \in 1 .. Len(old))
      BY <2>9
    <3>3. p + (k + 1) = Len(old) + 1
      BY <2>9
    <3> QED
      BY <2>3, <2>9, <3>1, <3>2, <3>3
  <2>12. Told(k + 1)
    BY <2>2, <2>7, <2>10, <2>11
  <2> HIDE DEF Told
  <2> QED
    BY <2>2, <2>12
<1>8. m \in T
  <2> HIDE DEF T
  <2>1. \A k \in 0 .. m : k \in T
    BY <1>6, <1>7, UpTo
  <2> QED
    BY <2>1
<1>9. Occurs(R[b + m].out, w)
  <2>1. PICK out : out = R[b + m].out
    OBVIOUS
  <2>2. Len(out) = p + m /\ \A j \in 1 .. m : out[p + j] = w[j]
    BY <1>8, <2>1
  <2>3. p + m <= Len(out)
    BY <1>5, <2>2
  <2>4. IsAt(out, p, w)
    BY <1>2, <2>2, <2>3 DEF IsAt
  <2> QED
    BY <1>5, <2>1, <2>4, Zenon DEF Occurs
<1>10. b + m \in 0 .. n
  BY <1>2, <1>3
<1> QED
  BY <1>1, <1>9, <1>10, OutGrows

\* Taking out the keys takes out no phrase and puts none in.
LEMMA RedactIs ==
    ASSUME NEW text \in Seq(STRING), KeysAreAnnounced(text)
    PROVE  /\ Redact(text) \in Seq(OutWords)
           /\ "KEY" \notin ToSet(Redact(text))
           /\ \A w \in Seq(Looked) : Len(w) > 0 /\ w[1] \in PhraseWords =>
                 (Occurs(Redact(text), w) <=> Occurs(text, w))
<1>1. PICK R : Redacts(R, text) /\ Redact(text) = R[Len(text)].out
  BY RedactsTo
<1>2. Len(text) \in 0 .. Len(text)
  OBVIOUS
<1>3. PICK out \in Seq(OutWords) : out = Redact(text)
  BY <1>1, <1>2, AllTold
<1>4. \A k \in 1 .. Len(out) : out[k] # "KEY"
  BY <1>1, <1>2, <1>3, KeysGo
<1>5. "KEY" \notin ToSet(out)
  <2>1. DOMAIN out = 1 .. Len(out)
    OBVIOUS
  <2> QED
    BY <1>4, <2>1 DEF ToSet
<1>6. ASSUME NEW w \in Seq(Looked), Len(w) > 0, w[1] \in PhraseWords
      PROVE  Occurs(out, w) <=> Occurs(text, w)
  BY <1>1, <1>2, <1>3, <1>6, NothingIsPutIn, NothingIsTakenOut
<1> QED
  BY <1>3, <1>5, <1>6

\* Phrases.
LEMMA PhraseIs ==
    ASSUME NEW W, NEW ws \in Seq(W), Len(ws) > 0
    PROVE  /\ Phrase(ws) \in Seq(W \cup {Space}) /\ Len(Phrase(ws)) > 0
           /\ Phrase(ws)[1] \in W
<1>1. PICK n \in Nat : n = Len(ws) /\ n > 0
  OBVIOUS
<1>2. PICK P : P = W \cup {Space}
  OBVIOUS
<1>3. PICK s : s = [i \in 1 .. n |-> IF i = 1 THEN <<ws[i]>> ELSE <<Space, ws[i]>>]
  OBVIOUS
<1>4. s \in Seq(Seq(P)) /\ Len(s) = n /\ s[1] = <<ws[1]>> /\ ws[1] \in W
  <2>1. \A i \in 1 .. n : ws[i] \in W
    BY <1>1
  <2>2. ASSUME NEW i \in 1 .. n PROVE s[i] \in Seq(P)
    <3>1. ws[i] \in P /\ Space \in P
      BY <1>2, <2>1
    <3>2. <<ws[i]>> \in Seq(P) /\ <<Space, ws[i]>> \in Seq(P)
      BY <3>1
    <3>3. s[i] = <<ws[i]>> \/ s[i] = <<Space, ws[i]>>
      BY <1>3
    <3> QED
      BY <3>2, <3>3
  <2> QED
    BY <1>1, <1>3, <2>1, <2>2
<1>5. PICK R : Joins(R, s) /\ FlattenSeq(s) = R[n]
  BY <1>4, FlattenJoins
<1>6. \A i \in 0 .. n : R[i] \in Seq(P)
  BY <1>4, <1>5, JoinsType
<1> DEFINE T == {i \in Nat : Len(R[i]) > 0 /\ R[i][1] = ws[1]}
<1>7. 1 \in T
  <2>1. R[1] = <<>> \o <<ws[1]>>
    <3>1. 1 \in 1 .. n /\ 1 - 1 = 0
      BY <1>1
    <3> QED
      BY <1>4, <1>5, <3>1 DEF Joins
  <2>2. R[1] = <<ws[1]>>
    BY <2>1
  <2> QED
    BY <2>2
<1>8. ASSUME NEW i \in 1 .. (n - 1), i \in T PROVE i + 1 \in T
  <2>1. i + 1 \in 1 .. n /\ i \in 0 .. n /\ (i + 1) - 1 = i /\ i + 1 \in Nat
    OBVIOUS
  <2>2. PICK a \in Seq(P) : a = R[i]
    BY <1>6, <2>1
  <2>3. PICK b \in Seq(P) : b = s[i + 1]
    BY <1>4, <2>1
  <2>4. R[i + 1] = a \o b
    BY <1>4, <1>5, <2>1, <2>2, <2>3 DEF Joins
  <2>5. Len(a) > 0 /\ a[1] = ws[1]
    BY <1>8, <2>2
  <2>6. Len(a \o b) > 0 /\ (a \o b)[1] = a[1]
    BY <2>5
  <2> QED
    BY <2>1, <2>4, <2>5, <2>6
<1>9. \A i \in 1 .. n : i \in T
  <2> HIDE DEF T
  <2> QED
    BY <1>1, <1>7, <1>8, UpTo
<1>10. n \in T /\ R[n] \in Seq(P)
  <2> HIDE DEF T
  <2>1. n \in 1 .. n /\ n \in 0 .. n
    BY <1>1
  <2> QED
    BY <1>6, <1>9, <2>1
<1>11. Phrase(ws) = R[n]
  BY <1>1, <1>3, <1>5, Zenon DEF Phrase
<1> QED
  BY <1>2, <1>4, <1>10, <1>11

\* A phrase that is looked for, and two texts that hold the same of them.
Searched(w) == w \in Seq(Looked) /\ Len(w) > 0 /\ w[1] \in PhraseWords
SaysTheSame(t, u) == \A w : Searched(w) => (Holds(t, w) <=> Holds(u, w))

LEMMA SearchedPhrase ==
    ASSUME NEW ws \in Seq(PhraseWords), Len(ws) > 0
    PROVE  Searched(Phrase(ws))
BY PhraseIs DEF Searched, Looked

LEMMA TheSameIsRead ==
    ASSUME NEW t, NEW u, SaysTheSame(t, u)
    PROVE  (SaysNotFound(t) <=> SaysNotFound(u)) /\ (SaysWindow(t) <=> SaysWindow(u))
<1>1. \A a, b, c \in PhraseWords : Searched(Phrase(<<a, b>>)) /\ Searched(Phrase(<<a, b, c>>))
  <2> SUFFICES ASSUME NEW a \in PhraseWords, NEW b \in PhraseWords, NEW c \in PhraseWords
               PROVE  Searched(Phrase(<<a, b>>)) /\ Searched(Phrase(<<a, b, c>>))
    OBVIOUS
  <2>1. PICK v : v = <<a, b>>
    OBVIOUS
  <2>2. PICK w : w = <<a, b, c>>
    OBVIOUS
  <2>3. Searched(Phrase(v)) /\ Searched(Phrase(w))
    <3>1. v \in Seq(PhraseWords) /\ Len(v) > 0
      BY <2>1
    <3>2. w \in Seq(PhraseWords) /\ Len(w) > 0
      BY <2>2
    <3> QED
      BY <3>1, <3>2, SearchedPhrase
  <2> QED
    BY <2>1, <2>2, <2>3, Zenon
<1>2. \A a \in PhraseWords : Searched(<<a>>)
  BY DEF Searched, Looked
<1>3. /\ "does" \in PhraseWords /\ "not" \in PhraseWords /\ "exist" \in PhraseWords
      /\ "unknown" \in PhraseWords /\ "model" \in PhraseWords /\ "model_not_found" \in PhraseWords
      /\ "found" \in PhraseWords /\ "try" \in PhraseWords /\ "pulling" \in PhraseWords
      /\ "http" \in PhraseWords /\ "404" \in PhraseWords /\ "tokens" \in PhraseWords
      /\ "per" \in PhraseWords /\ "min" \in PhraseWords /\ "rate" \in PhraseWords
      /\ "limit" \in PhraseWords /\ "limited" \in PhraseWords /\ "maximum" \in PhraseWords
      /\ "context" \in PhraseWords /\ "length" \in PhraseWords /\ "request" \in PhraseWords
      /\ "too" \in PhraseWords /\ "large" \in PhraseWords
  BY Zenon DEF PhraseWords
<1> DEFINE Same(w) == Holds(t, w) <=> Holds(u, w)
<1>4. /\ \A a, b, c \in PhraseWords : Same(Phrase(<<a, b>>)) /\ Same(Phrase(<<a, b, c>>))
      /\ \A a \in PhraseWords : Same(<<a>>)
  BY <1>1, <1>2, Zenon DEF SaysTheSame
<1>5. /\ Same(Phrase(<<"does", "not", "exist">>)) /\ Same(Phrase(<<"unknown", "model">>))
      /\ Same(<<"model_not_found">>) /\ Same(<<"model">>) /\ Same(Phrase(<<"not", "found">>))
      /\ Same(Phrase(<<"try", "pulling">>)) /\ Same(Phrase(<<"http", "404">>)) /\ Same(<<"404">>)
  BY <1>3, <1>4, Zenon
<1>6. /\ Same(Phrase(<<"tokens", "per", "min">>)) /\ Same(Phrase(<<"rate", "limit">>))
      /\ Same(Phrase(<<"rate", "limited">>)) /\ Same(Phrase(<<"maximum", "context", "length">>))
      /\ Same(Phrase(<<"request", "too", "large">>))
  BY <1>3, <1>4, Zenon
<1>7. SaysNotFound(t) <=> SaysNotFound(u)
  BY <1>5, Zenon DEF SaysNotFound
<1>8. SaysWindow(t) <=> SaysWindow(u)
  BY <1>6, Zenon DEF SaysWindow
<1> QED
  BY <1>7, <1>8

LEMMA RedactSays ==
    ASSUME NEW text \in Seq(STRING), KeysAreAnnounced(text)
    PROVE  SaysTheSame(Redact(text), text)
<1>1. SUFFICES ASSUME NEW w, Searched(w) PROVE Holds(Redact(text), w) <=> Holds(text, w)
  BY DEF SaysTheSame
<1>2. w \in Seq(Looked) /\ Redact(text) \in Seq(OutWords) /\ (Occurs(Redact(text), w) <=> Occurs(text, w))
  BY <1>1, RedactIs DEF Searched
<1> QED
  BY <1>2, HoldsIs

\* What begins with no word that is looked for can be left out.
LEMMA DroppedSays ==
    ASSUME NEW P, NEW t \in Seq(P), NEW u \in Seq(P), NEW p \in Nat, Len(t) = p + Len(u),
           \A k \in 1 .. p : t[k] \notin PhraseWords, \A k \in 1 .. Len(u) : u[k] = t[p + k]
    PROVE  SaysTheSame(u, t)
<1>1. PICK n \in Nat : n = Len(u)
  OBVIOUS
<1> SUFFICES ASSUME NEW w, Searched(w) PROVE Occurs(u, w) <=> Occurs(t, w)
  BY HoldsIs DEF SaysTheSame, Searched
<1>2. PICK m \in Nat : m = Len(w) /\ m > 0
  BY DEF Searched
<1>3. ASSUME NEW a \in Nat, IsAt(u, a, w) PROVE p + a \in Nat /\ IsAt(t, p + a, w)
  <2>1. a + m <= n /\ \A k \in 1 .. m : u[a + k] = w[k]
    BY <1>1, <1>2, <1>3 DEF IsAt
  <2>2. \A k \in 1 .. m : a + k \in 1 .. n /\ p + (a + k) = (p + a) + k
    BY <2>1
  <2>3. \A k \in 1 .. m : t[(p + a) + k] = w[k]
    BY <1>1, <2>1, <2>2
  <2> QED
    BY <1>1, <1>2, <2>1, <2>3 DEF IsAt
<1>4. ASSUME NEW a \in Nat, IsAt(t, a, w) PROVE a - p \in Nat /\ IsAt(u, a - p, w)
  <2>1. a + m <= p + n /\ \A k \in 1 .. m : t[a + k] = w[k]
    BY <1>1, <1>2, <1>4 DEF IsAt
  <2>2. t[a + 1] \in PhraseWords
    BY <1>2, <2>1 DEF Searched
  <2>3. a >= p
    <3>1. a + 1 \notin 1 .. p
      BY <2>2
    <3> QED
      BY <3>1
  <2>4. \A k \in 1 .. m : (a - p) + k \in 1 .. n /\ p + ((a - p) + k) = a + k
    BY <2>1, <2>3
  <2>5. \A k \in 1 .. m : u[(a - p) + k] = w[k]
    BY <1>1, <2>1, <2>4
  <2> QED
    BY <1>1, <1>2, <2>1, <2>3, <2>5 DEF IsAt
<1> QED
  BY <1>3, <1>4 DEF Occurs

LEMMA ConcatHolds ==
    ASSUME NEW P, NEW s \in Seq(P), NEW t \in Seq(P), NEW w, Searched(w)
    PROVE  Holds(s, w) \/ Holds(t, w) => Holds(s \o t, w)
<1>1. PICK m \in Nat : m = Len(w)
  BY DEF Searched
<1>2. PICK n \in Nat : n = Len(s)
  OBVIOUS
<1>3. PICK j \in Seq(P) : j = s \o t
  BY ConcatProperties
<1>4. Len(j) = n + Len(t) /\ (\A k \in 1 .. n : j[k] = s[k]) /\ \A k \in 1 .. Len(t) : j[n + k] = t[k]
  BY <1>2, <1>3, ConcatProperties
<1>5. ASSUME NEW a \in Nat, IsAt(s, a, w) PROVE IsAt(j, a, w)
  <2>1. a + m <= n /\ \A k \in 1 .. m : s[a + k] = w[k]
    BY <1>1, <1>2, <1>5 DEF IsAt
  <2>2. a + m <= Len(j) /\ \A k \in 1 .. m : j[a + k] = w[k]
    BY <1>4, <2>1
  <2> QED
    BY <1>1, <2>2 DEF IsAt
<1>6. ASSUME NEW a \in Nat, IsAt(t, a, w) PROVE n + a \in Nat /\ IsAt(j, n + a, w)
  <2>1. a + m <= Len(t) /\ \A k \in 1 .. m : t[a + k] = w[k]
    BY <1>1, <1>6 DEF IsAt
  <2>2. ASSUME NEW k \in 1 .. m PROVE j[(n + a) + k] = w[k]
    <3>1. a + k \in 1 .. Len(t) /\ n + (a + k) = (n + a) + k
      BY <2>1
    <3> QED
      BY <1>4, <2>1, <3>1
  <2>3. (n + a) + m <= Len(j) /\ n + a \in Nat
    BY <1>4, <2>1
  <2> QED
    BY <1>1, <2>2, <2>3 DEF IsAt
<1>7. Occurs(s, w) \/ Occurs(t, w) => Occurs(j, w)
  BY <1>5, <1>6 DEF Occurs
<1> QED
  BY <1>3, <1>7, HoldsIs DEF Searched

\* What an error is told as.
LEMMA UnreachableIs ==
    ASSUME NEW t \in Seq(OutWords), "KEY" \notin ToSet(t)
    PROVE  /\ Unreachable(t).kind = "Unreachable" /\ Unreachable(t).text \in Seq(OutWords)
           /\ "KEY" \notin ToSet(Unreachable(t).text)
           /\ SaysTheSame(Unreachable(t).text, t)
<1> DEFINE W == {"failed", "to", "connect", ":"}
           p == Len(ConnectPrefix)
           body == SubSeq(t, p + 1, Len(t))
           Fits(u) == u \in Seq(OutWords) /\ "KEY" \notin ToSet(u) /\ SaysTheSame(u, t)
<1>1. PICK n \in Nat : n = Len(t)
  OBVIOUS
<1>2. ConnectPrefix \in Seq(W \cup {Space})
  <2>1. PICK ws : ws = <<"failed", "to", "connect">>
    OBVIOUS
  <2>2. ws \in Seq(W) /\ Len(ws) > 0
    BY <2>1
  <2>3. PICK phrase : phrase = Phrase(ws)
    OBVIOUS
  <2>4. phrase \in Seq(W \cup {Space})
    BY <2>2, <2>3, PhraseIs
  <2>5. Append(phrase, ":") \in Seq(W \cup {Space})
    BY <2>4
  <2> QED
    BY <2>1, <2>3, <2>5, Zenon DEF ConnectPrefix
<1>3. p \in Nat /\ \A k \in 1 .. p : ConnectPrefix[k] \notin PhraseWords
  <2>1. \A x \in W \cup {Space} : x \notin PhraseWords
    BY DEF PhraseWords, Space
  <2> HIDE DEF W
  <2> QED
    BY <1>2, <2>1
<1>4. Fits(t)
  BY DEF SaysTheSame
<1>5. ASSUME NEW d \in Nat, d <= n, \A k \in 1 .. d : t[k] \notin PhraseWords,
             NEW u \in Seq(OutWords), n = d + Len(u), \A k \in 1 .. Len(u) : u[k] = t[d + k]
      PROVE  Fits(u)
  <2>1. SaysTheSame(u, t)
    BY <1>1, <1>5, DroppedSays
  <2>2. ASSUME NEW k \in 1 .. Len(u) PROVE u[k] # "KEY"
    <3>1. d + k \in 1 .. n
      BY <1>5
    <3>2. DOMAIN t = 1 .. n
      BY <1>1
    <3>3. t[d + k] # "KEY"
      BY <3>1, <3>2 DEF ToSet
    <3> QED
      BY <1>5, <3>3
  <2>3. DOMAIN u = 1 .. Len(u)
    OBVIOUS
  <2>4. "KEY" \notin ToSet(u)
    BY <2>2, <2>3 DEF ToSet
  <2> QED
    BY <2>1, <2>4
<1>6. CASE ~IsPrefix(ConnectPrefix, t) \/ body \in {<<>>, <<Space>>}
  <2>1. Unreachable(t) = Failed("Unreachable", t)
    BY <1>6, Zenon DEF Unreachable
  <2> HIDE DEF Fits
  <2>2. Unreachable(t).kind = "Unreachable" /\ Unreachable(t).text = t
    BY <2>1 DEF Failed
  <2> QED
    BY <1>4, <2>2 DEF Fits
<1>7. CASE IsPrefix(ConnectPrefix, t) /\ body \notin {<<>>, <<Space>>}
  <2>1. p <= n /\ \A k \in 1 .. p : t[k] = ConnectPrefix[k]
    <3>1. PICK pre : pre = ConnectPrefix
      OBVIOUS
    <3>2. p <= n /\ SubSeq(pre, 1, p) = SubSeq(t, 1, p)
      BY <1>1, <1>7, <3>1, Zenon DEF IsPrefix
    <3>3. ASSUME NEW k \in 1 .. p PROVE t[k] = pre[k]
      <4>1. SubSeq(pre, 1, p)[k] = pre[k] /\ SubSeq(t, 1, p)[k] = t[k]
        BY <1>1, <1>2, <1>3, <3>1, <3>2
      <4> QED
        BY <3>2, <4>1
    <3> QED
      BY <3>1, <3>2, <3>3
  <2>2. PICK b : b = body
    OBVIOUS
  <2>3. b \in Seq(OutWords) /\ n = p + Len(b) /\ \A k \in 1 .. Len(b) : b[k] = t[p + k]
    BY <1>1, <1>3, <2>1, <2>2, SubSeqProperties
  <2>4. b # <<>> /\ Len(b) > 0
    BY <1>7, <2>2, <2>3
  <2>5. \A k \in 1 .. p : t[k] \notin PhraseWords
    BY <1>3, <2>1
  <2>6. Fits(b)
    BY <1>3, <1>5, <2>1, <2>3, <2>5
  <2>7. b[1] = Space => Fits(Tail(b))
    <3>1. SUFFICES ASSUME b[1] = Space PROVE Fits(Tail(b))
      OBVIOUS
    <3>2. PICK u \in Seq(OutWords) : u = Tail(b)
      BY <2>3, <2>4, HeadTailProperties
    <3>3. Len(b) = Len(u) + 1 /\ \A k \in 1 .. Len(u) : u[k] = b[k + 1]
      BY <2>3, <2>4, <3>2, HeadTailProperties
    <3>4. n = (p + 1) + Len(u) /\ p + 1 \in Nat /\ p + 1 <= n
      BY <1>3, <2>3, <3>3
    <3>5. ASSUME NEW k \in 1 .. Len(u) PROVE u[k] = t[(p + 1) + k]
      <4>1. k + 1 \in 1 .. Len(b) /\ p + (k + 1) = (p + 1) + k
        BY <1>3, <3>3
      <4> QED
        BY <2>3, <3>3, <4>1
    <3>6. ASSUME NEW k \in 1 .. (p + 1) PROVE t[k] \notin PhraseWords
      <4>1. CASE k \in 1 .. p
        BY <2>5, <4>1
      <4>2. CASE k = p + 1
        <5>1. t[k] = Space
          BY <2>3, <2>4, <3>1, <4>2
        <5> QED
          BY <5>1 DEF PhraseWords, Space
      <4> QED
        BY <1>3, <4>1, <4>2
    <3> HIDE DEF Fits, p
    <3> QED
      BY <1>5, <3>2, <3>4, <3>5, <3>6
  <2>8. Unreachable(t) = Failed("Unreachable", IF Head(b) = Space THEN Tail(b) ELSE b)
    BY <1>7, <2>2, Zenon DEF Unreachable
  <2>9. Head(b) = b[1]
    BY <2>3, <2>4
  <2>10. Unreachable(t).kind = "Unreachable" /\ Unreachable(t).text = IF b[1] = Space THEN Tail(b) ELSE b
    BY <2>8, <2>9 DEF Failed
  <2> HIDE DEF Fits
  <2>11. Fits(Unreachable(t).text)
    BY <2>6, <2>7, <2>10
  <2> QED
    BY <2>10, <2>11 DEF Fits
<1> QED
  BY <1>6, <1>7

\* What is told of an error e that broke a reply.
ToldRight(e, r) ==
    /\ Aborts(Answer(r)) <=>
          \/ e.class \in {"Auth", "NotFound"}
          \/ e.class = "Transient" /\ e.connect
          \/ e.class \in {"Vendor", "Map"} /\ SaysNotFound(e.text)
    /\ "KEY" \notin ToSet(r.text)
    /\ SaysWindow(r.text) <=> SaysWindow(e.text)
    /\ SaysNotFound(r.text) <=> SaysNotFound(e.text)
    /\ SaysWindow(Display(r)) =>
          e.class # "RateLimit" /\ ~Holds(r.text, Phrase(<<"tokens", "per", "min">>))

\* A window that an error's words show is none of a limit on requests.
LEMMA DisplayKeeps ==
    ASSUME NEW r, r.text \in Seq(OutWords), SaysWindow(Display(r))
    PROVE  r.kind # "RateLimit" /\ ~Holds(r.text, Phrase(<<"tokens", "per", "min">>))
<1>1. PICK tpm : tpm = Phrase(<<"tokens", "per", "min">>)
  OBVIOUS
<1>2. Searched(tpm)
  <2>1. PICK ws : ws = <<"tokens", "per", "min">>
    OBVIOUS
  <2>2. ws \in Seq(PhraseWords) /\ Len(ws) > 0
    BY <2>1 DEF PhraseWords
  <2> QED
    BY <1>1, <2>1, <2>2, SearchedPhrase, Zenon
<1>3. Searched(RateLimited)
  <2>1. PICK ws : ws = <<"rate", "limited">>
    OBVIOUS
  <2>2. ws \in Seq(PhraseWords) /\ Len(ws) > 0
    BY <2>1 DEF PhraseWords
  <2> QED
    BY <2>1, <2>2, SearchedPhrase, Zenon DEF RateLimited
<1>4. ~Holds(Display(r), tpm) /\ ~Holds(Display(r), RateLimited)
  BY <1>1, Zenon DEF SaysWindow, RateLimited
<1> DEFINE P == OutWords \cup Looked \cup {"failed", "to", "connect", ":"}
<1>5. r.text \in Seq(P)
  OBVIOUS
<1>6. r.kind # "RateLimit"
  <2> SUFFICES ASSUME r.kind = "RateLimit" PROVE FALSE
    OBVIOUS
  <2>1. PICK l \in Seq(P) : l = RateLimited
    BY <1>3 DEF Searched
  <2>2. Holds(l, l)
    <3>1. IsAt(l, 0, l)
      BY DEF IsAt
    <3>2. Occurs(l, l)
      BY <3>1 DEF Occurs
    <3> HIDE DEF P
    <3> QED
      BY <3>2, HoldsIs
  <2>3. CASE r.text \in {<<>>, RateLimited}
    <3>1. Display(r) = RateLimited
      BY <2>3, Zenon DEF Display
    <3> QED
      BY <1>4, <2>1, <2>2, <3>1
  <2>4. CASE r.text \notin {<<>>, RateLimited}
    <3>1. PICK colon : colon = <<":", Space>>
      OBVIOUS
    <3>2. colon \in Seq(P)
      BY <3>1 DEF Looked
    <3>3. PICK head \in Seq(P) : head = l \o colon
      <4> HIDE DEF P
      <4> QED
        BY <3>2, ConcatProperties
    <3>4. Holds(head, RateLimited)
      <4> HIDE DEF P
      <4> QED
        BY <1>3, <2>1, <2>2, <3>2, <3>3, ConcatHolds
    <3>5. Holds(head \o r.text, RateLimited)
      <4> HIDE DEF P
      <4> QED
        BY <1>3, <1>5, <3>4, ConcatHolds
    <3>6. Display(r) = head \o r.text
      BY <2>1, <2>4, <3>1, <3>3, Zenon DEF Display
    <3> QED
      BY <1>4, <3>5, <3>6
  <2> QED
    BY <2>3, <2>4
<1>7. ~Holds(r.text, tpm)
  <2> SUFFICES ASSUME Holds(r.text, tpm) PROVE FALSE
    OBVIOUS
  <2>1. CASE r.kind = "Unreachable"
    <3>1. PICK head \in Seq(P) : head = ConnectPrefix \o <<Space>>
      <4>1. PICK ws : ws = <<"failed", "to", "connect">>
        OBVIOUS
      <4>2. ws \in Seq({"failed", "to", "connect"}) /\ Len(ws) > 0
        BY <4>1
      <4>3. PICK phrase : phrase = Phrase(ws)
        OBVIOUS
      <4>4. phrase \in Seq({"failed", "to", "connect"} \cup {Space})
        BY <4>2, <4>3, PhraseIs
      <4>5. phrase \in Seq(P)
        BY <4>4 DEF Looked
      <4>6. PICK pre \in Seq(P) : pre = Append(phrase, ":")
        <5>1. PICK colon : colon = ":"
          OBVIOUS
        <5>2. colon \in P
          BY <5>1
        <5> HIDE DEF P
        <5>3. Append(phrase, colon) \in Seq(P)
          BY <4>5, <5>2
        <5> QED
          BY <5>1, <5>3
      <4>7. PICK blank : blank = <<Space>>
        OBVIOUS
      <4>8. blank \in Seq(P)
        BY <4>7 DEF Looked
      <4>9. pre = ConnectPrefix
        BY <4>1, <4>3, <4>6, Zenon DEF ConnectPrefix
      <4> HIDE DEF P
      <4>10. pre \o blank \in Seq(P)
        BY <4>8, ConcatProperties
      <4> QED
        BY <4>7, <4>9, <4>10
    <3>2. Holds(head \o r.text, tpm)
      <4> HIDE DEF P
      <4> QED
        BY <1>2, <1>5, ConcatHolds
    <3>3. Display(r) = head \o r.text
      BY <2>1, <3>1, Zenon DEF Display
    <3> QED
      BY <1>4, <3>2, <3>3
  <2>2. CASE r.kind # "Unreachable"
    <3>1. Display(r) = r.text
      BY <1>6, <2>2, Zenon DEF Display
    <3> QED
      BY <1>4, <3>1
  <2> QED
    BY <2>1, <2>2
<1> QED
  BY <1>1, <1>6, <1>7

LEMMA ErrorIsTold ==
    ASSUME NEW e, e.text \in Seq(STRING), KeysAreAnnounced(e.text), NEW r, r = MapClientError(e)
    PROVE  ToldRight(e, r)
<1>1. PICK t : t = Redact(e.text)
  OBVIOUS
<1>2. t \in Seq(OutWords) /\ "KEY" \notin ToSet(t) /\ SaysTheSame(t, e.text)
  BY <1>1, RedactIs, RedactSays
<1>3. (SaysNotFound(t) <=> SaysNotFound(e.text)) /\ (SaysWindow(t) <=> SaysWindow(e.text))
  BY <1>2, TheSameIsRead
<1>4. /\ r.text \in Seq(OutWords) /\ "KEY" \notin ToSet(r.text)
      /\ SaysNotFound(r.text) <=> SaysNotFound(e.text)
      /\ SaysWindow(r.text) <=> SaysWindow(e.text)
      /\ r.kind = CASE e.class \in {"Auth", "NotFound", "RateLimit"} -> e.class
                    [] e.class = "Transient" /\ e.connect -> "Unreachable"
                    [] e.class \in {"Vendor", "Map"} -> IF SaysNotFound(e.text) THEN "NotFound" ELSE "Llm"
                    [] OTHER -> "Transient"
  <2>1. CASE e.class \in {"Auth", "NotFound", "RateLimit"}
    <3>1. r.kind = e.class /\ r.text = t
      BY <1>1, <2>1 DEF MapClientError, Failed
    <3> QED
      BY <1>2, <1>3, <2>1, <3>1
  <2>2. CASE e.class = "Transient" /\ e.connect
    <3>1. r = Unreachable(t)
      BY <1>1, <2>2 DEF MapClientError
    <3>2. /\ r.kind = "Unreachable" /\ r.text \in Seq(OutWords)
          /\ "KEY" \notin ToSet(r.text) /\ SaysTheSame(r.text, t)
      BY <1>2, <3>1, UnreachableIs
    <3>3. (SaysNotFound(r.text) <=> SaysNotFound(t)) /\ (SaysWindow(r.text) <=> SaysWindow(t))
      BY <3>2, TheSameIsRead
    <3> QED
      BY <1>3, <2>2, <3>2, <3>3
  <2>3. CASE e.class \in {"Vendor", "Map"}
    <3>1. r = LlmOrNotFound(e.text)
      BY <2>3 DEF MapClientError
    <3>2. r.text = t /\ r.kind = IF SaysNotFound(t) THEN "NotFound" ELSE "Llm"
      BY <1>1, <3>1 DEF LlmOrNotFound, Failed
    <3> QED
      BY <1>2, <1>3, <2>3, <3>2
  <2>4. CASE ~(e.class \in {"Auth", "NotFound", "RateLimit", "Vendor", "Map"}) /\ ~(e.class = "Transient" /\ e.connect)
    <3>1. r.kind = "Transient" /\ r.text = t
      BY <1>1, <2>4 DEF MapClientError, Failed
    <3> QED
      BY <1>2, <1>3, <2>4, <3>1
  <2> QED
    BY <2>1, <2>2, <2>3, <2>4
<1>5. Answer(r).kind = r.kind
  BY DEF Answer, Fail
<1>6. Aborts(Answer(r)) <=>
          \/ e.class \in {"Auth", "NotFound"}
          \/ e.class = "Transient" /\ e.connect
          \/ e.class \in {"Vendor", "Map"} /\ SaysNotFound(e.text)
  BY <1>4, <1>5 DEF Aborts
<1>7. e.class = "RateLimit" => r.kind = "RateLimit"
  BY <1>4
<1>8. SaysWindow(Display(r)) => e.class # "RateLimit" /\ ~Holds(r.text, Phrase(<<"tokens", "per", "min">>))
  BY <1>4, <1>7, DisplayKeeps
<1> QED
  BY <1>4, <1>6, <1>8, Zenon DEF ToldRight

\* What an error is told as, once it is.
Told == Broke => ToldRight(plan.breaks, result)

LEMMA BreakTells == ASSUME TypeOK, Break PROVE Told'
<1>1. /\ job.kind = "reply" /\ result' = MapClientError(plan.breaks) /\ job' = job
      /\ RepliesAsVendorsDo(plan)
  BY PlanShape DEF Break, Replying
<1>2. plan' = plan
  BY <1>1 DEF plan
<1> HIDE DEF plan
<1>3. plan.breaks.text \in Seq(STRING) /\ KeysAreAnnounced(plan.breaks.text)
  BY <1>1 DEF RepliesAsVendorsDo, Plans
<1>4. PICK e : e = plan.breaks
  OBVIOUS
<1>5. PICK r : r = result'
  OBVIOUS
<1>6. ToldRight(e, r)
  BY <1>1, <1>3, <1>4, <1>5, ErrorIsTold
<1>7. Told' <=> (Broke' => ToldRight(plan'.breaks, result'))
  BY DEF Told
<1> QED
  BY <1>2, <1>4, <1>5, <1>6, <1>7

LEMMA EndReplyTells == ASSUME TypeOK, FailFollows, EndReply PROVE ~Broke'
<1>1. /\ job.kind = "reply" /\ result' = ScoredCompletion(chat) /\ job' = job /\ sent' = sent
  BY DEF EndReply, Replying
<1>2. plan' = plan
  BY <1>1 DEF plan
<1>3. result'.kind = "Ok" \/ chat.failed
  BY <1>1 DEF ScoredCompletion
<1> HIDE DEF plan
<1>4. chat.failed => sent.finish /\ plan.reason \in {"failed", "FAILED"}
  BY <1>1 DEF FailFollows, FailedReasons
<1> QED
  BY <1>1, <1>2, <1>3, <1>4 DEF Broke

LEMMA StepTells == ASSUME TypeOK, FailFollows, Told, [Next]_vars PROVE Told'
<1>1. CASE Break
  BY <1>1, BreakTells
<1>2. CASE EndReply
  BY <1>2, EndReplyTells DEF Told
<1>3. CASE Ask \/ LookUp
  <2>1. job.kind # "reply" /\ job' = job
    BY <1>3 DEF Ask, LookUp
  <2>2. ~Broke'
    BY <2>1 DEF Broke
  <2> QED
    BY <2>2 DEF Told
<1>4. CASE UNCHANGED vars
  <2>1. job' = job /\ sent' = sent /\ result' = result
    BY <1>4 DEF vars
  <2>2. plan' = plan
    BY <2>1 DEF plan
  <2> HIDE DEF plan
  <2>3. Broke' <=> Broke
    BY <2>1, <2>2 DEF Broke
  <2>4. PICK e : e = plan.breaks
    OBVIOUS
  <2>5. PICK r : r = result
    OBVIOUS
  <2>6. Broke => ToldRight(e, r)
    BY <2>4, <2>5 DEF Told
  <2>7. Told' <=> (Broke' => ToldRight(plan'.breaks, result'))
    BY DEF Told
  <2> QED
    BY <2>1, <2>2, <2>3, <2>4, <2>5, <2>6, <2>7
<1>5. ASSUME Replying, result' = result PROVE Told'
  <2>1. result'.kind = "Pending"
    BY <1>5 DEF Replying, Pending
  <2>2. ~Broke'
    BY <2>1 DEF Broke
  <2> QED
    BY <2>2 DEF Told
<1>6. CASE Say \/ StartCall \/ EndAll \/ GiveReason \/ CountUsage
  <2>1. Replying /\ result' = result
    BY <1>6 DEF Say, StartCall, EndAll, GiveReason, CountUsage, Hear
  <2> QED
    BY <1>5, <2>1
<1>7. ASSUME NEW k \in DOMAIN sent.calls, NameCall(k) \/ SendPart(k) \/ EndCall(k) PROVE Told'
  <2>1. Replying /\ result' = result
    BY <1>7 DEF NameCall, SendPart, EndCall, Hear
  <2> QED
    BY <1>5, <2>1
<1> QED
  BY <1>1, <1>2, <1>3, <1>4, <1>6, <1>7, Zenon DEF Next

\* Whatever a vendor writes in the error that breaks its reply, so long as a
\* secret in it stands behind what says that it is one and is no word that is
\* looked for, what canact tells of it holds no piece of a key, says that the
\* model is missing, or that the window is too small, exactly when the vendor
\* said so, takes no limit on requests for the window, and ends the suite when
\* the host is at fault and then alone.
THEOREM ErrorsToldRight == Spec => []ErrorsAreToldRight
<1> DEFINE I == TypeOK /\ SentFits /\ FailFollows /\ Told
<1>1. Init => I
  <2> SUFFICES ASSUME Init PROVE FailFollows /\ Told
    BY StartIsTyped
  <2>1. FailFollows
    BY DEF Init, FailFollows, NothingSent, FoldStart, StreamStart, Scored, Pending
  <2>2. ~Broke
    BY DEF Init, Broke, Pending
  <2> QED
    BY <2>1, <2>2 DEF Told
<1>2. I /\ [Next]_vars => I'
  BY StepFits, StepFails, StepTells
<1>3. I => ErrorsAreToldRight
  <2> HIDE DEF plan
  <2> QED
    BY Zenon DEF Told, ToldRight, ErrorsAreToldRight, SuiteEndsForTheHostAlone, NoKeyIsTold, WhatItSaysSurvives
<1> QED
  BY <1>1, <1>2, <1>3, PTL DEF Spec
=============================================================================
