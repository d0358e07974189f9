------------------------- MODULE OverlayFilesProofs -------------------------
(***************************************************************************)
(* Theorems about OverlayFiles: what an export does to the rows of its own *)
(* model and of the others, for settings files of any length.              *)
(***************************************************************************)
EXTENDS OverlayFiles, FiniteSetTheorems, TLAPS

\* A set of naturals that is not empty has a least element.
LEMMA LeastNat ==
    ASSUME NEW T, T \subseteq Nat, T # {}
    PROVE  \E x \in T : \A y \in T : x <= y
<1>1. ASSUME NEW R, IsWellFoundedOn(R, Nat), \A x, y \in Nat : y < x => <<y, x>> \in R
      PROVE  \E x \in T : \A y \in T : x <= y
  <2>1. PICK x \in T : \A y \in T : ~(<<y, x>> \in R)
    BY <1>1, WFMin
  <2>2. ASSUME NEW y \in T PROVE x <= y
    <3>1. x \in Nat /\ y \in Nat /\ ~(<<y, x>> \in R)
      BY <2>1
    <3>2. ~(y < x)
      BY <1>1, <3>1, Zenon
    <3> QED
      BY <3>1, <3>2
  <2> QED
    BY <2>2
<1> DEFINE R == OpToRel(<, Nat)
<1>2. IsWellFoundedOn(R, Nat)
  BY NatLessThanWellFounded
<1>3. \A x, y \in Nat : y < x => <<y, x>> \in R
  BY DEF OpToRel
<1> HIDE DEF R
<1> QED
  BY <1>1, <1>2, <1>3

\* A set that holds 0, and the successor of whatever it holds, holds every
\* natural number.
LEMMA Upwards ==
    ASSUME NEW T, T \subseteq Nat, 0 \in T, \A n \in T : n + 1 \in T
    PROVE  T = Nat
<1> SUFFICES ASSUME T # Nat PROVE FALSE
  OBVIOUS
<1>1. PICK x \in Nat \ T : \A y \in Nat \ T : x <= y
  BY LeastNat
<1>2. x - 1 \in Nat /\ x - 1 \in T
  BY <1>1
<1> QED
  BY <1>1, <1>2

----------------------------------------------------------------------------
(* Names.                                                                  *)

LEMMA NormalizeTwice ==
    ASSUME NEW label
    PROVE  Normalize(Normalize(label)) = Normalize(label)
BY DEF Normalize

LEMMA TailOf ==
    ASSUME NEW S, NEW s \in Seq(S), Len(s) >= 1
    PROVE  /\ Tail(s) \in Seq(S) /\ Len(Tail(s)) = Len(s) - 1
           /\ \A i \in 1 .. (Len(s) - 1) : Tail(s)[i] = s[i + 1]
OBVIOUS

LEMMA FirstAndRest ==
    ASSUME NEW S, NEW x \in S, NEW s \in Seq(S)
    PROVE  <<x>> \o s \in Seq(S) /\ Len(<<x>> \o s) = 1 + Len(s) /\ (<<x>> \o s)[1] = x
<1>1. <<x>> \in Seq(S) /\ Len(<<x>>) = 1 /\ <<x>>[1] = x
  OBVIOUS
<1> QED
  BY <1>1

LEMMA TwoIsNotOne ==
    ASSUME NEW n \in Nat, n >= 2
    PROVE  n # 1 /\ n - 1 # 0
OBVIOUS

\* What an export calls a model.
OverlayNames == {OverlayName(model) : model \in Models}

\* The name of a model is a normal label and an id.
LEMMA NameParts ==
    ASSUME NEW name \in OverlayNames
    PROVE  /\ name \in Names /\ Len(name) >= 2
           /\ Normalize(name[1]) = name[1]
<1>1. PICK model \in Models : name = OverlayName(model)
  BY DEF OverlayNames
<1> DEFINE prefixed == Len(model.id) > 1 /\ model.id[1] \in {Normalize(model.label), model.label}
           id == IF prefixed THEN Tail(model.id) ELSE model.id
           family == Normalize(model.label)
<1>2. family \in Part /\ model.id \in Seq(Part) /\ model.id # <<>>
  BY ModelsAssumption DEF Names
<1>3. id \in Seq(Part) /\ Len(id) >= 1
  <2>1. CASE prefixed
    <3>1. Len(model.id) > 1
      BY <2>1
    <3>2. Len(model.id) \in Nat
      BY <1>2
    <3>3. Tail(model.id) \in Seq(Part) /\ Len(Tail(model.id)) = Len(model.id) - 1
      BY <1>2, <3>1, <3>2, TailOf
    <3> QED
      BY <2>1, <3>1, <3>2, <3>3
  <2>2. CASE ~prefixed
    BY <1>2, <2>2
  <2> QED
    BY <2>1, <2>2
<1>4. name = <<family>> \o id
  BY <1>1 DEF OverlayName
<1>5. family \in Part
  BY <1>2
<1> HIDE DEF id, family
<1>6. name \in Seq(Part) /\ Len(name) = 1 + Len(id) /\ name[1] = family
  BY <1>3, <1>4, <1>5, FirstAndRest
<1>7. Normalize(family) = family
  BY NormalizeTwice DEF family
<1> QED
  BY <1>3, <1>6, <1>7 DEF Names

\* For the name of a model, to be of one model is to be an alias.
LEMMA SameIsAlias ==
    ASSUME NEW name \in OverlayNames, NEW other \in Names
    PROVE  /\ SameModel(other, name) <=> Aliases(other, name)
           /\ SameModel(name, other) <=> Aliases(name, other)
           /\ Aliases(name, other) <=> Aliases(other, name)
<1>1. name \in Seq(Part) /\ other \in Seq(Part) /\ Len(other) >= 1
  BY NameParts DEF Names
<1>2. Len(name) >= 2 /\ Len(name) \in Nat
  BY <1>1, NameParts
<1>3. Len(name) # 1 /\ Len(name) - 1 # 0
  BY <1>2, TwoIsNotOne, Zenon
<1>4. CASE Len(other) = 1
  <2>1. other # name
    BY <1>3, <1>4, Zenon
  <2>2. Len(Tail(name)) = Len(name) - 1 /\ Len(Tail(other)) = Len(other) - 1
    <3>1. Len(name) >= 1
      BY <1>2
    <3> QED
      BY <1>1, <3>1, TailOf, Zenon
  <2>3. Len(other) - 1 = 0
    BY <1>4
  <2>4. Tail(name) # Tail(other)
    BY <1>3, <2>2, <2>3, Zenon
  <2> QED
    BY <1>4, <2>1, <2>4, Zenon DEF SameModel, Aliases
<1>5. CASE Len(other) # 1
  BY <1>3, <1>5, Zenon DEF SameModel, Aliases
<1> QED
  BY <1>4, <1>5, Zenon

\* Two models of one name are one.
LEMMA OneName ==
    ASSUME NEW name \in OverlayNames, NEW other \in OverlayNames, Aliases(name, other)
    PROVE  name = other
<1>1. /\ name \in Seq(Part) /\ Len(name) >= 2 /\ Normalize(name[1]) = name[1]
      /\ other \in Seq(Part) /\ Len(other) >= 2 /\ Normalize(other[1]) = other[1]
  BY NameParts DEF Names
<1>2. name[1] = other[1] /\ Tail(name) = Tail(other)
  BY <1>1 DEF Aliases
<1>3. Len(name) = Len(other)
  BY <1>1, <1>2
<1>4. ASSUME NEW i \in 1 .. Len(name) PROVE name[i] = other[i]
  <2>1. CASE i = 1
    BY <1>2, <2>1
  <2>2. CASE i # 1
    <3>1. i - 1 \in 1 .. (Len(name) - 1) /\ i = (i - 1) + 1
      BY <1>1, <2>2
    <3>2. Tail(name)[i - 1] = name[i] /\ Tail(other)[i - 1] = other[i]
      BY <1>1, <1>3, <3>1
    <3> QED
      BY <1>2, <3>2
  <2> QED
    BY <2>1, <2>2
<1> QED
  BY <1>1, <1>3, <1>4

LEMMA AliasOfItself ==
    ASSUME NEW name
    PROVE  Aliases(name, name) /\ SameModel(name, name)
BY DEF Aliases, SameModel

----------------------------------------------------------------------------
(* The loop of the merge.                                                  *)

\* What holds of a number, and of the next one up to n, holds up to n.
LEMMA UpTo ==
    ASSUME NEW n \in Nat, NEW a \in Nat, NEW T, a \in T, \A i \in a .. (n - 1) : i \in T => i + 1 \in T
    PROVE  \A i \in a .. n : i \in T
<1> DEFINE U == {k \in Nat : a + k <= n => a + k \in T}
<1>1. 0 \in U
  OBVIOUS
<1>2. ASSUME NEW k \in U PROVE k + 1 \in U
  <2>1. CASE a + (k + 1) <= n
    <3>1. a + k \in T /\ a + k \in a .. (n - 1)
      BY <1>2, <2>1
    <3>2. (a + k) + 1 \in T
      BY <3>1
    <3> QED
      BY <3>2
  <2>2. CASE ~(a + (k + 1) <= n)
    BY <2>2
  <2> QED
    BY <2>1, <2>2
<1>3. U = Nat
  <2> HIDE DEF U
  <2>1. U \subseteq Nat
    BY DEF U
  <2> QED
    BY <1>1, <1>2, <2>1, Upwards
<1> SUFFICES ASSUME NEW i \in a .. n PROVE i \in T
  OBVIOUS
<1>4. i - a \in Nat /\ a + (i - a) = i
  OBVIOUS
<1>5. i - a \in U
  BY <1>3, <1>4
<1> QED
  BY <1>4, <1>5

\* What the loop has before each line and after the last.
AtFirst == [out |-> <<>>, now |-> {}]
IsRun(R, lines, name, value) ==
    /\ R[0] = AtFirst
    /\ \A i \in 1 .. Len(lines) : R[i] = MergeLine(name, value, R[i - 1], lines[i])

LEMMA MergedByRun ==
    ASSUME NEW S, NEW lines \in Seq(S), NEW name, NEW value
    PROVE  \E R : IsRun(R, lines, name, value) /\ Merged(lines, name, value) = R[Len(lines)]
<1> DEFINE n == Len(lines)
           Step(R, i) == IF i = 0 THEN AtFirst ELSE MergeLine(name, value, R[i - 1], lines[i])
           Fits(R, k) == R = [i \in 0 .. k |-> Step(R, i)]
           T == {k \in Nat : \E R : Fits(R, k)}
<1>1. n \in Nat
  OBVIOUS
<1>2. 0 \in T
  <2>1. Fits([i \in 0 .. 0 |-> AtFirst], 0)
    OBVIOUS
  <2> QED
    BY <2>1
<1>3. ASSUME NEW k \in 0 .. (n - 1), k \in T PROVE k + 1 \in T
  <2>1. PICK R : Fits(R, k)
    BY <1>3
  <2> DEFINE Q == [i \in 0 .. (k + 1) |-> IF i <= k THEN R[i] ELSE Step(R, k + 1)]
  <2>2. \A i \in 0 .. k : Q[i] = R[i]
    OBVIOUS
  <2>3. \A i \in 0 .. (k + 1) : Step(Q, i) = Step(R, i)
    <3> SUFFICES ASSUME NEW i \in 0 .. (k + 1) PROVE Step(Q, i) = Step(R, i)
      OBVIOUS
    <3>1. CASE i = 0
      BY <3>1
    <3>2. CASE i # 0
      <4>1. i - 1 \in 0 .. k
        BY <3>2
      <4>2. Q[i - 1] = R[i - 1]
        BY <2>2, <4>1
      <4> HIDE DEF Q
      <4> QED
        BY <3>2, <4>2
    <3> QED
      BY <3>1, <3>2
  <2>4. \A i \in 0 .. k : R[i] = Step(R, i)
    <3> HIDE DEF Step
    <3> QED
      BY <2>1
  <2>5. Fits(Q, k + 1)
    <3> HIDE DEF Step
    <3>1. ASSUME NEW i \in 0 .. (k + 1) PROVE (IF i <= k THEN R[i] ELSE Step(R, k + 1)) = Step(Q, i)
      <4>1. CASE i <= k
        BY <2>3, <2>4, <4>1
      <4>2. CASE i = k + 1
        BY <2>3, <4>2
      <4> QED
        BY <4>1, <4>2
    <3> QED
      BY <3>1
  <2>6. k \in Nat /\ k + 1 \in Nat
    BY <1>1, <1>3
  <2>7. \E P : Fits(P, k + 1)
    <3> HIDE DEF Q, Fits
    <3> QED
      BY <2>5
  <2> QED
    <3> HIDE DEF Fits
    <3> QED
      BY <2>6, <2>7
<1>4. \A i \in 0 .. n : i \in T
  <2> HIDE DEF T
  <2> QED
    BY <1>1, <1>2, <1>3, UpTo
<1> DEFINE M == CHOOSE R : Fits(R, n)
<1>5. Fits(M, n)
  <2>1. \E R : Fits(R, n)
    BY <1>1, <1>4
  <2> QED
    BY <2>1, Zenon
<1>6. Merged(lines, name, value) = M[n]
  BY DEF Merged, AtFirst
<1>7. \A i \in 0 .. n : M[i] = Step(M, i)
  <2> HIDE DEF M, Step
  <2> QED
    BY <1>5
<1>8. IsRun(M, lines, name, value)
  <2> HIDE DEF M
  <2>1. M[0] = AtFirst
    BY <1>1, <1>7
  <2>2. \A i \in 1 .. n : M[i] = MergeLine(name, value, M[i - 1], lines[i])
    BY <1>1, <1>7
  <2> QED
    BY <2>1, <2>2 DEF IsRun
<1> QED
  BY <1>6, <1>8

\* A line is a row of a model when it is the name of an alias of it.
IsRow(line, name) == line.kind = "name" /\ Aliases(line.what, name)

\* What reading one line does to the lines written, o, and to the marks, w.
Moves(o, w, next, marks, line, name, value) ==
    \/ /\ IsRow(line, name) /\ "replaced" \notin w
       /\ next = o \o Incoming(name, value) /\ marks = {"skipping", "replaced"}
    \/ /\ IsRow(line, name) /\ "replaced" \in w
       /\ next = o /\ marks = {"skipping", "replaced"}
    \/ /\ line.kind # "name" /\ "skipping" \in w
       /\ next = o /\ marks = w
    \/ /\ ~IsRow(line, name) /\ (line.kind = "name" \/ "skipping" \notin w)
       /\ next = Append(o, line) /\ marks = w \ {"skipping"}

LEMMA MergeLineMoves ==
    ASSUME NEW name \in OverlayNames, NEW value, NEW acc, NEW line,
           line.kind = "name" => line.what \in Names
    PROVE  LET next == MergeLine(name, value, acc, line)
           IN  Moves(acc.out, acc.now, next.out, next.now, line, name, value)
<1> DEFINE next == MergeLine(name, value, acc, line)
<1>1. (line.kind = "name" /\ SameModel(line.what, name)) <=> IsRow(line, name)
  BY SameIsAlias, Zenon DEF IsRow
<1>2. CASE IsRow(line, name) /\ "replaced" \notin acc.now
  <2>1. next = [out |-> acc.out \o Incoming(name, value), now |-> {"skipping", "replaced"}]
    BY <1>1, <1>2, Zenon DEF MergeLine
  <2>2. next.out = acc.out \o Incoming(name, value) /\ next.now = {"skipping", "replaced"}
    <3> HIDE DEF next
    <3> QED
      BY <2>1
  <2> QED
    BY <1>2, <2>2, Zenon DEF Moves
<1>3. CASE IsRow(line, name) /\ "replaced" \in acc.now
  <2>1. next = [out |-> acc.out, now |-> {"skipping", "replaced"}]
    BY <1>1, <1>3, Zenon DEF MergeLine
  <2>2. next.out = acc.out /\ next.now = {"skipping", "replaced"}
    <3> HIDE DEF next
    <3> QED
      BY <2>1
  <2> QED
    BY <1>3, <2>2, Zenon DEF Moves
<1>4. CASE ~IsRow(line, name) /\ "skipping" \in acc.now /\ line.kind # "name"
  <2>1. next = acc
    BY <1>1, <1>4, Zenon DEF MergeLine
  <2> QED
    BY <1>4, <2>1, Zenon DEF Moves
<1>5. CASE ~IsRow(line, name) /\ ~("skipping" \in acc.now /\ line.kind # "name")
  <2>1. next = [out |-> Append(acc.out, line), now |-> acc.now \ {"skipping"}]
    BY <1>1, <1>5, Zenon DEF MergeLine
  <2>2. next.out = Append(acc.out, line) /\ next.now = acc.now \ {"skipping"}
    <3> HIDE DEF next
    <3> QED
      BY <2>1
  <2> QED
    BY <1>5, <2>2, Zenon DEF Moves
<1> QED
  BY <1>2, <1>3, <1>4, <1>5, Zenon

LEMMA OneMore ==
    ASSUME NEW S, NEW s \in Seq(S), NEW a \in S
    PROVE  /\ Append(s, a) \in Seq(S) /\ Len(Append(s, a)) = Len(s) + 1
           /\ \A i \in 1 .. Len(s) : Append(s, a)[i] = s[i]
           /\ Append(s, a)[Len(s) + 1] = a
OBVIOUS

LEMMA TwoMore ==
    ASSUME NEW S, NEW s \in Seq(S), NEW a \in S, NEW b \in S
    PROVE  /\ s \o <<a, b>> \in Seq(S) /\ Len(s \o <<a, b>>) = Len(s) + 2
           /\ \A i \in 1 .. Len(s) : (s \o <<a, b>>)[i] = s[i]
           /\ (s \o <<a, b>>)[Len(s) + 1] = a
           /\ (s \o <<a, b>>)[Len(s) + 2] = b
<1>1. /\ <<a, b>> \in Seq(S) /\ Len(<<a, b>>) = 2
      /\ <<a, b>>[1] = a /\ <<a, b>>[2] = b
  OBVIOUS
<1> QED
  BY <1>1

\* A step keeps the lines that are written and adds none, one or two.
LEMMA MovesOn ==
    ASSUME NEW S, NEW o \in Seq(S), NEW w, NEW next, NEW marks, NEW line \in S,
           NEW name, NEW value, NameLine(name) \in S, FieldsLine(value) \in S,
           Moves(o, w, next, marks, line, name, value)
    PROVE  /\ next \in Seq(S) /\ Len(o) <= Len(next)
           /\ \A i \in 1 .. Len(o) : next[i] = o[i]
<1>1. CASE next = o
  BY <1>1
<1>2. CASE next = Append(o, line)
  BY <1>2, OneMore
<1>3. CASE next = o \o Incoming(name, value)
  BY <1>3, TwoMore DEF Incoming
<1> QED
  BY <1>1, <1>2, <1>3, Zenon DEF Moves

----------------------------------------------------------------------------
(* Rows of a settings file.                                                *)

NoRow(lines, name) == \A j \in 1 .. Len(lines) : ~IsRow(lines[j], name)

\* At i stands the only row of a model, its fields are its value, and what
\* follows them is another row or nothing.
RowAt(lines, i, name, value) ==
    /\ i + 1 <= Len(lines)
    /\ lines[i] = NameLine(name) /\ lines[i + 1] = FieldsLine(value)
    /\ i + 2 <= Len(lines) => lines[i + 2].kind = "name"
    /\ \A j \in 1 .. Len(lines) : IsRow(lines[j], name) => j = i

OwnRow(lines, name, value) == \E i \in 1 .. Len(lines) : RowAt(lines, i, name, value)

LEMMA LineKinds ==
    ASSUME NEW name, NEW value, NEW other
    PROVE  /\ NameLine(name).kind = "name" /\ NameLine(name).what = name
           /\ FieldsLine(value).kind = "fields" /\ FieldsLine(value).what = <<value>>
           /\ ~IsRow(FieldsLine(value), other)
           /\ IsRow(NameLine(name), other) <=> Aliases(name, other)
           /\ IsRow(NameLine(name), name)
<1>1. /\ NameLine(name).kind = "name" /\ NameLine(name).what = name
      /\ FieldsLine(value).kind = "fields" /\ FieldsLine(value).what = <<value>>
  BY DEF NameLine, FieldsLine
<1> QED
  BY <1>1, AliasOfItself DEF IsRow

\* A line that is no row of a model, for a merge of another, makes none.
LEMMA NoRowMade ==
    ASSUME NEW S, NEW o \in Seq(S), NEW w, NEW next, NEW marks, NEW line \in S,
           NEW name, NEW value, NameLine(name) \in S, FieldsLine(value) \in S,
           Moves(o, w, next, marks, line, name, value),
           NEW other, NoRow(o, other),
           IsRow(line, other) => IsRow(line, name),
           IsRow(line, name) => "replaced" \in w \/ ~Aliases(name, other)
    PROVE  NoRow(next, other)
<1>1. CASE next = o
  BY <1>1
<1>2. CASE next = Append(o, line) /\ ~IsRow(line, name)
  <2> SUFFICES ASSUME NEW j \in 1 .. Len(next) PROVE ~IsRow(next[j], other)
    BY DEF NoRow
  <2>1. CASE j \in 1 .. Len(o)
    BY <1>2, <2>1, OneMore DEF NoRow
  <2>2. CASE j = Len(o) + 1
    BY <1>2, <2>2, OneMore
  <2> QED
    BY <1>2, <2>1, <2>2, OneMore
<1>3. CASE IsRow(line, name) /\ next = o \o Incoming(name, value) /\ "replaced" \notin w
  <2>1. ~Aliases(name, other)
    BY <1>3
  <2> SUFFICES ASSUME NEW j \in 1 .. Len(next) PROVE ~IsRow(next[j], other)
    BY DEF NoRow
  <2>2. CASE j \in 1 .. Len(o)
    BY <1>3, <2>2, TwoMore DEF NoRow, Incoming
  <2>3. CASE j = Len(o) + 1
    <3>1. next[j] = NameLine(name)
      BY <1>3, <2>3, TwoMore DEF Incoming
    <3> QED
      BY <2>1, <3>1, LineKinds
  <2>4. CASE j = Len(o) + 2
    <3>1. next[j] = FieldsLine(value)
      BY <1>3, <2>4, TwoMore DEF Incoming
    <3> QED
      BY <3>1, LineKinds
  <2> QED
    BY <1>3, <2>2, <2>3, <2>4, TwoMore DEF Incoming
<1> QED
  BY <1>1, <1>2, <1>3, Zenon DEF Moves

\* A row that is there stays, and stays the only one.
LEMMA RowStays ==
    ASSUME NEW S, NEW o \in Seq(S), NEW w, NEW next, NEW marks, NEW line \in S,
           NEW name, NEW value, NameLine(name) \in S, FieldsLine(value) \in S,
           Moves(o, w, next, marks, line, name, value),
           NEW other, NEW what, NEW i \in 1 .. Len(o), RowAt(o, i, other, what),
           i + 1 = Len(o) => "skipping" \in w \/ line.kind = "name",
           IsRow(line, other) => IsRow(line, name),
           "replaced" \in w \/ ~Aliases(name, other)
    PROVE  /\ RowAt(next, i, other, what)
           /\ i + 1 = Len(next) => "skipping" \in marks
<1>1. CASE next = o /\ "skipping" \in marks
  BY <1>1
<1>2. CASE /\ next = Append(o, line) /\ ~IsRow(line, name)
           /\ line.kind = "name" \/ "skipping" \notin w
  <2>1. /\ next \in Seq(S) /\ Len(next) = Len(o) + 1 /\ next[Len(o) + 1] = line
        /\ \A j \in 1 .. Len(o) : next[j] = o[j]
    BY <1>2, OneMore
  <2>2. ~IsRow(line, other)
    BY <1>2
  <2>3. i + 1 <= Len(o) /\ next[i] = NameLine(other) /\ next[i + 1] = FieldsLine(what)
    BY <2>1 DEF RowAt
  <2>4. i + 2 <= Len(next) => next[i + 2].kind = "name"
    <3>1. CASE i + 2 <= Len(o)
      <4>1. next[i + 2] = o[i + 2]
        BY <2>1, <3>1
      <4> QED
        BY <3>1, <4>1 DEF RowAt
    <3>2. CASE i + 1 = Len(o)
      <4>1. line.kind = "name"
        BY <1>2, <3>2
      <4> QED
        BY <2>1, <3>2, <4>1
    <3> QED
      BY <2>3, <3>1, <3>2
  <2>5. ASSUME NEW j \in 1 .. Len(next), IsRow(next[j], other) PROVE j = i
    <3>1. CASE j \in 1 .. Len(o)
      BY <2>1, <2>5, <3>1 DEF RowAt
    <3>2. CASE j = Len(o) + 1
      BY <2>1, <2>2, <2>5, <3>2
    <3> QED
      BY <2>1, <3>1, <3>2
  <2> QED
    BY <2>1, <2>3, <2>4, <2>5 DEF RowAt
<1>3. CASE next = o \o Incoming(name, value) /\ "replaced" \notin w
  <2>1. /\ next \in Seq(S) /\ Len(next) = Len(o) + 2
        /\ next[Len(o) + 1] = NameLine(name) /\ next[Len(o) + 2] = FieldsLine(value)
        /\ \A j \in 1 .. Len(o) : next[j] = o[j]
    BY <1>3, TwoMore DEF Incoming
  <2>2. ~IsRow(NameLine(name), other) /\ ~IsRow(FieldsLine(value), other)
    BY <1>3, LineKinds
  <2>3. i + 1 <= Len(o) /\ next[i] = NameLine(other) /\ next[i + 1] = FieldsLine(what)
    BY <2>1 DEF RowAt
  <2>4. i + 2 <= Len(next) => next[i + 2].kind = "name"
    <3>1. CASE i + 2 <= Len(o)
      <4>1. next[i + 2] = o[i + 2]
        BY <2>1, <3>1
      <4> QED
        BY <3>1, <4>1 DEF RowAt
    <3>2. CASE i + 1 = Len(o)
      <4>1. i + 2 = Len(o) + 1
        BY <3>2
      <4>2. next[i + 2] = NameLine(name)
        BY <2>1, <4>1
      <4> QED
        BY <4>2, LineKinds
    <3> QED
      BY <2>3, <3>1, <3>2
  <2>5. ASSUME NEW j \in 1 .. Len(next), IsRow(next[j], other) PROVE j = i
    <3>1. CASE j \in 1 .. Len(o)
      BY <2>1, <2>5, <3>1 DEF RowAt
    <3>2. CASE j = Len(o) + 1
      BY <2>1, <2>2, <2>5, <3>2
    <3>3. CASE j = Len(o) + 2
      BY <2>1, <2>2, <2>5, <3>3
    <3> QED
      BY <2>1, <3>1, <3>2, <3>3
  <2> QED
    BY <2>1, <2>3, <2>4, <2>5 DEF RowAt
<1>4. "skipping" \in {"skipping", "replaced"}
  OBVIOUS
<1> QED
  BY <1>1, <1>2, <1>3, <1>4, Zenon DEF Moves

----------------------------------------------------------------------------
(* The merge, line by line.                                                *)

AllLines(lines, name, value) == Range(lines) \cup {NameLine(name), FieldsLine(value)}

\* A row that is appended at the end is appended as if its name were read there.
LineAt(lines, name, k) == IF k <= Len(lines) THEN lines[k] ELSE NameLine(name)

Reading(R, lines, name, value) ==
    /\ R[0] = AtFirst
    /\ \A k \in 0 .. (Len(lines) + 1) : R[k].out \in Seq(AllLines(lines, name, value))
    /\ \A k \in 0 .. Len(lines) :
          Moves(R[k].out, R[k].now, R[k + 1].out, R[k + 1].now, LineAt(lines, name, k + 1), name, value)

LEMMA LinesOf ==
    ASSUME NEW lines, IsSettings(lines), NEW name \in OverlayNames, NEW value
    PROVE  /\ lines \in Seq(AllLines(lines, name, value))
           /\ NameLine(name) \in AllLines(lines, name, value)
           /\ FieldsLine(value) \in AllLines(lines, name, value)
           /\ Len(lines) \in Nat
           /\ \A k \in 1 .. (Len(lines) + 1) :
                 /\ LineAt(lines, name, k) \in AllLines(lines, name, value)
                 /\ LineAt(lines, name, k).kind = "name" => LineAt(lines, name, k).what \in Names
<1> DEFINE S == AllLines(lines, name, value)
<1>1. lines \in Seq(Range(lines)) /\ Range(lines) \subseteq S
      /\ NameLine(name) \in S /\ FieldsLine(value) \in S
  BY DEF IsSettings, AllLines
<1>2. lines \in Seq(S) /\ Len(lines) \in Nat
  <2> HIDE DEF S
  <2> QED
    BY <1>1
<1>3. ASSUME NEW k \in 1 .. (Len(lines) + 1)
      PROVE  /\ LineAt(lines, name, k) \in S
             /\ LineAt(lines, name, k).kind = "name" => LineAt(lines, name, k).what \in Names
  <2>1. CASE k <= Len(lines)
    <3>1. k \in 1 .. Len(lines) /\ LineAt(lines, name, k) = lines[k]
      BY <1>2, <2>1 DEF LineAt
    <3>2. lines[k] \in S
      <4> HIDE DEF S
      <4> QED
        BY <1>2, <3>1
    <3> QED
      BY <3>1, <3>2 DEF IsSettings
  <2>2. CASE ~(k <= Len(lines))
    <3>1. LineAt(lines, name, k) = NameLine(name)
      BY <2>2 DEF LineAt
    <3>2. NameLine(name).what \in Names
      <4>1. name \in Names
        BY NameParts, Zenon
      <4>2. NameLine(name).what = name
        BY LineKinds, Zenon
      <4> QED
        BY <4>1, <4>2, Zenon
    <3>3. NameLine(name) \in S
      BY <1>1
    <3> HIDE DEF S
    <3> QED
      BY <3>1, <3>2, <3>3, Zenon
  <2> QED
    BY <2>1, <2>2
<1> QED
  BY <1>1, <1>2, <1>3

LEMMA MergeReads ==
    ASSUME NEW lines, IsSettings(lines), NEW name \in OverlayNames, NEW value
    PROVE  \E R : /\ Reading(R, lines, name, value)
                  /\ MergeSettings(lines, name, value) = R[Len(lines) + 1].out
<1> DEFINE n == Len(lines)
           S == AllLines(lines, name, value)
           At(k) == LineAt(lines, name, k)
<1>1. /\ lines \in Seq(S) /\ NameLine(name) \in S /\ FieldsLine(value) \in S /\ n \in Nat
      /\ \A k \in 1 .. (n + 1) : At(k) \in S /\ (At(k).kind = "name" => At(k).what \in Names)
  BY LinesOf
<1>2. PICK P : IsRun(P, lines, name, value) /\ Merged(lines, name, value) = P[n]
  BY <1>1, MergedByRun
<1> DEFINE last == MergeLine(name, value, P[n], NameLine(name))
           R == [k \in 0 .. (n + 1) |-> IF k <= n THEN P[k] ELSE last]
<1>3. R[0] = AtFirst
  BY <1>1, <1>2 DEF IsRun
<1>4. ASSUME NEW k \in 0 .. n PROVE R[k + 1] = MergeLine(name, value, R[k], At(k + 1))
  <2>1. R[k] = P[k] /\ k + 1 \in 0 .. (n + 1)
    BY <1>1
  <2>2. CASE k < n
    <3>1. k + 1 \in 1 .. n /\ (k + 1) - 1 = k /\ R[k + 1] = P[k + 1] /\ At(k + 1) = lines[k + 1]
      BY <1>1, <2>1, <2>2 DEF LineAt
    <3>2. \A i \in 1 .. n : P[i] = MergeLine(name, value, P[i - 1], lines[i])
      BY <1>2 DEF IsRun
    <3>3. P[k + 1] = MergeLine(name, value, P[k], lines[k + 1])
      BY <3>1, <3>2
    <3> HIDE DEF R
    <3> QED
      BY <2>1, <3>1, <3>3
  <2>3. CASE k = n
    <3>1. R[k + 1] = last /\ At(k + 1) = NameLine(name)
      BY <1>1, <2>1, <2>3 DEF LineAt
    <3> HIDE DEF R
    <3> QED
      BY <2>1, <2>3, <3>1
  <2> QED
    BY <1>1, <2>2, <2>3
<1>5. ASSUME NEW k \in 0 .. n
      PROVE  Moves(R[k].out, R[k].now, R[k + 1].out, R[k + 1].now, At(k + 1), name, value)
  <2>1. k + 1 \in 1 .. (n + 1)
    BY <1>1
  <2>2. At(k + 1).kind = "name" => At(k + 1).what \in Names
    BY <1>1, <2>1
  <2>3. R[k + 1] = MergeLine(name, value, R[k], At(k + 1))
    BY <1>4
  <2> HIDE DEF R, At
  <2> QED
    BY <2>2, <2>3, MergeLineMoves
<1>6. \A k \in 0 .. (n + 1) : R[k].out \in Seq(S)
  <2> DEFINE T == {k \in Nat : R[k].out \in Seq(S)}
  <2>1. 0 \in T
    <3> HIDE DEF S, R
    <3>1. R[0].out = <<>>
      BY <1>3 DEF AtFirst
    <3>2. <<>> \in Seq(S) /\ 0 \in Nat
      OBVIOUS
    <3> QED
      BY <3>1, <3>2
  <2>2. ASSUME NEW k \in 0 .. ((n + 1) - 1), k \in T PROVE k + 1 \in T
    <3>1. k \in 0 .. n /\ k + 1 \in 1 .. (n + 1) /\ k + 1 \in Nat
      BY <1>1
    <3> HIDE DEF S, R, At
    <3>2. R[k].out \in Seq(S)
      BY <2>2
    <3>3. R[k + 1].out \in Seq(S)
      BY <1>1, <1>5, <3>1, <3>2, MovesOn
    <3> QED
      BY <3>1, <3>3
  <2>3. n + 1 \in Nat
    BY <1>1
  <2>4. \A k \in 0 .. (n + 1) : k \in T
    <3> HIDE DEF T, n
    <3> QED
      BY <2>1, <2>2, <2>3, UpTo
  <2> QED
    <3> HIDE DEF S, R
    <3> QED
      BY <2>4
<1>7. MergeSettings(lines, name, value) = R[n + 1].out
  <2>1. R[n + 1] = last
    BY <1>1
  <2>2. IsRow(NameLine(name), name) /\ (NameLine(name).kind = "name" => NameLine(name).what \in Names)
    BY LineKinds, NameParts
  <2>3. Moves(P[n].out, P[n].now, last.out, last.now, NameLine(name), name, value)
    BY <2>2, MergeLineMoves
  <2>4. NameLine(name).kind = "name"
    BY LineKinds
  <2> HIDE DEF R, last
  <2>5. \/ "replaced" \notin P[n].now /\ last.out = P[n].out \o Incoming(name, value)
        \/ "replaced" \in P[n].now /\ last.out = P[n].out
    BY <2>2, <2>3, <2>4, Zenon DEF Moves
  <2> QED
    BY <1>2, <2>1, <2>5, Zenon DEF MergeSettings
<1>8. Reading(R, lines, name, value)
  <2> HIDE DEF R
  <2> QED
    BY <1>3, <1>5, <1>6 DEF Reading
<1> QED
  <2> HIDE DEF R
  <2> QED
    BY <1>7, <1>8

\* So far the row of the model is written, and nothing of it follows, or there
\* is none.
Landed(o, w, name, value) ==
    /\ "replaced" \notin w => "skipping" \notin w /\ NoRow(o, name)
    /\ "replaced" \in w =>
          \E i \in 1 .. Len(o) : RowAt(o, i, name, value) /\ (i + 1 = Len(o) => "skipping" \in w)

LEMMA LandsOrLanded ==
    ASSUME NEW S, NEW o \in Seq(S), NEW w, NEW next, NEW marks, NEW line \in S,
           NEW name, NEW value, NameLine(name) \in S, FieldsLine(value) \in S,
           Moves(o, w, next, marks, line, name, value), Landed(o, w, name, value)
    PROVE  Landed(next, marks, name, value)
<1>1. CASE "replaced" \in w
  <2>1. PICK i \in 1 .. Len(o) : RowAt(o, i, name, value) /\ (i + 1 = Len(o) => "skipping" \in w)
    BY <1>1 DEF Landed
  <2>2. RowAt(next, i, name, value) /\ (i + 1 = Len(next) => "skipping" \in marks)
    BY <1>1, <2>1, RowStays
  <2>3. i \in 1 .. Len(next)
    BY MovesOn
  <2>4. "replaced" \in marks
    BY <1>1 DEF Moves
  <2> QED
    BY <2>2, <2>3, <2>4 DEF Landed
<1>2. CASE "replaced" \notin w /\ IsRow(line, name)
  <2>1. next = o \o Incoming(name, value) /\ marks = {"skipping", "replaced"}
    BY <1>2 DEF Moves, IsRow
  <2>2. /\ next \in Seq(S) /\ Len(next) = Len(o) + 2
        /\ next[Len(o) + 1] = NameLine(name) /\ next[Len(o) + 2] = FieldsLine(value)
        /\ \A j \in 1 .. Len(o) : next[j] = o[j]
    BY <2>1, TwoMore DEF Incoming
  <2>3. NoRow(o, name)
    BY <1>2 DEF Landed
  <2> DEFINE i == Len(o) + 1
  <2>4. i \in 1 .. Len(next) /\ i + 1 = Len(next) /\ i + 1 = Len(o) + 2
    BY <2>2
  <2>5. ASSUME NEW j \in 1 .. Len(next), IsRow(next[j], name) PROVE j = i
    <3>1. CASE j \in 1 .. Len(o)
      BY <2>2, <2>3, <2>5, <3>1 DEF NoRow
    <3>2. CASE j = Len(o) + 2
      <4>1. next[j] = FieldsLine(value)
        BY <2>2, <3>2
      <4>2. ~IsRow(FieldsLine(value), name)
        BY LineKinds
      <4> QED
        BY <2>5, <4>1, <4>2, Zenon
    <3>3. CASE j = Len(o) + 1
      BY <3>3
    <3>4. j \in 1 .. Len(o) \/ j = Len(o) + 1 \/ j = Len(o) + 2
      BY <2>2
    <3> QED
      BY <3>1, <3>2, <3>3, <3>4, Zenon
  <2>6. RowAt(next, i, name, value)
    BY <2>2, <2>4, <2>5 DEF RowAt
  <2>7. "skipping" \in marks /\ "replaced" \in marks
    BY <2>1
  <2> QED
    BY <2>4, <2>6, <2>7 DEF Landed
<1>3. CASE "replaced" \notin w /\ ~IsRow(line, name)
  <2>1. NoRow(o, name) /\ "skipping" \notin w
    BY <1>3 DEF Landed
  <2>2. NoRow(next, name)
    BY <1>3, <2>1, NoRowMade
  <2>3. "replaced" \notin marks /\ "skipping" \notin marks
    BY <1>3, <2>1 DEF Moves
  <2> QED
    BY <2>2, <2>3 DEF Landed
<1> QED
  BY <1>1, <1>2, <1>3, Zenon

\* What is merged is there, in one row.
LEMMA MergeLands ==
    ASSUME NEW lines, IsSettings(lines), NEW name \in OverlayNames, NEW value
    PROVE  OwnRow(MergeSettings(lines, name, value), name, value)
<1> DEFINE n == Len(lines)
           S == AllLines(lines, name, value)
<1>1. PICK R : /\ Reading(R, lines, name, value)
               /\ MergeSettings(lines, name, value) = R[n + 1].out
  BY MergeReads
<1>2. /\ NameLine(name) \in S /\ FieldsLine(value) \in S /\ n \in Nat
      /\ \A k \in 1 .. (n + 1) : LineAt(lines, name, k) \in S
  BY LinesOf
<1>3. /\ R[0] = AtFirst
      /\ \A k \in 0 .. (n + 1) : R[k].out \in Seq(S)
      /\ \A k \in 0 .. n : Moves(R[k].out, R[k].now, R[k + 1].out, R[k + 1].now,
                                 LineAt(lines, name, k + 1), name, value)
  BY <1>1 DEF Reading
<1> DEFINE T == {k \in Nat : Landed(R[k].out, R[k].now, name, value)}
<1> HIDE DEF S, n
<1>4. 0 \in T
  <2>1. R[0].out = <<>> /\ R[0].now = {}
    BY <1>3 DEF AtFirst
  <2>2. NoRow(<<>>, name)
    BY DEF NoRow
  <2> QED
    BY <2>1, <2>2 DEF Landed
<1>5. ASSUME NEW k \in 0 .. ((n + 1) - 1), k \in T PROVE k + 1 \in T
  <2>1. k \in 0 .. n /\ k \in 0 .. (n + 1) /\ k + 1 \in 1 .. (n + 1) /\ k + 1 \in Nat
    BY <1>2
  <2>2. Landed(R[k].out, R[k].now, name, value)
    BY <1>5
  <2>3. /\ R[k].out \in Seq(S) /\ LineAt(lines, name, k + 1) \in S
        /\ Moves(R[k].out, R[k].now, R[k + 1].out, R[k + 1].now,
                 LineAt(lines, name, k + 1), name, value)
    BY <1>2, <1>3, <2>1
  <2>4. Landed(R[k + 1].out, R[k + 1].now, name, value)
    BY <1>2, <2>2, <2>3, LandsOrLanded
  <2> QED
    BY <2>1, <2>4
<1>6. n + 1 \in Nat
  BY <1>2
<1>7. \A k \in 0 .. (n + 1) : k \in T
  <2> HIDE DEF T
  <2> QED
    BY <1>4, <1>5, <1>6, UpTo
<1>8. Landed(R[n + 1].out, R[n + 1].now, name, value)
  BY <1>2, <1>7
<1>9. LineAt(lines, name, n + 1) = NameLine(name)
  BY <1>2 DEF LineAt, n
<1>10. "replaced" \in R[n + 1].now
  <2>1. Moves(R[n].out, R[n].now, R[n + 1].out, R[n + 1].now, NameLine(name), name, value)
    BY <1>2, <1>3, <1>9
  <2>2. IsRow(NameLine(name), name) /\ NameLine(name).kind = "name"
    BY LineKinds
  <2> QED
    BY <2>1, <2>2 DEF Moves
<1> QED
  BY <1>1, <1>8, <1>10 DEF Landed, OwnRow

\* Only the last line can be a name without its fields.
Paired(o) ==
    \A i \in 1 .. Len(o) : o[i].kind = "name" =>
       o[i].what \in Names /\ (i < Len(o) => o[i + 1].kind # "name")
Open(o) == Len(o) >= 1 /\ o[Len(o)].kind = "name"

LEMMA PairsUp ==
    ASSUME NEW S, NEW o \in Seq(S), NEW w, NEW next, NEW marks, NEW line \in S,
           NEW name \in OverlayNames, NEW value, NameLine(name) \in S, FieldsLine(value) \in S,
           Moves(o, w, next, marks, line, name, value),
           line.kind = "name" => line.what \in Names,
           Paired(o), Open(o) => line.kind # "name" /\ "skipping" \notin w
    PROVE  /\ Paired(next)
           /\ Open(next) => line.kind = "name" /\ ~IsRow(line, name) /\ "skipping" \notin marks
<1>1. CASE /\ next = Append(o, line) /\ ~IsRow(line, name)
           /\ marks = w \ {"skipping"}
  <2>1. /\ next \in Seq(S) /\ Len(next) = Len(o) + 1 /\ next[Len(o) + 1] = line
        /\ \A j \in 1 .. Len(o) : next[j] = o[j]
    BY <1>1, OneMore
  <2>2. ASSUME NEW i \in 1 .. Len(next), next[i].kind = "name"
        PROVE  next[i].what \in Names /\ (i < Len(next) => next[i + 1].kind # "name")
    <3>1. CASE i \in 1 .. (Len(o) - 1)
      <4>1. i \in 1 .. Len(o) /\ i < Len(o) /\ i + 1 \in 1 .. Len(o)
        BY <3>1
      <4>2. next[i] = o[i] /\ next[i + 1] = o[i + 1]
        BY <2>1, <4>1
      <4> QED
        BY <2>2, <4>1, <4>2 DEF Paired
    <3>2. CASE i = Len(o)
      <4>1. i \in 1 .. Len(o) /\ next[i] = o[i] /\ next[i + 1] = line
        BY <2>1, <3>2
      <4>2. Open(o)
        BY <2>2, <3>2, <4>1 DEF Open
      <4> QED
        BY <2>2, <4>1, <4>2 DEF Paired
    <3>3. CASE i = Len(o) + 1
      BY <2>1, <2>2, <3>3
    <3> QED
      BY <2>1, <3>1, <3>2, <3>3
  <2>3. Open(next) => line.kind = "name"
    BY <2>1 DEF Open
  <2> QED
    BY <1>1, <2>2, <2>3 DEF Paired
<1>2. CASE next = o /\ ~Open(o)
  BY <1>2
<1>3. CASE next = o \o Incoming(name, value) /\ ~Open(o)
  <2>1. /\ next \in Seq(S) /\ Len(next) = Len(o) + 2
        /\ next[Len(o) + 1] = NameLine(name) /\ next[Len(o) + 2] = FieldsLine(value)
        /\ \A j \in 1 .. Len(o) : next[j] = o[j]
    BY <1>3, TwoMore DEF Incoming
  <2>2. FieldsLine(value).kind # "name" /\ NameLine(name).what \in Names
    BY LineKinds, NameParts
  <2>3. ASSUME NEW i \in 1 .. Len(next), next[i].kind = "name"
        PROVE  next[i].what \in Names /\ (i < Len(next) => next[i + 1].kind # "name")
    <3>1. CASE i \in 1 .. (Len(o) - 1)
      <4>1. i \in 1 .. Len(o) /\ i < Len(o) /\ i + 1 \in 1 .. Len(o)
        BY <3>1
      <4>2. next[i] = o[i] /\ next[i + 1] = o[i + 1]
        BY <2>1, <4>1
      <4> QED
        BY <2>3, <4>1, <4>2 DEF Paired
    <3>2. CASE i = Len(o)
      <4>1. i \in 1 .. Len(o) /\ next[i] = o[i]
        BY <2>1, <3>2
      <4> QED
        BY <1>3, <2>3, <3>2, <4>1 DEF Open
    <3>3. CASE i = Len(o) + 1
      <4>1. next[i] = NameLine(name) /\ next[i + 1] = FieldsLine(value)
        BY <2>1, <3>3
      <4> QED
        BY <2>2, <4>1
    <3>4. CASE i = Len(o) + 2
      <4>1. next[i] = FieldsLine(value)
        BY <2>1, <3>4
      <4> QED
        BY <2>2, <2>3, <4>1
    <3> QED
      BY <2>1, <3>1, <3>2, <3>3, <3>4
  <2>4. ~Open(next)
    <3>1. next[Len(next)] = FieldsLine(value)
      BY <2>1
    <3> QED
      BY <2>2, <3>1 DEF Open
  <2> QED
    BY <2>3, <2>4 DEF Paired
<1>4. CASE Open(o)
  <2>1. line.kind # "name" /\ "skipping" \notin w
    BY <1>4
  <2> QED
    BY <1>1, <2>1, Zenon DEF Moves, IsRow
<1>5. CASE ~Open(o)
  BY <1>1, <1>2, <1>3, <1>5, Zenon DEF Moves
<1> QED
  BY <1>4, <1>5

LEMMA OwnRange ==
    ASSUME NEW S, NEW s \in Seq(S)
    PROVE  s \in Seq(Range(s))
<1>1. \A i \in 1 .. Len(s) : s[i] \in Range(s)
  BY DEF Range
<1> HIDE DEF Range
<1> QED
  BY <1>1

\* A merged file is a settings file again.
LEMMA MergeKeepsForm ==
    ASSUME NEW lines, IsSettings(lines), NEW name \in OverlayNames, NEW value
    PROVE  IsSettings(MergeSettings(lines, name, value))
<1> DEFINE n == Len(lines)
           S == AllLines(lines, name, value)
           At(k) == LineAt(lines, name, k)
<1>1. PICK R : /\ Reading(R, lines, name, value)
               /\ MergeSettings(lines, name, value) = R[n + 1].out
  BY MergeReads
<1>2. /\ NameLine(name) \in S /\ FieldsLine(value) \in S /\ n \in Nat
      /\ \A k \in 1 .. (n + 1) : At(k) \in S /\ (At(k).kind = "name" => At(k).what \in Names)
  BY LinesOf
<1>3. /\ R[0] = AtFirst
      /\ \A k \in 0 .. (n + 1) : R[k].out \in Seq(S)
      /\ \A k \in 0 .. n : Moves(R[k].out, R[k].now, R[k + 1].out, R[k + 1].now, At(k + 1), name, value)
  BY <1>1 DEF Reading
<1> DEFINE Fit(k) == /\ Paired(R[k].out)
                     /\ Open(R[k].out) => /\ k >= 1 /\ At(k).kind = "name" /\ ~IsRow(At(k), name)
                                          /\ "skipping" \notin R[k].now
           T == {k \in Nat : Fit(k)}
<1>4. ASSUME NEW k \in 1 .. n, At(k).kind = "name" PROVE k + 1 <= n /\ At(k + 1).kind # "name"
  <2>1. At(k) = lines[k]
    BY DEF LineAt
  <2>2. k < n /\ lines[k + 1].kind # "name"
    BY <1>4, <2>1 DEF IsSettings
  <2>3. k + 1 <= n
    BY <1>2, <2>2
  <2> QED
    BY <2>2, <2>3 DEF LineAt
<1>5. ~IsRow(At(n + 1), name) => FALSE
  <2>1. At(n + 1) = NameLine(name)
    BY <1>2 DEF LineAt
  <2> QED
    BY <2>1, LineKinds
<1> HIDE DEF S, n, At
<1>6. 0 \in T
  <2>1. R[0].out = <<>>
    BY <1>3 DEF AtFirst
  <2>2. Paired(<<>>) /\ ~Open(<<>>)
    BY DEF Paired, Open
  <2> QED
    BY <2>1, <2>2
<1>7. ASSUME NEW k \in 0 .. ((n + 1) - 1), k \in T PROVE k + 1 \in T
  <2>1. k \in 0 .. n /\ k \in 0 .. (n + 1) /\ k + 1 \in 1 .. (n + 1) /\ k + 1 \in Nat /\ k + 1 >= 1
    BY <1>2
  <2>2. Fit(k)
    BY <1>7
  <2>3. Open(R[k].out) => At(k + 1).kind # "name" /\ "skipping" \notin R[k].now
    <3> SUFFICES ASSUME Open(R[k].out) PROVE At(k + 1).kind # "name" /\ "skipping" \notin R[k].now
      OBVIOUS
    <3>1. k \in 1 .. n
      BY <2>1, <2>2
    <3> QED
      BY <1>4, <2>2, <3>1
  <2>4. /\ R[k].out \in Seq(S) /\ At(k + 1) \in S
        /\ At(k + 1).kind = "name" => At(k + 1).what \in Names
        /\ Moves(R[k].out, R[k].now, R[k + 1].out, R[k + 1].now, At(k + 1), name, value)
    BY <1>2, <1>3, <2>1
  <2>5. /\ Paired(R[k + 1].out)
        /\ Open(R[k + 1].out) => At(k + 1).kind = "name" /\ ~IsRow(At(k + 1), name)
                                    /\ "skipping" \notin R[k + 1].now
    <3>1. Paired(R[k].out) /\ NameLine(name) \in S /\ FieldsLine(value) \in S
      BY <1>2, <2>2
    <3> DEFINE o == R[k].out
               w == R[k].now
               next == R[k + 1].out
               marks == R[k + 1].now
               line == At(k + 1)
    <3>2. /\ o \in Seq(S) /\ line \in S /\ NameLine(name) \in S /\ FieldsLine(value) \in S
          /\ Moves(o, w, next, marks, line, name, value)
          /\ line.kind = "name" => line.what \in Names
          /\ Paired(o) /\ (Open(o) => line.kind # "name" /\ "skipping" \notin w)
      BY <2>3, <2>4, <3>1
    <3> HIDE DEF o, w, next, marks, line
    <3>3. /\ Paired(next)
          /\ Open(next) => line.kind = "name" /\ ~IsRow(line, name) /\ "skipping" \notin marks
      BY <3>2, PairsUp
    <3> QED
      BY <3>3 DEF next, line, marks
  <2>6. Fit(k + 1)
    BY <2>1, <2>5
  <2> HIDE DEF Fit
  <2> QED
    BY <2>1, <2>6
<1>8. n + 1 \in Nat /\ n + 1 \in 0 .. (n + 1)
  BY <1>2
<1>9. \A k \in 0 .. (n + 1) : k \in T
  <2> HIDE DEF T
  <2> QED
    BY <1>6, <1>7, <1>8, UpTo
<1>10. Fit(n + 1)
  <2>1. n + 1 \in T
    BY <1>8, <1>9
  <2> HIDE DEF Fit
  <2> QED
    BY <2>1
<1> DEFINE out == R[n + 1].out
<1>11. Paired(out) /\ ~Open(out)
  BY <1>5, <1>10
<1>12. out \in Seq(S)
  BY <1>3, <1>8
<1> HIDE DEF out
<1>13. out \in Seq(Range(out))
  BY <1>12, OwnRange
<1>14. ASSUME NEW i \in 1 .. Len(out), out[i].kind = "name"
       PROVE  out[i].what \in Names /\ i < Len(out) /\ out[i + 1].kind # "name"
  <2>1. i # Len(out)
    BY <1>11, <1>12, <1>14 DEF Open
  <2>2. i < Len(out)
    BY <1>12, <2>1
  <2> QED
    BY <1>11, <1>14, <2>2 DEF Paired
<1>15. IsSettings(out)
  BY <1>13, <1>14 DEF IsSettings
<1> QED
  BY <1>1, <1>15 DEF out

\* The row of another model is copied with its fields.
LEMMA CopiesPair ==
    ASSUME NEW lines, IsSettings(lines), NEW name \in OverlayNames, NEW value,
           NEW R, Reading(R, lines, name, value),
           NEW k \in Nat, k + 2 <= Len(lines),
           lines[k + 1].kind = "name", ~IsRow(lines[k + 1], name)
    PROVE  R[k + 2].out = Append(Append(R[k].out, lines[k + 1]), lines[k + 2])
<1>1. Len(lines) \in Nat
  BY LinesOf
<1>2. k + 1 \in 1 .. Len(lines) /\ (k + 1) + 1 = k + 2 /\ k \in 0 .. Len(lines) /\ k + 1 \in 0 .. Len(lines)
  BY <1>1
<1>3. lines[k + 2].kind # "name"
  BY <1>2 DEF IsSettings
<1>4. LineAt(lines, name, k + 1) = lines[k + 1] /\ LineAt(lines, name, k + 2) = lines[k + 2]
  BY <1>1, <1>2 DEF LineAt
<1>5. Moves(R[k].out, R[k].now, R[k + 1].out, R[k + 1].now, lines[k + 1], name, value)
  BY <1>2, <1>4 DEF Reading
<1>6. Moves(R[k + 1].out, R[k + 1].now, R[k + 2].out, R[k + 2].now, lines[k + 2], name, value)
  <2>1. Moves(R[k + 1].out, R[k + 1].now, R[(k + 1) + 1].out, R[(k + 1) + 1].now,
              LineAt(lines, name, (k + 1) + 1), name, value)
    BY <1>2 DEF Reading
  <2> QED
    BY <1>2, <1>4, <2>1
<1>7. R[k + 1].out = Append(R[k].out, lines[k + 1]) /\ R[k + 1].now = R[k].now \ {"skipping"}
  BY <1>5, Zenon DEF Moves
<1>8. "skipping" \notin R[k + 1].now /\ ~IsRow(lines[k + 2], name)
  BY <1>3, <1>7 DEF IsRow
<1>9. R[k + 2].out = Append(R[k + 1].out, lines[k + 2])
  BY <1>6, <1>8, Zenon DEF Moves
<1> QED
  BY <1>7, <1>9

\* A merge keeps the rows of other models, whoever wrote them.
LEMMA MergeKeepsOthers ==
    ASSUME NEW lines, IsSettings(lines), NEW name \in OverlayNames, NEW value,
           NEW k \in Nat, k + 2 <= Len(lines),
           lines[k + 1].kind = "name", ~IsRow(lines[k + 1], name)
    PROVE  LET out == MergeSettings(lines, name, value)
           IN  \E i \in 1 .. (Len(out) - 1) : out[i] = lines[k + 1] /\ out[i + 1] = lines[k + 2]
<1> DEFINE n == Len(lines)
           S == AllLines(lines, name, value)
           At(j) == LineAt(lines, name, j)
<1>1. PICK R : /\ Reading(R, lines, name, value)
               /\ MergeSettings(lines, name, value) = R[n + 1].out
  BY MergeReads
<1>2. /\ NameLine(name) \in S /\ FieldsLine(value) \in S /\ n \in Nat /\ lines \in Seq(S)
      /\ \A j \in 1 .. (n + 1) : At(j) \in S
  BY LinesOf
<1>3. /\ \A j \in 0 .. (n + 1) : R[j].out \in Seq(S)
      /\ \A j \in 0 .. n : Moves(R[j].out, R[j].now, R[j + 1].out, R[j + 1].now, At(j + 1), name, value)
  BY <1>1 DEF Reading
<1>4. R[k + 2].out = Append(Append(R[k].out, lines[k + 1]), lines[k + 2])
  BY <1>1, CopiesPair
<1>5. lines[k + 1] \in S /\ lines[k + 2] \in S /\ R[k].out \in Seq(S)
  <2>1. k + 1 \in 1 .. n /\ k + 2 \in 1 .. n /\ k \in 0 .. (n + 1)
    BY <1>2
  <2> HIDE DEF S
  <2> QED
    BY <1>2, <1>3, <2>1
<1> DEFINE i == Len(R[k].out) + 1
           Has(o) == i + 1 <= Len(o) /\ o[i] = lines[k + 1] /\ o[i + 1] = lines[k + 2]
           T == {j \in Nat : Has(R[j].out)}
<1>6. i \in Nat /\ i >= 1
  BY <1>5
<1> HIDE DEF S, n, At
<1>7. k + 2 \in T
  <2> DEFINE o == R[k].out
  <2>1. o \in Seq(S)
    BY <1>5
  <2> HIDE DEF o
  <2>2. /\ Append(o, lines[k + 1]) \in Seq(S) /\ Len(Append(o, lines[k + 1])) = Len(o) + 1
        /\ Append(o, lines[k + 1])[Len(o) + 1] = lines[k + 1]
    BY <1>5, <2>1, OneMore
  <2> DEFINE q == Append(o, lines[k + 1])
  <2>3. Len(o) \in Nat /\ Len(o) + 1 \in 1 .. Len(q)
    BY <2>1, <2>2
  <2> HIDE DEF q
  <2>4. q \in Seq(S) /\ Len(q) = Len(o) + 1 /\ q[Len(o) + 1] = lines[k + 1]
    BY <2>2 DEF q
  <2>5. /\ Len(Append(q, lines[k + 2])) = Len(o) + 2
        /\ Append(q, lines[k + 2])[Len(o) + 1] = lines[k + 1]
        /\ Append(q, lines[k + 2])[Len(o) + 2] = lines[k + 2]
    BY <1>5, <2>3, <2>4, OneMore
  <2>6. R[k + 2].out = Append(q, lines[k + 2]) /\ i = Len(o) + 1 /\ i + 1 = Len(o) + 2
    BY <1>4, <2>3 DEF q, o
  <2> DEFINE next == R[k + 2].out
  <2>7. next = Append(q, lines[k + 2]) /\ k + 2 \in Nat
    BY <2>6
  <2> HIDE DEF next, i
  <2>8. i + 1 <= Len(next) /\ next[i] = lines[k + 1] /\ next[i + 1] = lines[k + 2]
    BY <2>3, <2>5, <2>6, <2>7
  <2>9. Has(R[k + 2].out)
    BY <2>8, Zenon DEF next
  <2> QED
    BY <2>7, <2>9
<1>8. ASSUME NEW j \in (k + 2) .. ((n + 1) - 1), j \in T PROVE j + 1 \in T
  <2>1. j \in Nat /\ j \in 0 .. n /\ j \in 0 .. (n + 1) /\ j + 1 \in 1 .. (n + 1) /\ j + 1 \in Nat
    BY <1>2
  <2>2. Has(R[j].out)
    BY <1>8
  <2>3. /\ R[j].out \in Seq(S) /\ At(j + 1) \in S
        /\ Moves(R[j].out, R[j].now, R[j + 1].out, R[j + 1].now, At(j + 1), name, value)
    BY <1>2, <1>3, <2>1
  <2>4. /\ R[j + 1].out \in Seq(S) /\ Len(R[j].out) <= Len(R[j + 1].out)
        /\ \A x \in 1 .. Len(R[j].out) : R[j + 1].out[x] = R[j].out[x]
    <3> DEFINE o == R[j].out
               w == R[j].now
               next == R[j + 1].out
               marks == R[j + 1].now
               line == At(j + 1)
    <3>1. /\ o \in Seq(S) /\ line \in S /\ NameLine(name) \in S /\ FieldsLine(value) \in S
          /\ Moves(o, w, next, marks, line, name, value)
      BY <1>2, <2>3
    <3> HIDE DEF o, w, next, marks, line
    <3>2. next \in Seq(S) /\ Len(o) <= Len(next) /\ \A x \in 1 .. Len(o) : next[x] = o[x]
      BY <3>1, MovesOn
    <3> QED
      BY <3>2 DEF o, next
  <2> HIDE DEF i
  <2> DEFINE o == R[j].out
             next == R[j + 1].out
  <2>5. i \in 1 .. Len(o) /\ i + 1 \in 1 .. Len(o) /\ i + 1 <= Len(next)
    <3>1. i + 1 <= Len(o)
      BY <2>2, Zenon
    <3>2. Len(o) \in Nat /\ Len(next) \in Nat /\ Len(o) <= Len(next)
      <4>1. o \in Seq(S) /\ next \in Seq(S) /\ Len(o) <= Len(next)
        BY <2>3, <2>4, Zenon
      <4> HIDE DEF o, next
      <4> QED
        BY <4>1
    <3> HIDE DEF o, next
    <3> QED
      BY <1>6, <3>1, <3>2
  <2>6. /\ i \in 1 .. Len(o) /\ i + 1 \in 1 .. Len(o) /\ i + 1 <= Len(next)
        /\ o[i] = lines[k + 1] /\ o[i + 1] = lines[k + 2]
        /\ \A x \in 1 .. Len(o) : next[x] = o[x]
    BY <2>2, <2>4, <2>5, Zenon
  <2> HIDE DEF o, next
  <2>7. i + 1 <= Len(next) /\ next[i] = lines[k + 1] /\ next[i + 1] = lines[k + 2]
    BY <2>6, Zenon
  <2>8. Has(R[j + 1].out)
    BY <2>7, Zenon DEF next
  <2> QED
    BY <2>1, <2>8
<1>9. k + 2 \in Nat /\ n + 1 \in Nat /\ n + 1 \in (k + 2) .. (n + 1) /\ n + 1 \in 0 .. (n + 1)
  BY <1>2 DEF n
<1>10. \A j \in (k + 2) .. (n + 1) : j \in T
  <2> HIDE DEF T
  <2> QED
    BY <1>7, <1>8, <1>9, UpTo
<1>11. Has(R[n + 1].out) /\ R[n + 1].out \in Seq(S)
  BY <1>3, <1>9, <1>10
<1> DEFINE out == MergeSettings(lines, name, value)
<1>12. out = R[n + 1].out
  BY <1>1 DEF n
<1> HIDE DEF out, i
<1>13. i \in 1 .. (Len(out) - 1) /\ out[i] = lines[k + 1] /\ out[i + 1] = lines[k + 2]
  BY <1>6, <1>11, <1>12
<1> QED
  BY <1>13 DEF out

LEMMA OtherModels ==
    ASSUME NEW name \in OverlayNames, NEW other \in OverlayNames, other # name
    PROVE  /\ ~Aliases(name, other)
           /\ \A line : IsRow(line, other) => ~IsRow(line, name)
<1>1. ~Aliases(name, other)
  BY OneName
<1>2. ASSUME NEW line, IsRow(line, other), IsRow(line, name) PROVE FALSE
  BY <1>1, <1>2 DEF IsRow, Aliases
<1> QED
  BY <1>1, <1>2

\* As long as no row of another model is read, none is written.
LEMMA NoRowRead ==
    ASSUME NEW lines, IsSettings(lines), NEW name \in OverlayNames, NEW value,
           NEW R, Reading(R, lines, name, value),
           NEW other, ~Aliases(name, other), NEW m \in 0 .. (Len(lines) + 1),
           \A j \in 1 .. m : ~IsRow(LineAt(lines, name, j), other)
    PROVE  NoRow(R[m].out, other)
<1> DEFINE n == Len(lines)
           S == AllLines(lines, name, value)
           At(j) == LineAt(lines, name, j)
           T == {j \in Nat : NoRow(R[j].out, other)}
<1>1. /\ NameLine(name) \in S /\ FieldsLine(value) \in S /\ n \in Nat
      /\ \A j \in 1 .. (n + 1) : At(j) \in S
  BY LinesOf
<1>2. /\ R[0] = AtFirst
      /\ \A j \in 0 .. (n + 1) : R[j].out \in Seq(S)
      /\ \A j \in 0 .. n : Moves(R[j].out, R[j].now, R[j + 1].out, R[j + 1].now, At(j + 1), name, value)
  BY DEF Reading
<1>3. m \in 0 .. (n + 1) /\ m \in Nat /\ \A j \in 1 .. m : ~IsRow(At(j), other)
  BY <1>1
<1> HIDE DEF S, n, At
<1>4. 0 \in T
  <2>1. R[0].out = <<>>
    BY <1>2 DEF AtFirst
  <2>2. NoRow(<<>>, other)
    BY DEF NoRow
  <2> QED
    BY <2>1, <2>2
<1>5. ASSUME NEW j \in 0 .. (m - 1), j \in T PROVE j + 1 \in T
  <2>1. /\ j \in 0 .. n /\ j \in 0 .. (n + 1) /\ j + 1 \in 1 .. (n + 1)
        /\ j + 1 \in Nat /\ j + 1 \in 1 .. m
    BY <1>1, <1>3
  <2> DEFINE o == R[j].out
             w == R[j].now
             next == R[j + 1].out
             marks == R[j + 1].now
             line == At(j + 1)
  <2>2. /\ o \in Seq(S) /\ line \in S /\ NameLine(name) \in S /\ FieldsLine(value) \in S
        /\ Moves(o, w, next, marks, line, name, value)
        /\ NoRow(o, other) /\ ~IsRow(line, other)
    BY <1>1, <1>2, <1>3, <1>5, <2>1
  <2> HIDE DEF o, w, next, marks, line
  <2>3. NoRow(next, other)
    BY <2>2, NoRowMade
  <2> QED
    BY <2>1, <2>3 DEF next
<1>6. \A j \in 0 .. m : j \in T
  <2> HIDE DEF T
  <2> QED
    BY <1>3, <1>4, <1>5, UpTo
<1> QED
  BY <1>3, <1>6

LEMMA MergeMakesNoRow ==
    ASSUME NEW lines, IsSettings(lines), NEW name \in OverlayNames, NEW value,
           NEW other \in OverlayNames, other # name, NoRow(lines, other)
    PROVE  NoRow(MergeSettings(lines, name, value), other)
<1> DEFINE n == Len(lines)
           At(j) == LineAt(lines, name, j)
<1>1. PICK R : /\ Reading(R, lines, name, value)
               /\ MergeSettings(lines, name, value) = R[n + 1].out
  BY MergeReads
<1>2. n \in Nat
  BY LinesOf
<1>3. ~Aliases(name, other)
  BY OtherModels
<1>4. ASSUME NEW j \in 1 .. (n + 1) PROVE ~IsRow(At(j), other)
  <2>1. CASE j <= n
    BY <1>2, <2>1 DEF LineAt, NoRow
  <2>2. CASE j = n + 1
    <3>1. At(j) = NameLine(name)
      BY <1>2, <2>2 DEF LineAt
    <3> QED
      BY <1>3, <3>1, LineKinds
  <2> QED
    BY <1>2, <2>1, <2>2
<1>5. n + 1 \in 0 .. (n + 1)
  BY <1>2
<1>6. NoRow(R[n + 1].out, other)
  BY <1>1, <1>3, <1>4, <1>5, NoRowRead
<1> QED
  BY <1>1, <1>6

\* A name and its fields at the end of lines without a row of the model.
LEMMA NewRow ==
    ASSUME NEW S, NEW o \in Seq(S), NEW name, NEW value, NoRow(o, name),
           NameLine(name) \in S, FieldsLine(value) \in S
    PROVE  RowAt(Append(Append(o, NameLine(name)), FieldsLine(value)), Len(o) + 1, name, value)
<1> DEFINE q == Append(o, NameLine(name))
           r == Append(q, FieldsLine(value))
           i == Len(o) + 1
<1>1. /\ q \in Seq(S) /\ Len(q) = Len(o) + 1 /\ q[Len(o) + 1] = NameLine(name)
      /\ \A j \in 1 .. Len(o) : q[j] = o[j]
  BY OneMore
<1>2. Len(o) \in Nat /\ i + 1 = Len(o) + 2
  OBVIOUS
<1> HIDE DEF q
<1>3. /\ Len(r) = Len(o) + 2 /\ r[Len(o) + 2] = FieldsLine(value)
      /\ \A j \in 1 .. (Len(o) + 1) : r[j] = q[j]
  BY <1>1, <1>2, OneMore
<1> HIDE DEF r
<1>4. r[i] = NameLine(name) /\ r[i + 1] = FieldsLine(value)
  BY <1>1, <1>2, <1>3
<1>5. ASSUME NEW j \in 1 .. Len(r), IsRow(r[j], name) PROVE j = i
  <2>1. CASE j \in 1 .. Len(o)
    BY <1>1, <1>2, <1>3, <1>5, <2>1 DEF NoRow
  <2>2. CASE j = Len(o) + 2
    <3>1. r[j] = FieldsLine(value)
      BY <1>3, <2>2
    <3>2. ~IsRow(FieldsLine(value), name)
      BY LineKinds
    <3> QED
      BY <1>5, <3>1, <3>2, Zenon
  <2>3. CASE j = Len(o) + 1
    BY <2>3
  <2>4. j \in 1 .. Len(o) \/ j = Len(o) + 1 \/ j = Len(o) + 2
    BY <1>2, <1>3
  <2> QED
    BY <2>1, <2>2, <2>3, <2>4, Zenon
<1>6. i + 1 <= Len(r) /\ ~(i + 2 <= Len(r))
  BY <1>2, <1>3
<1>7. RowAt(r, i, name, value)
  <2> HIDE DEF i
  <2> QED
    BY <1>4, <1>5, <1>6 DEF RowAt
<1> QED
  BY <1>7 DEF q, r

\* A merge keeps the only row of another model where it is closed, and makes
\* no second one.
LEMMA MergeKeepsOtherRow ==
    ASSUME NEW lines, IsSettings(lines), NEW name \in OverlayNames, NEW value,
           NEW other \in OverlayNames, other # name, NEW what, OwnRow(lines, other, what)
    PROVE  OwnRow(MergeSettings(lines, name, value), other, what)
<1> DEFINE n == Len(lines)
           S == AllLines(lines, name, value)
           At(j) == LineAt(lines, name, j)
<1>1. PICK R : /\ Reading(R, lines, name, value)
               /\ MergeSettings(lines, name, value) = R[n + 1].out
  BY MergeReads
<1>2. /\ NameLine(name) \in S /\ FieldsLine(value) \in S /\ n \in Nat /\ lines \in Seq(S)
      /\ \A j \in 1 .. (n + 1) : At(j) \in S
  BY LinesOf
<1>3. /\ \A j \in 0 .. (n + 1) : R[j].out \in Seq(S)
      /\ \A j \in 0 .. n : Moves(R[j].out, R[j].now, R[j + 1].out, R[j + 1].now, At(j + 1), name, value)
  BY <1>1 DEF Reading
<1>4. ~Aliases(name, other) /\ \A line : IsRow(line, other) => ~IsRow(line, name)
  BY OtherModels
<1>5. PICK p \in 1 .. n : RowAt(lines, p, other, what)
  BY DEF OwnRow
<1> DEFINE k == p - 1
<1>6. k \in Nat /\ k + 1 = p /\ k + 2 = p + 1
  BY <1>2
<1> HIDE DEF k
<1>7. /\ k + 2 <= n
      /\ lines[k + 1] = NameLine(other) /\ lines[k + 2] = FieldsLine(what)
      /\ k + 3 <= n => lines[k + 3].kind = "name"
      /\ \A j \in 1 .. n : IsRow(lines[j], other) => j = k + 1
  <2>1. k + 3 = p + 2
    BY <1>6
  <2> QED
    BY <1>5, <1>6, <2>1 DEF RowAt
<1>8. lines[k + 1].kind = "name" /\ ~IsRow(lines[k + 1], name)
  <2>1. NameLine(other).kind = "name" /\ IsRow(NameLine(other), other)
    BY LineKinds
  <2>2. ~IsRow(NameLine(other), name)
    BY <1>4, <2>1, Zenon
  <2> QED
    BY <1>7, <2>1, <2>2, Zenon
<1>9. R[k + 2].out = Append(Append(R[k].out, NameLine(other)), FieldsLine(what))
  <2>1. /\ Reading(R, lines, name, value) /\ k \in Nat /\ k + 2 <= Len(lines)
        /\ lines[k + 1].kind = "name" /\ ~IsRow(lines[k + 1], name)
    BY <1>1, <1>6, <1>7, <1>8
  <2>2. R[k + 2].out = Append(Append(R[k].out, lines[k + 1]), lines[k + 2])
    BY <2>1, CopiesPair
  <2> QED
    BY <1>7, <2>2
<1>10. NameLine(other) \in S /\ FieldsLine(what) \in S
  <2>1. k + 1 \in 1 .. n /\ k + 2 \in 1 .. n
    BY <1>2, <1>6, <1>7
  <2> HIDE DEF S
  <2>2. lines[k + 1] \in S /\ lines[k + 2] \in S
    BY <1>2, <2>1
  <2> QED
    BY <1>7, <2>2
<1>11. R[k].out \in Seq(S) /\ NoRow(R[k].out, other)
  <2>1. k \in 0 .. (n + 1)
    BY <1>2, <1>6, <1>7
  <2>2. ASSUME NEW j \in 1 .. k PROVE ~IsRow(At(j), other)
    <3>1. j \in 1 .. n /\ j # k + 1 /\ j <= n
      BY <1>2, <1>6, <1>7
    <3>2. At(j) = lines[j]
      BY <3>1 DEF LineAt
    <3> QED
      BY <1>7, <3>1, <3>2
  <2>3. NoRow(R[k].out, other)
    BY <1>1, <1>4, <2>1, <2>2, NoRowRead
  <2> QED
    BY <1>3, <2>1, <2>3
<1> DEFINE i == Len(R[k].out) + 1
           Stands(j) == /\ RowAt(R[j].out, i, other, what)
                        /\ i + 1 = Len(R[j].out) => "skipping" \in R[j].now \/ At(j + 1).kind = "name"
           T == {j \in Nat : Stands(j)}
<1>12. i \in Nat /\ i >= 1
  BY <1>11
<1>13. ASSUME NEW j \in 1 .. (n + 1), j > k + 1, ~(j = k + 2) PROVE ~IsRow(At(j), other)
  <2>1. CASE j <= n
    BY <1>2, <1>6, <1>7, <1>13, <2>1 DEF LineAt
  <2>2. CASE j = n + 1
    <3>1. At(j) = NameLine(name)
      BY <1>2, <2>2 DEF LineAt
    <3> QED
      BY <1>4, <3>1, LineKinds
  <2> QED
    BY <1>2, <2>1, <2>2
<1>14. At(k + 3).kind = "name"
  <2>1. CASE k + 3 <= n
    BY <1>7, <2>1 DEF LineAt
  <2>2. CASE ~(k + 3 <= n)
    <3>1. At(k + 3) = NameLine(name)
      BY <2>2 DEF LineAt
    <3> QED
      BY <3>1, LineKinds
  <2> QED
    BY <2>1, <2>2
<1> HIDE DEF S, n, At
<1>15. k + 2 \in T
  <2>1. RowAt(R[k + 2].out, i, other, what)
    BY <1>9, <1>10, <1>11, NewRow
  <2>2. (k + 2) + 1 = k + 3 /\ k + 2 \in Nat
    BY <1>6
  <2> HIDE DEF i
  <2> QED
    BY <1>14, <2>1, <2>2
<1>16. ASSUME NEW j \in (k + 2) .. ((n + 1) - 1), j \in T PROVE j + 1 \in T
  <2>1. /\ j \in Nat /\ j \in 0 .. n /\ j \in 0 .. (n + 1) /\ j + 1 \in 1 .. (n + 1)
        /\ j + 1 \in Nat /\ j + 1 > k + 1 /\ ~(j + 1 = k + 2)
    BY <1>2, <1>6
  <2> DEFINE o == R[j].out
             w == R[j].now
             next == R[j + 1].out
             marks == R[j + 1].now
             line == At(j + 1)
  <2>2. ~IsRow(line, other)
    BY <1>13, <2>1
  <2> HIDE DEF i
  <2>3. /\ o \in Seq(S) /\ line \in S /\ NameLine(name) \in S /\ FieldsLine(value) \in S
        /\ Moves(o, w, next, marks, line, name, value)
        /\ RowAt(o, i, other, what)
        /\ i + 1 = Len(o) => "skipping" \in w \/ line.kind = "name"
    BY <1>2, <1>3, <1>16, <2>1
  <2> HIDE DEF o, w, next, marks, line
  <2>4. i \in 1 .. Len(o)
    BY <1>12, <2>3 DEF RowAt
  <2>5. RowAt(next, i, other, what) /\ (i + 1 = Len(next) => "skipping" \in marks)
    BY <1>4, <2>2, <2>3, <2>4, RowStays
  <2>6. Stands(j + 1)
    BY <2>5 DEF next, marks
  <2> HIDE DEF Stands
  <2> QED
    BY <2>1, <2>6
<1>17. k + 2 \in Nat /\ n + 1 \in Nat /\ n + 1 \in (k + 2) .. (n + 1) /\ n + 1 \in 0 .. (n + 1)
  BY <1>2, <1>6, <1>7
<1>18. \A j \in (k + 2) .. (n + 1) : j \in T
  <2> HIDE DEF T
  <2> QED
    BY <1>15, <1>16, <1>17, UpTo
<1>19. RowAt(R[n + 1].out, i, other, what) /\ R[n + 1].out \in Seq(S)
  BY <1>3, <1>17, <1>18
<1>20. i \in 1 .. Len(R[n + 1].out)
  <2> HIDE DEF i
  <2> QED
    BY <1>12, <1>19 DEF RowAt
<1> QED
  BY <1>1, <1>19, <1>20 DEF OwnRow, n

\* To merge what is there already changes nothing.
LEMMA MergeAgain ==
    ASSUME NEW lines, IsSettings(lines), NEW name \in OverlayNames, NEW value,
           OwnRow(lines, name, value)
    PROVE  MergeSettings(lines, name, value) = lines
<1> DEFINE n == Len(lines)
           S == AllLines(lines, name, value)
           At(j) == LineAt(lines, name, j)
<1>1. PICK R : /\ Reading(R, lines, name, value)
               /\ MergeSettings(lines, name, value) = R[n + 1].out
  BY MergeReads
<1>2. /\ NameLine(name) \in S /\ FieldsLine(value) \in S /\ n \in Nat /\ lines \in Seq(S)
      /\ \A j \in 1 .. (n + 1) : At(j) \in S
  BY LinesOf
<1>3. /\ R[0] = AtFirst
      /\ \A j \in 0 .. (n + 1) : R[j].out \in Seq(S)
      /\ \A j \in 0 .. n : Moves(R[j].out, R[j].now, R[j + 1].out, R[j + 1].now, At(j + 1), name, value)
  BY <1>1 DEF Reading
<1>4. PICK p \in 1 .. n : RowAt(lines, p, name, value)
  BY DEF OwnRow
<1>5. /\ p + 1 <= n /\ lines[p] = NameLine(name) /\ lines[p + 1] = FieldsLine(value)
      /\ p + 2 <= n => lines[p + 2].kind = "name"
      /\ \A j \in 1 .. n : IsRow(lines[j], name) => j = p
  BY <1>4 DEF RowAt
<1> DEFINE Same(o, m) == Len(o) = m /\ \A x \in 1 .. m : o[x] = lines[x]
           Both == {"skipping", "replaced"}
           Fit(o, w, j) == /\ j < p => Same(o, j) /\ w = {}
                           /\ j = p \/ j = p + 1 => Same(o, p + 1) /\ w = Both
                           /\ j > p + 1 => Same(o, j) /\ w = {"replaced"}
           T == {j \in Nat : Fit(R[j].out, R[j].now, j)}
<1>6. \A j \in 1 .. n : At(j) = lines[j]
  BY <1>2 DEF LineAt
<1>7. At(n + 1) = NameLine(name)
  BY <1>2 DEF LineAt
<1> HIDE DEF S, n, At
<1>8. 0 \in T
  <2>1. R[0].out = <<>> /\ R[0].now = {}
    BY <1>3 DEF AtFirst
  <2>2. Len(<<>>) = 0
    OBVIOUS
  <2>3. Fit(R[0].out, R[0].now, 0)
    BY <2>1, <2>2
  <2> QED
    BY <2>3
<1>9. ASSUME NEW o \in Seq(S), NEW m \in Nat, m + 1 \in 1 .. n, Same(o, m)
      PROVE  Same(Append(o, lines[m + 1]), m + 1)
  <2>1. lines[m + 1] \in S
    <3>1. lines \in Seq(S) /\ m + 1 \in 1 .. Len(lines)
      BY <1>2, <1>9 DEF n
    <3> QED
      BY <3>1
  <2> DEFINE q == Append(o, lines[m + 1])
  <2>2. Len(q) = Len(o) + 1 /\ q[Len(o) + 1] = lines[m + 1] /\ \A x \in 1 .. Len(o) : q[x] = o[x]
    BY <2>1, OneMore
  <2> HIDE DEF q
  <2>3. Same(q, m + 1)
    BY <1>9, <2>2
  <2> QED
    BY <2>3 DEF q
<1>10. ASSUME NEW j \in 0 .. (n - 1), j \in T PROVE j + 1 \in T
  <2>1. /\ j \in Nat /\ j \in 0 .. n /\ j \in 0 .. (n + 1) /\ j + 1 \in 1 .. n /\ j + 1 \in Nat
    BY <1>2
  <2> DEFINE o == R[j].out
             w == R[j].now
             next == R[j + 1].out
             marks == R[j + 1].now
             line == lines[j + 1]
  <2>2. o \in Seq(S) /\ Moves(o, w, next, marks, line, name, value) /\ Fit(o, w, j)
    <3>1. At(j + 1) = line
      BY <1>6, <2>1
    <3> QED
      BY <1>3, <1>10, <2>1, <3>1
  <2> HIDE DEF o, w, next, marks
  <2>3. CASE j + 1 = p
    <3>1. Same(o, j) /\ w = {}
      BY <2>2, <2>3
    <3>2. IsRow(line, name) /\ "replaced" \notin w
      BY <1>5, <2>3, <3>1, LineKinds
    <3>3. next = o \o <<NameLine(name), FieldsLine(value)>> /\ marks = Both
      BY <2>2, <3>2 DEF Moves, IsRow, Incoming
    <3>4. /\ Len(next) = Len(o) + 2
          /\ next[Len(o) + 1] = NameLine(name) /\ next[Len(o) + 2] = FieldsLine(value)
          /\ \A x \in 1 .. Len(o) : next[x] = o[x]
      BY <1>2, <2>2, <3>3, TwoMore
    <3>5. Len(o) = j /\ Len(o) + 1 = p /\ Len(o) + 2 = p + 1
      BY <2>1, <2>3, <3>1
    <3>6. Same(next, p + 1)
      <4>1. ASSUME NEW x \in 1 .. (p + 1) PROVE next[x] = lines[x]
        <5>1. CASE x \in 1 .. j
          BY <3>1, <3>4, <5>1
        <5>2. CASE x = p
          BY <1>5, <3>4, <3>5, <5>2
        <5>3. CASE x = p + 1
          BY <1>5, <3>4, <3>5, <5>3
        <5>4. x \in 1 .. j \/ x = p \/ x = p + 1
          BY <2>1, <2>3
        <5> QED
          BY <5>1, <5>2, <5>3, <5>4, Zenon
      <4> QED
        BY <3>4, <3>5, <4>1
    <3>7. Fit(next, marks, j + 1)
      <4> HIDE DEF Same
      <4> QED
        BY <2>3, <3>3, <3>6
    <3> QED
      BY <2>1, <3>7 DEF next, marks
  <2>4. CASE j = p
    <3>1. Same(o, p + 1) /\ w = Both
      BY <2>2, <2>4
    <3>2. line.kind # "name" /\ "skipping" \in w
      <4>1. line = FieldsLine(value)
        BY <1>5, <2>4
      <4> QED
        BY <3>1, <4>1, LineKinds
    <3>3. next = o /\ marks = w
      BY <2>2, <3>2 DEF Moves, IsRow
    <3>4. Fit(next, marks, j + 1)
      <4> HIDE DEF Same
      <4> QED
        BY <2>4, <3>1, <3>3
    <3> QED
      BY <2>1, <3>4 DEF next, marks
  <2>5. CASE j + 1 < p
    <3>1. Same(o, j) /\ w = {}
      BY <2>1, <2>2, <2>5
    <3>2. ~IsRow(line, name)
      BY <1>5, <2>1, <2>5
    <3>3. next = Append(o, line) /\ marks = {}
      BY <2>2, <3>1, <3>2 DEF Moves
    <3>4. Same(next, j + 1)
      <4> HIDE DEF Same
      <4> QED
        BY <1>9, <2>1, <2>2, <3>1, <3>3
    <3>5. Fit(next, marks, j + 1)
      <4> HIDE DEF Same
      <4> QED
        BY <2>1, <2>5, <3>3, <3>4
    <3> QED
      BY <2>1, <3>5 DEF next, marks
  <2>6. CASE j >= p + 1
    <3>1. Same(o, j) /\ "replaced" \in w /\ (w = Both \/ w = {"replaced"}) /\ (j > p + 1 => w = {"replaced"})
      <4> HIDE DEF Same
      <4>1. j = p + 1 \/ j > p + 1
        BY <2>1, <2>6
      <4> QED
        BY <2>1, <2>2, <4>1
    <3>2. ~IsRow(line, name)
      <4>1. j + 1 # p
        BY <2>1, <2>6
      <4> QED
        BY <1>5, <2>1, <4>1
    <3>3. line.kind = "name" \/ "skipping" \notin w
      <4>1. CASE j = p + 1
        <5>1. j + 1 = p + 2
          BY <4>1
        <5> QED
          BY <1>5, <2>1, <5>1
      <4>2. CASE j > p + 1
        BY <3>1, <4>2
      <4> QED
        BY <2>1, <2>6, <4>1, <4>2
    <3>4. next = Append(o, line) /\ marks = {"replaced"}
      <4>1. next = Append(o, line) /\ marks = w \ {"skipping"}
        BY <2>2, <3>2, <3>3, Zenon DEF Moves
      <4> QED
        BY <3>1, <4>1
    <3>5. Same(next, j + 1)
      <4> HIDE DEF Same
      <4> QED
        BY <1>9, <2>1, <2>2, <3>1, <3>4
    <3>6. Fit(next, marks, j + 1)
      <4> HIDE DEF Same
      <4> QED
        BY <2>1, <2>6, <3>4, <3>5
    <3> QED
      BY <2>1, <3>6 DEF next, marks
  <2>7. j + 1 = p \/ j = p \/ j + 1 < p \/ j >= p + 1
    BY <2>1
  <2> QED
    BY <2>3, <2>4, <2>5, <2>6, <2>7
<1>11. \A j \in 0 .. n : j \in T
  <2> HIDE DEF T
  <2> QED
    BY <1>2, <1>8, <1>10, UpTo
<1>12. Same(R[n].out, n) /\ "replaced" \in R[n].now
  <2>1. n = p + 1 \/ n > p + 1
    BY <1>2, <1>5
  <2>2. Fit(R[n].out, R[n].now, n)
    BY <1>2, <1>11
  <2> HIDE DEF Same
  <2> QED
    BY <1>2, <2>1, <2>2
<1>13. R[n + 1].out = R[n].out
  <2>1. Moves(R[n].out, R[n].now, R[n + 1].out, R[n + 1].now, NameLine(name), name, value)
    BY <1>2, <1>3, <1>7
  <2>2. IsRow(NameLine(name), name) /\ NameLine(name).kind = "name"
    BY LineKinds
  <2> QED
    BY <1>12, <2>1, <2>2, Zenon DEF Moves
<1>14. R[n].out \in Seq(S)
  BY <1>2, <1>3
<1> DEFINE out == R[n].out
<1>15. out \in Seq(S) /\ Len(out) = n /\ \A x \in 1 .. n : out[x] = lines[x]
  BY <1>12, <1>14
<1> HIDE DEF out
<1>16. out = lines
  BY <1>2, <1>15 DEF n
<1> QED
  BY <1>1, <1>13, <1>16 DEF out, n

----------------------------------------------------------------------------
(* The merge of an object.                                                 *)

OwnKey(object, name, value) ==
    /\ name \in DOMAIN object /\ object[name] = value
    /\ \A key \in DOMAIN object : Aliases(key, name) => key = name
NoKey(object, name) == \A key \in DOMAIN object : ~Aliases(key, name)

LEMMA MergedKeys ==
    ASSUME NEW object, IsObject(object), NEW name \in OverlayNames, NEW value
    PROVE  LET merged == MergeMetadata(object, name, value)
           IN  /\ DOMAIN merged = {key \in DOMAIN object : ~Aliases(key, name)} \cup {name}
               /\ merged[name] = value
               /\ \A key \in DOMAIN merged \ {name} : merged[key] = object[key]
               /\ IsObject(merged)
<1> DEFINE merged == MergeMetadata(object, name, value)
           others == {key \in DOMAIN object : ~SameModel(key, name)}
<1>1. others = {key \in DOMAIN object : ~Aliases(key, name)}
  <2>1. ASSUME NEW key \in DOMAIN object PROVE SameModel(key, name) <=> Aliases(key, name)
    <3>1. key \in Names
      BY DEF IsObject
    <3> QED
      BY <3>1, SameIsAlias
  <2> QED
    BY <2>1, Zenon
<1>2. merged = [key \in others \cup {name} |-> IF key = name THEN value ELSE object[key]]
  BY Zenon DEF MergeMetadata
<1> HIDE DEF merged
<1>3. /\ DOMAIN merged = others \cup {name} /\ merged[name] = value
      /\ \A key \in DOMAIN merged \ {name} : merged[key] = object[key]
      /\ merged = [key \in DOMAIN merged |-> merged[key]]
  <2> HIDE DEF others
  <2> QED
    BY <1>2
<1>4. DOMAIN merged \subseteq Names
  <2>1. name \in Names /\ DOMAIN object \subseteq Names
    BY NameParts DEF IsObject
  <2> QED
    BY <1>3, <2>1
<1>5. IsObject(merged)
  BY <1>3, <1>4, Zenon DEF IsObject
<1> QED
  BY <1>1, <1>3, <1>5 DEF merged

\* The entry of the model is written, once; entries of other models stay; and
\* to merge it again changes nothing.
LEMMA ObjectMerges ==
    ASSUME NEW object, IsObject(object), NEW name \in OverlayNames, NEW value
    PROVE  LET merged == MergeMetadata(object, name, value)
           IN  /\ OwnKey(merged, name, value)
               /\ \A other \in OverlayNames \ {name} :
                     /\ \A what : OwnKey(object, other, what) => OwnKey(merged, other, what)
                     /\ NoKey(object, other) => NoKey(merged, other)
               /\ OwnKey(object, name, value) => merged = object
<1> DEFINE merged == MergeMetadata(object, name, value)
<1>1. /\ DOMAIN merged = {key \in DOMAIN object : ~Aliases(key, name)} \cup {name}
      /\ merged[name] = value
      /\ \A key \in DOMAIN merged \ {name} : merged[key] = object[key]
      /\ IsObject(merged)
  BY MergedKeys
<1> HIDE DEF merged
<1>2. OwnKey(merged, name, value)
  BY <1>1 DEF OwnKey
<1>3. ASSUME NEW other \in OverlayNames, other # name, NEW what, OwnKey(object, other, what)
      PROVE  OwnKey(merged, other, what)
  <2>1. ~Aliases(name, other) /\ ~Aliases(other, name)
    BY <1>3, OneName
  <2> QED
    BY <1>1, <1>3, <2>1 DEF OwnKey
<1>4. ASSUME NEW other \in OverlayNames, other # name, NoKey(object, other)
      PROVE  NoKey(merged, other)
  <2>1. ~Aliases(name, other)
    BY <1>4, OneName
  <2> QED
    BY <1>1, <1>4, <2>1 DEF NoKey
<1>5. ASSUME OwnKey(object, name, value) PROVE merged = object
  <2>1. DOMAIN merged = DOMAIN object
    BY <1>1, <1>5, AliasOfItself DEF OwnKey
  <2>2. \A key \in DOMAIN object : merged[key] = object[key]
    BY <1>1, <1>5, <2>1 DEF OwnKey
  <2>3. object = [key \in DOMAIN object |-> object[key]] /\ merged = [key \in DOMAIN merged |-> merged[key]]
    BY <1>1 DEF IsObject
  <2> QED
    BY <2>1, <2>2, <2>3
<1> QED
  BY <1>2, <1>3, <1>4, <1>5 DEF merged

----------------------------------------------------------------------------
(* The invariant.                                                          *)

Steps == {"idle", "links", "file", "empty", "fill", "done", "refused", "failed"}
Lists == {<<"settings", "metadata">>, <<"metadata">>, <<"cline">>,
          <<"settings", "metadata", "cline">>, <<"metadata", "cline">>}
Fields == {"step", "name", "value", "todo", "lines", "object", "wrote"}

FileNow == Head(job.todo)
Pending(file) == job.step \in {"empty", "fill"} /\ FileNow = file
Filling(file) == job.step = "fill" /\ FileNow = file

Shape ==
    /\ DOMAIN job = Fields /\ job.step \in Steps
    /\ Active => job.name \in OverlayNames /\ job.todo \in Lists
    /\ Active /\ FileNow # "cline" => job.name \notin DOMAIN kept
    /\ IsSettings(settings) /\ IsSettings(before)
    /\ IsObject(metadata.has) /\ IsObject(kept) /\ DOMAIN kept \subseteq OverlayNames

\* A file is there when something was written to it.
There ==
    /\ "settings" \notin exists => settings = <<>>
    /\ "metadata" \notin exists => DOMAIN kept = {}
    /\ job.step = "fill" => FileNow \in exists

\* What is looked at before an overlay is written.
Looked ==
    /\ job.step \in {"links", "refused"} => job.wrote \cap OverlayOf(FileNow) = {}
    /\ job.step \in {"file", "empty", "fill"} => OverlayOf(FileNow) \cap links = {}
    /\ Active /\ FileNow # "cline" => "cline" \notin job.wrote

KeepsRows(lines) == \A name \in DOMAIN kept : OwnRow(lines, name, kept[name])
RowsOrNone(lines) == \A name \in DOMAIN kept : OwnRow(lines, name, kept[name]) \/ NoRow(lines, name)
KeepsOthers(lines) ==
    \A i \in DOMAIN before :
        \/ before[i].kind # "name"
        \/ \E model \in Models : SameModel(before[i].what, OverlayName(model))
        \/ Holds(lines, before[i].what, before[i + 1].what)

\* The settings, as they are and as they are about to be written.
SettingsStand ==
    /\ RowsOrNone(settings)
    /\ "settings" \notin torn /\ ~Filling("settings") => KeepsRows(settings) /\ KeepsOthers(settings)
    /\ Pending("settings") =>
          /\ IsSettings(job.lines) /\ OwnRow(job.lines, job.name, job.value) /\ RowsOrNone(job.lines)
          /\ "settings" \notin torn => KeepsRows(job.lines) /\ KeepsOthers(job.lines)
    /\ Active /\ FileNow = "metadata" => OwnRow(settings, job.name, job.value)

KeepsKeys(object) == \A name \in DOMAIN kept : OwnKey(object, name, kept[name])
KeysOrNone(object) == \A name \in DOMAIN kept : OwnKey(object, name, kept[name]) \/ NoKey(object, name)

\* The metadata likewise.
MetadataStand ==
    /\ KeysOrNone(metadata.has)
    /\ "metadata" \notin torn /\ ~Filling("metadata") =>
          KeepsKeys(metadata.has) /\ (DOMAIN kept # {} => metadata.json)
    /\ Pending("metadata") =>
          /\ IsObject(job.object) /\ OwnKey(job.object, job.name, job.value) /\ KeysOrNone(job.object)
          /\ "metadata" \notin torn => KeepsKeys(job.object)

Stands == Shape /\ There /\ Looked /\ SettingsStand /\ MetadataStand

----------------------------------------------------------------------------
(* What a merge does to the invariant.                                     *)

LEMMA MergeKeepsTheRest ==
    ASSUME NEW lines, IsSettings(lines), NEW name \in OverlayNames, NEW value,
           IsSettings(before), DOMAIN kept \subseteq OverlayNames, name \notin DOMAIN kept
    PROVE  LET out == MergeSettings(lines, name, value)
           IN  /\ IsSettings(out) /\ OwnRow(out, name, value)
               /\ RowsOrNone(lines) => RowsOrNone(out)
               /\ KeepsRows(lines) => KeepsRows(out)
               /\ KeepsOthers(lines) => KeepsOthers(out)
<1> DEFINE out == MergeSettings(lines, name, value)
<1>1. IsSettings(out) /\ OwnRow(out, name, value)
  BY MergeKeepsForm, MergeLands
<1>2. ASSUME NEW other \in DOMAIN kept
      PROVE  /\ OwnRow(lines, other, kept[other]) => OwnRow(out, other, kept[other])
             /\ NoRow(lines, other) => NoRow(out, other)
  <2>1. other \in OverlayNames /\ other # name
    OBVIOUS
  <2> QED
    BY <2>1, MergeKeepsOtherRow, MergeMakesNoRow
<1>3. ASSUME KeepsOthers(lines), NEW i \in DOMAIN before, before[i].kind = "name",
             ~\E model \in Models : SameModel(before[i].what, OverlayName(model))
      PROVE  Holds(out, before[i].what, before[i + 1].what)
  <2> DEFINE what == before[i].what
             fields == before[i + 1].what
  <2>1. Holds(lines, what, fields)
    BY <1>3 DEF KeepsOthers
  <2>2. what \in Names
    BY <1>3 DEF IsSettings
  <2>3. ~SameModel(what, name)
    BY <1>3 DEF OverlayNames
  <2> HIDE DEF what, fields
  <2>4. ~Aliases(what, name)
    BY <2>2, <2>3, SameIsAlias
  <2>5. PICK j \in 1 .. (Len(lines) - 1) :
           lines[j].kind = "name" /\ lines[j].what = what /\ lines[j + 1].what = fields
    BY <2>1 DEF Holds
  <2> DEFINE k == j - 1
  <2>6. k \in Nat /\ k + 1 = j /\ k + 2 = j + 1 /\ k + 2 <= Len(lines)
    BY LinesOf
  <2> HIDE DEF k
  <2>7. lines[k + 1].kind = "name" /\ ~IsRow(lines[k + 1], name)
    BY <2>4, <2>5, <2>6 DEF IsRow
  <2>8. \E x \in 1 .. (Len(out) - 1) : out[x] = lines[k + 1] /\ out[x + 1] = lines[k + 2]
    BY <2>6, <2>7, MergeKeepsOthers
  <2>9. PICK x \in 1 .. (Len(out) - 1) : out[x] = lines[k + 1] /\ out[x + 1] = lines[k + 2]
    BY <2>8
  <2>10. Holds(out, what, fields)
    <3> HIDE DEF out
    <3> QED
      BY <2>5, <2>6, <2>9 DEF Holds
  <2> QED
    BY <2>10 DEF what, fields
<1> HIDE DEF out
<1>4. RowsOrNone(lines) => RowsOrNone(out)
  BY <1>2, Zenon DEF RowsOrNone
<1>5. KeepsRows(lines) => KeepsRows(out)
  BY <1>2, Zenon DEF KeepsRows
<1>6. KeepsOthers(lines) => KeepsOthers(out)
  <2> SUFFICES ASSUME KeepsOthers(lines) PROVE KeepsOthers(out)
    OBVIOUS
  <2> QED
    BY <1>3, Zenon DEF KeepsOthers
<1> QED
  BY <1>1, <1>4, <1>5, <1>6 DEF out

LEMMA MergeOfNothing ==
    ASSUME NEW name, NEW value
    PROVE  MergeSettings(<<>>, name, value) = Incoming(name, value)
<1>1. <<>> \in Seq({}) /\ Len(<<>>) = 0
  OBVIOUS
<1>2. PICK R : IsRun(R, <<>>, name, value) /\ Merged(<<>>, name, value) = R[Len(<<>>)]
  BY <1>1, MergedByRun
<1>3. Merged(<<>>, name, value) = [out |-> <<>>, now |-> {}]
  BY <1>1, <1>2 DEF IsRun, AtFirst
<1>4. Merged(<<>>, name, value).out = <<>> /\ "replaced" \notin Merged(<<>>, name, value).now
  BY <1>3
<1>5. MergeSettings(<<>>, name, value) = <<>> \o Incoming(name, value)
  BY <1>4, Zenon DEF MergeSettings
<1> QED
  BY <1>5 DEF Incoming

LEMMA MergeKeepsTheKeys ==
    ASSUME NEW object, IsObject(object), NEW name \in OverlayNames, NEW value,
           DOMAIN kept \subseteq OverlayNames, name \notin DOMAIN kept
    PROVE  LET merged == MergeMetadata(object, name, value)
           IN  /\ IsObject(merged) /\ OwnKey(merged, name, value)
               /\ KeysOrNone(object) => KeysOrNone(merged)
               /\ KeepsKeys(object) => KeepsKeys(merged)
<1> DEFINE merged == MergeMetadata(object, name, value)
<1>1. IsObject(merged) /\ OwnKey(merged, name, value)
  BY MergedKeys, ObjectMerges
<1>2. ASSUME NEW other \in DOMAIN kept
      PROVE  /\ OwnKey(object, other, kept[other]) => OwnKey(merged, other, kept[other])
             /\ NoKey(object, other) => NoKey(merged, other)
  <2>1. other \in OverlayNames \ {name}
    OBVIOUS
  <2> QED
    BY <2>1, ObjectMerges
<1> HIDE DEF merged
<1>3. KeysOrNone(object) => KeysOrNone(merged)
  BY <1>2, Zenon DEF KeysOrNone
<1>4. KeepsKeys(object) => KeepsKeys(merged)
  BY <1>2, Zenon DEF KeepsKeys
<1> QED
  BY <1>1, <1>3, <1>4 DEF merged

----------------------------------------------------------------------------
(* The steps keep the invariant.                                           *)

LEMMA JobFields ==
    ASSUME NEW j, DOMAIN j = Fields, NEW s
    PROVE  /\ LET k == [j EXCEPT !.step = s]
              IN  /\ DOMAIN k = Fields /\ k.step = s /\ k.name = j.name /\ k.value = j.value
                  /\ k.todo = j.todo /\ k.lines = j.lines /\ k.object = j.object /\ k.wrote = j.wrote
           /\ \A lines : LET k == [j EXCEPT !.step = s, !.lines = lines]
              IN  /\ DOMAIN k = Fields /\ k.step = s /\ k.name = j.name /\ k.value = j.value
                  /\ k.todo = j.todo /\ k.lines = lines /\ k.wrote = j.wrote
           /\ \A object : LET k == [j EXCEPT !.step = s, !.object = object]
              IN  /\ DOMAIN k = Fields /\ k.step = s /\ k.name = j.name /\ k.value = j.value
                  /\ k.todo = j.todo /\ k.object = object /\ k.wrote = j.wrote
           /\ \A file : LET k == [j EXCEPT !.step = s, !.wrote = @ \cup {file}]
              IN  /\ DOMAIN k = Fields /\ k.step = s /\ k.name = j.name /\ k.value = j.value
                  /\ k.todo = j.todo /\ k.lines = j.lines /\ k.object = j.object
                  /\ k.wrote = j.wrote \cup {file}
           /\ LET k == [j EXCEPT !.step = s, !.todo = Tail(@)]
              IN  /\ DOMAIN k = Fields /\ k.step = s /\ k.name = j.name /\ k.value = j.value
                  /\ k.todo = Tail(j.todo) /\ k.lines = j.lines /\ k.object = j.object /\ k.wrote = j.wrote
BY DEF Fields

LEMMA NewJob ==
    ASSUME NEW name, NEW value, NEW todo
    PROVE  LET k == [NoJob EXCEPT !.step = "links", !.name = name, !.value = value, !.todo = todo]
           IN  /\ DOMAIN k = Fields /\ k.step = "links" /\ k.name = name /\ k.value = value
               /\ k.todo = todo /\ k.wrote = {}
BY DEF Fields, NoJob

LEMMA ListFacts ==
    ASSUME NEW t \in Lists
    PROVE  /\ Head(t) \in Files
           /\ Head(t) = "settings" =>
                 After(t) = "file" /\ Tail(t) \in Lists /\ Head(Tail(t)) = "metadata"
           /\ Head(t) = "metadata" =>
                 \/ After(t) = "done"
                 \/ After(t) = "links" /\ Tail(t) \in Lists /\ Head(Tail(t)) = "cline"
           /\ Head(t) = "cline" => After(t) = "done"
<1>1. CASE t \in {<<"metadata">>, <<"cline">>}
  <2>1. Len(t) = 1 /\ Head(t) \in {"metadata", "cline"}
    BY <1>1
  <2>2. After(t) = "done"
    BY <2>1 DEF After
  <2> QED
    BY <2>1, <2>2 DEF Files
<1>2. CASE t = <<"settings", "metadata">>
  <2>1. Len(t) = 2 /\ t[2] = "metadata" /\ Head(t) = "settings" /\ Tail(t) = <<"metadata">>
    BY <1>2
  <2>2. After(t) = "file"
    BY <2>1 DEF After, FirstOfOverlay
  <2> QED
    BY <2>1, <2>2 DEF Files, Lists
<1>3. CASE t = <<"settings", "metadata", "cline">>
  <2>1. Len(t) = 3 /\ t[2] = "metadata" /\ Head(t) = "settings" /\ Tail(t) = <<"metadata", "cline">>
    BY <1>3
  <2>2. After(t) = "file"
    BY <2>1 DEF After, FirstOfOverlay
  <2> QED
    BY <2>1, <2>2 DEF Files, Lists
<1>4. CASE t = <<"metadata", "cline">>
  <2>1. Len(t) = 2 /\ t[2] = "cline" /\ Head(t) = "metadata" /\ Tail(t) = <<"cline">>
    BY <1>4
  <2>2. After(t) = "links"
    BY <2>1 DEF After, FirstOfOverlay
  <2> QED
    BY <2>1, <2>2 DEF Files, Lists
<1> QED
  BY <1>1, <1>2, <1>3, <1>4 DEF Lists

\* What leaves a file and what it keeps alone keeps what stands in it.
LEMMA SettingsAlone ==
    ASSUME SettingsStand, UNCHANGED <<settings, before>>,
           DOMAIN kept' \subseteq DOMAIN kept, \A name \in DOMAIN kept' : kept'[name] = kept[name],
           torn \subseteq torn', Filling("settings") => "settings" \in torn', ~Pending("settings")',
           Active' /\ FileNow' = "metadata" =>
              Active /\ FileNow = "metadata" /\ job'.name = job.name /\ job'.value = job.value
    PROVE  SettingsStand'
<1>1. RowsOrNone(settings)'
  BY Zenon DEF SettingsStand, RowsOrNone
<1>2. KeepsRows(settings) => KeepsRows(settings)'
  BY Zenon DEF KeepsRows
<1>3. KeepsOthers(settings) => KeepsOthers(settings)'
  BY Zenon DEF KeepsOthers
<1>4. "settings" \notin torn' => "settings" \notin torn /\ ~Filling("settings")
  OBVIOUS
<1>5. (Active /\ FileNow = "metadata")' => OwnRow(settings, job.name, job.value)'
  BY DEF SettingsStand
<1> QED
  BY <1>1, <1>2, <1>3, <1>4, <1>5, Zenon DEF SettingsStand

LEMMA MetadataAlone ==
    ASSUME MetadataStand, UNCHANGED metadata,
           DOMAIN kept' \subseteq DOMAIN kept, \A name \in DOMAIN kept' : kept'[name] = kept[name],
           torn \subseteq torn', Filling("metadata") => "metadata" \in torn', ~Pending("metadata")'
    PROVE  MetadataStand'
<1>1. KeysOrNone(metadata.has)'
  BY Zenon DEF MetadataStand, KeysOrNone
<1>2. KeepsKeys(metadata.has) => KeepsKeys(metadata.has)'
  BY Zenon DEF KeepsKeys
<1>3. "metadata" \notin torn' => "metadata" \notin torn /\ ~Filling("metadata")
  OBVIOUS
<1>4. (DOMAIN kept # {})' => DOMAIN kept # {}
  OBVIOUS
<1> QED
  BY <1>1, <1>2, <1>3, <1>4, Zenon DEF MetadataStand

LEMMA StandsAtFirst == Init => Stands
<1> SUFFICES ASSUME Init PROVE Stands
  OBVIOUS
<1>1. PICK user \in UserFiles : /\ settings = user.settings /\ before = user.settings
                                /\ metadata = user.metadata /\ exists = user.exists
  BY DEF Init
<1>2. /\ IsSettings(settings) /\ IsObject(metadata.has)
      /\ "settings" \notin exists => settings = <<>>
  BY <1>1, UserFilesAssumption
<1>3. job.step = "idle" /\ DOMAIN job = Fields /\ ~Active
  BY DEF Init, NoJob, Fields, Active
<1>4. kept = NoEntries /\ DOMAIN kept = {} /\ torn = {}
  BY DEF Init, NoEntries
<1>5. IsObject(kept)
  BY <1>4 DEF IsObject, NoEntries
<1>6. Shape
  BY <1>1, <1>2, <1>3, <1>4, <1>5 DEF Shape, Steps
<1>7. There /\ Looked
  BY <1>2, <1>3, <1>4 DEF There, Looked
<1>8. KeepsOthers(settings)
  <2>1. settings = before
    BY <1>1
  <2>2. ASSUME NEW i \in DOMAIN before, before[i].kind = "name"
        PROVE  Holds(settings, before[i].what, before[i + 1].what)
    <3>1. i \in 1 .. Len(before) /\ i < Len(before) /\ Len(before) \in Nat
      BY <1>2, <2>1, <2>2 DEF IsSettings
    <3>2. i \in 1 .. (Len(before) - 1)
      BY <3>1
    <3> QED
      BY <2>1, <2>2, <3>2 DEF Holds
  <2> QED
    BY <2>2, Zenon DEF KeepsOthers
<1>9. SettingsStand
  BY <1>3, <1>4, <1>8 DEF SettingsStand, RowsOrNone, KeepsRows, Pending
<1>10. MetadataStand
  BY <1>3, <1>4 DEF MetadataStand, KeysOrNone, KeepsKeys, Pending
<1> QED
  BY <1>6, <1>7, <1>9, <1>10 DEF Stands

LEMMA StartStands ==
    ASSUME Stands, NEW model \in Models, NEW value \in Values, NEW host \in Hosts,
           Start(model, value, host)
    PROVE  Stands'
<1> DEFINE name == OverlayName(model)
<1>1. /\ ~Active /\ job' = [NoJob EXCEPT !.step = "links", !.name = name, !.value = value, !.todo = Todo(host)]
      /\ kept' = IF host = "cline" THEN kept ELSE [n \in DOMAIN kept \ {name} |-> kept[n]]
      /\ UNCHANGED <<settings, metadata, exists, links, torn, before>>
  BY DEF Start
<1>2. name \in OverlayNames
  BY DEF OverlayNames
<1> HIDE DEF name
<1>3. /\ Shape /\ There /\ Looked /\ SettingsStand /\ MetadataStand
  BY DEF Stands
<1>4. /\ DOMAIN job' = Fields /\ job'.step = "links" /\ job'.name = name
      /\ job'.todo = Todo(host) /\ job'.wrote = {}
  BY <1>1, NewJob
<1>5. /\ Todo(host) \in Lists /\ FileNow' \in {"settings", "cline"}
      /\ host = "cline" => FileNow' = "cline"
  BY <1>4 DEF Todo, Lists, FileNow, Hosts
<1>6. /\ DOMAIN kept' \subseteq DOMAIN kept /\ \A n \in DOMAIN kept' : kept'[n] = kept[n]
      /\ host # "cline" => name \notin DOMAIN kept'
      /\ IsObject(kept)'
  <2>1. IsObject(kept)
    BY <1>3 DEF Shape
  <2>2. CASE host = "cline"
    <3>1. kept' = kept
      BY <1>1, <2>2
    <3> QED
      BY <2>1, <2>2, <3>1
  <2>3. CASE host # "cline"
    <3>1. kept' = [n \in DOMAIN kept \ {name} |-> kept[n]]
      BY <1>1, <2>3
    <3>2. DOMAIN kept' = DOMAIN kept \ {name} /\ \A n \in DOMAIN kept' : kept'[n] = kept[n]
      BY <3>1
    <3>3. kept' = [n \in DOMAIN kept' |-> kept'[n]]
      BY <3>1
    <3>4. DOMAIN kept' \subseteq Names
      BY <2>1, <3>2 DEF IsObject
    <3> QED
      BY <2>3, <3>2, <3>3, <3>4, Zenon DEF IsObject
  <2> QED
    BY <2>2, <2>3
<1>7. Active'
  BY <1>4 DEF Active
<1>8. Shape'
  BY <1>1, <1>2, <1>3, <1>4, <1>5, <1>6 DEF Shape, Steps
<1>9. There'
  BY <1>1, <1>3, <1>4, <1>6 DEF There
<1>10. Looked'
  BY <1>4, <1>5 DEF Looked
<1>11. SettingsStand' /\ MetadataStand'
  <2>1. ~Pending("settings")' /\ ~Pending("metadata")'
    BY <1>4 DEF Pending
  <2>2. ~Filling("settings") /\ ~Filling("metadata")
    BY <1>1 DEF Active, Filling
  <2>3. ~(Active' /\ FileNow' = "metadata")
    BY <1>5
  <2> QED
    BY <1>1, <1>3, <1>6, <2>1, <2>2, <2>3, SettingsAlone, MetadataAlone
<1> QED
  BY <1>8, <1>9, <1>10, <1>11 DEF Stands

LEMMA CheckLinksStands == ASSUME Stands, CheckLinks PROVE Stands'
<1> DEFINE s == IF Refuses THEN "refused" ELSE "file"
<1>1. /\ job.step = "links" /\ job' = [job EXCEPT !.step = s]
      /\ UNCHANGED <<settings, metadata, exists, links, kept, torn, before>>
  BY DEF CheckLinks, Goes, Untouched
<1>2. /\ Shape /\ There /\ Looked /\ SettingsStand /\ MetadataStand
  BY DEF Stands
<1>3. s \in {"refused", "file"} /\ (s = "file" => OverlayOf(FileNow) \cap links = {})
  BY DEF Refuses, FileNow
<1> HIDE DEF s
<1>4. /\ DOMAIN job' = Fields /\ job'.step = s /\ job'.name = job.name /\ job'.value = job.value
      /\ job'.todo = job.todo /\ job'.wrote = job.wrote
  BY <1>1, <1>2, JobFields DEF Shape
<1>5. Active /\ FileNow' = FileNow
  BY <1>1, <1>4 DEF Active, FileNow
<1>6. Shape'
  BY <1>1, <1>2, <1>3, <1>4, <1>5 DEF Shape, Steps, Active
<1>7. There'
  BY <1>1, <1>2, <1>3, <1>4 DEF There
<1>8. Looked'
  BY <1>1, <1>2, <1>3, <1>4, <1>5 DEF Looked
<1>9. SettingsStand' /\ MetadataStand'
  <2>1. ~Pending("settings")' /\ ~Pending("metadata")'
    BY <1>3, <1>4 DEF Pending
  <2>2. ~Filling("settings") /\ ~Filling("metadata")
    BY <1>1 DEF Filling
  <2> QED
    BY <1>1, <1>2, <1>4, <1>5, <2>1, <2>2, SettingsAlone, MetadataAlone
<1> QED
  BY <1>6, <1>7, <1>8, <1>9 DEF Stands

LEMMA BreakOffStands == ASSUME Stands, BreakOff PROVE Stands'
<1>1. /\ Active /\ job' = [NoJob EXCEPT !.step = "failed"]
      /\ torn' = IF job.step = "fill" THEN torn \cup {FileNow} ELSE torn
      /\ UNCHANGED <<settings, metadata, exists, links, kept, before>>
  BY DEF BreakOff, FileNow
<1>2. /\ Shape /\ There /\ Looked /\ SettingsStand /\ MetadataStand
  BY DEF Stands
<1>3. DOMAIN job' = Fields /\ job'.step = "failed"
  BY <1>1 DEF NoJob, Fields
<1>4. ~Active'
  BY <1>3 DEF Active
<1>5. Shape'
  BY <1>1, <1>2, <1>3, <1>4 DEF Shape, Steps
<1>6. There' /\ Looked'
  BY <1>1, <1>2, <1>3, <1>4 DEF There, Looked
<1>7. SettingsStand' /\ MetadataStand'
  <2>1. ~Pending("settings")' /\ ~Pending("metadata")'
    BY <1>3 DEF Pending
  <2>2. /\ torn \subseteq torn' /\ (Filling("settings") => "settings" \in torn')
        /\ Filling("metadata") => "metadata" \in torn'
    BY <1>1 DEF Filling
  <2> QED
    BY <1>1, <1>2, <1>4, <2>1, <2>2, SettingsAlone, MetadataAlone
<1> QED
  BY <1>5, <1>6, <1>7 DEF Stands

LEMMA PrepareStands == ASSUME Stands, Prepare PROVE Stands'
<1> DEFINE file == FileNow
           name == job.name
           value == job.value
           L == MergeSettings(settings, name, value)
           O == MergeMetadata(IF "metadata" \in exists THEN metadata.has ELSE NoEntries, name, value)
<1>1. job.step = "file" /\ UNCHANGED <<settings, metadata, exists, links, kept, torn, before>>
  BY DEF Prepare, Untouched
<1>2. /\ Shape /\ There /\ Looked /\ SettingsStand /\ MetadataStand
  BY DEF Stands
<1>3. Active
  BY <1>1 DEF Active
<1>4. DOMAIN job = Fields /\ name \in OverlayNames /\ job.todo \in Lists
  BY <1>2, <1>3 DEF Shape
<1>5. file \in Files /\ file \notin links
  <2>1. file \in Files
    BY <1>4, ListFacts DEF FileNow
  <2>2. file \in OverlayOf(file)
    BY <2>1 DEF OverlayOf, Files
  <2>3. OverlayOf(file) \cap links = {}
    BY <1>1, <1>2 DEF Looked
  <2> QED
    BY <2>1, <2>2, <2>3
<1>6. Prepare
  OBVIOUS
<1>7. CASE file = "settings"
  <2>1. job' = [job EXCEPT !.step = "empty",
                   !.lines = IF file \in exists THEN MergeSettings(settings, name, value)
                             ELSE Incoming(name, value)]
    BY <1>5, <1>6, <1>7 DEF Prepare, FileNow
  <2>2. job' = [job EXCEPT !.step = "empty", !.lines = L]
    <3>1. CASE file \in exists
      BY <2>1, <3>1
    <3>2. CASE file \notin exists
      <4>1. settings = <<>>
        BY <1>2, <1>7, <3>2 DEF There
      <4>2. L = Incoming(name, value)
        BY <4>1, MergeOfNothing
      <4> QED
        BY <2>1, <3>2, <4>2
    <3> QED
      BY <3>1, <3>2
  <2> HIDE DEF L
  <2>3. /\ DOMAIN job' = Fields /\ job'.step = "empty" /\ job'.name = name /\ job'.value = value
        /\ job'.todo = job.todo /\ job'.lines = L /\ job'.wrote = job.wrote
    BY <1>4, <2>2, JobFields
  <2>4. FileNow' = file /\ Active'
    BY <2>3 DEF FileNow, Active
  <2>5. Shape'
    BY <1>1, <1>2, <1>3, <1>4, <2>3, <2>4 DEF Shape, Steps
  <2>6. There' /\ Looked'
    BY <1>1, <1>2, <1>3, <2>3, <2>4 DEF There, Looked
  <2>7. name \notin DOMAIN kept
    BY <1>2, <1>3, <1>7 DEF Shape
  <2>8. /\ IsSettings(L) /\ OwnRow(L, name, value)
        /\ RowsOrNone(settings) => RowsOrNone(L)
        /\ KeepsRows(settings) => KeepsRows(L)
        /\ KeepsOthers(settings) => KeepsOthers(L)
    BY <1>2, <1>4, <2>7, MergeKeepsTheRest DEF Shape, L
  <2>9. ~Filling("settings") /\ ~Filling("settings")'
    BY <1>1, <2>3 DEF Filling
  <2>10. /\ RowsOrNone(L) => RowsOrNone(job.lines)'
         /\ RowsOrNone(settings) => RowsOrNone(settings)'
    BY <1>1, <2>3, Zenon DEF RowsOrNone
  <2>11. /\ KeepsRows(L) => KeepsRows(job.lines)'
         /\ KeepsRows(settings) => KeepsRows(settings)'
    BY <1>1, <2>3, Zenon DEF KeepsRows
  <2>12. /\ KeepsOthers(L) => KeepsOthers(job.lines)'
         /\ KeepsOthers(settings) => KeepsOthers(settings)'
    BY <1>1, <2>3, Zenon DEF KeepsOthers
  <2>13. ~(FileNow' = "metadata")
    BY <1>7, <2>4
  <2>14. IsSettings(job.lines)' /\ OwnRow(job.lines, job.name, job.value)'
    BY <2>3, <2>8, Zenon
  <2>15. torn' = torn
    BY <1>1
  <2>16. SettingsStand'
    BY <1>2, <2>8, <2>9, <2>10, <2>11, <2>12, <2>13, <2>14, <2>15, Zenon DEF SettingsStand
  <2>17. MetadataStand'
    <3>1. ~Filling("metadata") /\ ~Pending("metadata")'
      BY <1>1, <2>13 DEF Filling, Pending
    <3> QED
      BY <1>1, <1>2, <3>1, MetadataAlone
  <2> QED
    BY <2>5, <2>6, <2>16, <2>17 DEF Stands
<1>8. CASE file = "metadata" /\ NotAnObject
  <2>1. job' = [job EXCEPT !.step = "failed"]
    BY <1>5, <1>6, <1>8 DEF Prepare, FileNow, Goes
  <2>2. DOMAIN job' = Fields /\ job'.step = "failed"
    BY <1>4, <2>1, JobFields
  <2>3. ~Active'
    BY <2>2 DEF Active
  <2>4. Shape' /\ There' /\ Looked'
    BY <1>1, <1>2, <2>2, <2>3 DEF Shape, Steps, There, Looked
  <2>5. SettingsStand' /\ MetadataStand'
    <3>1. ~Pending("settings")' /\ ~Pending("metadata")' /\ ~Filling("settings") /\ ~Filling("metadata")
      BY <1>1, <2>2 DEF Pending, Filling
    <3> QED
      BY <1>1, <1>2, <2>3, <3>1, SettingsAlone, MetadataAlone
  <2> QED
    BY <2>4, <2>5 DEF Stands
<1>9. CASE file = "metadata" /\ ~NotAnObject
  <2>1. job' = [job EXCEPT !.step = "empty", !.object = O]
    BY <1>5, <1>6, <1>9 DEF Prepare, FileNow
  <2>2. "metadata" \in exists \/ DOMAIN kept = {}
    BY <1>2 DEF There
  <2> DEFINE has == IF "metadata" \in exists THEN metadata.has ELSE NoEntries
  <2>3. IsObject(has)
    BY <1>2 DEF Shape, IsObject, NoEntries
  <2>4. KeysOrNone(has) /\ (KeepsKeys(metadata.has) => KeepsKeys(has))
    BY <1>2, <2>2 DEF MetadataStand, KeysOrNone, KeepsKeys
  <2>5. name \notin DOMAIN kept
    BY <1>2, <1>3, <1>9 DEF Shape
  <2> HIDE DEF has
  <2>6. O = MergeMetadata(has, name, value)
    BY DEF has
  <2> HIDE DEF O
  <2>7. /\ IsObject(O) /\ OwnKey(O, name, value)
        /\ KeysOrNone(has) => KeysOrNone(O)
        /\ KeepsKeys(has) => KeepsKeys(O)
    BY <1>2, <1>4, <2>3, <2>5, <2>6, MergeKeepsTheKeys DEF Shape
  <2>8. /\ DOMAIN job' = Fields /\ job'.step = "empty" /\ job'.name = name /\ job'.value = value
        /\ job'.todo = job.todo /\ job'.object = O /\ job'.wrote = job.wrote
    BY <1>4, <2>1, JobFields
  <2>9. FileNow' = file /\ Active'
    BY <2>8 DEF FileNow, Active
  <2>10. Shape'
    BY <1>1, <1>2, <1>3, <1>4, <2>8, <2>9 DEF Shape, Steps
  <2>11. There' /\ Looked'
    BY <1>1, <1>2, <1>3, <2>8, <2>9 DEF There, Looked
  <2>12. ~Filling("metadata") /\ ~Filling("metadata")'
    BY <1>1, <2>8 DEF Filling
  <2>13. /\ KeysOrNone(O) => KeysOrNone(job.object)'
         /\ KeysOrNone(metadata.has) => KeysOrNone(metadata.has)'
    BY <1>1, <2>8, Zenon DEF KeysOrNone
  <2>14. /\ KeepsKeys(O) => KeepsKeys(job.object)'
         /\ KeepsKeys(metadata.has) => KeepsKeys(metadata.has)'
    BY <1>1, <2>8, Zenon DEF KeepsKeys
  <2>15. IsObject(job.object)' /\ OwnKey(job.object, job.name, job.value)'
    BY <2>7, <2>8, Zenon
  <2>16. torn' = torn /\ kept' = kept /\ metadata' = metadata
    BY <1>1
  <2>17. MetadataStand'
    BY <1>2, <2>4, <2>7, <2>12, <2>13, <2>14, <2>15, <2>16, Zenon DEF MetadataStand
  <2>18. SettingsStand'
    <3>1. ~Filling("settings") /\ ~Pending("settings")'
      BY <1>1, <1>9, <2>9 DEF Filling, Pending
    <3> QED
      BY <1>1, <1>2, <1>3, <1>9, <2>8, <3>1, SettingsAlone
  <2> QED
    BY <2>10, <2>11, <2>17, <2>18 DEF Stands
<1>10. CASE file = "cline"
  <2>1. job' = [job EXCEPT !.step = "empty"]
    BY <1>5, <1>6, <1>10 DEF Prepare, FileNow, Goes
  <2>2. /\ DOMAIN job' = Fields /\ job'.step = "empty" /\ job'.name = name /\ job'.value = value
        /\ job'.todo = job.todo /\ job'.wrote = job.wrote
    BY <1>4, <2>1, JobFields
  <2>3. FileNow' = file /\ Active'
    BY <2>2 DEF FileNow, Active
  <2>4. Shape'
    BY <1>1, <1>2, <1>3, <1>4, <2>2, <2>3 DEF Shape, Steps
  <2>5. There' /\ Looked'
    BY <1>1, <1>2, <1>3, <2>2, <2>3 DEF There, Looked
  <2>6. SettingsStand' /\ MetadataStand'
    <3>1. /\ ~Pending("settings")' /\ ~Pending("metadata")' /\ ~(FileNow' = "metadata")
          /\ ~Filling("settings") /\ ~Filling("metadata")
      BY <1>1, <1>10, <2>3 DEF Pending, Filling
    <3> QED
      BY <1>1, <1>2, <3>1, SettingsAlone, MetadataAlone
  <2> QED
    BY <2>4, <2>5, <2>6 DEF Stands
<1> QED
  BY <1>5, <1>7, <1>8, <1>9, <1>10 DEF Files

LEMMA EmptyStands == ASSUME Stands, Empty PROVE Stands'
<1> DEFINE file == FileNow
<1>1. /\ job.step = "empty" /\ UNCHANGED <<links, kept, torn, before>>
      /\ job' = [job EXCEPT !.step = "fill", !.wrote = @ \cup {file}]
      /\ exists' = exists \cup {file}
      /\ settings' = IF file = "settings" THEN <<>> ELSE settings
      /\ metadata' = IF file = "metadata" THEN NotJson ELSE metadata
  BY DEF Empty, FileNow
<1>2. /\ Shape /\ There /\ Looked /\ SettingsStand /\ MetadataStand
  BY DEF Stands
<1>3. Active
  BY <1>1 DEF Active
<1>4. /\ DOMAIN job' = Fields /\ job'.step = "fill" /\ job'.name = job.name /\ job'.value = job.value
      /\ job'.todo = job.todo /\ job'.lines = job.lines /\ job'.object = job.object
      /\ job'.wrote = job.wrote \cup {file}
  BY <1>1, <1>2, JobFields DEF Shape
<1>5. FileNow' = file /\ Active' /\ file \in Files
  <2>1. job.todo \in Lists
    BY <1>2, <1>3 DEF Shape
  <2> QED
    BY <1>4, <2>1, ListFacts DEF FileNow, Active
<1>6. IsSettings(settings)' /\ IsObject(metadata.has)'
  <2>1. IsSettings(<<>>)
    BY DEF IsSettings, Range
  <2>2. NotJson.has = NoEntries
    BY DEF NotJson
  <2>3. IsObject(NoEntries)
    BY DEF IsObject, NoEntries
  <2>4. IsSettings(settings) /\ IsObject(metadata.has)
    BY <1>2 DEF Shape
  <2>5. settings' \in {<<>>, settings} /\ metadata' \in {NotJson, metadata}
    BY <1>1
  <2> HIDE DEF file
  <2>6. settings' = <<>> \/ settings' = settings
    BY <2>5
  <2>7. metadata' = NotJson \/ metadata' = metadata
    BY <2>5
  <2> QED
    BY <2>1, <2>2, <2>3, <2>4, <2>6, <2>7, Zenon
<1>7. Shape'
  BY <1>1, <1>2, <1>3, <1>4, <1>5, <1>6 DEF Shape, Steps
<1>8. There'
  BY <1>1, <1>2, <1>4, <1>5 DEF There
<1>9. Looked'
  BY <1>1, <1>2, <1>3, <1>4, <1>5 DEF Looked
<1>10. SettingsStand'
  <2>1. CASE file = "settings"
    <3>1. settings' = <<>> /\ Filling("settings")' /\ Pending("settings") /\ ~(FileNow' = "metadata")
      BY <1>1, <1>4, <1>5, <2>1 DEF Filling, Pending
    <3>2. RowsOrNone(settings)'
      <4>1. \A n : NoRow(<<>>, n)
        BY DEF NoRow
      <4> QED
        BY <3>1, <4>1, Zenon DEF RowsOrNone
    <3>3. /\ IsSettings(job.lines) /\ OwnRow(job.lines, job.name, job.value) /\ RowsOrNone(job.lines)
          /\ "settings" \notin torn => KeepsRows(job.lines) /\ KeepsOthers(job.lines)
      BY <1>2, <3>1, Zenon DEF SettingsStand
    <3>4. /\ RowsOrNone(job.lines) => RowsOrNone(job.lines)'
          /\ KeepsRows(job.lines) => KeepsRows(job.lines)'
          /\ KeepsOthers(job.lines) => KeepsOthers(job.lines)'
          /\ IsSettings(job.lines)' /\ OwnRow(job.lines, job.name, job.value)'
      BY <1>1, <1>4, <3>3, Zenon DEF RowsOrNone, KeepsRows, KeepsOthers
    <3>5. torn' = torn
      BY <1>1
    <3> QED
      BY <3>1, <3>2, <3>3, <3>4, <3>5, Zenon DEF SettingsStand
  <2>2. CASE file # "settings"
    <3>1. /\ settings' = settings /\ ~Filling("settings") /\ ~Pending("settings")'
      BY <1>1, <1>5, <2>2 DEF Filling, Pending
    <3> QED
      BY <1>1, <1>2, <1>3, <1>4, <1>5, <3>1, SettingsAlone
  <2> QED
    BY <2>1, <2>2
<1>11. MetadataStand'
  <2>1. CASE file = "metadata"
    <3>1. metadata' = NotJson /\ Filling("metadata")' /\ Pending("metadata")
      BY <1>1, <1>4, <1>5, <2>1 DEF Filling, Pending
    <3>2. KeysOrNone(metadata.has)'
      <4>1. \A n : NoKey(NotJson.has, n)
        BY DEF NoKey, NotJson, NoEntries
      <4> QED
        BY <3>1, <4>1, Zenon DEF KeysOrNone
    <3>3. /\ IsObject(job.object) /\ OwnKey(job.object, job.name, job.value) /\ KeysOrNone(job.object)
          /\ "metadata" \notin torn => KeepsKeys(job.object)
      BY <1>2, <3>1, Zenon DEF MetadataStand
    <3>4. /\ KeysOrNone(job.object) => KeysOrNone(job.object)'
          /\ KeepsKeys(job.object) => KeepsKeys(job.object)'
          /\ IsObject(job.object)' /\ OwnKey(job.object, job.name, job.value)'
      BY <1>1, <1>4, <3>3, Zenon DEF KeysOrNone, KeepsKeys
    <3>5. torn' = torn
      BY <1>1
    <3> QED
      BY <3>1, <3>2, <3>3, <3>4, <3>5, Zenon DEF MetadataStand
  <2>2. CASE file # "metadata"
    <3>1. /\ metadata' = metadata /\ ~Filling("metadata") /\ ~Pending("metadata")'
      BY <1>1, <1>5, <2>2 DEF Filling, Pending
    <3> QED
      BY <1>1, <1>2, <3>1, MetadataAlone
  <2> QED
    BY <2>1, <2>2
<1> QED
  BY <1>7, <1>8, <1>9, <1>10, <1>11 DEF Stands

LEMMA FillStands == ASSUME Stands, Fill PROVE Stands'
<1> DEFINE file == FileNow
           name == job.name
           value == job.value
<1>1. /\ job.step = "fill" /\ UNCHANGED <<exists, links, torn, before>>
      /\ job' = [job EXCEPT !.step = After(job.todo), !.todo = Tail(@)]
      /\ settings' = IF file = "settings" THEN job.lines ELSE settings
      /\ metadata' = IF file = "metadata" THEN Object(job.object) ELSE metadata
      /\ kept' = IF file = "metadata" THEN MergeMetadata(kept, name, value) ELSE kept
  BY DEF Fill, FileNow
<1>2. /\ Shape /\ There /\ Looked /\ SettingsStand /\ MetadataStand
  BY DEF Stands
<1>3. Active
  BY <1>1 DEF Active
<1>4. DOMAIN job = Fields /\ name \in OverlayNames /\ job.todo \in Lists
  BY <1>2, <1>3 DEF Shape
<1>5. /\ DOMAIN job' = Fields /\ job'.step = After(job.todo) /\ job'.name = name /\ job'.value = value
      /\ job'.todo = Tail(job.todo) /\ job'.lines = job.lines /\ job'.object = job.object
      /\ job'.wrote = job.wrote
  <2> DEFINE s == After(job.todo)
  <2> HIDE DEF s
  <2>1. job' = [job EXCEPT !.step = s, !.todo = Tail(@)]
    BY <1>1 DEF s
  <2>2. /\ DOMAIN job' = Fields /\ job'.step = s /\ job'.name = name /\ job'.value = value
        /\ job'.todo = Tail(job.todo) /\ job'.lines = job.lines /\ job'.object = job.object
        /\ job'.wrote = job.wrote
    BY <1>4, <2>1, JobFields
  <2> QED
    BY <2>2 DEF s
<1>6. /\ file \in Files
      /\ file = "settings" => job'.step = "file" /\ job'.todo \in Lists /\ FileNow' = "metadata"
      /\ file = "metadata" =>
            \/ job'.step = "done"
            \/ job'.step = "links" /\ job'.todo \in Lists /\ FileNow' = "cline"
      /\ file = "cline" => job'.step = "done"
  BY <1>4, <1>5, ListFacts DEF FileNow
<1>7. job'.step \in {"file", "done", "links"} /\ job'.step \in Steps
  BY <1>6 DEF Files, Steps
<1>8. ~Pending("settings")' /\ ~Pending("metadata")' /\ ~Filling("settings")' /\ ~Filling("metadata")'
  BY <1>7 DEF Pending, Filling
<1>9. There /\ file \in exists
  BY <1>1, <1>2 DEF There
<1> HIDE DEF file
<1>10. CASE file = "settings"
  <2>1. settings' = job.lines /\ metadata' = metadata /\ kept' = kept
    BY <1>1, <1>10
  <2>2. Pending("settings") /\ ~Filling("metadata") /\ FileNow = "settings" /\ name \notin DOMAIN kept
    BY <1>1, <1>2, <1>3, <1>10 DEF Pending, Filling, Shape, file
  <2>3. /\ IsSettings(job.lines) /\ OwnRow(job.lines, name, value) /\ RowsOrNone(job.lines)
        /\ "settings" \notin torn => KeepsRows(job.lines) /\ KeepsOthers(job.lines)
    BY <1>2, <2>2, Zenon DEF SettingsStand
  <2>4. Active'
    BY <1>6, <1>10 DEF Active
  <2>5. Shape'
    BY <1>1, <1>2, <1>4, <1>5, <1>6, <1>7, <1>10, <2>1, <2>2, <2>3 DEF Shape
  <2>6. There'
    BY <1>1, <1>2, <1>6, <1>9, <1>10, <2>1 DEF There
  <2>7. Looked'
    <3>1. OverlayOf("metadata") = OverlayOf("settings")
      BY DEF OverlayOf
    <3>2. OverlayOf("settings") \cap links = {} /\ "cline" \notin job.wrote
      BY <1>1, <1>2, <1>3, <2>2 DEF Looked
    <3> QED
      BY <1>1, <1>5, <1>6, <1>10, <3>1, <3>2 DEF Looked
  <2>8. /\ RowsOrNone(job.lines) => RowsOrNone(settings)'
        /\ KeepsRows(job.lines) => KeepsRows(settings)'
        /\ KeepsOthers(job.lines) => KeepsOthers(settings)'
        /\ OwnRow(settings, job.name, job.value)' /\ torn' = torn
    BY <1>1, <1>5, <2>1, <2>3, Zenon DEF RowsOrNone, KeepsRows, KeepsOthers
  <2>9. SettingsStand'
    BY <1>8, <2>3, <2>8, Zenon DEF SettingsStand
  <2>10. MetadataStand'
    BY <1>1, <1>2, <1>8, <2>1, <2>2, MetadataAlone
  <2> QED
    BY <2>5, <2>6, <2>7, <2>9, <2>10 DEF Stands
<1>11. CASE file = "metadata"
  <2>1. /\ settings' = settings /\ metadata' = Object(job.object)
        /\ kept' = MergeMetadata(kept, name, value)
    BY <1>1, <1>11
  <2>2. /\ Pending("metadata") /\ ~Filling("settings") /\ FileNow = "metadata"
        /\ name \notin DOMAIN kept /\ IsObject(kept) /\ DOMAIN kept \subseteq OverlayNames
    BY <1>1, <1>2, <1>3, <1>11 DEF Pending, Filling, Shape, file
  <2>3. /\ IsObject(job.object) /\ OwnKey(job.object, name, value) /\ KeysOrNone(job.object)
        /\ "metadata" \notin torn => KeepsKeys(job.object)
    BY <1>2, <2>2, Zenon DEF MetadataStand
  <2>4. OwnRow(settings, name, value)
    BY <1>2, <1>3, <2>2 DEF SettingsStand
  <2>5. /\ DOMAIN kept' = DOMAIN kept \cup {name} /\ kept'[name] = value
        /\ \A n \in DOMAIN kept : n # name /\ kept'[n] = kept[n]
        /\ IsObject(kept)'
    <3>1. /\ DOMAIN kept' = {key \in DOMAIN kept : ~Aliases(key, name)} \cup {name}
          /\ kept'[name] = value
          /\ \A key \in DOMAIN kept' \ {name} : kept'[key] = kept[key]
          /\ IsObject(kept)'
      <4> DEFINE merged == MergeMetadata(kept, name, value)
      <4>1. /\ DOMAIN merged = {key \in DOMAIN kept : ~Aliases(key, name)} \cup {name}
            /\ merged[name] = value
            /\ \A key \in DOMAIN merged \ {name} : merged[key] = kept[key]
            /\ IsObject(merged)
        BY <1>4, <2>2, MergedKeys
      <4>2. kept' = merged
        BY <2>1
      <4> HIDE DEF merged
      <4> QED
        BY <4>1, <4>2
    <3>2. \A key \in DOMAIN kept : ~Aliases(key, name)
      <4>1. ASSUME NEW key \in DOMAIN kept, Aliases(key, name) PROVE FALSE
        <5>1. key \in OverlayNames /\ key # name
          BY <2>2
        <5> QED
          BY <1>4, <4>1, <5>1, OneName
      <4> QED
        BY <4>1
    <3> QED
      BY <2>2, <3>1, <3>2
  <2>6. metadata'.has = job.object /\ metadata'.json
    BY <2>1 DEF Object
  <2>7. Active' => FileNow' = "cline" /\ job'.todo \in Lists
    BY <1>6, <1>11 DEF Active
  <2>8. IsSettings(settings)' /\ IsSettings(before)'
    BY <1>1, <1>2, <2>1 DEF Shape
  <2>9. Shape'
    BY <1>4, <1>5, <1>7, <2>2, <2>3, <2>5, <2>6, <2>7, <2>8 DEF Shape
  <2>10. There'
    BY <1>1, <1>2, <1>7, <1>9, <1>11, <2>1 DEF There
  <2>11. Looked'
    <3>1. "cline" \notin job.wrote
      BY <1>2, <1>3, <2>2 DEF Looked
    <3>2. OverlayOf("cline") = {"cline"}
      BY DEF OverlayOf
    <3>3. job'.step = "done" \/ (job'.step = "links" /\ FileNow' = "cline")
      BY <1>6, <1>11
    <3> QED
      BY <1>5, <2>7, <3>1, <3>2, <3>3 DEF Looked
  <2>12. RowsOrNone(settings)'
    <3>1. RowsOrNone(settings)
      BY <1>2 DEF SettingsStand
    <3>2. ASSUME NEW n \in DOMAIN kept' PROVE OwnRow(settings, n, kept'[n]) \/ NoRow(settings, n)
      <4>1. CASE n = name
        BY <2>4, <2>5, <4>1
      <4>2. CASE n \in DOMAIN kept
        BY <2>5, <3>1, <4>2 DEF RowsOrNone
      <4> QED
        BY <2>5, <3>2, <4>1, <4>2
    <3> QED
      BY <2>1, <3>2, Zenon DEF RowsOrNone
  <2>13. "settings" \notin torn' => KeepsRows(settings)' /\ KeepsOthers(settings)'
    <3> SUFFICES ASSUME "settings" \notin torn' PROVE KeepsRows(settings)' /\ KeepsOthers(settings)'
      OBVIOUS
    <3>1. KeepsRows(settings) /\ KeepsOthers(settings)
      BY <1>1, <1>2, <2>2 DEF SettingsStand
    <3>2. ASSUME NEW n \in DOMAIN kept' PROVE OwnRow(settings, n, kept'[n])
      <4>1. CASE n = name
        BY <2>4, <2>5, <4>1
      <4>2. CASE n \in DOMAIN kept
        BY <2>5, <3>1, <4>2 DEF KeepsRows
      <4> QED
        BY <2>5, <3>2, <4>1, <4>2
    <3>3. KeepsRows(settings)'
      BY <2>1, <3>2, Zenon DEF KeepsRows
    <3>4. KeepsOthers(settings)'
      BY <1>1, <2>1, <3>1, Zenon DEF KeepsOthers
    <3> QED
      BY <3>3, <3>4
  <2>14. ~(Active' /\ FileNow' = "metadata")
    BY <2>7
  <2>15. SettingsStand'
    BY <1>8, <2>12, <2>13, <2>14, Zenon DEF SettingsStand
  <2>16. KeysOrNone(metadata.has)'
    <3>1. ASSUME NEW n \in DOMAIN kept' PROVE OwnKey(job.object, n, kept'[n]) \/ NoKey(job.object, n)
      <4>1. CASE n = name
        BY <2>3, <2>5, <4>1
      <4>2. CASE n \in DOMAIN kept
        BY <2>3, <2>5, <4>2 DEF KeysOrNone
      <4> QED
        BY <2>5, <3>1, <4>1, <4>2
    <3> QED
      BY <2>6, <3>1, Zenon DEF KeysOrNone
  <2>17. "metadata" \notin torn' => KeepsKeys(metadata.has)'
    <3> SUFFICES ASSUME "metadata" \notin torn' PROVE KeepsKeys(metadata.has)'
      OBVIOUS
    <3>1. KeepsKeys(job.object)
      BY <1>1, <2>3
    <3>2. ASSUME NEW n \in DOMAIN kept' PROVE OwnKey(job.object, n, kept'[n])
      <4>1. CASE n = name
        BY <2>3, <2>5, <4>1
      <4>2. CASE n \in DOMAIN kept
        BY <2>5, <3>1, <4>2 DEF KeepsKeys
      <4> QED
        BY <2>5, <3>2, <4>1, <4>2
    <3> QED
      BY <2>6, <3>2, Zenon DEF KeepsKeys
  <2>18. MetadataStand'
    BY <1>8, <2>6, <2>16, <2>17, Zenon DEF MetadataStand
  <2> QED
    BY <2>9, <2>10, <2>11, <2>15, <2>18 DEF Stands
<1>12. CASE file = "cline"
  <2>1. settings' = settings /\ metadata' = metadata /\ kept' = kept
    BY <1>1, <1>12
  <2>2. ~Filling("settings") /\ ~Filling("metadata")
    BY <1>12 DEF Filling, file
  <2>3. job'.step = "done" /\ ~Active'
    BY <1>6, <1>12 DEF Active
  <2>4. Shape'
    BY <1>1, <1>2, <1>5, <1>7, <2>1, <2>3 DEF Shape
  <2>5. There' /\ Looked'
    BY <1>1, <1>2, <2>1, <2>3 DEF There, Looked
  <2>6. SettingsStand' /\ MetadataStand'
    BY <1>1, <1>2, <1>8, <2>1, <2>2, <2>3, SettingsAlone, MetadataAlone
  <2> QED
    BY <2>4, <2>5, <2>6 DEF Stands
<1> QED
  BY <1>6, <1>10, <1>11, <1>12 DEF Files

LEMMA StutterStands == ASSUME Stands, UNCHANGED vars PROVE Stands'
<1>1. /\ settings' = settings /\ metadata' = metadata /\ exists' = exists /\ links' = links
      /\ job' = job /\ kept' = kept /\ torn' = torn /\ before' = before
  BY DEF vars
<1>2. /\ Shape /\ There /\ Looked /\ SettingsStand /\ MetadataStand
  BY DEF Stands
<1>3. Shape' /\ There' /\ Looked'
  BY <1>1, <1>2 DEF Shape, There, Looked, Active, FileNow
<1>4. /\ (Filling("settings")' <=> Filling("settings")) /\ (Filling("metadata")' <=> Filling("metadata"))
      /\ (Pending("settings")' <=> Pending("settings")) /\ (Pending("metadata")' <=> Pending("metadata"))
      /\ Active' <=> Active
      /\ FileNow' = FileNow
  BY <1>1 DEF Filling, Pending, Active, FileNow
<1>5. SettingsStand'
  BY <1>1, <1>2, <1>4, Zenon DEF SettingsStand, RowsOrNone, KeepsRows, KeepsOthers
<1>6. MetadataStand'
  BY <1>1, <1>2, <1>4, Zenon DEF MetadataStand, KeysOrNone, KeepsKeys
<1> QED
  BY <1>2, <1>3, <1>5, <1>6 DEF Stands

\* The invariant holds in every state that exports reach.
THEOREM FilesStandThrough == Spec => []Stands
<1>1. ASSUME Stands, [Next]_vars PROVE Stands'
  <2>1. ASSUME NEW model \in Models, NEW value \in Values, NEW host \in Hosts, Start(model, value, host)
        PROVE  Stands'
    BY <1>1, <2>1, StartStands
  <2>2. CASE CheckLinks
    BY <1>1, <2>2, CheckLinksStands
  <2>3. CASE Prepare
    BY <1>1, <2>3, PrepareStands
  <2>4. CASE Empty
    BY <1>1, <2>4, EmptyStands
  <2>5. CASE Fill
    BY <1>1, <2>5, FillStands
  <2>6. CASE BreakOff
    BY <1>1, <2>6, BreakOffStands
  <2>7. CASE UNCHANGED vars
    BY <1>1, <2>7, StutterStands
  <2> QED
    BY <1>1, <2>1, <2>2, <2>3, <2>4, <2>5, <2>6, <2>7 DEF Next
<1> QED
  BY <1>1, StandsAtFirst, PTL DEF Spec

----------------------------------------------------------------------------
(* The theorems.                                                           *)

LEMMA AtMostOne ==
    ASSUME NEW x, NEW S, \A y \in S : y = x
    PROVE  Cardinality(S) <= 1
<1>1. IsFiniteSet({x}) /\ Cardinality({x}) = 1
  BY FS_Singleton
<1>2. S \subseteq {x}
  OBVIOUS
<1>3. Cardinality(S) <= Cardinality({x})
  BY <1>1, <1>2, FS_Subset
<1> QED
  BY <1>1, <1>3

\* An export touches the row of its own model and no other, wherever it breaks
\* off, unless the write of the settings itself was cut; and one that is
\* refused for a symbolic link has not written a file of that overlay.
THEOREM OthersAreLeftAlone == Spec => []NothingElseTouched
<1>1. ASSUME Stands PROVE NothingElseTouched
  <2>1. ASSUME ~Active, "settings" \notin torn PROVE KeepsOthers(settings)
    <3>1. ~Filling("settings")
      BY <2>1 DEF Filling, Active
    <3> QED
      BY <1>1, <2>1, <3>1 DEF Stands, SettingsStand
  <2>2. OthersKept
    BY <2>1, Zenon DEF OthersKept, KeepsOthers
  <2>3. RefusedWritesNothing
    BY <1>1 DEF Stands, Looked, RefusedWritesNothing, FileNow
  <2> QED
    BY <2>2, <2>3 DEF NothingElseTouched
<1> QED
  BY <1>1, FilesStandThrough, PTL

\* After the last export of a model has gone well, and whatever was exported or
\* broke off since, the model has one row in each file under all of its
\* aliases, both files say what that export wrote, and exporting the same card
\* again would change neither.
THEOREM WhatIsExportedLands == Spec => []ExportsLand
<1>1. ASSUME Stands PROVE ExportsLand
  <2> SUFFICES ASSUME ~Active PROVE ExportsLand
    BY Zenon DEF ExportsLand, OneRowEach, FilesAgree, RepeatChangesNothing
  <2>1. ~Filling("settings") /\ ~Filling("metadata")
    BY DEF Filling, Active
  <2>2. /\ Shape /\ SettingsStand /\ MetadataStand
    BY <1>1 DEF Stands
  <2>3. /\ IsSettings(settings) /\ IsObject(metadata.has) /\ DOMAIN kept \subseteq OverlayNames
    BY <2>2 DEF Shape
  <2>4. ASSUME NEW name \in DOMAIN kept
        PROVE  /\ Cardinality({i \in DOMAIN settings :
                                  settings[i].kind = "name" /\ Aliases(settings[i].what, name)}) <= 1
               /\ Cardinality({key \in DOMAIN metadata.has : Aliases(key, name)}) <= 1
    <3> DEFINE Rows == {i \in DOMAIN settings :
                           settings[i].kind = "name" /\ Aliases(settings[i].what, name)}
               Keys == {key \in DOMAIN metadata.has : Aliases(key, name)}
    <3>1. \E x : \A y \in Rows : y = x
      <4>1. DOMAIN settings = 1 .. Len(settings)
        BY <2>3 DEF IsSettings
      <4>2. CASE NoRow(settings, name)
        BY <4>1, <4>2 DEF NoRow, IsRow
      <4>3. CASE OwnRow(settings, name, kept[name])
        <5>1. PICK i \in 1 .. Len(settings) : RowAt(settings, i, name, kept[name])
          BY <4>3 DEF OwnRow
        <5> QED
          BY <4>1, <5>1 DEF RowAt, IsRow
      <4> QED
        BY <2>2, <4>2, <4>3 DEF SettingsStand, RowsOrNone
    <3>2. \E x : \A y \in Keys : y = x
      BY <2>2 DEF MetadataStand, KeysOrNone, OwnKey, NoKey
    <3> HIDE DEF Rows, Keys
    <3>3. Cardinality(Rows) <= 1 /\ Cardinality(Keys) <= 1
      BY <3>1, <3>2, AtMostOne
    <3> QED
      BY <3>3 DEF Rows, Keys
  <2>5. ASSUME NEW name \in DOMAIN kept, torn \cap {"settings", "metadata"} = {}
        PROVE  /\ OwnRow(settings, name, kept[name]) /\ OwnKey(metadata.has, name, kept[name])
               /\ metadata.json
    <3>1. "settings" \notin torn /\ "metadata" \notin torn
      BY <2>5
    <3>2. KeepsRows(settings) /\ KeepsKeys(metadata.has) /\ (DOMAIN kept # {} => metadata.json)
      BY <2>1, <2>2, <3>1 DEF SettingsStand, MetadataStand
    <3>3. DOMAIN kept # {}
      OBVIOUS
    <3> QED
      BY <3>2, <3>3, Zenon DEF KeepsRows, KeepsKeys
  <2>6. ASSUME NEW name \in DOMAIN kept, torn \cap {"settings", "metadata"} = {}
        PROVE  /\ Holds(settings, name, <<kept[name]>>)
               /\ metadata.json /\ name \in DOMAIN metadata.has /\ metadata.has[name] = kept[name]
               /\ MergeSettings(settings, name, kept[name]) = settings
               /\ MergeMetadata(metadata.has, name, kept[name]) = metadata.has
    <3>1. name \in OverlayNames
      BY <2>3
    <3>2. /\ OwnRow(settings, name, kept[name]) /\ OwnKey(metadata.has, name, kept[name])
          /\ metadata.json
      BY <2>5, <2>6
    <3>3. PICK i \in 1 .. Len(settings) : RowAt(settings, i, name, kept[name])
      BY <3>2 DEF OwnRow
    <3>4. i \in 1 .. (Len(settings) - 1)
      BY <3>3 DEF RowAt
    <3>5. /\ settings[i].kind = "name" /\ settings[i].what = name
          /\ settings[i + 1].what = <<kept[name]>>
      BY <3>3, LineKinds DEF RowAt
    <3>6. Holds(settings, name, <<kept[name]>>)
      BY <3>4, <3>5, Zenon DEF Holds
    <3>7. MergeSettings(settings, name, kept[name]) = settings
      BY <2>3, <3>1, <3>2, MergeAgain
    <3>8. MergeMetadata(metadata.has, name, kept[name]) = metadata.has
      BY <2>3, <3>1, <3>2, ObjectMerges
    <3> QED
      BY <3>2, <3>6, <3>7, <3>8, Zenon DEF OwnKey
  <2>7. OneRowEach
    BY <2>4, Zenon DEF OneRowEach
  <2>8. FilesAgree
    BY <2>6, Zenon DEF FilesAgree
  <2>9. RepeatChangesNothing
    BY <2>6, Zenon DEF RepeatChangesNothing
  <2> QED
    BY <2>7, <2>8, <2>9 DEF ExportsLand
<1> QED
  BY <1>1, FilesStandThrough, PTL
=============================================================================
