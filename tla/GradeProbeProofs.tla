-------------------------- MODULE GradeProbeProofs --------------------------
(***************************************************************************)
(* Theorems about GradeProbe, for every set of pieces and every length of  *)
(* a reply.                                                                *)
(***************************************************************************)
EXTENDS GradeProbe, FiniteSetTheorems, TLAPS

\* A set of naturals that is not empty has a least element.
LEMMA LeastNat ==
    ASSUME NEW T, T \subseteq Nat, T # {}
    PROVE  \E x \in T : \A y \in T : x <= y
<1>1. ASSUME NEW R, IsWellFoundedOn(R, Nat), \A x, y \in Nat : y < x => <<y, x>> \in R
      PROVE  \E x \in T : \A y \in T : x <= y
  <2>1. PICK x \in T : \A y \in T : ~(<<y, x>> \in R)
    BY <1>1, WFMin
  <2>2. ASSUME NEW y \in T PROVE x <= y
    <3>1. x \in Nat /\ y \in Nat /\ ~(<<y, x>> \in R)
      BY <2>1
    <3>2. ~(y < x)
      BY <1>1, <3>1, Zenon
    <3> QED
      BY <3>1, <3>2
  <2> QED
    BY <2>2
<1> DEFINE R == OpToRel(<, Nat)
<1>2. IsWellFoundedOn(R, Nat)
  BY NatLessThanWellFounded
<1>3. \A x, y \in Nat : y < x => <<y, x>> \in R
  BY DEF OpToRel
<1> HIDE DEF R
<1> QED
  BY <1>1, <1>2, <1>3

----------------------------------------------------------------------------
(* The graders without calls: each score is a number.                      *)

\* Numbers with a bound have a greatest.
LEMMA TopOf ==
    ASSUME NEW n \in Nat, NEW S, S \subseteq 0 .. n, S # {}
    PROVE  \E x \in S : \A y \in S : x >= y
<1> DEFINE T == {n - y : y \in S}
<1>1. T \subseteq Nat /\ T # {}
  <2>1. ASSUME NEW y \in S PROVE n - y \in Nat
    <3>1. y \in 0 .. n
      OBVIOUS
    <3> QED
      BY <3>1
  <2> QED
    BY <2>1, Zenon
<1> HIDE DEF T
<1>2. PICK t \in T : \A u \in T : t <= u
  BY <1>1, LeastNat
<1>3. PICK x \in S : t = n - x
  BY <1>2 DEF T
<1>4. ASSUME NEW y \in S PROVE x >= y
  <2>1. n - y \in T
    BY DEF T
  <2>2. t <= n - y
    BY <1>2, <2>1
  <2>3. x \in 0 .. n /\ y \in 0 .. n
    OBVIOUS
  <2> QED
    BY <1>3, <2>2, <2>3
<1> QED
  BY <1>4

LEMMA TopScore ==
    ASSUME NEW S, S \subseteq 0 .. 60, S # {}
    PROVE  \E x \in S : \A y \in S : x >= y
<1>1. 60 \in Nat
  OBVIOUS
<1> QED
  BY <1>1, TopOf

LEMMA JsonScores == ASSUME NEW text PROVE Json!ScoreJson(text) \in 0 .. 60
<1> DEFINE S == {0} \cup (Json!PartMarks \cap Json!Scan(text).best)
<1>1. S \subseteq 0 .. 60 /\ S # {}
  BY DEF Json!PartMarks
<1> HIDE DEF S
<1>2. PICK x \in S : \A y \in S : x >= y
  BY <1>1, TopScore
<1>3. Json!Max(S) \in S
  BY <1>2, Zenon DEF Json!Max
<1>4. Json!Max(S) \in 0 .. 60
  BY <1>1, <1>3
<1> QED
  BY <1>4 DEF S, Json!ScoreJson, Json!ScoreFound, Json!Full

LEMMA EditScores ==
    ASSUME NEW lines
    PROVE  Edit!ScoreSearchReplace(lines) \in 0 .. 60 /\ Edit!ScoreDiff(lines) \in 0 .. 60
<1> DEFINE blocks == Edit!ParsedBlocks(lines)
           S == {24} \cup {Edit!ScoreBlock(b) : b \in blocks}
<1>1. \A b : Edit!ScoreBlock(b) \in 0 .. 60
  BY DEF Edit!ScoreBlock, Edit!Full
<1>2. S \subseteq 0 .. 60 /\ S # {}
  BY <1>1
<1>3. Edit!Max(S) \in S
  <2> HIDE DEF S
  <2>1. PICK x \in S : \A y \in S : x >= y
    BY <1>2, TopScore
  <2> QED
    BY <2>1, Zenon DEF Edit!Max
<1>4. Edit!Max(S) \in 0 .. 60
  BY <1>2, <1>3
<1>5. Edit!ScoreSearchReplace(lines) \in 0 .. 60
  BY <1>4 DEF Edit!ScoreSearchReplace, Edit!Full
<1>6. Edit!ScoreDiff(lines) \in 0 .. 60
  BY DEF Edit!ScoreDiff, Edit!Full
<1> QED
  BY <1>5, <1>6

LEMMA TextScores ==
    ASSUME NEW text
    PROVE  /\ Text!ScoreCapital(text) \in 0 .. 60
           /\ Text!ScoreMemory(text) \in 0 .. 60
           /\ Text!ScoreStatus(text) \in 0 .. 60
           /\ 20 * Text!RecalledFacts(text) \in 0 .. 60
           /\ Text!ScoreFaithfulness(text) \in 0 .. 60
           /\ Text!ScoreVision(text) \in 0 .. 60
           /\ Text!ScoreXml(text) \in 0 .. 60
           /\ Code!ScoreCode(text) \in 0 .. 60
<1>1. Text!ScoreCapital(text) \in 0 .. 60
  BY DEF Text!ScoreCapital, Text!Full
<1>2. Text!ScoreMemory(text) \in 0 .. 60
  BY DEF Text!ScoreMemory, Text!Full
<1>3. Text!ScoreStatus(text) \in 0 .. 60
  BY DEF Text!ScoreStatus, Text!Full
<1>4. \A recalled : Text!Hit(recalled) \in 0 .. 1
  BY DEF Text!Hit
<1>5. 20 * Text!RecalledFacts(text) \in 0 .. 60
  BY <1>4 DEF Text!RecalledFacts
<1>6. Text!ScoreFaithfulness(text) \in 0 .. 60
  BY <1>4 DEF Text!ScoreFaithfulness
<1>7. Text!ScoreVision(text) \in 0 .. 60
  BY DEF Text!ScoreVision, Text!Full
<1>8. \A span : Text!ScoreParsed(span) \in 0 .. 60
  BY DEF Text!ScoreParsed, Text!Full
<1>9. Text!ScoreXml(text) \in 0 .. 60
  BY <1>8 DEF Text!ScoreXml
<1>10. Code!ScoreCode(text) \in 0 .. 60
  BY DEF Code!ScoreCode, Code!Full
<1> QED
  BY <1>1, <1>2, <1>3, <1>5, <1>6, <1>7, <1>9, <1>10

----------------------------------------------------------------------------
(* The graders of calls.                                                   *)

\* A further call takes none of the earlier away.
LEMMA CallsGrow ==
    ASSUME NEW P, NEW calls \in Seq(P), NEW c \in P
    PROVE  LET more == Append(calls, c)
           IN  /\ more # <<>> /\ ToSet(calls) \subseteq ToSet(more)
               /\ Len(more) = Len(calls) + 1 /\ \A i \in 1 .. Len(calls) : more[i] = calls[i]
               /\ more \in Seq(P)
<1> DEFINE more == Append(calls, c)
<1>1. /\ more \in Seq(P) /\ Len(more) = Len(calls) + 1
      /\ \A i \in 1 .. Len(calls) : more[i] = calls[i]
  OBVIOUS
<1>2. DOMAIN calls = 1 .. Len(calls) /\ DOMAIN more = 1 .. Len(more) /\ Len(calls) \in Nat
  BY <1>1
<1>3. \A i \in DOMAIN calls : i \in DOMAIN more /\ more[i] = calls[i]
  BY <1>1, <1>2
<1> HIDE DEF more
<1>4. ToSet(calls) \subseteq ToSet(more)
  BY <1>3, Zenon DEF ToSet
<1>5. more # <<>>
  BY <1>1, <1>2
<1> QED
  BY <1>1, <1>4, <1>5 DEF more

\* What was named stays named, and what was precise stays precise.
LEMMA NamedStays ==
    ASSUME NEW calls, NEW more, ToSet(calls) \subseteq ToSet(more), NEW name
    PROVE  /\ Named(name, calls) => Named(name, more)
           /\ Precise(name, calls) => Precise(name, more)
           /\ Precise(name, calls) => Named(name, calls)
BY Zenon DEF Named, Precise

LEMMA ReadFileGrows ==
    ASSUME NEW calls, NEW more, ToSet(calls) \subseteq ToSet(more)
    PROVE  /\ ScoreReadFile(calls) \in 0 .. 60 /\ ScoreReadFile(more) \in 0 .. 60
           /\ ScoreReadFile(calls) <= ScoreReadFile(more)
<1>1. Precise("read_file", calls) => Precise("read_file", more)
  BY NamedStays, Zenon
<1>2. (\E c \in ToSet(calls) : c.tool # "blank") => \E c \in ToSet(more) : c.tool # "blank"
  BY Zenon
<1> QED
  BY <1>1, <1>2 DEF ScoreReadFile, Half, Full

\* A subset of a finite set is at most as large, and as large only if it is
\* the set.
LEMMA Smaller ==
    ASSUME NEW T, IsFiniteSet(T), NEW S \in SUBSET T
    PROVE  /\ IsFiniteSet(S) /\ Cardinality(S) \in Nat /\ Cardinality(T) \in Nat
           /\ Cardinality(S) <= Cardinality(T)
           /\ Cardinality(S) = Cardinality(T) <=> S = T
           /\ Cardinality(S) = 0 <=> S = {}
<1>1. IsFiniteSet(S) /\ Cardinality(S) <= Cardinality(T)
      /\ (Cardinality(S) = Cardinality(T) => S = T)
  BY FS_Subset
<1>2. Cardinality(S) \in Nat /\ Cardinality(T) \in Nat
  BY <1>1, FS_CardinalityType
<1>3. Cardinality(S) = 0 <=> S = {}
  BY <1>1, FS_EmptySet
<1> QED
  BY <1>1, <1>2, <1>3

LEMMA Pair ==
    ASSUME NEW a, NEW b, a # b
    PROVE  IsFiniteSet({a, b}) /\ Cardinality({a, b}) = 2
<1>1. IsFiniteSet({a}) /\ Cardinality({a}) = 1
  BY FS_Singleton
<1>2. IsFiniteSet({a} \cup {b}) /\ Cardinality({a} \cup {b}) = 2
  BY <1>1, FS_AddElement
<1>3. {a, b} = {a} \cup {b}
  OBVIOUS
<1> QED
  BY <1>2, <1>3

LEMMA Triple ==
    ASSUME NEW a, NEW b, NEW c, a # b, a # c, b # c
    PROVE  IsFiniteSet({a, b, c}) /\ Cardinality({a, b, c}) = 3
<1>1. IsFiniteSet({a, b}) /\ Cardinality({a, b}) = 2
  BY Pair
<1>2. IsFiniteSet({a, b} \cup {c}) /\ Cardinality({a, b} \cup {c}) = 3
  BY <1>1, FS_AddElement
<1>3. {a, b, c} = {a, b} \cup {c}
  OBVIOUS
<1> QED
  BY <1>2, <1>3

LEMMA TwoToolsGrow ==
    ASSUME NEW calls, NEW more, ToSet(calls) \subseteq ToSet(more), more # <<>>
    PROVE  /\ ScoreTwoTools(calls) \in 0 .. 60 /\ ScoreTwoTools(more) \in 0 .. 60
           /\ ScoreTwoTools(calls) <= ScoreTwoTools(more)
<1> DEFINE Both == {"read_file", "list_dir"}
           precise(s) == {t \in Both : Precise(t, s)}
           named(s) == {t \in Both : Named(t, s)}
<1>1. IsFiniteSet(Both) /\ Cardinality(Both) = 2
  BY Pair
<1>2. /\ precise(calls) \subseteq precise(more) /\ precise(more) \subseteq Both
      /\ named(calls) \subseteq named(more) /\ named(more) \subseteq Both
  BY NamedStays, Zenon
<1> DEFINE pc == precise(calls)  pm == precise(more)  nc == named(calls)  nm == named(more)
<1>3. /\ ScoreTwoTools(calls) = IF Cardinality(pc) = 2 THEN Full
                                ELSE IF Cardinality(nc) = 2 \/ pc # {} THEN Half(Full)
                                ELSE IF calls # <<>> THEN 18 ELSE 0
      /\ ScoreTwoTools(more) = IF Cardinality(pm) = 2 THEN Full
                               ELSE IF Cardinality(nm) = 2 \/ pm # {} THEN Half(Full)
                               ELSE IF more # <<>> THEN 18 ELSE 0
  BY Zenon DEF ScoreTwoTools
<1> HIDE DEF pc, pm, nc, nm, Both
<1>4. pc \subseteq pm /\ pm \subseteq Both /\ nc \subseteq nm /\ nm \subseteq Both
  BY <1>2 DEF pc, pm, nc, nm
<1>5. /\ Cardinality(pc) = 2 => Cardinality(pm) = 2
      /\ Cardinality(nc) = 2 => Cardinality(nm) = 2
  <2>1. \A s \in SUBSET Both : Cardinality(s) = 2 <=> s = Both
    BY <1>1, Smaller
  <2>2. pc \in SUBSET Both /\ nc \in SUBSET Both
    BY <1>4, Zenon
  <2>3. (Cardinality(pc) = 2 => pc = Both) /\ (Cardinality(nc) = 2 => nc = Both)
    BY <2>1, <2>2, Zenon
  <2>4. (pc = Both => pm = Both) /\ (nc = Both => nm = Both)
    BY <1>4, Zenon
  <2> QED
    BY <1>1, <2>3, <2>4
<1>6. pc # {} => pm # {}
  BY <1>4
<1> QED
  BY <1>3, <1>5, <1>6 DEF Half, Full

LEMMA NestedGrows ==
    ASSUME NEW calls, NEW more, ToSet(calls) \subseteq ToSet(more)
    PROVE  /\ ScoreNested(calls) \in 0 .. 60 /\ ScoreNested(more) \in 0 .. 60
           /\ ScoreNested(calls) <= ScoreNested(more)
<1> DEFINE Marks(s) == {0} \cup {ScoreNestedCall(c) : c \in {d \in ToSet(s) : d.tool = "edit_file"}}
           S == Marks(calls)
           T == Marks(more)
<1>1. ScoreNested(calls) = Max(S) /\ ScoreNested(more) = Max(T)
  BY Zenon DEF ScoreNested
<1>2. \A c : ScoreNestedCall(c) \in 0 .. 60
  BY DEF ScoreNestedCall, Half, Full
<1>3. S \subseteq 0 .. 60 /\ T \subseteq 0 .. 60 /\ S # {} /\ T # {}
  BY <1>2
<1>4. S \subseteq T
  <2>1. ASSUME NEW c \in ToSet(calls), c.tool = "edit_file" PROVE ScoreNestedCall(c) \in T
    <3>1. c \in {d \in ToSet(more) : d.tool = "edit_file"}
      BY <2>1
    <3> QED
      BY <3>1, Zenon
  <2> QED
    BY <2>1, Zenon
<1> HIDE DEF S, T
<1>5. Max(S) \in S /\ \A y \in S : Max(S) >= y
  <2>1. PICK x \in S : \A y \in S : x >= y
    BY <1>3, TopScore
  <2> QED
    BY <2>1, Zenon DEF Max
<1>6. Max(T) \in T /\ \A y \in T : Max(T) >= y
  <2>1. PICK x \in T : \A y \in T : x >= y
    BY <1>3, TopScore
  <2> QED
    BY <2>1, Zenon DEF Max
<1>7. Max(S) \in 0 .. 60 /\ Max(T) \in 0 .. 60 /\ Max(T) >= Max(S)
  BY <1>3, <1>4, <1>5, <1>6
<1> QED
  BY <1>1, <1>7
\* Better scores have no lower level.
LEMMA RankOf ==
    ASSUME NEW s \in Nat
    PROVE  LevelRank(Classify(s)) = IF s >= 48 THEN 2 ELSE IF s >= 24 THEN 1 ELSE 0
BY DEF LevelRank, Classify

LEMMA Ranks ==
    ASSUME NEW s \in Nat, NEW t \in Nat, s <= t
    PROVE  LevelRank(Classify(s)) <= LevelRank(Classify(t))
BY RankOf

LEMMA TasksAre ==
    /\ IsFiniteSet(Tasks) /\ Cardinality(Tasks) = 3
BY Triple DEF Tasks

\* Sixty are three precise calls; the points and what the level looks at
\* besides them only grow.
LEMMA SelectionGrows ==
    ASSUME NEW calls, NEW more, ToSet(calls) \subseteq ToSet(more)
    PROVE  /\ ScoreSelection(calls) \in 0 .. 60 /\ ScoreSelection(more) \in 0 .. 60
           /\ ScoreSelection(calls) <= ScoreSelection(more)
           /\ ScoreSelection(calls) >= 60 => Mastered(calls) = Tasks
           /\ LevelRank(SelectionLevel(calls)) <= LevelRank(SelectionLevel(more))
<1> DEFINE tc == Touched(calls)  tm == Touched(more)
           mc == Mastered(calls)  mm == Mastered(more)
<1>1. tc \subseteq tm /\ tm \subseteq Tasks /\ mc \subseteq mm /\ mm \subseteq Tasks
      /\ mc \subseteq tc
  <2>1. /\ \A name : Named(name, calls) => Named(name, more)
        /\ \A name : Precise(name, calls) => Precise(name, more)
        /\ \A name : Precise(name, calls) => Named(name, calls)
    BY NamedStays
  <2> QED
    BY <2>1, Zenon DEF Touched, Mastered
<1>2. UsedGeneric(calls) => UsedGeneric(more)
  BY NamedStays, Zenon DEF UsedGeneric
<1>3. /\ ScoreSelection(calls) = 10 * (Cardinality(tc) + Cardinality(mc))
      /\ ScoreSelection(more) = 10 * (Cardinality(tm) + Cardinality(mm))
  BY Zenon DEF ScoreSelection
<1> HIDE DEF tc, tm, mc, mm
<1>4. \A s \in SUBSET Tasks :
         /\ IsFiniteSet(s) /\ Cardinality(s) \in 0 .. 3 /\ (Cardinality(s) = 3 <=> s = Tasks)
         /\ \A r \in SUBSET s : Cardinality(r) <= Cardinality(s)
  <2>1. ASSUME NEW s \in SUBSET Tasks
        PROVE  IsFiniteSet(s) /\ Cardinality(s) \in 0 .. 3 /\ (Cardinality(s) = 3 <=> s = Tasks)
    BY TasksAre, Smaller
  <2>2. ASSUME NEW s \in SUBSET Tasks, NEW r \in SUBSET s PROVE Cardinality(r) <= Cardinality(s)
    BY <2>1, <2>2, Smaller
  <2> QED
    BY <2>1, <2>2
<1>5. /\ Cardinality(tc) \in 0 .. 3 /\ Cardinality(tm) \in 0 .. 3
      /\ Cardinality(mc) \in 0 .. 3 /\ Cardinality(mm) \in 0 .. 3
      /\ Cardinality(tc) <= Cardinality(tm) /\ Cardinality(mc) <= Cardinality(mm)
      /\ Cardinality(mc) = 3 <=> mc = Tasks
  BY <1>1, <1>4
<1>6. /\ ScoreSelection(calls) \in 0 .. 60 /\ ScoreSelection(more) \in 0 .. 60
      /\ ScoreSelection(calls) <= ScoreSelection(more)
      /\ ScoreSelection(calls) >= 60 => mc = Tasks
  BY <1>3, <1>5
<1>7. mc = Tasks => mm = Tasks
  BY <1>1
<1>8. LevelRank(SelectionLevel(calls)) <= LevelRank(SelectionLevel(more))
  <2> DEFINE a == ScoreSelection(calls)  b == ScoreSelection(more)
  <2>1. /\ SelectionLevel(calls) = IF \/ Classify(a) = "Weak" /\ UsedGeneric(calls)
                                      \/ Classify(a) = "Strong" /\ mc # Tasks
                                   THEN "Medium" ELSE Classify(a)
        /\ SelectionLevel(more) = IF \/ Classify(b) = "Weak" /\ UsedGeneric(more)
                                     \/ Classify(b) = "Strong" /\ mm # Tasks
                                  THEN "Medium" ELSE Classify(b)
    BY Zenon DEF SelectionLevel, mc, mm
  <2> HIDE DEF a, b
  <2>2. a \in 0 .. 60 /\ b \in 0 .. 60 /\ a <= b
    BY <1>6 DEF a, b
  <2> QED
    BY <1>2, <1>7, <2>1, <2>2 DEF LevelRank, Classify
<1> QED
  BY <1>6, <1>8 DEF mc

\* A finite set has finitely many images.
LEMMA ImageIsFinite ==
    ASSUME NEW S, IsFiniteSet(S), NEW f, DOMAIN f = S
    PROVE  IsFiniteSet({f[x] : x \in S})
<1> DEFINE T == {f[x] : x \in S}
           g == [x \in S |-> f[x]]
<1>1. g \in Surjection(S, T)
  BY DEF Surjection
<1> HIDE DEF g, T
<1>2. IsFiniteSet(T)
  BY <1>1, FS_Surjection
<1> QED
  BY <1>2 DEF T

LEMMA ParallelScores ==
    ASSUME NEW P, NEW calls \in Seq(P), NEW accepted
    PROVE  LET m == Cardinality(UsablePaths(accepted, calls))
               a == ScoreParallel(accepted, calls)
           IN  /\ IsFiniteSet(UsablePaths(accepted, calls)) /\ m \in Nat
               /\ m = 0 => a = IF \E c \in ToSet(calls) : c.tool \in accepted THEN 6 ELSE 0
               /\ m = 1 => a = 12
               /\ m = 2 => a = 24
               /\ m = 3 => a = 36
               /\ m = 4 => a = 48
               /\ m >= 5 => a = 60
<1> DEFINE u == UsablePaths(accepted, calls)
           Some == \E c \in ToSet(calls) : c.tool \in accepted
           m == Cardinality(u)
           a == ScoreParallel(accepted, calls)
<1>1. IsFiniteSet(u)
  <2>1. IsFiniteSet(1 .. Len(calls)) /\ DOMAIN calls = 1 .. Len(calls)
    BY FS_Interval
  <2>2. IsFiniteSet({calls[i] : i \in DOMAIN calls})
    BY <2>1, ImageIsFinite
  <2>3. IsFiniteSet(ToSet(calls))
    BY <2>2 DEF ToSet
  <2> DEFINE D == {d \in ToSet(calls) : d.tool \in accepted /\ d.args # "part"}
             path == [c \in D |-> c.args]
  <2>4. IsFiniteSet(D)
    BY <2>3, FS_Subset
  <2>5. u = {path[c] : c \in D}
    BY Zenon DEF UsablePaths
  <2>6. DOMAIN path = D
    OBVIOUS
  <2> HIDE DEF D, path, u
  <2> QED
    BY <2>4, <2>5, <2>6, ImageIsFinite
<1>2. a = CASE m >= 5 -> Full
            [] m \in 1 .. 4 -> 12 * m
            [] m = 0 -> IF Some THEN 6 ELSE 0
  BY DEF ScoreParallel, DistinctPaths
<1>3. m \in Nat
  BY <1>1, FS_CardinalityType
<1> HIDE DEF m, a, u, Some
<1>4. /\ m = 0 => a = IF Some THEN 6 ELSE 0
      /\ m = 1 => a = 12
      /\ m = 2 => a = 24
      /\ m = 3 => a = 36
      /\ m = 4 => a = 48
      /\ m >= 5 => a = 60
  BY <1>2, <1>3 DEF Full
<1> QED
  BY <1>1, <1>3, <1>4 DEF m, a, u, Some

LEMMA ParallelGrows ==
    ASSUME NEW P, NEW calls \in Seq(P), NEW more \in Seq(P), ToSet(calls) \subseteq ToSet(more),
           NEW accepted
    PROVE  /\ ScoreParallel(accepted, calls) \in 0 .. 60 /\ ScoreParallel(accepted, more) \in 0 .. 60
           /\ ScoreParallel(accepted, calls) <= ScoreParallel(accepted, more)
<1> DEFINE u == UsablePaths(accepted, calls)  v == UsablePaths(accepted, more)
           m == Cardinality(u)  n == Cardinality(v)
           a == ScoreParallel(accepted, calls)  b == ScoreParallel(accepted, more)
           Some(s) == \E c \in ToSet(s) : c.tool \in accepted
<1>1. u \subseteq v
  BY Zenon DEF UsablePaths
<1>2. Some(calls) => Some(more)
  BY Zenon
<1>3. /\ IsFiniteSet(u) /\ m \in Nat
      /\ m = 0 => a = IF Some(calls) THEN 6 ELSE 0
      /\ m = 1 => a = 12
      /\ m = 2 => a = 24
      /\ m = 3 => a = 36
      /\ m = 4 => a = 48
      /\ m >= 5 => a = 60
  BY ParallelScores
<1>4. /\ IsFiniteSet(v) /\ n \in Nat
      /\ n = 0 => b = IF Some(more) THEN 6 ELSE 0
      /\ n = 1 => b = 12
      /\ n = 2 => b = 24
      /\ n = 3 => b = 36
      /\ n = 4 => b = 48
      /\ n >= 5 => b = 60
  BY ParallelScores
<1> HIDE DEF u, v, a, b, Some
<1>5. m <= n
  BY <1>1, <1>4, Smaller
<1> HIDE DEF m, n
<1>6. m \in Nat => m = 0 \/ m = 1 \/ m = 2 \/ m = 3 \/ m = 4 \/ m >= 5
  OBVIOUS
<1>7. n \in Nat => n = 0 \/ n = 1 \/ n = 2 \/ n = 3 \/ n = 4 \/ n >= 5
  OBVIOUS
<1>8. a \in 0 .. 60 /\ b \in 0 .. 60
  BY <1>3, <1>4, <1>6, <1>7
<1>9. a <= b
  <2>1. CASE m = 0
    <3>1. a = 0 \/ (a = 6 /\ Some(calls))
      BY <1>3, <2>1
    <3>2. Some(more) => b >= 6
      BY <1>4, <1>7
    <3> QED
      BY <1>2, <1>8, <3>1, <3>2
  <2>2. CASE m # 0
    BY <1>3, <1>4, <1>5, <1>6, <1>7, <2>2
  <2> QED
    BY <2>1, <2>2
<1> QED
  BY <1>8, <1>9, Zenon DEF a, b

----------------------------------------------------------------------------
(* Calls in their order.                                                   *)

\* SelectInSeq: the first of the places where a test holds.
First(I) == IF I # {} THEN Min(I) ELSE 0

LEMMA FirstIsFirst ==
    ASSUME NEW I, I \subseteq Nat \ {0}
    PROVE  First(I) \in Nat /\ (First(I) = 0 <=> I = {})
           /\ (I # {} => First(I) \in I /\ \A i \in I : First(I) <= i)
<1>1. CASE I = {}
  BY <1>1 DEF First
<1>2. CASE I # {}
  <2>1. PICK x \in I : \A y \in I : x <= y
    BY <1>2, LeastNat
  <2>2. Min(I) \in I /\ \A y \in I : Min(I) <= y
    BY <2>1, Zenon DEF Min
  <2>3. First(I) = Min(I)
    BY <1>2 DEF First
  <2> QED
    BY <1>2, <2>2, <2>3
<1> QED
  BY <1>1, <1>2

\* A place behind all others does not become the first of them.
LEMMA FirstStays ==
    ASSUME NEW I, NEW J, J \subseteq Nat \ {0}, I \subseteq J, I # {},
           \A j \in J \ I : \A i \in I : i <= j
    PROVE  First(J) = First(I) /\ First(I) # 0
<1>1. First(I) \in I /\ (\A i \in I : First(I) <= i) /\ First(I) # 0 /\ First(I) \in Nat
  BY FirstIsFirst
<1>2. First(J) \in J /\ (\A j \in J : First(J) <= j) /\ First(J) \in Nat
  BY FirstIsFirst
<1>3. First(I) \in J
  BY <1>1
<1>4. First(J) <= First(I)
  BY <1>2, <1>3
<1>5. First(I) <= First(J)
  <2>1. CASE First(J) \in I
    BY <1>1, <2>1
  <2>2. CASE First(J) \notin I
    BY <1>1, <1>2, <2>2
  <2> QED
    BY <2>1, <2>2
<1> QED
  BY <1>1, <1>2, <1>4, <1>5

PreciseAt(tool, calls) == {i \in 1 .. Len(calls) : calls[i].tool = tool /\ calls[i].args = "full"}

LEMMA FirstPreciseAt ==
    ASSUME NEW calls, NEW tool
    PROVE  FirstPrecise(tool, calls) = First(PreciseAt(tool, calls))
BY Zenon DEF FirstPrecise, SelectInSeq, First, PreciseAt

\* A further call does not become the first precise call of a tool that has
\* one.
LEMMA FirstPreciseStays ==
    ASSUME NEW P, NEW calls \in Seq(P), NEW c \in P, NEW tool
    PROVE  /\ FirstPrecise(tool, calls) \in Nat /\ FirstPrecise(tool, Append(calls, c)) \in Nat
           /\ FirstPrecise(tool, calls) # 0 =>
                  FirstPrecise(tool, Append(calls, c)) = FirstPrecise(tool, calls)
<1> DEFINE more == Append(calls, c)
           I == PreciseAt(tool, calls)
           J == PreciseAt(tool, more)
<1>1. /\ Len(more) = Len(calls) + 1 /\ Len(calls) \in Nat
      /\ \A i \in 1 .. Len(calls) : more[i] = calls[i]
  OBVIOUS
<1>2. FirstPrecise(tool, calls) = First(I) /\ FirstPrecise(tool, more) = First(J)
  BY FirstPreciseAt
<1> HIDE DEF more
<1>3. I \subseteq 1 .. Len(calls) /\ J \subseteq 1 .. (Len(calls) + 1)
  BY <1>1 DEF PreciseAt
<1>4. I \subseteq J
  <2>1. ASSUME NEW i \in I PROVE i \in J
    <3>1. i \in 1 .. Len(calls) /\ calls[i].tool = tool /\ calls[i].args = "full"
      BY <2>1 DEF PreciseAt
    <3>2. i \in 1 .. Len(more) /\ more[i] = calls[i]
      BY <1>1, <3>1
    <3> QED
      BY <3>1, <3>2 DEF PreciseAt
  <2> QED
    BY <2>1
<1>5. ASSUME NEW j \in J \ I PROVE j = Len(calls) + 1
  <2>1. j \in 1 .. Len(more) /\ more[j].tool = tool /\ more[j].args = "full"
    BY <1>5 DEF PreciseAt
  <2>2. ASSUME j \in 1 .. Len(calls) PROVE FALSE
    <3>1. more[j] = calls[j]
      BY <1>1, <2>2
    <3>2. j \in I
      BY <2>1, <2>2, <3>1 DEF PreciseAt
    <3> QED
      BY <1>5, <3>2
  <2> QED
    BY <1>1, <2>1, <2>2
<1> HIDE DEF I, J
<1>6. J \subseteq Nat \ {0} /\ I \subseteq Nat \ {0}
  BY <1>1, <1>3
<1>7. \A j \in J \ I : \A i \in I : i <= j
  BY <1>1, <1>3, <1>5
<1>8. First(I) \in Nat /\ First(J) \in Nat /\ (First(I) = 0 <=> I = {})
  BY <1>6, FirstIsFirst
<1>9. I # {} => First(J) = First(I)
  BY <1>4, <1>6, <1>7, FirstStays
<1> QED
  BY <1>2, <1>8, <1>9 DEF more

\* The places of the first precise calls of the three tools.
LEMMA ChainIs == IsFiniteSet(Chain) /\ Cardinality(Chain) = 3
BY Triple DEF Chain

LEMMA OneShotGrows ==
    ASSUME NEW P, NEW calls \in Seq(P), NEW c \in P
    PROVE  LET more == Append(calls, c)
           IN  /\ ScoreOneShot(calls) \in 0 .. 60 /\ ScoreOneShot(more) \in 0 .. 60
               /\ ScoreOneShot(calls) <= ScoreOneShot(more)
<1> DEFINE more == Append(calls, c)
           f == [t \in Chain |-> FirstPrecise(t, calls)]
           g == [t \in Chain |-> FirstPrecise(t, more)]
           fs == {t \in Chain : f[t] # 0}
           gs == {t \in Chain : g[t] # 0}
           fn == {t \in Chain : Named(t, calls)}
           gn == {t \in Chain : Named(t, more)}
<1>1. ToSet(calls) \subseteq ToSet(more) /\ more # <<>>
  BY CallsGrow
<1>2. \A t : /\ FirstPrecise(t, calls) \in Nat
             /\ FirstPrecise(t, calls) # 0 => FirstPrecise(t, more) = FirstPrecise(t, calls)
  BY FirstPreciseStays
<1>3. \A t \in Chain : f[t] # 0 => g[t] = f[t]
  BY <1>2
<1>4. fs \subseteq gs /\ gs \subseteq Chain
  BY <1>3
<1>5. fn \subseteq gn /\ gn \subseteq Chain
  BY <1>1, NamedStays, Zenon
<1>6. /\ ScoreOneShot(calls) = IF Cardinality(fs) = 3 THEN IF InOrder(f) THEN Full ELSE 42
                               ELSE IF Cardinality(fs) = 2 \/ Cardinality(fn) = 3 THEN Half(Full)
                               ELSE IF calls # <<>> THEN 18 ELSE 0
      /\ ScoreOneShot(more) = IF Cardinality(gs) = 3 THEN IF InOrder(g) THEN Full ELSE 42
                              ELSE IF Cardinality(gs) = 2 \/ Cardinality(gn) = 3 THEN Half(Full)
                              ELSE IF more # <<>> THEN 18 ELSE 0
  BY Zenon DEF ScoreOneShot
<1>7. Cardinality(fs) = 3 => g = f
  <2>1. fs \in SUBSET Chain
    OBVIOUS
  <2>2. Cardinality(fs) = 3 => fs = Chain
    <3> HIDE DEF fs
    <3> QED
      BY <2>1, ChainIs, Smaller
  <2>3. fs = Chain => \A t \in Chain : g[t] = f[t]
    BY <1>3
  <2>4. (\A t \in Chain : g[t] = f[t]) => g = f
    OBVIOUS
  <2> HIDE DEF f, g, fs
  <2> QED
    BY <2>2, <2>3, <2>4
<1> HIDE DEF f, g, fs, gs, fn, gn, more
<1>8. /\ Cardinality(fs) \in 0 .. 3 /\ Cardinality(gs) \in 0 .. 3
      /\ Cardinality(fs) <= Cardinality(gs)
  <2>1. fs \in SUBSET Chain /\ gs \in SUBSET Chain /\ fs \in SUBSET gs
    BY <1>4, Zenon
  <2>2. IsFiniteSet(gs) /\ Cardinality(gs) \in Nat /\ Cardinality(gs) <= 3
    BY <2>1, ChainIs, Smaller
  <2>3. Cardinality(fs) \in Nat /\ Cardinality(fs) <= Cardinality(gs)
    BY <2>1, <2>2, Smaller
  <2> QED
    BY <2>2, <2>3
<1>9. /\ Cardinality(fn) \in 0 .. 3 /\ Cardinality(gn) \in 0 .. 3
      /\ Cardinality(fn) <= Cardinality(gn)
  <2>1. fn \in SUBSET Chain /\ gn \in SUBSET Chain /\ fn \in SUBSET gn
    BY <1>5, Zenon
  <2>2. IsFiniteSet(gn) /\ Cardinality(gn) \in Nat /\ Cardinality(gn) <= 3
    BY <2>1, ChainIs, Smaller
  <2>3. Cardinality(fn) \in Nat /\ Cardinality(fn) <= Cardinality(gn)
    BY <2>1, <2>2, Smaller
  <2> QED
    BY <2>2, <2>3
<1>10. ScoreOneShot(calls) \in 0 .. 60 /\ ScoreOneShot(more) \in 0 .. 60
  BY <1>6 DEF Half, Full
<1>11. ScoreOneShot(calls) <= ScoreOneShot(more)
  <2>1. CASE Cardinality(fs) = 3
    <3>1. Cardinality(gs) = 3 /\ g = f
      BY <1>7, <1>8, <2>1
    <3>2. /\ ScoreOneShot(calls) = IF InOrder(f) THEN Full ELSE 42
          /\ ScoreOneShot(more) = IF InOrder(g) THEN Full ELSE 42
      BY <1>6, <2>1, <3>1
    <3>3. InOrder(f) = InOrder(g)
      BY <3>1, Zenon
    <3>4. ScoreOneShot(more) = ScoreOneShot(calls)
      BY <3>2, <3>3
    <3> DEFINE p == ScoreOneShot(calls)  q == ScoreOneShot(more)
    <3>5. p \in 0 .. 60 /\ q = p
      BY <1>10, <3>4, Zenon
    <3> HIDE DEF p, q
    <3>6. p <= q
      BY <3>5
    <3> QED
      BY <3>6 DEF p, q
  <2>2. CASE Cardinality(fs) # 3
    BY <1>1, <1>6, <1>8, <1>9, <2>2 DEF Half, Full
  <2> QED
    BY <2>1, <2>2
<1> QED
  BY <1>10, <1>11 DEF more

\* A turn of the agent loop that says more: the tools of the chain it has
\* named, and the first turns with a precise call, can only become more, and
\* the first turns of tools that had one stay the same.
PreciseIn(tool, ts) == {i \in 1 .. Len(ts) : Precise(tool, ts[i])}

LEMMA FirstTurnIn ==
    ASSUME NEW ts, NEW tool
    PROVE  FirstTurn(tool, ts) = First(PreciseIn(tool, ts))
BY Zenon DEF FirstTurn, SelectInSeq, First, PreciseIn

LEMMA TurnGrows ==
    ASSUME NEW Q, NEW over \in Seq(Q), NEW calls \in Q, NEW more \in Q,
           ToSet(calls) \subseteq ToSet(more), NEW tool
    PROVE  LET ts == Append(over, calls)
               us == Append(over, more)
           IN  /\ SeenIn(tool, ts) => SeenIn(tool, us)
               /\ FirstTurn(tool, ts) \in Nat /\ FirstTurn(tool, us) \in Nat
               /\ FirstTurn(tool, ts) # 0 => FirstTurn(tool, us) = FirstTurn(tool, ts)
<1> DEFINE ts == Append(over, calls)  us == Append(over, more)  n == Len(over)
           I == PreciseIn(tool, ts)
           J == PreciseIn(tool, us)
<1>1. /\ n \in Nat /\ Len(ts) = n + 1 /\ Len(us) = n + 1
      /\ DOMAIN ts = 1 .. (n + 1) /\ DOMAIN us = 1 .. (n + 1)
      /\ ts[n + 1] = calls /\ us[n + 1] = more
      /\ \A i \in 1 .. n : ts[i] = us[i]
  OBVIOUS
<1>2. FirstTurn(tool, ts) = First(I) /\ FirstTurn(tool, us) = First(J)
  BY FirstTurnIn
<1> HIDE DEF ts, us, n
<1>3. \A i \in 1 .. (n + 1) : i \in 1 .. n \/ i = n + 1
  BY <1>1
<1>4. \A i \in 1 .. (n + 1) : /\ Precise(tool, ts[i]) => Precise(tool, us[i])
                              /\ Named(tool, ts[i]) => Named(tool, us[i])
  <2>1. /\ Precise(tool, calls) => Precise(tool, more)
        /\ Named(tool, calls) => Named(tool, more)
    BY NamedStays
  <2> QED
    BY <1>1, <1>3, <2>1, Zenon
<1>5. SeenIn(tool, ts) => SeenIn(tool, us)
  BY <1>1, <1>4, Zenon DEF SeenIn, ToSet
<1>6. I \subseteq J /\ J \subseteq 1 .. (n + 1)
  BY <1>1, <1>4, Zenon DEF PreciseIn
<1>7. ASSUME NEW j \in J \ I PROVE j = n + 1
  <2>1. j \in 1 .. (n + 1) /\ Precise(tool, us[j]) /\ ~Precise(tool, ts[j])
    BY <1>1, <1>7, Zenon DEF PreciseIn
  <2> QED
    BY <1>1, <1>3, <2>1, Zenon
<1> HIDE DEF I, J
<1>8. I \subseteq Nat \ {0} /\ J \subseteq Nat \ {0}
  BY <1>1, <1>6
<1>9. \A j \in J \ I : \A i \in I : i <= j
  BY <1>1, <1>6, <1>7
<1>10. First(I) \in Nat /\ First(J) \in Nat /\ (First(I) = 0 <=> I = {})
  BY <1>8, FirstIsFirst
<1>11. I # {} => First(J) = First(I)
  BY <1>6, <1>8, <1>9, FirstStays
<1> QED
  BY <1>2, <1>5, <1>10, <1>11, Zenon DEF ts, us

LEMMA ChainGrows ==
    ASSUME NEW Q, NEW over \in Seq(Q), NEW calls \in Q, NEW more \in Q,
           ToSet(calls) \subseteq ToSet(more)
    PROVE  LET a == ScoreChain(Append(over, calls))
               b == ScoreChain(Append(over, more))
           IN  /\ a \in 0 .. 60 /\ b \in 0 .. 60
               /\ LevelRank(Classify(a)) <= LevelRank(Classify(b))
<1> DEFINE ts == Append(over, calls)  us == Append(over, more)
           a == ScoreChain(ts)  b == ScoreChain(us)
           sa == {t \in Chain : SeenIn(t, ts)}
           sb == {t \in Chain : SeenIn(t, us)}
           f == [t \in Chain |-> FirstTurn(t, ts)]
           g == [t \in Chain |-> FirstTurn(t, us)]
<1>1. \A t : /\ SeenIn(t, ts) => SeenIn(t, us)
             /\ FirstTurn(t, ts) # 0 => FirstTurn(t, us) = FirstTurn(t, ts)
  BY TurnGrows
<1>2. sa \subseteq sb /\ sb \subseteq Chain
  BY <1>1, Zenon
<1>3. (\A t \in Chain : f[t] # 0) => g = f
  <2>1. \A t \in Chain : f[t] # 0 => g[t] = f[t]
    BY <1>1
  <2>2. (\A t \in Chain : g[t] = f[t]) => g = f
    OBVIOUS
  <2> HIDE DEF f, g
  <2> QED
    BY <2>1, <2>2
<1>4. /\ a = IF sa = Chain
             THEN IF \E t \in Chain : f[t] = 0 THEN Half(Full)
                  ELSE IF InOrder(f) THEN Full ELSE 42
             ELSE CASE Cardinality(sa) = 2 -> 42
                    [] Cardinality(sa) = 1 -> 18
                    [] OTHER               -> 0
      /\ b = IF sb = Chain
             THEN IF \E t \in Chain : g[t] = 0 THEN Half(Full)
                  ELSE IF InOrder(g) THEN Full ELSE 42
             ELSE CASE Cardinality(sb) = 2 -> 42
                    [] Cardinality(sb) = 1 -> 18
                    [] OTHER               -> 0
  BY DEF ScoreChain
<1> HIDE DEF a, b, sa, sb, f, g, ts, us
<1>5. /\ Cardinality(sa) \in Nat /\ Cardinality(sb) \in Nat /\ Cardinality(sa) <= Cardinality(sb)
      /\ Cardinality(sb) <= 3 /\ (Cardinality(sb) = 3 => sb = Chain)
  <2>1. sb \in SUBSET Chain /\ sa \in SUBSET sb
    BY <1>2, Zenon
  <2>2. /\ IsFiniteSet(sb) /\ Cardinality(sb) \in Nat /\ Cardinality(sb) <= 3
        /\ Cardinality(sb) = 3 <=> sb = Chain
    BY <2>1, ChainIs, Smaller
  <2>3. Cardinality(sa) \in Nat /\ Cardinality(sa) <= Cardinality(sb)
    BY <2>1, <2>2, Smaller
  <2> QED
    BY <2>2, <2>3
<1>6. a \in 0 .. 60 /\ b \in 0 .. 60
  BY <1>4 DEF Half, Full
<1>7. LevelRank(Classify(a)) <= LevelRank(Classify(b))
  <2>1. CASE sa = Chain
    <3>1. sb = Chain
      BY <1>2, <2>1
    <3>2. CASE \E t \in Chain : f[t] = 0
      <4>1. a = 30 /\ b >= 30
        BY <1>4, <2>1, <3>1, <3>2 DEF Half, Full
      <4> QED
        BY <1>6, <4>1, Ranks
    <3>3. CASE ~\E t \in Chain : f[t] = 0
      <4>1. g = f
        BY <1>3, <3>3, Zenon
      <4>2. ~\E t \in Chain : g[t] = 0
        BY <3>3, <4>1
      <4>3. a = IF InOrder(f) THEN Full ELSE 42
        BY <1>4, <2>1, <3>3
      <4>4. b = IF InOrder(g) THEN Full ELSE 42
        BY <1>4, <3>1, <4>2
      <4>5. InOrder(f) = InOrder(g)
        BY <4>1, Zenon
      <4>6. a = b
        BY <4>3, <4>4, <4>5
      <4>7. a \in Nat /\ b \in Nat /\ a <= b
        BY <1>6, <4>6
      <4> QED
        BY <4>7, Ranks
    <3> QED
      BY <3>2, <3>3
  <2>2. CASE sa # Chain
    <3>1. \/ a = 42 /\ Cardinality(sa) = 2
          \/ a = 18 /\ Cardinality(sa) = 1
          \/ a = 0
      BY <1>4, <2>2
    <3>2. /\ Cardinality(sa) = 2 => b >= 30
          /\ Cardinality(sa) = 1 => b >= 18
      BY <1>4, <1>5 DEF Half, Full
    <3>3. /\ LevelRank(Classify(a)) = IF a >= 48 THEN 2 ELSE IF a >= 24 THEN 1 ELSE 0
          /\ LevelRank(Classify(b)) = IF b >= 48 THEN 2 ELSE IF b >= 24 THEN 1 ELSE 0
      BY <1>6, RankOf
    <3> QED
      BY <1>6, <3>1, <3>2, <3>3
  <2> QED
    BY <2>1, <2>2
<1> QED
  BY <1>6, <1>7, Zenon DEF a, b, ts, us

----------------------------------------------------------------------------
(* The refusals.                                                           *)

LEMMA RefusalsAre ==
    ASSUME NEW r, NEW reply, NEW why, NEW score
    PROVE  /\ EarlyRefusals(r, reply, why) \subseteq {SafetyStop, MalformedCall, CutShort}
           /\ why # "Malformed" => MalformedCall \notin EarlyRefusals(r, reply, why)
           /\ IncompleteRefusals(why, score) \subseteq {SafetyStop, CutShort}
           /\ why = "Safety" => SafetyStop \in IncompleteRefusals(why, score)
           /\ why = "Length" /\ score < Full => CutShort \in IncompleteRefusals(why, score)
<1>1. \A called : /\ ToolCallRefusals(why, called) \subseteq {SafetyStop, MalformedCall, CutShort}
                  /\ why # "Malformed" => MalformedCall \notin ToolCallRefusals(why, called)
  <2>1. SafetyStop # MalformedCall /\ CutShort # MalformedCall
    BY DEF SafetyStop, MalformedCall, CutShort, Fail
  <2> QED
    BY <2>1, Zenon DEF ToolCallRefusals
<1>2. /\ EarlyRefusals(r, reply, why) \subseteq {SafetyStop, MalformedCall, CutShort}
      /\ why # "Malformed" => MalformedCall \notin EarlyRefusals(r, reply, why)
  <2> DEFINE early == EarlyRefusals(r, reply, why)
  <2>1. CASE r \in CallProbes
    <3>1. early = ToolCallRefusals(why, reply # <<>>)
      BY <2>1 DEF EarlyRefusals, CallProbes
    <3> QED
      BY <1>1, <3>1, Zenon
  <2>2. CASE r = "xml_tool_calling"
    <3>1. early = IF Text!Holds(reply, "open") THEN {} ELSE ToolCallRefusals(why, FALSE)
      BY <2>2 DEF EarlyRefusals, CallProbes
    <3> QED
      BY <1>1, <3>1, Zenon
  <2>3. CASE r = "streaming_tool_calls"
    <3>1. early = IF why = "Malformed" /\ ~StreamCalled(reply) THEN {MalformedCall} ELSE {}
      BY <2>3 DEF EarlyRefusals, CallProbes
    <3> QED
      BY <3>1, Zenon
  <2>4. CASE r \notin CallProbes \cup {"xml_tool_calling", "streaming_tool_calls"}
    <3>1. early = {}
      BY <2>4 DEF EarlyRefusals
    <3> QED
      BY <3>1, Zenon
  <2> QED
    BY <2>1, <2>2, <2>3, <2>4, Zenon
<1>3. /\ IncompleteRefusals(why, score) \subseteq {SafetyStop, CutShort}
      /\ why = "Safety" => SafetyStop \in IncompleteRefusals(why, score)
      /\ why = "Length" /\ score < Full => CutShort \in IncompleteRefusals(why, score)
  BY Zenon DEF IncompleteRefusals
<1> QED
  BY <1>2, <1>3

LEMMA ScoresAreNumbers ==
    ASSUME NEW r \in Graders \ (BudgetProbes \cup CallProbes), NEW over, NEW reply, NEW why
    PROVE  Score(r, over, reply, why) \in 0 .. 60
<1>1. CASE r = "streaming_tool_calls"
  <2>1. ScoreStream(reply) \in 0 .. 60
    BY DEF ScoreStream, Half, Full
  <2> QED
    BY <1>1, <2>1 DEF Score
<1>2. CASE r = "json_output"
  BY <1>2, JsonScores DEF Score
<1>3. CASE r \in {"search_replace", "unified_diff"}
  BY <1>3, EditScores DEF Score
<1>4. CASE r \in {"xml_tool_calling", "instruction_following", "multi_turn_memory",
                  "system_message_adherence", "effective_context_tokens",
                  "context_faithfulness", "vision", "code_syntax"}
  BY <1>4, TextScores DEF Score
<1> QED
  BY <1>1, <1>2, <1>3, <1>4, Zenon DEF Graders, TextProbes

LEMMA CallScoresAreNumbers ==
    ASSUME NEW r \in CallProbes, NEW P, NEW over, NEW reply \in Seq(P), NEW why
    PROVE  Score(r, over, reply, why) \in 0 .. 60
<1>1. CASE r = "tool_calling"
  <2>1. ScoreReadFile(reply) \in 0 .. 60
    BY ReadFileGrows
  <2> QED
    BY <1>1, <2>1 DEF Score
<1>2. CASE r = "complex_tool_calling"
  <2>1. ScoreTwoTools(reply) \in 0 .. 60
    BY DEF ScoreTwoTools, Half, Full
  <2> QED
    BY <1>2, <2>1 DEF Score
<1>3. CASE r = "nested_arguments"
  <2>1. ScoreNested(reply) \in 0 .. 60
    BY NestedGrows
  <2> QED
    BY <1>3, <2>1 DEF Score
<1>4. CASE r = "tool_selection"
  <2>1. ScoreSelection(reply) \in 0 .. 60
    BY SelectionGrows
  <2> QED
    BY <1>4, <2>1 DEF Score
<1>5. CASE r = "parallel_tool_scale"
  <2>1. ScoreParallel(Accepted, reply) \in 0 .. 60
    BY ParallelGrows
  <2> QED
    BY <1>5, <2>1 DEF Score
<1>6. CASE r = "one_shot_tool_plan"
  <2>1. ScoreOneShot(reply) \in 0 .. 60
    BY DEF ScoreOneShot, Half, Full
  <2> QED
    BY <1>6, <2>1 DEF Score
<1>7. CASE r = "multi_turn_task_sequencing"
  <2>1. ScoreChain(Append(over, reply)) \in 0 .. 60
    BY DEF ScoreChain, Half, Full
  <2> QED
    BY <1>7, <2>1 DEF Score
<1> QED
  BY <1>1, <1>2, <1>3, <1>4, <1>5, <1>6, <1>7, Zenon DEF CallProbes

\* What a cut or refused reply comes to.
LEMMA CutGrades ==
    ASSUME NEW r \in Graders \ BudgetProbes, NEW P, NEW over, NEW reply \in Seq(P),
           NEW why \in {"Length", "Safety"}
    PROVE  LET a == Graded(r, over, reply, why)
           IN  ~ResolvesCacheable(r, a) \/ ResolvedRow(r, a).level = "Strong"
<1> DEFINE score == Score(r, over, reply, why)
           early == EarlyRefusals(r, reply, why)
           late == IncompleteRefusals(why, score)
           level == Level(r, reply, score)
           a == Graded(r, over, reply, why)
<1>1. a = Settle(early \cup late, level)
  BY Zenon DEF Graded, LateRefusals
<1>2. early \cup late \subseteq {SafetyStop, CutShort}
  <2>1. why # "Malformed"
    OBVIOUS
  <2>2. /\ early \subseteq {SafetyStop, MalformedCall, CutShort} /\ MalformedCall \notin early
        /\ late \subseteq {SafetyStop, CutShort}
    BY <2>1, RefusalsAre, Zenon
  <2> HIDE DEF early, late
  <2> QED
    BY <2>2, Zenon
<1>3. CASE early \cup late # {}
  <2>1. a \in early \cup late
    BY <1>1, <1>3, Zenon DEF Settle
  <2>2. a \in {SafetyStop, CutShort}
    BY <1>2, <2>1, Zenon
  <2> HIDE DEF a
  <2>3. ~ResolvesCacheable(r, a)
    BY <2>2 DEF SafetyStop, CutShort, Fail, ResolvesCacheable, Answered, CompletedWeak, Says
  <2> QED
    BY <2>3 DEF a
<1>4. CASE early \cup late = {}
  <2>1. why = "Length" /\ ~(score < Full)
    BY <1>4, RefusalsAre, Zenon
  <2>2. score \in 0 .. 60
    BY ScoresAreNumbers, CallScoresAreNumbers, Zenon
  <2>3. score = 60
    <3> HIDE DEF score
    <3> QED
      BY <2>1, <2>2 DEF Full
  <2>4. level = "Strong"
    <3>1. CASE r = "tool_selection"
      <4>1. score = ScoreSelection(reply)
        BY <3>1 DEF Score
      <4>2. Mastered(reply) = Tasks
        <5>1. ScoreSelection(reply) >= 60 => Mastered(reply) = Tasks
          BY SelectionGrows, Zenon
        <5>2. ScoreSelection(reply) = 60
          BY <2>3, <4>1, Zenon
        <5> QED
          BY <5>1, <5>2
      <4>3. Classify(ScoreSelection(reply)) = "Strong"
        <5>1. ScoreSelection(reply) = 60
          BY <2>3, <4>1, Zenon
        <5> QED
          BY <5>1 DEF Classify
      <4>4. SelectionLevel(reply) = "Strong"
        BY <4>2, <4>3 DEF SelectionLevel
      <4> QED
        BY <3>1, <4>4 DEF Level
    <3>2. CASE r # "tool_selection"
      <4>1. level = Classify(score)
        BY <3>2, Zenon DEF Level
      <4> HIDE DEF level, score
      <4> QED
        BY <2>3, <4>1 DEF Classify
    <3> QED
      BY <3>1, <3>2
  <2>5. a = Ok("Strong")
    BY <1>1, <1>4, <2>4, Zenon DEF Settle
  <2> HIDE DEF a
  <2>6. ResolvedRow(r, a).level = "Strong"
    BY <2>5 DEF ResolvedRow, Ok, CompletedWeak, Says
  <2> QED
    BY <2>6 DEF a
<1> QED
  BY <1>3, <1>4

----------------------------------------------------------------------------
(* The conversation.                                                       *)

\* What is said is made of the pieces of the probe, and a probe that has
\* ended for a reason has the grade of what was said.
Conversation ==
    /\ reading \in Readings
    /\ said \in Seq(Pieces[reading])
    /\ turns \in Seq(Seq(Pieces[reading]))
    /\ outcome = Unasked => finish = "none"
    /\ finish # "none" =>
          /\ reading \in Graders
          /\ finish \in Finishes /\ outcome = Graded(reading, turns, said, finish)

\* A grade is an answer.
LEMMA GradesAnswer ==
    ASSUME NEW r, NEW over, NEW reply, NEW why
    PROVE  Graded(r, over, reply, why) # Unasked
<1> DEFINE a == Graded(r, over, reply, why)
           score == Score(r, over, reply, why)
           early == EarlyRefusals(r, reply, why)
           late == LateRefusals(r, reply, why, score)
<1>1. late \subseteq {SafetyStop, MalformedCall, CutShort}
  <2>1. Text!BudgetRefusals(reply, why) \subseteq {SafetyStop, MalformedCall, CutShort}
    BY DEF Text!BudgetRefusals, Text!IncompleteRefusals, Text!SafetyStop, Text!CutShort,
           Text!Fail, SafetyStop, CutShort, Fail
  <2>2. IncompleteRefusals(why, score) \subseteq {SafetyStop, CutShort}
    BY RefusalsAre
  <2> QED
    BY <2>1, <2>2, Zenon DEF LateRefusals
<1>2. early \subseteq {SafetyStop, MalformedCall, CutShort}
  BY RefusalsAre
<1>3. a = Settle(early \cup late, Level(r, reply, score))
  BY Zenon DEF Graded
<1>4. a \in {SafetyStop, MalformedCall, CutShort} \/ a = Ok(Level(r, reply, score))
  BY <1>1, <1>2, <1>3, Zenon DEF Settle
<1> HIDE DEF a
<1>5. a # Unasked
  BY <1>4 DEF SafetyStop, MalformedCall, CutShort, Fail, Ok, Unasked
<1> QED
  BY <1>5 DEF a

LEMMA ConversationHolds == Spec => []Conversation
<1>1. Init => Conversation
  <2> SUFFICES ASSUME Init PROVE Conversation
    OBVIOUS
  <2>1. <<>> \in Seq(Pieces[reading]) /\ <<>> \in Seq(Seq(Pieces[reading]))
    OBVIOUS
  <2> QED
    BY <2>1 DEF Init, Conversation, Unasked
<1>2. ASSUME Conversation, [Next]_vars PROVE Conversation'
  <2> USE <1>2
  <2>1. ASSUME NEW piece \in Pieces[reading], Say(piece) PROVE Conversation'
    <3>1. said' \in Seq(Pieces[reading])
      BY <2>1 DEF Conversation, Say
    <3>2. finish = "none"
      BY <2>1 DEF Conversation, Say
    <3> QED
      BY <2>1, <3>1, <3>2 DEF Conversation, Say
  <2>2. ASSUME NEW why \in Reasons, NextTurn(why) PROVE Conversation'
    <3>1. said' \in Seq(Pieces[reading]) /\ turns' \in Seq(Seq(Pieces[reading]))
      BY <2>2 DEF Conversation, NextTurn
    <3>2. finish = "none"
      BY <2>2 DEF Conversation, NextTurn
    <3> QED
      BY <2>2, <3>1, <3>2 DEF Conversation, NextTurn
  <2>3. ASSUME NEW why \in Reasons, EndProbe(why) PROVE Conversation'
    <3>1. outcome' # Unasked
      BY <2>3, GradesAnswer, Zenon DEF EndProbe
    <3>2. reading \in Graders
      BY <2>3, ReadingsAssumption, Zenon DEF EndProbe, Conversation
    <3>3. why \in Finishes
      BY <2>3, Zenon DEF Reasons
    <3>4. UNCHANGED <<reading, turns, said>> /\ finish' = why
          /\ outcome' = Graded(reading, turns, said, why)
      BY <2>3, Zenon DEF EndProbe
    <3> QED
      BY <3>1, <3>2, <3>3, <3>4, Zenon DEF Conversation
  <2>4. ASSUME Drop PROVE Conversation'
    <3>1. finish = "none" /\ UNCHANGED <<reading, turns, said, finish>>
      BY <2>4, Zenon DEF Drop, Conversation
    <3> QED
      BY <3>1, Zenon DEF Conversation
  <2>5. ASSUME UNCHANGED vars PROVE Conversation'
    BY <2>5, Zenon DEF vars, Conversation
  <2> QED
    BY <2>1, <2>2, <2>3, <2>4, <2>5, Zenon DEF Next
<1> QED
  BY <1>1, <1>2, PTL DEF Spec

\* A reply that was cut off or refused is never stored as a poor score,
\* whatever the model had said by then: a probe refuses it, or it had full
\* marks already and is Strong.
THEOREM CutRepliesStayOut == Spec => []CutRepliesAreNotStoredWeak
<1>1. ASSUME Conversation PROVE CutRepliesAreNotStoredWeak
  <2> SUFFICES ASSUME finish \in {"Length", "Safety"}, reading \notin BudgetProbes
               PROVE  \/ ~ResolvesCacheable(reading, outcome)
                      \/ ResolvedRow(reading, outcome).level = "Strong"
    BY Zenon DEF CutRepliesAreNotStoredWeak
  <2>1. finish # "none"
    OBVIOUS
  <2>2. /\ reading \in Graders \ BudgetProbes /\ said \in Seq(Pieces[reading])
        /\ outcome = Graded(reading, turns, said, finish)
    BY <1>1, <2>1, Zenon DEF Conversation
  <2>3. LET a == Graded(reading, turns, said, finish)
        IN  ~ResolvesCacheable(reading, a) \/ ResolvedRow(reading, a).level = "Strong"
    BY <2>2, CutGrades, Zenon
  <2> QED
    BY <2>2, <2>3, Zenon
<1> QED
  BY <1>1, ConversationHolds, PTL

\* The floor the hosts are told is the number of distinct usable paths, five
\* at most, however many calls the reply has and whatever else is in it.
THEOREM FloorsAreCounts == Spec => []FloorIsDistinctPaths
<1>1. ASSUME Conversation PROVE FloorIsDistinctPaths
  <2> SUFFICES ASSUME reading = "parallel_tool_scale"
               PROVE  ParallelFloor(Now) = Min({5, Cardinality(UsablePaths(Accepted, said))})
    BY Zenon DEF FloorIsDistinctPaths
  <2> DEFINE m == Cardinality(UsablePaths(Accepted, said))
             a == ScoreParallel(Accepted, said)
  <2>1. Now = a
    BY DEF Now, Score
  <2>2. said \in Seq(Pieces[reading])
    BY <1>1 DEF Conversation
  <2>3. /\ m \in Nat
        /\ m = 0 => a = IF \E c \in ToSet(said) : c.tool \in Accepted THEN 6 ELSE 0
        /\ m = 1 => a = 12
        /\ m = 2 => a = 24
        /\ m = 3 => a = 36
        /\ m = 4 => a = 48
        /\ m >= 5 => a = 60
    BY <2>2, ParallelScores
  <2> HIDE DEF m, a
  <2>4. m = 0 => a = 6 \/ a = 0
    BY <2>3
  <2>5. m = 0 \/ m = 1 \/ m = 2 \/ m = 3 \/ m = 4 \/ m >= 5
    BY <2>3
  <2>6. ParallelFloor(a) = IF m >= 5 THEN 5 ELSE m
    BY <2>3, <2>4, <2>5 DEF ParallelFloor
  <2>7. Min({5, m}) = IF m >= 5 THEN 5 ELSE m
    <3> DEFINE x == IF m >= 5 THEN 5 ELSE m
    <3>1. x \in {5, m} /\ (\A y \in {5, m} : x <= y)
          /\ \A z \in {5, m} : (\A y \in {5, m} : z <= y) => z = x
      BY <2>3
    <3> HIDE DEF x
    <3>2. Min({5, m}) = x
      BY <3>1, Zenon DEF Min
    <3> QED
      BY <3>2 DEF x
  <2> QED
    BY <2>1, <2>6, <2>7 DEF m
<1> QED
  BY <1>1, ConversationHolds, PTL

LEMMA GradesGrow ==
    ASSUME NEW r \in CallProbes, NEW P, NEW over \in Seq(Seq(P)), NEW calls \in Seq(P), NEW c \in P
    PROVE  LET more == Append(calls, c)
               a == Score(r, over, calls, "Stop")
               b == Score(r, over, more, "Stop")
           IN  /\ b >= a \/ r = "multi_turn_task_sequencing"
               /\ LevelRank(Level(r, more, b)) >= LevelRank(Level(r, calls, a))
<1> DEFINE more == Append(calls, c)
           a == Score(r, over, calls, "Stop")
           b == Score(r, over, more, "Stop")
<1>1. /\ ToSet(calls) \subseteq ToSet(more) /\ more # <<>> /\ more \in Seq(P)
  BY CallsGrow
<1>2. ASSUME r # "tool_selection", a \in 0 .. 60, b \in 0 .. 60, a <= b
      PROVE  b >= a /\ LevelRank(Level(r, more, b)) >= LevelRank(Level(r, calls, a))
  <2>1. Level(r, more, b) = Classify(b) /\ Level(r, calls, a) = Classify(a)
    BY <1>2, Zenon DEF Level
  <2> HIDE DEF a, b
  <2>2. LevelRank(Classify(a)) <= LevelRank(Classify(b))
    BY <1>2, Ranks
  <2> DEFINE x == LevelRank(Classify(a))  y == LevelRank(Classify(b))
  <2>3. x \in Nat /\ y \in Nat
    BY <1>2, RankOf
  <2> HIDE DEF x, y
  <2>4. y >= x
    BY <2>2, <2>3 DEF x, y
  <2>5. b >= a
    BY <1>2
  <2> QED
    BY <2>1, <2>4, <2>5, Zenon DEF x, y
<1>3. CASE r = "tool_calling"
  <2>1. a = ScoreReadFile(calls) /\ b = ScoreReadFile(more)
    BY <1>3 DEF Score
  <2>2. a \in 0 .. 60 /\ b \in 0 .. 60 /\ a <= b
    BY <1>1, <2>1, ReadFileGrows, Zenon
  <2> QED
    BY <1>2, <1>3, <2>2
<1>4. CASE r = "complex_tool_calling"
  <2>1. a = ScoreTwoTools(calls) /\ b = ScoreTwoTools(more)
    BY <1>4 DEF Score
  <2>2. a \in 0 .. 60 /\ b \in 0 .. 60 /\ a <= b
    BY <1>1, <2>1, TwoToolsGrow, Zenon
  <2> QED
    BY <1>2, <1>4, <2>2
<1>5. CASE r = "nested_arguments"
  <2>1. a = ScoreNested(calls) /\ b = ScoreNested(more)
    BY <1>5 DEF Score
  <2>2. a \in 0 .. 60 /\ b \in 0 .. 60 /\ a <= b
    BY <1>1, <2>1, NestedGrows, Zenon
  <2> QED
    BY <1>2, <1>5, <2>2
<1>6. CASE r = "parallel_tool_scale"
  <2>1. a = ScoreParallel(Accepted, calls) /\ b = ScoreParallel(Accepted, more)
    BY <1>6 DEF Score
  <2>2. a \in 0 .. 60 /\ b \in 0 .. 60 /\ a <= b
    BY <1>1, <2>1, ParallelGrows, Zenon
  <2> QED
    BY <1>2, <1>6, <2>2
<1>7. CASE r = "one_shot_tool_plan"
  <2>1. a = ScoreOneShot(calls) /\ b = ScoreOneShot(more)
    BY <1>7 DEF Score
  <2>2. a \in 0 .. 60 /\ b \in 0 .. 60 /\ a <= b
    BY <2>1, OneShotGrows, Zenon
  <2> QED
    BY <1>2, <1>7, <2>2
<1>8. CASE r = "tool_selection"
  <2>1. a = ScoreSelection(calls) /\ b = ScoreSelection(more)
    BY <1>8 DEF Score
  <2>2. a \in 0 .. 60 /\ b \in 0 .. 60 /\ a <= b
        /\ LevelRank(SelectionLevel(calls)) <= LevelRank(SelectionLevel(more))
    BY <1>1, <2>1, SelectionGrows, Zenon
  <2>3. Level(r, more, b) = SelectionLevel(more) /\ Level(r, calls, a) = SelectionLevel(calls)
    BY <1>8, Zenon DEF Level
  <2> DEFINE x == LevelRank(SelectionLevel(calls))  y == LevelRank(SelectionLevel(more))
  <2>4. x \in Nat /\ y \in Nat
    BY DEF LevelRank
  <2> HIDE DEF x, y, a, b
  <2>5. x <= y /\ a \in Int /\ b \in Int /\ a <= b
    BY <2>2 DEF x, y
  <2>6. y >= x /\ b >= a
    BY <2>4, <2>5
  <2> QED
    BY <2>3, <2>6, Zenon DEF x, y, a, b
<1>9. CASE r = "multi_turn_task_sequencing"
  <2>1. a = ScoreChain(Append(over, calls)) /\ b = ScoreChain(Append(over, more))
    BY <1>9 DEF Score
  <2>2. /\ a \in 0 .. 60 /\ b \in 0 .. 60
        /\ LevelRank(Classify(a)) <= LevelRank(Classify(b))
    BY <1>1, <2>1, ChainGrows, Zenon
  <2>3. Level(r, more, b) = Classify(b) /\ Level(r, calls, a) = Classify(a)
    BY <1>9 DEF Level
  <2> DEFINE x == LevelRank(Classify(a))  y == LevelRank(Classify(b))
  <2>4. x \in Nat /\ y \in Nat
    BY DEF LevelRank
  <2> HIDE DEF x, y
  <2>5. y >= x
    BY <2>2, <2>4 DEF x, y
  <2> QED
    BY <1>9, <2>3, <2>5, Zenon DEF x, y
<1> QED
  BY <1>3, <1>4, <1>5, <1>6, <1>7, <1>8, <1>9, Zenon DEF CallProbes

\* A further call in a reply never lowers what the reply is worth, whatever
\* the calls are and however many came before.
THEOREM CallsNeverHurt == Spec => FurtherCallsNeverHurt
<1>1. ASSUME Conversation, [Next]_vars PROVE [MoreCallsNeverHurt]_vars
  <2> SUFFICES ASSUME reading \in CallProbes, Len(said') > Len(said)
               PROVE  /\ Now' >= Now \/ reading = "multi_turn_task_sequencing"
                      /\ LevelRank(Level(reading, said', Now')) >= LevelRank(Level(reading, said, Now))
    BY Zenon DEF MoreCallsNeverHurt
  <2>1. said \in Seq(Pieces[reading]) /\ turns \in Seq(Seq(Pieces[reading]))
    BY <1>1 DEF Conversation
  <2>2. ASSUME NEW piece \in Pieces[reading], Say(piece)
        PROVE  /\ Now' >= Now \/ reading = "multi_turn_task_sequencing"
               /\ LevelRank(Level(reading, said', Now')) >= LevelRank(Level(reading, said, Now))
    <3>1. said' = Append(said, piece) /\ reading' = reading /\ turns' = turns
      BY <2>2, Zenon DEF Say
    <3>2. /\ Now = Score(reading, turns, said, "Stop")
          /\ Now' = Score(reading, turns, Append(said, piece), "Stop")
      BY <3>1 DEF Now
    <3> QED
      BY <2>1, <2>2, <3>1, <3>2, GradesGrow, Zenon
  <2>3. Len(said) \in Nat
    BY <2>1
  <2>4. said' # said /\ said' # <<>>
    BY <2>3
  <2>5. \E piece \in Pieces[reading] : Say(piece)
    BY <1>1, <2>4, Zenon DEF Next, NextTurn, EndProbe, Drop, vars
  <2> QED
    BY <2>2, <2>5
<1> QED
  BY <1>1, ConversationHolds, PTL DEF Spec, FurtherCallsNeverHurt

----------------------------------------------------------------------------
(* The blocks of tags.                                                     *)

\* What holds of a number, and of the next one up to n, holds up to n.
LEMMA UpTo ==
    ASSUME NEW n \in Nat, NEW T, 0 \in T, \A i \in 0 .. (n - 1) : i \in T => i + 1 \in T
    PROVE  \A i \in 0 .. n : i \in T
<1> SUFFICES ASSUME NEW k \in 0 .. n, k \notin T PROVE FALSE
  OBVIOUS
<1> DEFINE out == (0 .. n) \ T
<1>1. out \subseteq Nat /\ out # {}
  OBVIOUS
<1>2. PICK x \in out : \A y \in out : x <= y
  BY <1>1, LeastNat
<1>3. x \in 0 .. n /\ x # 0 /\ x \notin T
  BY <1>2
<1>4. x - 1 \in 0 .. (n - 1) /\ x - 1 \notin out
  BY <1>2, <1>3
<1>5. (x - 1) + 1 \in T
  BY <1>4
<1> QED
  BY <1>3, <1>5

TagStates(P) == [inside : BOOLEAN, span : Seq(P), blocks : Seq(Seq(P))]

\* A piece leaves the blocks alone or adds one behind them.
LEMMA TagTaken ==
    ASSUME NEW P, NEW st \in TagStates(P), NEW p \in P
    PROVE  /\ Text!TakeTag(st, p) \in TagStates(P)
           /\ \/ Text!TakeTag(st, p).blocks = st.blocks
              \/ Text!TakeTag(st, p).blocks = Append(st.blocks, st.span)
<1>1. CASE st.inside /\ p = "close"
  <2>1. Text!TakeTag(st, p) = [inside |-> FALSE, span |-> st.span, blocks |-> Append(st.blocks, st.span)]
    BY <1>1 DEF Text!TakeTag, TagStates
  <2>2. Append(st.blocks, st.span) \in Seq(Seq(P)) /\ st.span \in Seq(P)
    BY DEF TagStates
  <2> QED
    BY <2>1, <2>2 DEF TagStates
<1>2. CASE st.inside /\ p # "close"
  <2>1. Text!TakeTag(st, p) = [inside |-> st.inside, span |-> Append(st.span, p), blocks |-> st.blocks]
    BY <1>2 DEF Text!TakeTag, TagStates
  <2>2. Append(st.span, p) \in Seq(P)
    BY DEF TagStates
  <2> QED
    BY <2>1, <2>2 DEF TagStates
<1>3. CASE ~st.inside /\ p = "open"
  <2>1. Text!TakeTag(st, p) = [inside |-> TRUE, span |-> <<>>, blocks |-> st.blocks]
    BY <1>3 DEF Text!TakeTag, TagStates
  <2> QED
    BY <2>1 DEF TagStates
<1>4. CASE ~st.inside /\ p # "open"
  BY <1>4 DEF Text!TakeTag, TagStates
<1> QED
  BY <1>1, <1>2, <1>3, <1>4

\* What is open before each piece and after the last.
IsReading(R, text) ==
    /\ R[0] = Text!NoTag
    /\ \A i \in 1 .. Len(text) : R[i] = Text!TakeTag(R[i - 1], text[i])

LEMMA SpansByReading ==
    ASSUME NEW P, NEW text \in Seq(P)
    PROVE  \E R : IsReading(R, text) /\ Text!Spans(text) = R[Len(text)]
<1> DEFINE n == Len(text)
           Step(R, i) == IF i = 0 THEN Text!NoTag ELSE Text!TakeTag(R[i - 1], text[i])
           Fits(R, k) == R = [i \in 0 .. k |-> Step(R, i)]
           T == {k \in Nat : \E R : Fits(R, k)}
<1>1. n \in Nat
  OBVIOUS
<1>2. 0 \in T
  <2>1. Fits([i \in 0 .. 0 |-> Text!NoTag], 0)
    OBVIOUS
  <2> QED
    BY <2>1
<1>3. ASSUME NEW k \in 0 .. (n - 1), k \in T PROVE k + 1 \in T
  <2>1. PICK R : Fits(R, k)
    BY <1>3
  <2> DEFINE Q == [i \in 0 .. (k + 1) |-> IF i <= k THEN R[i] ELSE Step(R, k + 1)]
  <2>2. \A i \in 0 .. k : Q[i] = R[i]
    OBVIOUS
  <2>3. \A i \in 0 .. (k + 1) : Step(Q, i) = Step(R, i)
    <3> SUFFICES ASSUME NEW i \in 0 .. (k + 1) PROVE Step(Q, i) = Step(R, i)
      OBVIOUS
    <3>1. CASE i = 0
      BY <3>1
    <3>2. CASE i # 0
      <4>1. i - 1 \in 0 .. k
        BY <3>2
      <4>2. Q[i - 1] = R[i - 1]
        BY <2>2, <4>1
      <4> HIDE DEF Q
      <4> QED
        BY <3>2, <4>2
    <3> QED
      BY <3>1, <3>2
  <2>4. \A i \in 0 .. k : R[i] = Step(R, i)
    <3> HIDE DEF Step
    <3> QED
      BY <2>1
  <2>5. Fits(Q, k + 1)
    <3> HIDE DEF Step
    <3>1. ASSUME NEW i \in 0 .. (k + 1) PROVE (IF i <= k THEN R[i] ELSE Step(R, k + 1)) = Step(Q, i)
      <4>1. CASE i <= k
        BY <2>3, <2>4, <4>1
      <4>2. CASE i = k + 1
        BY <2>3, <4>2
      <4> QED
        BY <4>1, <4>2
    <3> QED
      BY <3>1
  <2>6. k \in Nat /\ k + 1 \in Nat
    BY <1>1, <1>3
  <2>7. \E F : Fits(F, k + 1)
    <3> HIDE DEF Q, Fits
    <3> QED
      BY <2>5
  <2> QED
    <3> HIDE DEF Fits
    <3> QED
      BY <2>6, <2>7
<1>4. \A i \in 0 .. n : i \in T
  <2> HIDE DEF T
  <2> QED
    BY <1>1, <1>2, <1>3, UpTo
<1> DEFINE M == CHOOSE R : Fits(R, n)
<1>5. Fits(M, n)
  <2>1. \E R : Fits(R, n)
    BY <1>1, <1>4
  <2> QED
    BY <2>1, Zenon
<1>6. Text!Spans(text) = M[n]
  BY DEF Text!Spans
<1>7. \A i \in 0 .. n : M[i] = Step(M, i)
  <2> HIDE DEF M, Step
  <2> QED
    BY <1>5
<1>8. IsReading(M, text)
  <2> HIDE DEF M
  <2>1. M[0] = Text!NoTag
    BY <1>1, <1>7
  <2>2. \A i \in 1 .. n : M[i] = Text!TakeTag(M[i - 1], text[i])
    BY <1>1, <1>7
  <2> QED
    BY <2>1, <2>2 DEF IsReading
<1> QED
  BY <1>6, <1>8

\* A further piece is read where the pieces before it have led.
LEMMA SpansGrow ==
    ASSUME NEW P, NEW text \in Seq(P), NEW p \in P
    PROVE  /\ Text!Spans(text) \in TagStates(P)
           /\ Text!Spans(Append(text, p)) = Text!TakeTag(Text!Spans(text), p)
<1> DEFINE n == Len(text)  more == Append(text, p)
<1>1. n \in Nat /\ more \in Seq(P) /\ Len(more) = n + 1 /\ more[n + 1] = p
      /\ \A i \in 1 .. n : more[i] = text[i] /\ text[i] \in P
  OBVIOUS
<1>2. PICK R : IsReading(R, text) /\ Text!Spans(text) = R[n]
  BY SpansByReading
<1>3. PICK Q : IsReading(Q, more) /\ Text!Spans(more) = Q[n + 1]
  BY <1>1, SpansByReading
<1> HIDE DEF more, n
<1> DEFINE T == {i \in Nat : R[i] \in TagStates(P) /\ Q[i] = R[i]}
<1>4. 0 \in T
  <2>1. Text!NoTag \in TagStates(P)
    <3>1. <<>> \in Seq(P) /\ <<>> \in Seq(Seq(P))
      OBVIOUS
    <3> QED
      BY <3>1 DEF TagStates, Text!NoTag
  <2>2. R[0] = Text!NoTag /\ Q[0] = Text!NoTag
    BY <1>2, <1>3 DEF IsReading
  <2> QED
    BY <2>1, <2>2
<1>5. ASSUME NEW i \in 0 .. (n - 1), i \in T PROVE i + 1 \in T
  <2>1. i + 1 \in 1 .. n /\ (i + 1) - 1 = i /\ i + 1 \in Nat /\ i + 1 \in 1 .. (n + 1)
    BY <1>1
  <2>2. R[i + 1] = Text!TakeTag(R[i], text[i + 1])
    BY <1>2, <2>1 DEF IsReading, n
  <2>3. Q[i + 1] = Text!TakeTag(Q[i], more[i + 1])
    BY <1>1, <1>3, <2>1 DEF IsReading
  <2>4. text[i + 1] \in P /\ more[i + 1] = text[i + 1]
    BY <1>1, <2>1
  <2>5. R[i] \in TagStates(P) /\ Q[i] = R[i]
    BY <1>5
  <2>6. R[i + 1] \in TagStates(P)
    BY <2>2, <2>4, <2>5, TagTaken
  <2> QED
    BY <2>1, <2>2, <2>3, <2>4, <2>5, <2>6
<1>6. n \in T
  <2> HIDE DEF T
  <2>1. \A i \in 0 .. n : i \in T
    BY <1>1, <1>4, <1>5, UpTo
  <2> QED
    BY <1>1, <2>1
<1>7. Q[n + 1] = Text!TakeTag(Q[n], p)
  <2>1. n + 1 \in 1 .. Len(more) /\ (n + 1) - 1 = n
    BY <1>1
  <2> QED
    BY <1>1, <1>3, <2>1 DEF IsReading
<1> QED
  BY <1>2, <1>3, <1>6, <1>7 DEF more

RealAt(blocks) == {i \in 1 .. Len(blocks) : Text!RealRead(blocks[i])}
ParsedAt(blocks) == {i \in 1 .. Len(blocks) : Text!Parses(blocks[i])}

LEMMA ParsedBlockIs ==
    ASSUME NEW blocks
    PROVE  LET real == First(RealAt(blocks))
           IN  Text!ParsedBlock(blocks) = blocks[IF real # 0 THEN real ELSE First(ParsedAt(blocks))]
<1>1. First(RealAt(blocks)) =
          IF {i \in 1 .. Len(blocks) : Text!RealRead(blocks[i])} # {}
          THEN Text!Min({i \in 1 .. Len(blocks) : Text!RealRead(blocks[i])}) ELSE 0
  BY Zenon DEF First, RealAt, Min, Text!Min
<1>2. First(ParsedAt(blocks)) =
          IF {i \in 1 .. Len(blocks) : Text!Parses(blocks[i])} # {}
          THEN Text!Min({i \in 1 .. Len(blocks) : Text!Parses(blocks[i])}) ELSE 0
  BY Zenon DEF First, ParsedAt, Min, Text!Min
<1> QED
  BY <1>1, <1>2, Zenon DEF Text!ParsedBlock, Text!SelectInSeq

\* Only a real read has full marks, and it has them.
LEMMA RealReadIsFull ==
    ASSUME NEW span
    PROVE  Text!ScoreParsed(span) = Full <=> Text!RealRead(span)
BY DEF Text!ScoreParsed, Text!RealRead, Text!CardEcho, Text!Full, Full

\* Full marks are for a real read among the blocks.
LEMMA FullIsReal ==
    ASSUME NEW B, NEW blocks \in Seq(B), ParsedAt(blocks) # {}
    PROVE  Text!ScoreParsed(Text!ParsedBlock(blocks)) = Full <=> RealAt(blocks) # {}
<1> DEFINE i == First(RealAt(blocks))  j == First(ParsedAt(blocks))
<1>1. RealAt(blocks) \subseteq Nat \ {0} /\ ParsedAt(blocks) \subseteq Nat \ {0}
  BY DEF RealAt, ParsedAt
<1>2. (i = 0 <=> RealAt(blocks) = {}) /\ (RealAt(blocks) # {} => i \in RealAt(blocks))
  BY <1>1, FirstIsFirst
<1>3. j \in ParsedAt(blocks)
  BY <1>1, FirstIsFirst
<1>4. Text!ParsedBlock(blocks) = blocks[IF i # 0 THEN i ELSE j]
  BY ParsedBlockIs, Zenon
<1> HIDE DEF i, j
<1>5. CASE RealAt(blocks) # {}
  <2>1. i # 0 /\ i \in RealAt(blocks)
    BY <1>2, <1>5
  <2>2. Text!ParsedBlock(blocks) = blocks[i] /\ Text!RealRead(blocks[i])
    BY <1>4, <2>1 DEF RealAt
  <2> QED
    BY <1>5, <2>2, RealReadIsFull
<1>6. CASE RealAt(blocks) = {}
  <2>1. Text!ParsedBlock(blocks) = blocks[j] /\ j \in 1 .. Len(blocks)
    BY <1>2, <1>3, <1>4, <1>6 DEF ParsedAt
  <2>2. ~Text!RealRead(blocks[j])
    BY <1>6, <2>1 DEF RealAt
  <2> QED
    BY <1>6, <2>1, <2>2, RealReadIsFull
<1> QED
  BY <1>5, <1>6

\* What was read for a call stays read, whatever comes behind it.
LEMMA XmlStays ==
    ASSUME NEW P, NEW text \in Seq(P), NEW p \in P, Text!ScoreXml(text) = Full
    PROVE  Text!ScoreXml(Append(text, p)) = Full
<1> DEFINE more == Append(text, p)
           old == Text!Spans(text).blocks  new == Text!Spans(more).blocks
           Opened(t) == Text!Holds(t, "open")
           Closed(t) == Text!Holds(t, "close")
           SomeParsed(t) == \E b \in Text!ToSet(Text!Spans(t).blocks) : Text!Parses(b)
<1>1. \A t : (Opened(t) /\ Closed(t) /\ SomeParsed(t)) =>
                 Text!ScoreXml(t) = Text!ScoreParsed(Text!ParsedBlock(Text!Spans(t).blocks))
  BY Zenon DEF Text!ScoreXml
<1>2. Opened(text) /\ Closed(text) /\ SomeParsed(text)
  BY DEF Text!ScoreXml, Full
<1>3. old \in Seq(Seq(P)) /\ new \in Seq(Seq(P)) /\ (new = old \/ \E b \in Seq(P) : new = Append(old, b))
  <2>1. Text!Spans(text) \in TagStates(P) /\ Text!Spans(more) = Text!TakeTag(Text!Spans(text), p)
    BY SpansGrow
  <2> HIDE DEF more
  <2>2. Text!Spans(more) \in TagStates(P)
        /\ (new = old \/ new = Append(old, Text!Spans(text).span))
    BY <2>1, TagTaken
  <2> QED
    BY <2>1, <2>2 DEF TagStates
<1>4. \A t \in Seq(P) : Text!ToSet(t) = ToSet(t)
  BY DEF Text!ToSet, ToSet
<1>5. \A q : Text!Holds(text, q) => Text!Holds(more, q)
  <2>1. ToSet(text) \subseteq ToSet(more) /\ more \in Seq(P)
    BY CallsGrow
  <2> QED
    BY <1>4, <2>1 DEF Text!Holds
<1> HIDE DEF old, new, more
<1>6. \A blocks \in Seq(Seq(P)) : (\E b \in Text!ToSet(blocks) : Text!Parses(b)) <=> ParsedAt(blocks) # {}
  <2>1. \A blocks \in Seq(Seq(P)) : DOMAIN blocks = 1 .. Len(blocks)
    OBVIOUS
  <2> QED
    BY <2>1, Zenon DEF Text!ToSet, ParsedAt
<1>7. ParsedAt(old) # {} /\ RealAt(old) # {}
  <2>1. ParsedAt(old) # {}
    BY <1>2, <1>3, <1>6 DEF old
  <2>2. Text!ScoreParsed(Text!ParsedBlock(old)) = Full
    BY <1>1, <1>2 DEF old
  <2> QED
    BY <1>3, <2>1, <2>2, FullIsReal
<1>8. ParsedAt(new) # {} /\ RealAt(new) # {}
  <2>1. CASE new = old
    BY <1>7, <2>1
  <2>2. ASSUME NEW b \in Seq(P), new = Append(old, b) PROVE ParsedAt(new) # {} /\ RealAt(new) # {}
    <3>1. \A i \in 1 .. Len(old) : i \in 1 .. Len(new) /\ new[i] = old[i]
      BY <1>3, <2>2
    <3> QED
      BY <1>7, <3>1, Zenon DEF ParsedAt, RealAt
  <2> QED
    BY <1>3, <2>1, <2>2
<1>9. Opened(more) /\ Closed(more) /\ SomeParsed(more)
  BY <1>2, <1>3, <1>5, <1>6, <1>8 DEF new
<1>10. Text!ScoreParsed(Text!ParsedBlock(new)) = Full
  BY <1>3, <1>8, FullIsReal
<1>11. Text!ScoreXml(more) = Text!ScoreParsed(Text!ParsedBlock(new))
  BY <1>1, <1>9 DEF new
<1> QED
  BY <1>10, <1>11 DEF more

----------------------------------------------------------------------------
(* Diffs and SEARCH/REPLACE blocks.                                        *)

\* A further line takes nothing from a diff.
LEMMA DiffStays ==
    ASSUME NEW P, NEW lines \in Seq(P), NEW l \in P, Edit!ScoreDiff(lines) = Full
    PROVE  Edit!ScoreDiff(Append(lines, l)) = Full
<1> DEFINE more == Append(lines, l)
           Headers(t) == Edit!DiffHas(t, {"---", "--- other"}) /\ Edit!DiffHas(t, {"+++"})
           Hunk(t) == Edit!DiffHas(t, {"@@"})
           Changes(t) == /\ Edit!DiffHas(t, {"-old", "-other", "-removed line"})
                         /\ Edit!DiffHas(t, {"+new", "+other", "+added line"})
<1>1. \A kinds : Edit!DiffHas(lines, kinds) => Edit!DiffHas(more, kinds)
  <2>1. ToSet(lines) \subseteq ToSet(more)
    BY CallsGrow
  <2> HIDE DEF more
  <2> QED
    BY <2>1, Zenon DEF Edit!DiffHas, Edit!ToSet, ToSet
<1> HIDE DEF more
<1>2. Headers(lines) /\ Hunk(lines) /\ Changes(lines) /\ Edit!RealEdit(lines)
  <2>1. \/ Headers(lines) /\ Hunk(lines) /\ Changes(lines) /\ Edit!RealEdit(lines)
        \/ Edit!ScoreDiff(lines) = 0
        \/ Edit!ScoreDiff(lines) = 30
    BY Zenon DEF Edit!ScoreDiff
  <2>2. Full # 0 /\ Full # 30
    BY DEF Full
  <2> QED
    BY <2>1, <2>2, Zenon
<1>3. Headers(more) /\ Hunk(more) /\ Changes(more) /\ Edit!RealEdit(more)
  BY <1>1, <1>2, Zenon DEF Edit!RealEdit
<1>4. Edit!ScoreDiff(more) = Edit!Full
  BY <1>3, Zenon DEF Edit!ScoreDiff
<1> QED
  BY <1>4 DEF more, Edit!Full, Full

\* NextLine: the first line of a kind from a position on.
LinesAt(lines, from, kind) == {j \in from .. Len(lines) : lines[j] = kind}

LEMMA NextLineIs ==
    ASSUME NEW P, NEW lines \in Seq(P), NEW from \in Nat, from >= 1, NEW kind
    PROVE  LET next == Edit!NextLine(lines, from, kind)
           IN  /\ next = 0 <=> LinesAt(lines, from, kind) = {}
               /\ next = First(LinesAt(lines, from, kind))
               /\ next = 0 \/ next \in LinesAt(lines, from, kind)
               /\ next \in Nat
<1> DEFINE next == Edit!NextLine(lines, from, kind)
<1>1. next = First(LinesAt(lines, from, kind))
  <2> DEFINE I == LinesAt(lines, from, kind)
  <2>1. next = IF I = {} THEN 0 ELSE Edit!Min(I)
    BY Zenon DEF Edit!NextLine, LinesAt
  <2>2. Edit!Min(I) = Min(I)
    BY Zenon DEF Edit!Min, Min
  <2> HIDE DEF next, I
  <2>3. next = First(I)
    BY <2>1, <2>2 DEF First
  <2> QED
    BY <2>3 DEF I
<1>2. LinesAt(lines, from, kind) \subseteq Nat \ {0}
  BY DEF LinesAt
<1> QED
  BY <1>1, <1>2, FirstIsFirst

\* A line that was found is found in a longer text, and no other.
LEMMA NextLineStays ==
    ASSUME NEW P, NEW lines \in Seq(P), NEW l \in P, NEW from \in Nat, from >= 1, NEW kind,
           Edit!NextLine(lines, from, kind) # 0
    PROVE  Edit!NextLine(Append(lines, l), from, kind) = Edit!NextLine(lines, from, kind)
<1> DEFINE more == Append(lines, l)
           I == LinesAt(lines, from, kind)  J == LinesAt(more, from, kind)
<1>1. /\ more \in Seq(P) /\ Len(more) = Len(lines) + 1 /\ Len(lines) \in Nat
      /\ \A j \in 1 .. Len(lines) : more[j] = lines[j]
  OBVIOUS
<1> HIDE DEF more
<1>2. I # {} /\ Edit!NextLine(lines, from, kind) = First(I) /\ Edit!NextLine(more, from, kind) = First(J)
  BY <1>1, NextLineIs
<1>3. J \subseteq Nat \ {0} /\ I \subseteq J /\ \A j \in J \ I : \A i \in I : i <= j
  BY <1>1 DEF LinesAt
<1>4. First(J) = First(I)
  <2> HIDE DEF I, J
  <2> QED
    BY <1>2, <1>3, FirstStays
<1> QED
  BY <1>2, <1>4 DEF more

\* The separator and the end of a block, from the block's first line and from
\* its separator.
LEMMA SepAfterIs ==
    ASSUME NEW P, NEW lines \in Seq(P), NEW start \in 1 .. Len(lines)
    PROVE  LET sep == Edit!SepAfter(lines, start)
           IN  /\ sep # 0 => sep \in LinesAt(lines, start + 2, "sep")
               /\ sep # 0 => sep < Len(lines)
               /\ sep = 0 => LinesAt(lines, start + 2, "sep") \subseteq {Len(lines)}
<1> DEFINE next == Edit!NextLine(lines, start + 2, "sep")
           sep == Edit!SepAfter(lines, start)
           I == LinesAt(lines, start + 2, "sep")
<1>1. /\ next = 0 <=> I = {}
      /\ next = First(I)
      /\ next = 0 \/ next \in I
      /\ next \in Nat
  <2>1. start + 2 \in Nat /\ start + 2 >= 1
    OBVIOUS
  <2> QED
    BY <2>1, NextLineIs
<1>2. sep = IF next < Len(lines) THEN next ELSE 0
  BY DEF Edit!SepAfter
<1>3. I \subseteq 1 .. Len(lines) /\ Len(lines) \in Nat
  BY DEF LinesAt
<1>4. next # 0 => \A i \in I : next <= i
  <2>1. I \subseteq Nat \ {0}
    BY <1>3
  <2> QED
    BY <1>1, <2>1, FirstIsFirst
<1> HIDE DEF next, sep, I
<1> SUFFICES /\ sep # 0 => sep \in I
             /\ sep # 0 => sep < Len(lines)
             /\ sep = 0 => I \subseteq {Len(lines)}
  BY DEF sep, I
<1>5. CASE next = 0
  BY <1>1, <1>2, <1>5
<1>6. CASE next # 0 /\ next < Len(lines)
  BY <1>1, <1>2, <1>6
<1>7. CASE next # 0 /\ ~(next < Len(lines))
  <2>1. \A i \in I : i = Len(lines)
    BY <1>1, <1>3, <1>4, <1>7
  <2> QED
    BY <1>2, <1>7, <2>1
<1> QED
  BY <1>5, <1>6, <1>7

\* The next block from a line on: its first line, its separator and its end.
StartOf(lines, i) == Edit!NextLine(lines, i, "start")
SepOf(lines, i) == IF StartOf(lines, i) = 0 THEN 0 ELSE Edit!SepAfter(lines, StartOf(lines, i))
EndOf(lines, i) == IF SepOf(lines, i) = 0 THEN 0 ELSE Edit!EndAfter(lines, SepOf(lines, i))

LEMMA MarkersAre ==
    ASSUME NEW P, NEW lines \in Seq(P), NEW i \in 1 .. (Len(lines) + 1)
    PROVE  LET n == Len(lines)
               start == StartOf(lines, i)
               sep == SepOf(lines, i)
               last == EndOf(lines, i)
           IN  /\ start = 0 => LinesAt(lines, i, "start") = {}
               /\ start = 0 => sep = 0
               /\ start # 0 => start \in i .. n
               /\ (start # 0 /\ sep = 0) => LinesAt(lines, start + 2, "sep") \subseteq {n}
               /\ sep # 0 => sep \in (start + 2) .. (n - 1)
               /\ (sep # 0 /\ last = 0) => LinesAt(lines, sep + 2, "end") = {}
               /\ sep = 0 => last = 0
               /\ last # 0 => last \in (sep + 2) .. n
<1> DEFINE n == Len(lines)
           start == StartOf(lines, i)
           sep == SepOf(lines, i)
           last == EndOf(lines, i)
<1>1. n \in Nat /\ i \in Nat /\ i >= 1
  OBVIOUS
<1>2. /\ start = 0 <=> LinesAt(lines, i, "start") = {}
      /\ start # 0 => start \in i .. n
  <2>1. /\ start = 0 <=> LinesAt(lines, i, "start") = {}
        /\ start = 0 \/ start \in LinesAt(lines, i, "start")
    BY <1>1, NextLineIs DEF StartOf
  <2> QED
    BY <2>1 DEF LinesAt
<1>3. start = 0 => sep = 0
  BY DEF SepOf
<1>4. ASSUME start # 0
      PROVE  /\ sep = 0 => LinesAt(lines, start + 2, "sep") \subseteq {n}
             /\ sep # 0 => sep \in (start + 2) .. (n - 1)
  <2>1. start \in 1 .. n /\ sep = Edit!SepAfter(lines, start)
    BY <1>1, <1>2, <1>4 DEF SepOf
  <2>2. /\ sep # 0 => sep \in LinesAt(lines, start + 2, "sep")
        /\ sep # 0 => sep < n
        /\ sep = 0 => LinesAt(lines, start + 2, "sep") \subseteq {n}
    BY <2>1, SepAfterIs
  <2> HIDE DEF start, sep
  <2> QED
    BY <1>1, <2>1, <2>2 DEF LinesAt
<1>5. sep = 0 => last = 0
  BY DEF EndOf
<1>6. ASSUME sep # 0
      PROVE  /\ last = 0 => LinesAt(lines, sep + 2, "end") = {}
             /\ last # 0 => last \in (sep + 2) .. n
  <2>1. last = Edit!NextLine(lines, sep + 2, "end")
    BY <1>6 DEF EndOf, Edit!EndAfter
  <2>2. sep + 2 \in Nat /\ sep + 2 >= 1
    <3>1. start # 0
      BY <1>3, <1>6
    <3>2. start \in i .. n /\ sep \in (start + 2) .. (n - 1)
      BY <1>2, <1>4, <1>6, <3>1
    <3> HIDE DEF start, sep, n
    <3> QED
      BY <1>1, <3>2
  <2>3. /\ last = 0 <=> LinesAt(lines, sep + 2, "end") = {}
        /\ last = 0 \/ last \in LinesAt(lines, sep + 2, "end")
    BY <2>1, <2>2, NextLineIs
  <2> HIDE DEF last, sep
  <2> QED
    BY <2>3 DEF LinesAt
<1> HIDE DEF start, sep, last, n
<1>7. /\ start = 0 => LinesAt(lines, i, "start") = {}
      /\ start = 0 => sep = 0
      /\ start # 0 => start \in i .. n
      /\ (start # 0 /\ sep = 0) => LinesAt(lines, start + 2, "sep") \subseteq {n}
      /\ sep # 0 => sep \in (start + 2) .. (n - 1)
      /\ (sep # 0 /\ last = 0) => LinesAt(lines, sep + 2, "end") = {}
      /\ sep = 0 => last = 0
      /\ last # 0 => last \in (sep + 2) .. n
  BY <1>2, <1>3, <1>4, <1>5, <1>6
<1> QED
  BY <1>7 DEF start, sep, last, n

\* What the search makes of the lines from i on, if f has it of those behind.
BlocksFrom(f, lines, i) ==
    IF StartOf(lines, i) = 0 THEN {}
    ELSE IF SepOf(lines, i) = 0 THEN f[StartOf(lines, i) + 1]
    ELSE IF EndOf(lines, i) = 0 THEN f[SepOf(lines, i) + 1]
    ELSE {Edit!Block(lines, StartOf(lines, i), SepOf(lines, i), EndOf(lines, i))}
             \cup f[EndOf(lines, i) + 1]

\* The search goes forward.
LEMMA SearchGoesOn ==
    ASSUME NEW P, NEW lines \in Seq(P), NEW i \in 1 .. (Len(lines) + 1), NEW f, NEW g,
           \A j \in (i + 1) .. (Len(lines) + 1) : f[j] = g[j]
    PROVE  BlocksFrom(f, lines, i) = BlocksFrom(g, lines, i)
<1> DEFINE n == Len(lines)
           start == StartOf(lines, i)
           sep == SepOf(lines, i)
           last == EndOf(lines, i)
<1>1. /\ start # 0 => start \in i .. n
      /\ sep # 0 => sep \in (start + 2) .. (n - 1)
      /\ last # 0 => last \in (sep + 2) .. n
      /\ start = 0 => sep = 0
      /\ sep = 0 => last = 0
  BY MarkersAre
<1>2. n \in Nat /\ i \in Nat
  OBVIOUS
<1> HIDE DEF start, sep, last, n
<1>3. start # 0 => start + 1 \in (i + 1) .. (n + 1)
  BY <1>1, <1>2
<1>4. sep # 0 => sep + 1 \in (i + 1) .. (n + 1)
  BY <1>1, <1>2
<1>5. last # 0 => last + 1 \in (i + 1) .. (n + 1)
  BY <1>1, <1>2
<1>6. /\ start # 0 => f[start + 1] = g[start + 1]
      /\ sep # 0 => f[sep + 1] = g[sep + 1]
      /\ last # 0 => f[last + 1] = g[last + 1]
  BY <1>3, <1>4, <1>5 DEF n
<1> QED
  BY <1>6, Zenon DEF BlocksFrom, start, sep, last

IsSearch(R, lines) == \A i \in 1 .. (Len(lines) + 1) : R[i] = BlocksFrom(R, lines, i)

LEMMA BlocksBySearch ==
    ASSUME NEW P, NEW lines \in Seq(P)
    PROVE  \E R : IsSearch(R, lines) /\ Edit!ParsedBlocks(lines) = R[1]
<1> DEFINE n == Len(lines)
           Fits(R, k) == R = [i \in (n + 1 - k) .. (n + 1) |-> BlocksFrom(R, lines, i)]
           T == {k \in Nat : \E R : Fits(R, k)}
<1>1. n \in Nat
  OBVIOUS
<1>2. 0 \in T
  <2> DEFINE R == [i \in (n + 1) .. (n + 1) |-> {}]
  <2>1. \A i \in (n + 1) .. (n + 1) : BlocksFrom(R, lines, i) = {}
    <3> SUFFICES ASSUME NEW i \in (n + 1) .. (n + 1) PROVE BlocksFrom(R, lines, i) = {}
      OBVIOUS
    <3>1. i = n + 1 /\ i \in 1 .. (n + 1)
      BY <1>1
    <3>2. StartOf(lines, i) # 0 => StartOf(lines, i) \in i .. n
      BY <3>1, MarkersAre
    <3>3. StartOf(lines, i) = 0
      BY <1>1, <3>1, <3>2
    <3> QED
      BY <3>3, Zenon DEF BlocksFrom
  <2>2. n + 1 - 0 = n + 1
    BY <1>1
  <2>3. R = [i \in (n + 1) .. (n + 1) |-> BlocksFrom(R, lines, i)]
    BY <2>1
  <2>4. Fits(R, 0)
    <3> HIDE DEF R, n
    <3> QED
      BY <2>2, <2>3
  <2> QED
    <3> HIDE DEF R, Fits
    <3> QED
      BY <2>4
<1>3. ASSUME NEW k \in 0 .. (n - 1), k \in T PROVE k + 1 \in T
  <2>1. PICK R : Fits(R, k)
    BY <1>3
  <2> DEFINE d == n + 1 - (k + 1)
             Q == [i \in d .. (n + 1) |-> IF i = d THEN BlocksFrom(R, lines, d) ELSE R[i]]
  <2>2. d \in 1 .. n /\ n + 1 - k = d + 1 /\ k + 1 \in Nat
    BY <1>1, <1>3
  <2> HIDE DEF d, n
  <2>3. \A j \in (d + 1) .. (n + 1) : Q[j] = R[j]
    BY <1>1, <2>2
  <2>4. \A i \in d .. (n + 1) : BlocksFrom(Q, lines, i) = BlocksFrom(R, lines, i)
    <3> SUFFICES ASSUME NEW i \in d .. (n + 1) PROVE BlocksFrom(Q, lines, i) = BlocksFrom(R, lines, i)
      OBVIOUS
    <3>1. i \in 1 .. (n + 1)
      BY <1>1, <2>2
    <3>2. \A j \in (i + 1) .. (n + 1) : j \in (d + 1) .. (n + 1)
      BY <1>1, <2>2
    <3>3. \A j \in (i + 1) .. (n + 1) : Q[j] = R[j]
      BY <2>3, <3>2
    <3> HIDE DEF Q
    <3> QED
      BY <3>1, <3>3, SearchGoesOn DEF n
  <2>5. \A i \in (d + 1) .. (n + 1) : R[i] = BlocksFrom(R, lines, i)
    BY <2>1, <2>2
  <2>6. Q = [i \in d .. (n + 1) |-> BlocksFrom(Q, lines, i)]
    <3>1. ASSUME NEW i \in d .. (n + 1)
          PROVE  (IF i = d THEN BlocksFrom(R, lines, d) ELSE R[i]) = BlocksFrom(Q, lines, i)
      <4>1. CASE i = d
        BY <2>4, <4>1
      <4>2. CASE i # d
        <5>1. i \in (d + 1) .. (n + 1)
          BY <1>1, <2>2, <4>2
        <5> QED
          BY <2>4, <2>5, <4>2, <5>1
      <4> QED
        BY <4>1, <4>2
    <3> QED
      BY <3>1
  <2>7. Fits(Q, k + 1)
    <3> HIDE DEF Q
    <3> QED
      BY <2>6 DEF d
  <2> QED
    <3> HIDE DEF Q, Fits
    <3> QED
      BY <2>2, <2>7
<1>4. \A i \in 0 .. n : i \in T
  <2> HIDE DEF T, n
  <2> QED
    BY <1>1, <1>2, <1>3, UpTo
<1> DEFINE Complete(R) == R = [i \in 1 .. (n + 1) |-> BlocksFrom(R, lines, i)]
           M == CHOOSE R : Complete(R)
<1>5. Complete(M)
  <2>1. PICK R : Fits(R, n)
    BY <1>1, <1>4
  <2>2. n + 1 - n = 1
    BY <1>1
  <2>3. Complete(R)
    <3> HIDE DEF n
    <3> QED
      BY <2>1, <2>2
  <2>4. \E S : Complete(S)
    <3> HIDE DEF Complete
    <3> QED
      BY <2>3
  <2> QED
    BY <2>4, Zenon
<1>6. Edit!ParsedBlocks(lines) = M[1]
  BY DEF Edit!ParsedBlocks, BlocksFrom, StartOf, SepOf, EndOf
<1>7. IsSearch(M, lines)
  <2> HIDE DEF M
  <2> QED
    BY <1>5 DEF IsSearch
<1> QED
  BY <1>6, <1>7

\* What holds of a number if it holds of the greater ones up to n, holds.
LEMMA DownFrom ==
    ASSUME NEW n \in Nat, NEW T, \A i \in 1 .. n : (\A j \in (i + 1) .. n : j \in T) => i \in T
    PROVE  \A i \in 1 .. n : i \in T
<1> SUFFICES ASSUME NEW k \in 1 .. n, k \notin T PROVE FALSE
  OBVIOUS
<1> DEFINE gaps == {m \in 0 .. n : n - m \in 1 .. n /\ n - m \notin T}
<1>1. n - k \in gaps
  <2>1. n - k \in 0 .. n /\ n - (n - k) = k
    OBVIOUS
  <2> QED
    BY <2>1
<1>2. PICK m \in gaps : \A y \in gaps : m <= y
  <2>1. gaps \subseteq Nat /\ gaps # {}
    BY <1>1
  <2> HIDE DEF gaps
  <2> QED
    BY <2>1, LeastNat
<1>3. m \in 0 .. n /\ n - m \in 1 .. n /\ n - m \notin T
  BY <1>2
<1>4. PICK j \in (n - m + 1) .. n : j \notin T
  BY <1>3
<1>5. n - j \in 0 .. n /\ n - (n - j) = j /\ j \in 1 .. n /\ n - j < m
  BY <1>3, <1>4
<1>6. n - j \in gaps
  BY <1>4, <1>5
<1>7. m <= n - j
  BY <1>2, <1>6
<1> QED
  BY <1>3, <1>5, <1>7

\* Without a separator that a line follows, or without an end, there are no
\* further blocks.
Barren(lines, i) ==
    \/ \A j \in (i + 2) .. (Len(lines) - 1) : lines[j] # "sep"
    \/ \A j \in (i + 1) .. Len(lines) : lines[j] # "end"

LEMMA NothingBehind ==
    ASSUME NEW P, NEW lines \in Seq(P), NEW R, IsSearch(R, lines)
    PROVE  \A i \in 1 .. (Len(lines) + 1) : Barren(lines, i) => R[i] = {}
<1> DEFINE n == Len(lines)
           T == {i \in 1 .. (n + 1) : Barren(lines, i) => R[i] = {}}
<1>1. n \in Nat /\ n + 1 \in Nat
  OBVIOUS
<1>2. ASSUME NEW i \in 1 .. (n + 1), \A j \in (i + 1) .. (n + 1) : j \in T, Barren(lines, i)
      PROVE  R[i] = {}
  <2> DEFINE start == StartOf(lines, i)
             sep == SepOf(lines, i)
             last == EndOf(lines, i)
  <2>1. /\ start # 0 => start \in i .. n
        /\ sep # 0 => sep \in (start + 2) .. (n - 1)
        /\ last # 0 => last \in (sep + 2) .. n
        /\ start = 0 => sep = 0
        /\ sep = 0 => last = 0
    BY MarkersAre
  <2>2. R[i] = BlocksFrom(R, lines, i)
    BY DEF IsSearch
  <2>3. \A j \in (i + 1) .. (n + 1) : Barren(lines, j)
    <3> SUFFICES ASSUME NEW j \in (i + 1) .. (n + 1) PROVE Barren(lines, j)
      OBVIOUS
    <3>1. /\ \A k \in (j + 2) .. (n - 1) : k \in (i + 2) .. (n - 1)
          /\ \A k \in (j + 1) .. n : k \in (i + 1) .. n
      BY <1>1
    <3> QED
      BY <1>2, <3>1 DEF Barren
  <2>4. \A j \in (i + 1) .. (n + 1) : R[j] = {}
    BY <1>2, <2>3
  <2>5. CASE start = 0
    BY <2>2, <2>5, Zenon DEF BlocksFrom
  <2>6. CASE start # 0 /\ sep = 0
    <3>1. R[i] = R[start + 1]
      BY <2>2, <2>6, Zenon DEF BlocksFrom
    <3> HIDE DEF start, sep, last, T
    <3>2. start + 1 \in (i + 1) .. (n + 1)
      BY <1>1, <2>1, <2>6
    <3> QED
      BY <2>4, <3>1, <3>2
  <2>7. CASE sep # 0 /\ last = 0
    <3>1. R[i] = R[sep + 1]
      BY <2>1, <2>2, <2>7, Zenon DEF BlocksFrom
    <3> HIDE DEF start, sep, last, T
    <3>2. sep + 1 \in (i + 1) .. (n + 1)
      BY <1>1, <2>1, <2>7
    <3> QED
      BY <2>4, <3>1, <3>2
  <2>8. CASE last # 0
    <3>1. start # 0 /\ sep # 0
      BY <2>1, <2>8
    <3>2. lines[sep] = "sep" /\ lines[last] = "end"
      <4>1. sep = Edit!SepAfter(lines, start) /\ start \in 1 .. n
        BY <1>1, <2>1, <3>1 DEF SepOf
      <4>2. sep \in LinesAt(lines, start + 2, "sep")
        BY <3>1, <4>1, SepAfterIs
      <4>3. last = Edit!NextLine(lines, sep + 2, "end")
        BY <3>1 DEF EndOf, Edit!EndAfter
      <4>4. sep + 2 \in Nat /\ sep + 2 >= 1
        BY <4>1, <4>2 DEF LinesAt
      <4>5. last \in LinesAt(lines, sep + 2, "end")
        BY <2>8, <4>3, <4>4, NextLineIs
      <4> QED
        BY <4>2, <4>5 DEF LinesAt
    <3> HIDE DEF start, sep, last, T
    <3>3. sep \in (i + 2) .. (n - 1) /\ last \in (i + 1) .. n
      BY <1>1, <2>1, <2>8, <3>1
    <3> QED
      BY <1>2, <3>2, <3>3 DEF Barren
  <2> QED
    BY <2>1, <2>5, <2>6, <2>7, <2>8
<1>3. \A i \in 1 .. (n + 1) : (\A j \in (i + 1) .. (n + 1) : j \in T) => i \in T
  BY <1>2
<1>4. \A i \in 1 .. (n + 1) : i \in T
  <2> HIDE DEF T, n
  <2> QED
    BY <1>1, <1>3, DownFrom
<1> QED
  BY <1>4

\* A block is read from its own lines and those above it.
LEMMA BlockIsLocal ==
    ASSUME NEW P, NEW lines \in Seq(P), NEW l \in P,
           NEW start \in 1 .. Len(lines), NEW sep \in (start + 1) .. Len(lines),
           NEW last \in (sep + 1) .. Len(lines)
    PROVE  Edit!Block(Append(lines, l), start, sep, last) = Edit!Block(lines, start, sep, last)
<1> DEFINE more == Append(lines, l)  n == Len(lines)
<1>1. /\ more \in Seq(P) /\ Len(more) = n + 1 /\ n \in Nat
      /\ \A j \in 1 .. n : more[j] = lines[j]
  OBVIOUS
<1>2. SubSeq(more, start + 1, sep - 1) = SubSeq(lines, start + 1, sep - 1)
  OBVIOUS
<1>3. SubSeq(more, sep + 1, last - 1) = SubSeq(lines, sep + 1, last - 1)
  OBVIOUS
<1> DEFINE above(t) == {j \in 1 .. (start - 1) : t[j] \in Edit!Paths}
           top(t) == Edit!Max(above(t))
<1>4. above(more) = above(lines)
  <2>1. \A j \in 1 .. (start - 1) : more[j] = lines[j]
    <3>1. \A j \in 1 .. (start - 1) : j \in 1 .. n
      BY <1>1
    <3> QED
      BY <1>1, <3>1
  <2> HIDE DEF more
  <2> QED
    BY <2>1
<1>5. above(lines) # {} => top(lines) \in 1 .. n
  <2> SUFFICES ASSUME above(lines) # {} PROVE top(lines) \in 1 .. n
    OBVIOUS
  <2>1. above(lines) \subseteq 0 .. n /\ above(lines) \subseteq 1 .. n
    BY <1>1
  <2> DEFINE S == above(lines)
  <2> HIDE DEF S, n
  <2>2. PICK x \in S : \A y \in S : x >= y
    <3>1. S \subseteq 0 .. n /\ S # {}
      BY <2>1 DEF S
    <3> QED
      BY <1>1, <3>1, TopOf
  <2>3. Edit!Max(S) \in S
    BY <2>2, Zenon DEF Edit!Max
  <2> QED
    BY <2>1, <2>3 DEF S
<1>6. Edit!PathAbove(more, start) = Edit!PathAbove(lines, start)
  <2>1. \A t : Edit!PathAbove(t, start) = IF above(t) = {} THEN "none" ELSE t[top(t)]
    BY Zenon DEF Edit!PathAbove
  <2>2. above(lines) # {} => more[top(lines)] = lines[top(lines)]
    <3> HIDE DEF more, above, top
    <3> QED
      BY <1>1, <1>5
  <2>3. top(more) = top(lines)
    <3> HIDE DEF above
    <3> QED
      BY <1>4
  <2> HIDE DEF more, above, top
  <2> QED
    BY <1>4, <2>1, <2>2, <2>3
<1> HIDE DEF more
<1> QED
  BY <1>2, <1>3, <1>6, Zenon DEF Edit!Block, more

\* The blocks of a reply are blocks of whatever it goes on to be.
LEMMA BlocksGrow ==
    ASSUME NEW P, NEW lines \in Seq(P), NEW l \in P
    PROVE  Edit!ParsedBlocks(lines) \subseteq Edit!ParsedBlocks(Append(lines, l))
<1> DEFINE more == Append(lines, l)  n == Len(lines)
<1>1. more \in Seq(P) /\ Len(more) = n + 1 /\ n \in Nat
  OBVIOUS
<1>2. PICK F : IsSearch(F, lines) /\ Edit!ParsedBlocks(lines) = F[1]
  BY BlocksBySearch
<1> HIDE DEF more
<1>3. PICK G : IsSearch(G, more) /\ Edit!ParsedBlocks(more) = G[1]
  BY <1>1, BlocksBySearch
<1> DEFINE T == {i \in 1 .. (n + 1) : F[i] \subseteq G[i]}
<1>4. ASSUME NEW i \in 1 .. (n + 1), \A j \in (i + 1) .. (n + 1) : j \in T
      PROVE  F[i] \subseteq G[i]
  <2> DEFINE start == StartOf(lines, i)
             sep == SepOf(lines, i)
             last == EndOf(lines, i)
  <2>1. /\ start # 0 => start \in i .. n
        /\ sep # 0 => sep \in (start + 2) .. (n - 1)
        /\ last # 0 => last \in (sep + 2) .. n
        /\ start = 0 => sep = 0
        /\ sep = 0 => last = 0
        /\ (start # 0 /\ sep = 0) => LinesAt(lines, start + 2, "sep") \subseteq {n}
        /\ (sep # 0 /\ last = 0) => LinesAt(lines, sep + 2, "end") = {}
    BY MarkersAre
  <2>2. F[i] = BlocksFrom(F, lines, i)
    BY <1>2 DEF IsSearch
  <2>3. CASE start = 0
    BY <2>2, <2>3, Zenon DEF BlocksFrom
  <2>4. CASE start # 0 /\ sep = 0
    <3>1. F[i] = F[start + 1]
      BY <2>2, <2>4, Zenon DEF BlocksFrom
    <3> HIDE DEF start, sep, last, T
    <3>2. start + 1 \in 1 .. (n + 1)
      BY <1>1, <2>1, <2>4
    <3>3. Barren(lines, start + 1)
      <4>1. LinesAt(lines, start + 2, "sep") \subseteq {n}
        BY <2>1, <2>4
      <4>2. start \in 1 .. n
        BY <1>1, <2>1, <2>4
      <4>3. \A j \in (start + 1 + 2) .. (n - 1) : j \in (start + 2) .. n /\ j # n
        BY <1>1, <4>2
      <4>4. \A j \in (start + 1 + 2) .. (n - 1) : lines[j] # "sep"
        BY <4>1, <4>3, Zenon DEF LinesAt, n
      <4> QED
        BY <4>4, Zenon DEF Barren, n
    <3> QED
      BY <1>2, <3>1, <3>2, <3>3, NothingBehind
  <2>5. CASE sep # 0 /\ last = 0
    <3>1. F[i] = F[sep + 1]
      BY <2>1, <2>2, <2>5, Zenon DEF BlocksFrom
    <3> HIDE DEF start, sep, last, T
    <3>2. sep + 1 \in 1 .. (n + 1)
      BY <1>1, <2>1, <2>5
    <3>3. Barren(lines, sep + 1)
      <4>1. LinesAt(lines, sep + 2, "end") = {}
        BY <2>1, <2>5
      <4>2. sep + 1 + 1 = sep + 2
        BY <1>1, <2>1, <2>5
      <4>3. \A j \in (sep + 1 + 1) .. n : lines[j] # "end"
        BY <4>1, <4>2, Zenon DEF LinesAt, n
      <4> QED
        BY <4>3, Zenon DEF Barren, n
    <3> QED
      BY <1>2, <3>1, <3>2, <3>3, NothingBehind
  <2>6. CASE last # 0
    <3>1. start # 0 /\ sep # 0
      BY <2>1, <2>6
    <3>2. StartOf(more, i) = start
      <4>1. i \in Nat /\ i >= 1
        BY <1>1
      <4> QED
        BY <3>1, <4>1, NextLineStays DEF StartOf, more
    <3>3. SepOf(more, i) = sep
      <4> DEFINE next == Edit!NextLine(lines, start + 2, "sep")
      <4>1. sep = IF next < n THEN next ELSE 0
        BY <3>1 DEF SepOf, Edit!SepAfter
      <4>2. SepOf(more, i) = Edit!SepAfter(more, start)
        BY <3>1, <3>2, Zenon DEF SepOf
      <4>3. start + 2 \in Nat /\ start + 2 >= 1
        <5> HIDE DEF start
        <5> QED
          BY <1>1, <2>1, <3>1
      <4>4. next # 0 /\ next < n /\ next = sep
        <5> HIDE DEF next, sep, n
        <5> QED
          BY <3>1, <4>1
      <4>5. Edit!NextLine(more, start + 2, "sep") = next
        BY <4>3, <4>4, NextLineStays DEF more
      <4>6. SepOf(more, i) = IF next < n + 1 THEN next ELSE 0
        BY <1>1, <4>2, <4>5 DEF Edit!SepAfter
      <4>7. next \in Nat
        BY <4>3, NextLineIs
      <4> HIDE DEF next, sep, n
      <4> QED
        BY <1>1, <4>4, <4>6, <4>7
    <3>4. EndOf(more, i) = last
      <4>1. last = Edit!NextLine(lines, sep + 2, "end")
        BY <3>1 DEF EndOf, Edit!EndAfter
      <4>2. EndOf(more, i) = Edit!NextLine(more, sep + 2, "end")
        BY <3>1, <3>3, Zenon DEF EndOf, Edit!EndAfter
      <4>3. sep + 2 \in Nat /\ sep + 2 >= 1
        <5> HIDE DEF start, sep
        <5> QED
          BY <1>1, <2>1, <3>1
      <4> QED
        BY <2>6, <4>1, <4>2, <4>3, NextLineStays DEF more
    <3>5. F[i] = {Edit!Block(lines, start, sep, last)} \cup F[last + 1]
      BY <2>2, <2>6, <3>1, Zenon DEF BlocksFrom
    <3>6. G[i] = {Edit!Block(more, start, sep, last)} \cup G[last + 1]
      <4>1. i \in 1 .. (Len(more) + 1)
        BY <1>1
      <4>2. G[i] = BlocksFrom(G, more, i)
        BY <1>3, <4>1 DEF IsSearch
      <4> HIDE DEF start, sep, last
      <4> QED
        BY <2>6, <3>1, <3>2, <3>3, <3>4, <4>2, Zenon DEF BlocksFrom
    <3> HIDE DEF start, sep, last
    <3>7. Edit!Block(more, start, sep, last) = Edit!Block(lines, start, sep, last)
      <4>1. start \in 1 .. n /\ sep \in (start + 1) .. n /\ last \in (sep + 1) .. n
        BY <1>1, <2>1, <2>6, <3>1
      <4> QED
        BY <4>1, BlockIsLocal DEF more
    <3>8. last + 1 \in (i + 1) .. (n + 1)
      BY <1>1, <2>1, <2>6, <3>1
    <3>9. F[last + 1] \subseteq G[last + 1]
      BY <1>4, <3>8
    <3> HIDE DEF T, n
    <3> QED
      BY <3>5, <3>6, <3>7, <3>9
  <2> QED
    BY <2>1, <2>3, <2>4, <2>5, <2>6
<1>5. \A i \in 1 .. (n + 1) : (\A j \in (i + 1) .. (n + 1) : j \in T) => i \in T
  BY <1>4
<1>6. \A i \in 1 .. (n + 1) : i \in T
  <2>1. n + 1 \in Nat
    BY <1>1
  <2> HIDE DEF T, n
  <2> QED
    BY <1>5, <2>1, DownFrom
<1>7. 1 \in 1 .. (n + 1)
  BY <1>1
<1> QED
  BY <1>2, <1>3, <1>6, <1>7 DEF more

LEMMA WholeGrows ==
    ASSUME NEW S, NEW T, S \subseteq T, Edit!WholeOld(S)
    PROVE  Edit!WholeOld(T)
BY DEF Edit!WholeOld

\* Shared blocks stay shared.
LEMMA SharedGrows ==
    ASSUME NEW B, NEW C, B \subseteq C, Edit!EditIsShared(B)
    PROVE  Edit!EditIsShared(C)
<1>1. UNION {b.search : b \in B} \subseteq UNION {b.search : b \in C}
  BY Zenon
<1>2. Edit!WholeOld(UNION {b.search : b \in C})
  BY <1>1, WholeGrows, Zenon DEF Edit!EditIsShared
<1> QED
  BY <1>2, Zenon DEF Edit!EditIsShared

\* Full marks are for an edit that the blocks share; one block with all of it
\* is such an edit.
LEMMA FullIsShared ==
    ASSUME NEW lines
    PROVE  Edit!ScoreSearchReplace(lines) = Full <=>
               /\ \A m \in {"start", "sep", "end"} : Edit!Holds(lines, m)
               /\ Edit!EditIsShared(Edit!ParsedBlocks(lines))
<1> DEFINE blocks == Edit!ParsedBlocks(lines)
           All == {"start", "sep", "end"}
           markers == {m \in All : Edit!Holds(lines, m)}
           S == {24} \cup {Edit!ScoreBlock(b) : b \in blocks}
           score == Edit!ScoreSearchReplace(lines)
<1>1. markers = All <=> \A m \in All : Edit!Holds(lines, m)
  OBVIOUS
<1>2. /\ (markers = All /\ Edit!EditIsShared(blocks)) => score = Full
      /\ (markers = All /\ ~Edit!EditIsShared(blocks)) => score = Edit!Max(S)
      /\ markers # All => score \in {0, 24}
  <2>1. score = IF markers = All
                THEN IF Edit!EditIsShared(blocks) THEN Full ELSE Edit!Max(S)
                ELSE IF markers \cap {"start", "end"} # {} THEN 24 ELSE 0
    BY Zenon DEF Edit!ScoreSearchReplace, Edit!Full, Full
  <2> HIDE DEF markers, All, S, score, blocks
  <2> QED
    BY <2>1, Zenon
<1>3. ASSUME Edit!Max(S) = Full PROVE Edit!EditIsShared(blocks)
  <2>1. \A b : Edit!ScoreBlock(b) \in {24, 42, Full}
    BY DEF Edit!ScoreBlock, Edit!Full, Full
  <2>2. S \subseteq 0 .. 60 /\ S # {} /\ 60 \in Nat
    BY <2>1 DEF Full
  <2>3. Edit!Max(S) \in S
    <3> HIDE DEF S
    <3>1. PICK x \in S : \A y \in S : x >= y
      BY <2>2, TopOf
    <3> QED
      BY <3>1, Zenon DEF Edit!Max
  <2>4. PICK b \in blocks : Edit!ScoreBlock(b) = Full
    <3>1. Full # 24
      BY DEF Full
    <3> HIDE DEF blocks
    <3> QED
      BY <1>3, <2>3, <3>1
  <2>5. b.path = "path" /\ Edit!HasOld(b) /\ Edit!HasNew(b)
    BY <2>4 DEF Edit!ScoreBlock, Edit!Full, Full
  <2>6. b.search \subseteq UNION {c.search : c \in blocks}
    <3> HIDE DEF blocks
    <3> QED
      BY Zenon
  <2>7. Edit!WholeOld(UNION {c.search : c \in blocks})
    BY <2>5, <2>6, WholeGrows, Zenon DEF Edit!HasOld
  <2> HIDE DEF blocks
  <2> QED
    BY <2>5, <2>7, Zenon DEF Edit!EditIsShared
<1>4. Full \notin {0, 24}
  BY DEF Full
<1> HIDE DEF S, score, markers, blocks, All
<1>5. score = Full <=> (markers = All /\ Edit!EditIsShared(blocks))
  BY <1>2, <1>3, <1>4
<1> QED
  BY <1>1, <1>5, Zenon DEF score, blocks, All

LEMMA SearchReplaceStays ==
    ASSUME NEW P, NEW lines \in Seq(P), NEW l \in P, Edit!ScoreSearchReplace(lines) = Full
    PROVE  Edit!ScoreSearchReplace(Append(lines, l)) = Full
<1> DEFINE more == Append(lines, l)
<1>1. \A m : Edit!Holds(lines, m) => Edit!Holds(more, m)
  <2>1. ToSet(lines) \subseteq ToSet(more)
    BY CallsGrow
  <2> HIDE DEF more
  <2> QED
    BY <2>1, Zenon DEF Edit!Holds, Edit!ToSet, ToSet
<1>2. Edit!ParsedBlocks(lines) \subseteq Edit!ParsedBlocks(more)
  BY BlocksGrow
<1> HIDE DEF more
<1>3. /\ \A m \in {"start", "sep", "end"} : Edit!Holds(lines, m)
      /\ Edit!EditIsShared(Edit!ParsedBlocks(lines))
  BY FullIsShared, Zenon
<1>4. Edit!EditIsShared(Edit!ParsedBlocks(more))
  BY <1>2, <1>3, SharedGrows, Zenon
<1>5. \A m \in {"start", "sep", "end"} : Edit!Holds(more, m)
  BY <1>1, <1>3, Zenon
<1>6. Edit!ScoreSearchReplace(more) = Full
  BY <1>4, <1>5, FullIsShared, Zenon
<1> QED
  BY <1>6 DEF more

----------------------------------------------------------------------------
(* Going on.                                                               *)

\* Full marks stay.  A grader of calls gives none above, so that not losing
\* any is enough; the chain is only promised its level, but has no other
\* score on the top one.
LEMMA FullStays ==
    ASSUME NEW r \in Monotone, NEW P, NEW over \in Seq(Seq(P)), NEW reply \in Seq(P), NEW p \in P,
           Score(r, over, reply, "Stop") = Full
    PROVE  Score(r, over, Append(reply, p), "Stop") = Full
<1> DEFINE more == Append(reply, p)
           a == Score(r, over, reply, "Stop")
           b == Score(r, over, more, "Stop")
<1>1. more \in Seq(P)
  BY CallsGrow
<1>2. CASE r = "xml_tool_calling"
  BY <1>2, XmlStays DEF Score
<1>3. CASE r = "search_replace"
  BY <1>3, SearchReplaceStays DEF Score
<1>4. CASE r = "unified_diff"
  BY <1>4, DiffStays DEF Score
<1>5. CASE r \in CallProbes /\ r # "multi_turn_task_sequencing"
  <2>1. b >= a
    BY <1>5, GradesGrow
  <2>2. b \in 0 .. 60
    BY <1>1, <1>5, CallScoresAreNumbers
  <2> HIDE DEF b, more
  <2>3. a = 60
    BY DEF Full
  <2>4. b = 60
    BY <2>1, <2>2, <2>3
  <2> QED
    BY <2>4 DEF b, more, Full
<1>6. CASE r = "multi_turn_task_sequencing"
  <2>1. r \in CallProbes /\ b \in 0 .. 60
    BY <1>1, <1>6, CallScoresAreNumbers DEF CallProbes
  <2>2. LevelRank(Level(r, more, b)) >= LevelRank(Level(r, reply, a))
    BY <2>1, GradesGrow
  <2>3. Level(r, more, b) = Classify(b) /\ Level(r, reply, a) = Classify(a)
    BY <1>6 DEF Level
  <2>4. b \in {0, 18, 30, 42, 60}
    <3>1. b = ScoreChain(Append(over, more))
      BY <1>6 DEF Score
    <3>2. \A ts : ScoreChain(ts) \in {0, 18, 30, 42, 60}
      BY DEF ScoreChain, Half, Full
    <3> QED
      BY <3>1, <3>2
  <2> HIDE DEF b, more
  <2>5. a = 60
    BY DEF Full
  <2>6. LevelRank(Classify(b)) >= LevelRank(Classify(60))
    BY <2>2, <2>3, <2>5
  <2>7. b >= 48
    BY <2>4, <2>6, RankOf
  <2> QED
    BY <2>4, <2>7 DEF b, more, Full
<1> QED
  BY <1>2, <1>3, <1>4, <1>5, <1>6 DEF Monotone

\* A cut reply with full marks may be taken for complete: nothing the model
\* could have gone on to say lowers them, for any pieces and at any length.
THEOREM FullMarksStay == Spec => MoreNeverHurts
<1>1. ASSUME Conversation, [Next]_vars PROVE [CutScoresAreFinal]_vars
  <2> SUFFICES ASSUME reading \in Monotone, Len(said') > Len(said), Now = Full
               PROVE  Now' = Full
    BY Zenon DEF CutScoresAreFinal
  <2>1. said \in Seq(Pieces[reading]) /\ turns \in Seq(Seq(Pieces[reading]))
    BY <1>1 DEF Conversation
  <2>2. ASSUME NEW piece \in Pieces[reading], Say(piece) PROVE Now' = Full
    <3>1. said' = Append(said, piece) /\ reading' = reading /\ turns' = turns
      BY <2>2, Zenon DEF Say
    <3>2. /\ Now = Score(reading, turns, said, "Stop")
          /\ Now' = Score(reading, turns, Append(said, piece), "Stop")
      BY <3>1 DEF Now
    <3> QED
      BY <2>1, <2>2, <3>1, <3>2, FullStays, Zenon
  <2>3. Len(said) \in Nat
    BY <2>1
  <2>4. said' # said /\ said' # <<>>
    BY <2>3
  <2>5. \E piece \in Pieces[reading] : Say(piece)
    BY <1>1, <2>4, Zenon DEF Next, NextTurn, EndProbe, Drop, vars
  <2> QED
    BY <2>2, <2>5
<1> QED
  BY <1>1, ConversationHolds, PTL DEF Spec, MoreNeverHurts
=============================================================================
