------------------------- MODULE ProbeCommandProofs -------------------------
(***************************************************************************)
(* Theorems about the commands that read the cache: ProbeCommand, what a   *)
(* command prints from it, for any requests, catalogs, caches and number   *)
(* of processes; and MatrixTable, the table that canact matrix makes of    *)
(* it, for any rows, clock and families.                                   *)
(***************************************************************************)
EXTENDS ProbeCommand, MatrixTable, FiniteSetTheorems, TLAPS

\* A set of naturals that is not empty has a least element.
LEMMA LeastNat ==
    ASSUME NEW T, T \subseteq Nat, T # {}
    PROVE  \E x \in T : \A y \in T : x <= y
<1>1. ASSUME NEW R, IsWellFoundedOn(R, Nat), \A x, y \in Nat : y < x => <<y, x>> \in R
      PROVE  \E x \in T : \A y \in T : x <= y
  <2>1. PICK x \in T : \A y \in T : ~(<<y, x>> \in R)
    BY <1>1, WFMin
  <2>2. ASSUME NEW y \in T PROVE x <= y
    <3>1. x \in Nat /\ y \in Nat /\ ~(<<y, x>> \in R)
      BY <2>1
    <3>2. ~(y < x)
      BY <1>1, <3>1, Zenon
    <3> QED
      BY <3>1, <3>2
  <2> QED
    BY <2>2
<1> DEFINE R == OpToRel(<, Nat)
<1>2. IsWellFoundedOn(R, Nat)
  BY NatLessThanWellFounded
<1>3. \A x, y \in Nat : y < x => <<y, x>> \in R
  BY DEF OpToRel
<1> HIDE DEF R
<1> QED
  BY <1>1, <1>2, <1>3

----------------------------------------------------------------------------
(* The lookups.                                                            *)

\* Two model ids that models_equivalent takes for one, under labels of one
\* family, have one name and only prefixes of that family.
LEMMA SameCardIsOneCard ==
    ASSUME NEW k, k.model \in Models, k.label \in Labels,
           NEW q, q.model \in Models, q.label \in Labels,
           SameCard(k, q)
    PROVE  OneCard(k, q)
<1> DEFINE own == {q.label, Family[q.label], k.label, Family[k.label]}
<1>1. Family[k.label] = Family[q.label]
  BY DEF SameCard
<1>2. \A prefix \in own \cap Labels : Family[prefix] = Family[k.label]
  BY <1>1, FamilyAssumption
<1>3. CASE k.model = q.model
  BY <1>1, <1>3 DEF OneCard
<1>4. CASE k.model # q.model
  <2>1. Stripped(k.model, q.label, k.label) = Stripped(q.model, q.label, k.label)
    BY <1>4 DEF SameCard, SameModel
  <2>2. \A model \in Models :
          /\ Stripped(model, q.label, k.label).name = model.name
          /\ model.prefix \subseteq own
               => Stripped(model, q.label, k.label).prefix = {}
          /\ ~(model.prefix \subseteq own)
               => Stripped(model, q.label, k.label).prefix = model.prefix
    BY DEF Stripped, Models
  <2>3. k.model.name = q.model.name
    BY <2>1, <2>2
  <2>4. k.model.prefix # q.model.prefix =>
          k.model.prefix \subseteq own /\ q.model.prefix \subseteq own
    <3> SUFFICES ASSUME k.model.prefix # q.model.prefix
                 PROVE  k.model.prefix \subseteq own /\ q.model.prefix \subseteq own
      OBVIOUS
    <3> DEFINE bareK == Stripped(k.model, q.label, k.label).prefix
               bareQ == Stripped(q.model, q.label, k.label).prefix
    <3>1. bareK = bareQ
      BY <2>1
    <3>2. /\ k.model.prefix \subseteq own => bareK = {}
          /\ ~(k.model.prefix \subseteq own) => bareK = k.model.prefix
          /\ q.model.prefix \subseteq own => bareQ = {}
          /\ ~(q.model.prefix \subseteq own) => bareQ = q.model.prefix
      BY <2>2
    <3>3. {} \subseteq own
      OBVIOUS
    <3> HIDE DEF bareK, bareQ, own
    <3> QED
      BY <3>1, <3>2, <3>3
  <2>5. k.model.prefix \subseteq Labels /\ q.model.prefix \subseteq Labels
    BY DEF Models, AtMostOne
  <2> QED
    BY <1>1, <1>2, <2>3, <2>4, <2>5 DEF OneCard
<1> QED
  BY <1>3, <1>4

\* What the newest of several rows is: one of them.
LEMMA NewestIsOne ==
    ASSUME NEW rows, NEW q
    PROVE  Newest(rows) \subseteq rows /\ NewestExactFirst(rows, q) \subseteq rows
BY DEF Newest, NewestExactFirst

\* get_with_suite_tools returns a valid row of the card with the very knobs.
LEMMA GetFits ==
    ASSUME NEW cache, NEW q, q.current, NEW t, NEW row \in GetWithSuiteTools(cache, q, t)
    PROVE  /\ row \in cache /\ Eligible(row, q, t) /\ KnobsMatch(row.key, q)
           /\ row.key.tools = q.tools
<1>1. CASE row.key = q
  <2>1. row \in cache /\ Valid(row, t)
    BY NewestIsOne DEF GetWithSuiteTools, Eligible
  <2> QED
    BY <1>1, <2>1 DEF Eligible, SameCard, SameModel, KnobsMatch
<1>2. CASE row.key # q
  <2>1. row \in Newest({r \in cache : /\ Eligible(r, q, t) /\ KnobsMatch(r.key, q)
                                      /\ r.key.tools = q.tools})
    BY <1>2 DEF GetWithSuiteTools
  <2> QED
    BY <2>1, NewestIsOne
<1> QED
  BY <1>1, <1>2

\* find_profile_with_cost_and_advertised returns a valid row of the card that
\* was measured under the window, and its tier.
LEMMA WindowRowFits ==
    ASSUME NEW cache, NEW q \in CardKeys, q.current, NEW t,
           NEW a \in FindWithCostAndAdvertised(cache, q, t)
    PROVE  /\ a.row \in cache /\ Eligible(a.row, q, t) /\ a.row.key.tools = "builtin"
           /\ a.row.key.ctx = q.ctx /\ a.suite = a.row.key.suite
<1> DEFINE default == [q EXCEPT !.suite = "full", !.vision = FALSE, !.tools = "builtin"]
           anyTier == {r \in cache : /\ Eligible(r, q, t) /\ r.key.ctx = q.ctx
                                     /\ r.key.tools = "builtin"}
<1>1. CASE GetWithSuiteTools(cache, default, t) # {}
  <2>1. PICK row \in GetWithSuiteTools(cache, default, t) :
          a = [row |-> row, suite |-> "full"]
    BY <1>1 DEF FindWithCostAndAdvertised
  <2>2. /\ default.current /\ default.model = q.model /\ default.label = q.label
        /\ default.suite = "full" /\ default.ctx = q.ctx /\ default.tools = "builtin"
    BY DEF CardKeys
  <2> HIDE DEF default
  <2>3. /\ row \in cache /\ Eligible(row, default, t) /\ KnobsMatch(row.key, default)
        /\ row.key.tools = "builtin"
    BY <2>1, <2>2, GetFits
  <2>4. Eligible(row, q, t)
    BY <2>2, <2>3 DEF Eligible, SameCard, SameModel
  <2> QED
    BY <2>1, <2>2, <2>3, <2>4 DEF KnobsMatch
<1>2. CASE GetWithSuiteTools(cache, default, t) = {}
  <2>1. PICK row \in NewestExactFirst(anyTier, q) :
          a = [row |-> row, suite |-> row.key.suite]
    BY <1>2 DEF FindWithCostAndAdvertised
  <2>2. row \in anyTier
    BY <2>1, NewestIsOne
  <2> QED
    BY <2>1, <2>2
<1> QED
  BY <1>1, <1>2

\* An answer that may be printed for the card q: the row is a valid one of the
\* card, measured with its tools, and the answer tells its tier and window.
Fits(cache, q, t, answer) ==
    /\ answer.row \in cache /\ Eligible(answer.row, q, t)
    /\ answer.row.key.tools = q.tools
    /\ answer.suite = answer.row.key.suite /\ answer.ctx = answer.row.key.ctx
    /\ answer.suite = q.suite \/ q.suite = "policy"
    /\ q.vision => answer.row.key.vision

LEMMA CachedProbeFits ==
    ASSUME NEW cache, NEW q \in CardKeys, q.current, NEW t,
           NEW answer \in CachedProbe(cache, q, t)
    PROVE  Fits(cache, q, t, answer) /\ answer.ctx = q.ctx
<1> DEFINE same == GetWithSuiteTools(cache, q, t)
<1>1. CASE same # {} \/ q.tools # "builtin" \/ q.suite # "policy" \/ q.vision
  <2>1. PICK row \in same : answer = [row |-> row, suite |-> q.suite, ctx |-> q.ctx]
    BY <1>1 DEF CachedProbe
  <2> QED
    BY <2>1, GetFits DEF Fits, KnobsMatch
<1>2. CASE ~(same # {} \/ q.tools # "builtin" \/ q.suite # "policy" \/ q.vision)
  <2>1. PICK a \in FindWithCostAndAdvertised(cache, q, t) :
          answer = [row |-> a.row, suite |-> a.suite, ctx |-> q.ctx]
    BY <1>2 DEF CachedProbe
  <2> QED
    BY <1>2, <2>1, WindowRowFits DEF Fits
<1> QED
  BY <1>1, <1>2

\* The first lookup's answers fit the card that the arguments ask for.
LEMMA FirstAnswersFit ==
    ASSUME NEW cache, NEW r \in Requests, NEW t, NEW answer \in FirstAnswers(cache, r, t)
    PROVE  /\ Fits(cache, Ask(r, r.vision = "yes", r.ctx), t, answer)
           /\ r.ctx # 0 => answer.ctx = r.ctx
<1> DEFINE q == Ask(r, r.vision = "yes", r.ctx)
<1>1. q \in CardKeys /\ q.current /\ q.ctx = r.ctx
  BY CommandAssumption DEF Ask, CardKeys
<1>2. CASE answer \in CachedProbe(cache, q, t)
  BY <1>1, <1>2, CachedProbeFits
<1>3. CASE answer \in Unspecified(cache, r, t)
  <2>1. r.tools = "builtin" /\ r.vision = "unset" /\ r.ctx = 0
    BY <1>3 DEF Unspecified
  <2>2. PICK row \in FindUnspecifiedCatalog(cache, Ask(r, FALSE, 0), t) :
          answer = [row |-> row, suite |-> r.suite, ctx |-> row.key.ctx]
    BY <1>3, <2>1 DEF Unspecified
  <2>3. Ask(r, FALSE, 0) = q
    BY <2>1 DEF Ask
  <2>4. q.suite = r.suite /\ q.tools = "builtin" /\ ~q.vision
    BY <2>1 DEF Ask
  <2> HIDE DEF q
  <2> DEFINE open == {s \in cache : /\ Eligible(s, q, t) /\ s.key.suite = q.suite
                                    /\ s.key.tools = "builtin"}
  <2>5. row \in NewestExactFirst(open, q)
    BY <2>2, <2>3 DEF FindUnspecifiedCatalog
  <2>6. row \in open
    BY <2>5, NewestIsOne
  <2>7. Fits(cache, q, t, answer)
    BY <2>2, <2>4, <2>6 DEF Fits
  <2> QED
    BY <2>1, <2>7 DEF q
<1>4. answer \in CachedProbe(cache, q, t) \/ answer \in Unspecified(cache, r, t)
  BY DEF FirstAnswers
<1> QED
  BY <1>2, <1>3, <1>4

----------------------------------------------------------------------------
(* Caches and what is printed from them.                                   *)

RowsOK(cache) ==
    cache \subseteq CacheRows /\ \A r, s \in cache : r.key = s.key => r = s

LEMMA Clock ==
    /\ StartTime \in Nat /\ MaxTime \in Nat /\ MaxCommands \in Nat
    /\ TypeOK => now \in Nat
<1>1. StartTime \in Nat /\ MaxTime \in Nat /\ MaxCommands \in Nat
  BY CommandAssumption
<1> QED
  BY <1>1 DEF TypeOK

\* save and put_with_suite_tools keep one row for a key.
LEMMA PutOK ==
    ASSUME NEW cache, NEW t \in Nat, RowsOK(cache), NEW key \in CardKeys
    PROVE  RowsOK(Put(cache, [key |-> key, at |-> t]))
BY DEF RowsOK, Put, CacheRows

LEMMA SavedOK ==
    ASSUME NEW ours, NEW theirs, RowsOK(ours), RowsOK(theirs)
    PROVE  RowsOK(Saved(ours, theirs))
<1>1. \A r \in ours \cup theirs : r.key \in CardKeys /\ r.at \in Nat
  BY DEF RowsOK, CacheRows
<1>2. \A r, s \in Saved(ours, theirs) : r.key = s.key => r = s
  BY <1>1 DEF RowsOK, Saved
<1> QED
  BY <1>2 DEF RowsOK, Saved

\* The key a run is stored under is a key.
LEMMA HintedAskIsKey ==
    ASSUME TypeOK, NEW p \in Procs
    PROVE  HintedAsk(p) \in CardKeys /\ HintedAsk(p).current
<1>1. req[p] \in Requests /\ hints[p].ctx \in Nat
  BY DEF TypeOK, Hints
<1> QED
  BY <1>1, CommandAssumption DEF HintedAsk, Ask, CardKeys

LEMMA MergedIsHint ==
    ASSUME NEW r \in Requests, NEW catalog \in Catalogs
    PROVE  Merged(r, catalog) \in Hints
BY CommandAssumption DEF Merged, Hints

\* What is printed of an answer that fits is of its type.
LEMMA HitIsPrintable ==
    ASSUME TypeOK, NEW p \in Procs, NEW q, NEW answer, Fits(mem[p], q, now, answer)
    PROVE  FromCache(answer) \in
             [from : {"nothing", "cache", "run", "export", "stale", "error"},
              row : SUBSET CacheRows, suite : Tiers, ctx : Nat, at : Nat]
<1>1. answer.row \in CacheRows /\ now \in Nat
  BY Clock DEF TypeOK, Fits
<1>2. answer.suite \in Tiers /\ answer.ctx \in Nat
  BY <1>1 DEF Fits, CacheRows, CardKeys
<1> QED
  BY <1>1, <1>2 DEF FromCache

\* Whichever lookup a command prints from, the answer fits what it asked.
LEMMA FirstHitFits ==
    ASSUME TypeOK, NEW p \in Procs, NEW answer \in FirstAnswers(mem[p], req[p], now)
    PROVE  /\ Fits(mem[p], Ask(req[p], req[p].vision = "yes", req[p].ctx), now, answer)
           /\ req[p].ctx # 0 => answer.ctx = req[p].ctx
<1>1. req[p] \in Requests
  BY DEF TypeOK
<1> QED
  BY <1>1, FirstAnswersFit

LEMMA SecondHitFits ==
    ASSUME TypeOK, NEW p \in Procs, NEW answer \in CachedProbe(mem[p], HintedAsk(p), now)
    PROVE  Fits(mem[p], HintedAsk(p), now, answer) /\ answer.ctx = HintedAsk(p).ctx
BY HintedAskIsKey, CachedProbeFits

----------------------------------------------------------------------------
(* Types, one part at a time.                                              *)

ControlOK ==
    /\ now \in StartTime..(StartTime + MaxTime)
    /\ commands \in 0..MaxCommands
    /\ pc \in [Procs -> {"off", "looking", "exporting", "catalog", "hinted", "running",
                        "ran", "done"}]
    /\ req \in [Procs -> Requests]
    /\ hints \in [Procs -> Hints]
    /\ worth \in [Procs -> BOOLEAN]

CachesOK ==
    /\ RowsOK(disk)
    /\ mem \in [Procs -> SUBSET CacheRows]
    /\ \A p \in Procs : RowsOK(mem[p])

PrintedOK ==
    printed \in [Procs -> [from : {"nothing", "cache", "run", "export", "stale", "error"},
                           row : SUBSET CacheRows, suite : Tiers, ctx : Nat, at : Nat]]

HistoryOK == stored \in SUBSET Runs /\ due \in [Procs -> SUBSET stored]

LEMMA TypeParts == TypeOK <=> ControlOK /\ CachesOK /\ PrintedOK /\ HistoryOK
BY DEF TypeOK, ControlOK, CachesOK, PrintedOK, HistoryOK, RowsOK

LEMMA ControlStep ==
    ASSUME ControlOK, [Next]_vars
    PROVE  ControlOK'
<1> USE DEF ControlOK
<1>1. ASSUME NEW p \in Procs, Start(p) PROVE ControlOK'
  <2>1. commands' \in 0..MaxCommands
    BY <1>1, Clock DEF Start
  <2> QED
    BY <1>1, <2>1 DEF Start
<1>2. ASSUME NEW p \in Procs, FirstLookup(p) PROVE ControlOK'
  BY <1>2 DEF FirstLookup, Emit
<1>3. ASSUME NEW p \in Procs, AskCatalog(p) PROVE ControlOK'
  <2>1. hints' \in [Procs -> Hints]
    BY <1>3, MergedIsHint DEF AskCatalog
  <2> QED
    BY <1>3, <2>1 DEF AskCatalog, Emit
<1>4. ASSUME NEW p \in Procs, SecondLookup(p) PROVE ControlOK'
  BY <1>4 DEF SecondLookup, Emit
<1>5. ASSUME NEW p \in Procs, RunSuite(p) PROVE ControlOK'
  BY <1>5 DEF RunSuite, Emit
<1>6. ASSUME NEW p \in Procs, Persist(p) PROVE ControlOK'
  BY <1>6 DEF Persist, Emit
<1>7. ASSUME NEW p \in Procs, Export(p) PROVE ControlOK'
  BY <1>7 DEF Export, Emit
<1>8. ASSUME NEW p \in Procs, Exit(p) PROVE ControlOK'
  <2>1. NoRequest \in Requests
    BY CommandAssumption DEF NoRequest
  <2> QED
    BY <1>8, <2>1 DEF Exit, Unhinted, Hints
<1>9. CASE Tick
  <2>1. now' \in StartTime..(StartTime + MaxTime)
    BY <1>9, Clock DEF Tick
  <2> QED
    BY <1>9, <2>1 DEF Tick
<1>10. CASE UNCHANGED vars
  BY <1>10 DEF vars
<1> QED
  BY <1>1, <1>2, <1>3, <1>4, <1>5, <1>6, <1>7, <1>8, <1>9, <1>10 DEF Next

\* Only a command's own load, put and save change a cache.
LEMMA CachesStep ==
    ASSUME TypeOK, [Next]_vars
    PROVE  CachesOK'
<1>1. CachesOK /\ now \in Nat
  BY TypeParts, Clock
<1>2. ASSUME NEW p \in Procs, Start(p) PROVE CachesOK'
  BY <1>1, <1>2 DEF Start, CachesOK, RowsOK
<1>3. ASSUME NEW p \in Procs, Persist(p) PROVE CachesOK'
  <2> DEFINE put == Put(mem[p], [key |-> HintedAsk(p), at |-> now])
  <2>1. RowsOK(put)
    BY <1>1, HintedAskIsKey, PutOK DEF CachesOK
  <2>2. RowsOK(Saved(put, disk))
    BY <1>1, <2>1, SavedOK DEF CachesOK
  <2>3. \/ mem' = [mem EXCEPT ![p] = put] /\ disk' = Saved(mem'[p], disk)
        \/ mem' = [mem EXCEPT ![p] = put] /\ disk' = disk
        \/ mem' = mem /\ disk' = disk
    BY <1>3 DEF Persist
  <2> HIDE DEF put
  <2>4. CASE mem' = mem
    BY <1>1, <2>3, <2>4, SavedOK DEF CachesOK
  <2>5. CASE mem' = [mem EXCEPT ![p] = put]
    <3>1. mem'[p] = put /\ mem' \in [Procs -> SUBSET CacheRows]
      BY <1>1, <2>1, <2>5 DEF CachesOK, RowsOK
    <3>2. RowsOK(disk')
      BY <1>1, <2>2, <2>3, <3>1 DEF CachesOK
    <3>3. \A q \in Procs : RowsOK(mem'[q])
      BY <1>1, <2>1, <2>5 DEF CachesOK
    <3> QED
      BY <3>1, <3>2, <3>3 DEF CachesOK
  <2> QED
    BY <2>3, <2>4, <2>5
<1>4. ASSUME NEW p \in Procs, Exit(p) PROVE CachesOK'
  BY <1>1, <1>4 DEF Exit, CachesOK, RowsOK
<1>5. CASE UNCHANGED <<disk, mem>>
  BY <1>1, <1>5 DEF CachesOK, RowsOK
<1>6. ASSUME NEW p \in Procs,
             FirstLookup(p) \/ AskCatalog(p) \/ SecondLookup(p) \/ RunSuite(p) \/ Export(p)
      PROVE  UNCHANGED <<disk, mem>>
  BY <1>6 DEF FirstLookup, AskCatalog, SecondLookup, RunSuite, Export
<1> QED
  BY <1>2, <1>3, <1>4, <1>5, <1>6 DEF Next, Tick, vars

\* What a command prints that is not a hit.
LEMMA PlainPrints ==
    ASSUME TypeOK, NEW p \in Procs
    PROVE  /\ Silent \in [from : {"nothing"}, row : {{}}, suite : Tiers, ctx : Nat, at : Nat]
           /\ \A word \in {"error", "stale"} :
                [Silent EXCEPT !.from = word] \in
                    [from : {word}, row : {{}}, suite : Tiers, ctx : Nat, at : Nat]
           /\ RunEnvelope(p) \in
                [from : {"run"}, row : {{}}, suite : Tiers, ctx : Nat, at : Nat]
<1>1. req[p].suite \in Tiers
  BY CommandAssumption DEF TypeOK
<1>2. hints[p].ctx \in Nat /\ now \in Nat
  BY Clock DEF TypeOK, Hints
<1> QED
  BY <1>1, <1>2 DEF Silent, RunEnvelope, Tiers

\* The rows an export may choose are the command's own.
LEMMA ExportRows ==
    ASSUME NEW cache, NEW q \in CardKeys, q.current, NEW t
    PROVE  /\ FindAndAdvertised(cache, q, t) \subseteq cache
           /\ \A a \in FindWithCostAndAdvertised(cache, q, t) : a.row \in cache
BY NewestIsOne, WindowRowFits DEF FindAndAdvertised

LEMMA PrintedStep ==
    ASSUME TypeOK, [Next]_vars
    PROVE  PrintedOK'
<1> DEFINE Printable == [from : {"nothing", "cache", "run", "export", "stale", "error"},
                         row : SUBSET CacheRows, suite : Tiers, ctx : Nat, at : Nat]
<1>1. printed \in [Procs -> Printable]
  BY DEF TypeOK
<1>2. ASSUME NEW p \in Procs
      PROVE  /\ Silent \in Printable /\ RunEnvelope(p) \in Printable
             /\ \A word \in {"error", "stale"} : [Silent EXCEPT !.from = word] \in Printable
  BY PlainPrints
<1>3. ASSUME NEW p \in Procs, NEW what \in Printable, Emit(p, what)
      PROVE  printed' \in [Procs -> Printable]
  BY <1>1, <1>3 DEF Emit
<1>4. ASSUME NEW p \in Procs, FirstLookup(p) PROVE printed' \in [Procs -> Printable]
  <2>1. ASSUME NEW a \in FirstAnswers(mem[p], req[p], now)
        PROVE  FromCache(a) \in Printable
    BY FirstHitFits, HitIsPrintable
  <2>2. \/ \E a \in FirstAnswers(mem[p], req[p], now) : Emit(p, FromCache(a))
        \/ Emit(p, [Silent EXCEPT !.from = "error"])
        \/ printed' = printed
    BY <1>4 DEF FirstLookup
  <2> HIDE DEF Printable
  <2> QED
    BY <1>1, <1>2, <1>3, <2>1, <2>2
<1>5. ASSUME NEW p \in Procs, SecondLookup(p) PROVE printed' \in [Procs -> Printable]
  <2>1. ASSUME NEW a \in CachedProbe(mem[p], HintedAsk(p), now)
        PROVE  FromCache(a) \in Printable
    BY SecondHitFits, HitIsPrintable
  <2>2. \/ \E a \in CachedProbe(mem[p], HintedAsk(p), now) : Emit(p, FromCache(a))
        \/ printed' = printed
    BY <1>5 DEF SecondLookup
  <2> HIDE DEF Printable
  <2> QED
    BY <1>1, <1>3, <2>1, <2>2
<1>6. ASSUME NEW p \in Procs, AskCatalog(p) \/ RunSuite(p) \/ Persist(p)
      PROVE  printed' \in [Procs -> Printable]
  <2>1. \/ Emit(p, [Silent EXCEPT !.from = "error"])
        \/ Emit(p, RunEnvelope(p))
        \/ printed' = printed
    BY <1>6 DEF AskCatalog, RunSuite, Persist
  <2> HIDE DEF Printable
  <2> QED
    BY <1>1, <1>2, <1>3, <2>1
<1>7. ASSUME NEW p \in Procs, Export(p) PROVE printed' \in [Procs -> Printable]
  <2> DEFINE q == Ask(req[p], FALSE, req[p].ctx)
             Shown(r) == [from |-> "export", row |-> {r}, suite |-> r.key.suite,
                          ctx |-> IF q.ctx # 0 THEN q.ctx ELSE r.key.ctx, at |-> now]
  <2>1. q \in CardKeys /\ q.current /\ mem[p] \subseteq CacheRows /\ now \in Nat
    BY CommandAssumption, Clock DEF Ask, CardKeys, TypeOK
  <2>2. \/ \E r \in mem[p] : Emit(p, Shown(r))
        \/ \E word \in {"error", "stale"} : Emit(p, [Silent EXCEPT !.from = word])
    BY <1>7, <2>1, ExportRows DEF Export
  <2>3. \A r \in mem[p] : Shown(r) \in Printable
    BY <2>1 DEF CacheRows, CardKeys
  <2> HIDE DEF Printable, Shown
  <2> QED
    BY <1>2, <1>3, <2>2, <2>3
<1>8. ASSUME NEW p \in Procs, Exit(p) PROVE printed' \in [Procs -> Printable]
  BY <1>1, <1>2, <1>8 DEF Exit
<1>9. ASSUME NEW p \in Procs, Start(p) PROVE printed' = printed
  BY <1>9 DEF Start
<1> HIDE DEF Printable
<1>10. printed' \in [Procs -> Printable]
  BY <1>1, <1>4, <1>5, <1>6, <1>7, <1>8, <1>9 DEF Next, Tick, vars
<1> QED
  BY <1>10 DEF PrintedOK, Printable

LEMMA HistoryStep ==
    ASSUME TypeOK, [Next]_vars
    PROVE  HistoryOK'
<1>1. HistoryOK
  BY TypeParts
<1>2. ASSUME NEW p \in Procs, Start(p) PROVE HistoryOK'
  BY <1>1, <1>2 DEF Start, HistoryOK
<1>3. ASSUME NEW p \in Procs, Persist(p) PROVE HistoryOK'
  <2>1. [req |-> req[p], hints |-> hints[p], at |-> now] \in Runs
    BY Clock DEF TypeOK, Runs
  <2>2. due' = due /\ (\/ stored' = stored
                       \/ stored' = stored \cup
                            {[req |-> req[p], hints |-> hints[p], at |-> now]})
    BY <1>3 DEF Persist
  <2> QED
    BY <1>1, <2>1, <2>2 DEF HistoryOK
<1>4. ASSUME NEW p \in Procs, Exit(p) PROVE HistoryOK'
  BY <1>1, <1>4 DEF Exit, HistoryOK
<1>5. ASSUME NEW p \in Procs,
             FirstLookup(p) \/ AskCatalog(p) \/ SecondLookup(p) \/ RunSuite(p) \/ Export(p)
      PROVE  UNCHANGED <<stored, due>>
  BY <1>5 DEF FirstLookup, AskCatalog, SecondLookup, RunSuite, Export
<1> QED
  BY <1>1, <1>2, <1>3, <1>4, <1>5 DEF Next, Tick, vars, HistoryOK

LEMMA TypeInit ==
    ASSUME Init
    PROVE  TypeOK
<1>1. ControlOK
  <2>1. NoRequest \in Requests
    BY CommandAssumption DEF NoRequest
  <2>2. now \in StartTime..(StartTime + MaxTime) /\ commands \in 0..MaxCommands
    BY Clock DEF Init
  <2> QED
    BY <2>1, <2>2 DEF Init, ControlOK, Unhinted, Hints
<1>2. CachesOK
  BY CommandAssumption DEF Init, CachesOK, RowsOK
<1>3. PrintedOK
  BY DEF Init, PrintedOK, Silent, Tiers
<1>4. HistoryOK
  BY DEF Init, HistoryOK
<1> QED
  BY <1>1, <1>2, <1>3, <1>4, TypeParts

LEMMA TypeStep ==
    ASSUME TypeOK, [Next]_vars
    PROVE  TypeOK'
<1>1. ControlOK'
  BY ControlStep, TypeParts
<1>2. (TypeOK <=> ControlOK /\ CachesOK /\ PrintedOK /\ HistoryOK)'
  BY TypeParts, PTL
<1> QED
  BY <1>1, <1>2, CachesStep, PrintedStep, HistoryStep

\* Every reachable state of the commands is well typed, and no cache, in the
\* file or in a process, has two rows for a key.
THEOREM TypeCorrect == Spec => []TypeOK
BY TypeInit, TypeStep, PTL DEF Spec

----------------------------------------------------------------------------
(* What is printed from the cache.                                         *)

\* Only a command that is over has printed something, and nothing is known of
\* the catalog before it is asked; then the flags are its last word.
StepsInOrder ==
    \A p \in Procs :
        /\ pc[p] # "done" => printed[p] = Silent
        /\ pc[p] \in {"off", "looking"} => hints[p] = Unhinted
        /\ pc[p] = "hinted" =>
              /\ req[p].ctx # 0 => hints[p].ctx = req[p].ctx
              /\ req[p].vision = "yes" => hints[p].vision = "yes"

LEMMA OrderStep ==
    ASSUME TypeOK, StepsInOrder, [Next]_vars
    PROVE  StepsInOrder'
<1>1. /\ DOMAIN pc = Procs /\ DOMAIN printed = Procs /\ DOMAIN hints = Procs
      /\ DOMAIN req = Procs
  BY DEF TypeOK
<1> USE <1>1 DEF StepsInOrder
<1>2. ASSUME NEW p \in Procs, Start(p) PROVE StepsInOrder'
  BY <1>2, CommandAssumption DEF Start, TypeOK
<1>3. ASSUME NEW p \in Procs, FirstLookup(p) PROVE StepsInOrder'
  BY <1>3 DEF FirstLookup, Emit, TypeOK
<1>4. ASSUME NEW p \in Procs, AskCatalog(p) PROVE StepsInOrder'
  BY <1>4 DEF AskCatalog, Emit, Merged, TypeOK
<1>5. ASSUME NEW p \in Procs, SecondLookup(p) PROVE StepsInOrder'
  BY <1>5 DEF SecondLookup, Emit, TypeOK
<1>6. ASSUME NEW p \in Procs, RunSuite(p) PROVE StepsInOrder'
  BY <1>6 DEF RunSuite, Emit, TypeOK
<1>7. ASSUME NEW p \in Procs, Persist(p) PROVE StepsInOrder'
  BY <1>7 DEF Persist, Emit, TypeOK
<1>8. ASSUME NEW p \in Procs, Export(p) PROVE StepsInOrder'
  BY <1>8 DEF Export, Emit, TypeOK
<1>9. ASSUME NEW p \in Procs, Exit(p) PROVE StepsInOrder'
  BY <1>9 DEF Exit, TypeOK
<1>10. CASE Tick \/ UNCHANGED vars
  BY <1>10 DEF Tick, vars
<1> QED
  BY <1>2, <1>3, <1>4, <1>5, <1>6, <1>7, <1>8, <1>9, <1>10 DEF Next

\* What AnswersFit and EnvelopeTellsTheRow ask of one process.
HitFits(p) ==
    printed[p].from = "cache" =>
        LET r == req[p] IN
        /\ ~r.force
        /\ \A row \in printed[p].row :
              /\ Valid(row, printed[p].at) /\ row.key.current /\ OneCard(row.key, r)
              /\ row.key.tools = r.tools
              /\ row.key.suite = r.suite \/ r.suite = "policy"
              /\ \A ctx \in {r.ctx, hints[p].ctx} \ {0} : row.key.ctx = ctx
              /\ "yes" \in {r.vision, hints[p].vision} => row.key.vision
              /\ printed[p].suite = row.key.suite /\ printed[p].ctx = row.key.ctx

LEMMA HitsFit == (\A p \in Procs : HitFits(p)) <=> AnswersFit /\ EnvelopeTellsTheRow
BY DEF HitFits, AnswersFit, EnvelopeTellsTheRow

\* The row of an answer that fits a card is one the request may be given.
LEMMA FittingRow ==
    ASSUME TypeOK, NEW p \in Procs, NEW vision \in BOOLEAN, NEW ctx \in Nat, NEW answer,
           Fits(mem[p], Ask(req[p], vision, ctx), now, answer)
    PROVE  /\ Valid(answer.row, now) /\ answer.row.key.current
           /\ OneCard(answer.row.key, req[p])
           /\ answer.row.key.tools = req[p].tools
           /\ answer.row.key.suite = req[p].suite \/ req[p].suite = "policy"
           /\ vision => answer.row.key.vision
           /\ answer.suite = answer.row.key.suite /\ answer.ctx = answer.row.key.ctx
<1> DEFINE q == Ask(req[p], vision, ctx)
<1>1. /\ q.model = req[p].model /\ q.label = req[p].label /\ q.suite = req[p].suite
      /\ q.tools = req[p].tools /\ q.vision = vision
  BY DEF Ask
<1>2. req[p].model \in Models /\ req[p].label \in Labels
  BY CommandAssumption DEF TypeOK
<1>3. answer.row.key.model \in Models /\ answer.row.key.label \in Labels
  BY DEF Fits, TypeOK, CacheRows, CardKeys
<1> HIDE DEF q
<1>4. Fits(mem[p], q, now, answer)
  BY DEF q
<1>5. SameCard(answer.row.key, q)
  BY <1>4 DEF Fits, Eligible
<1>6. OneCard(answer.row.key, q)
  BY <1>1, <1>2, <1>3, <1>5, SameCardIsOneCard
<1> QED
  BY <1>1, <1>4, <1>6 DEF Fits, Eligible, OneCard

LEMMA FirstLookupFits ==
    ASSUME TypeOK, StepsInOrder, NEW p \in Procs, FirstLookup(p), HitFits(p)
    PROVE  HitFits(p)'
<1>1. printed[p] = Silent /\ hints[p] = Unhinted /\ req' = req /\ hints' = hints
  BY DEF FirstLookup, StepsInOrder
<1>2. CASE \E a \in FirstAnswers(mem[p], req[p], now) : Emit(p, FromCache(a)) /\ ~req[p].force
  <2>1. PICK a \in FirstAnswers(mem[p], req[p], now) : Emit(p, FromCache(a)) /\ ~req[p].force
    BY <1>2
  <2>2. printed'[p] = FromCache(a)
    BY <2>1 DEF Emit, TypeOK
  <2>3. req[p].ctx \in Nat
    BY CommandAssumption DEF TypeOK
  <2>4. /\ Fits(mem[p], Ask(req[p], req[p].vision = "yes", req[p].ctx), now, a)
        /\ req[p].ctx # 0 => a.ctx = req[p].ctx
    BY FirstHitFits
  <2>5. /\ Valid(a.row, now) /\ a.row.key.current /\ OneCard(a.row.key, req[p])
        /\ a.row.key.tools = req[p].tools
        /\ a.row.key.suite = req[p].suite \/ req[p].suite = "policy"
        /\ req[p].vision = "yes" => a.row.key.vision
        /\ a.suite = a.row.key.suite /\ a.ctx = a.row.key.ctx
    <3> DEFINE vision == req[p].vision = "yes"
    <3>1. vision \in BOOLEAN /\ Fits(mem[p], Ask(req[p], vision, req[p].ctx), now, a)
      BY <2>4
    <3>2. vision <=> req[p].vision = "yes"
      OBVIOUS
    <3> HIDE DEF vision
    <3> QED
      BY <2>3, <3>1, <3>2, FittingRow
  <2> QED
    BY <1>1, <2>1, <2>2, <2>4, <2>5 DEF HitFits, FromCache, Unhinted
<1>3. CASE Emit(p, [Silent EXCEPT !.from = "error"]) \/ printed' = printed
  BY <1>1, <1>3 DEF HitFits, Emit, Silent, TypeOK
<1> QED
  BY <1>2, <1>3 DEF FirstLookup

LEMMA SecondLookupFits ==
    ASSUME TypeOK, StepsInOrder, NEW p \in Procs, SecondLookup(p), HitFits(p)
    PROVE  HitFits(p)'
<1>1. /\ printed[p] = Silent /\ req' = req /\ hints' = hints
      /\ req[p].ctx # 0 => hints[p].ctx = req[p].ctx
      /\ req[p].vision = "yes" => hints[p].vision = "yes"
  BY DEF SecondLookup, StepsInOrder
<1>2. CASE \E a \in CachedProbe(mem[p], HintedAsk(p), now) : Emit(p, FromCache(a)) /\ ~req[p].force
  <2>1. PICK a \in CachedProbe(mem[p], HintedAsk(p), now) : Emit(p, FromCache(a)) /\ ~req[p].force
    BY <1>2
  <2>2. printed'[p] = FromCache(a)
    BY <2>1 DEF Emit, TypeOK
  <2>3. hints[p].ctx \in Nat
    BY DEF TypeOK, Hints
  <2>4. Fits(mem[p], HintedAsk(p), now, a) /\ a.ctx = hints[p].ctx
    BY SecondHitFits DEF HintedAsk, Ask
  <2>5. /\ Valid(a.row, now) /\ a.row.key.current /\ OneCard(a.row.key, req[p])
        /\ a.row.key.tools = req[p].tools
        /\ a.row.key.suite = req[p].suite \/ req[p].suite = "policy"
        /\ hints[p].vision = "yes" => a.row.key.vision
        /\ a.suite = a.row.key.suite /\ a.ctx = a.row.key.ctx
    <3> DEFINE vision == hints[p].vision = "yes"
    <3>1. vision \in BOOLEAN /\ Fits(mem[p], Ask(req[p], vision, hints[p].ctx), now, a)
      BY <2>4 DEF HintedAsk
    <3>2. vision <=> hints[p].vision = "yes"
      OBVIOUS
    <3> HIDE DEF vision
    <3> QED
      BY <2>3, <3>1, <3>2, FittingRow
  <2> QED
    BY <1>1, <2>1, <2>2, <2>4, <2>5 DEF HitFits, FromCache
<1>3. CASE printed' = printed
  BY <1>1, <1>3 DEF HitFits, Silent
<1> QED
  BY <1>2, <1>3 DEF SecondLookup

\* A step of another command leaves this one alone, and so the clock.
LEMMA OthersStay ==
    ASSUME TypeOK, NEW p \in Procs, NEW q \in Procs, q # p,
           \/ Start(q) \/ FirstLookup(q) \/ AskCatalog(q) \/ SecondLookup(q)
           \/ RunSuite(q) \/ Persist(q) \/ Export(q) \/ Exit(q)
    PROVE  /\ pc'[p] = pc[p] /\ req'[p] = req[p] /\ mem'[p] = mem[p]
           /\ hints'[p] = hints[p] /\ printed'[p] = printed[p] /\ due'[p] = due[p]
           /\ now' = now
<1> USE DEF TypeOK
<1>1. CASE Start(q)
  BY <1>1 DEF Start
<1>2. CASE FirstLookup(q)
  BY <1>2 DEF FirstLookup, Emit
<1>3. CASE AskCatalog(q)
  BY <1>3 DEF AskCatalog, Emit
<1>4. CASE SecondLookup(q)
  BY <1>4 DEF SecondLookup, Emit
<1>5. CASE RunSuite(q)
  BY <1>5 DEF RunSuite, Emit
<1>6. CASE Persist(q)
  BY <1>6 DEF Persist, Emit
<1>7. CASE Export(q)
  BY <1>7 DEF Export, Emit
<1>8. CASE Exit(q)
  BY <1>8 DEF Exit
<1> QED
  BY <1>1, <1>2, <1>3, <1>4, <1>5, <1>6, <1>7, <1>8

\* No other step prints from the cache, and what is printed stays while the
\* command's arguments and hints do.
LEMMA HitStep ==
    ASSUME TypeOK, StepsInOrder, \A p \in Procs : HitFits(p), [Next]_vars
    PROVE  \A p \in Procs : HitFits(p)'
<1> SUFFICES ASSUME NEW p \in Procs PROVE HitFits(p)'
  OBVIOUS
<1>1. CASE FirstLookup(p) \/ SecondLookup(p)
  BY <1>1, FirstLookupFits, SecondLookupFits
<1>2. CASE printed'[p].from # "cache"
  BY <1>2 DEF HitFits
<1>3. CASE printed'[p] = printed[p] /\ req'[p] = req[p] /\ hints'[p] = hints[p]
  BY <1>3 DEF HitFits
<1>4. ASSUME NEW q \in Procs, q # p,
             \/ Start(q) \/ FirstLookup(q) \/ AskCatalog(q) \/ SecondLookup(q)
             \/ RunSuite(q) \/ Persist(q) \/ Export(q) \/ Exit(q)
      PROVE  printed'[p] = printed[p] /\ req'[p] = req[p] /\ hints'[p] = hints[p]
  BY <1>4, OthersStay
<1>5. ASSUME Start(p) \/ AskCatalog(p) \/ RunSuite(p) \/ Persist(p) \/ Export(p) \/ Exit(p)
      PROVE  printed'[p].from # "cache"
  <2>1. \/ printed' = printed /\ pc[p] # "done"
        \/ printed' = [printed EXCEPT ![p] = Silent]
        \/ \E what : Emit(p, what) /\ what.from # "cache"
    <3>1. CASE Start(p)
      BY <3>1 DEF Start
    <3>2. CASE AskCatalog(p)
      BY <3>2 DEF AskCatalog, Silent
    <3>3. CASE RunSuite(p)
      BY <3>3 DEF RunSuite, Silent
    <3>4. CASE Persist(p)
      BY <3>4 DEF Persist, RunEnvelope
    <3>5. CASE Export(p)
      <4>1. \/ \E word \in {"stale", "error"} : Emit(p, [Silent EXCEPT !.from = word])
            \/ \E rows, suite, ctx :
                  Emit(p, [from |-> "export", row |-> rows, suite |-> suite, ctx |-> ctx,
                           at |-> now])
        BY <3>5 DEF Export
      <4>2. ASSUME NEW word \in {"stale", "error"}, Emit(p, [Silent EXCEPT !.from = word])
            PROVE  \E what : Emit(p, what) /\ what.from # "cache"
        BY <4>2 DEF Silent
      <4>3. ASSUME NEW rows, NEW suite, NEW ctx,
                   Emit(p, [from |-> "export", row |-> rows, suite |-> suite, ctx |-> ctx,
                            at |-> now])
            PROVE  \E what : Emit(p, what) /\ what.from # "cache"
        BY <4>3
      <4> QED
        BY <4>1, <4>2, <4>3
    <3>6. CASE Exit(p)
      BY <3>6 DEF Exit
    <3> QED
      BY <1>5, <3>1, <3>2, <3>3, <3>4, <3>5, <3>6
  <2>2. DOMAIN printed = Procs /\ (pc[p] # "done" => printed[p] = Silent)
    BY DEF TypeOK, StepsInOrder
  <2> QED
    BY <2>1, <2>2 DEF Emit, Silent
<1> QED
  BY <1>1, <1>2, <1>3, <1>4, <1>5 DEF Next, Tick, vars

\* For any caches, catalogs and interleaving of commands: what a probe prints
\* from the cache is a valid row of the card that was asked for, with its
\* tools and knobs, and the envelope tells that row's tier and window.
THEOREM HitsAreTrue == Spec => []CardsAreTrue
<1> DEFINE Inv == TypeOK /\ StepsInOrder /\ \A p \in Procs : HitFits(p)
<1>1. Init => Inv
  <2> SUFFICES ASSUME Init PROVE Inv
    OBVIOUS
  <2>1. StepsInOrder /\ \A p \in Procs : HitFits(p)
    BY DEF Init, StepsInOrder, HitFits, Silent
  <2> QED
    BY <2>1, TypeInit
<1>2. Inv /\ [Next]_vars => Inv'
  BY TypeStep, OrderStep, HitStep
<1>3. Inv => CardsAreTrue
  BY HitsFit DEF CardsAreTrue
<1> QED
  BY <1>1, <1>2, <1>3, PTL DEF Spec

----------------------------------------------------------------------------
(* A lookup of several rows finds one.                                     *)

\* Of finitely many rows one is the newest.
LEMMA SomeNewest ==
    ASSUME NEW rows, rows \subseteq CacheRows, IsFiniteSet(rows), rows # {}
    PROVE  Newest(rows) # {}
<1> DEFINE Bad(S) == S # {} /\ IsFiniteSet(S) /\ Newest(S) = {}
           sizes == {n \in Nat : \E S \in SUBSET rows : Bad(S) /\ Cardinality(S) = n}
<1> SUFFICES ASSUME Newest(rows) = {} PROVE FALSE
  OBVIOUS
<1>1. Cardinality(rows) \in sizes
  BY FS_CardinalityType
<1>2. PICK n \in sizes : \A m \in sizes : n <= m
  BY <1>1, LeastNat
<1>3. PICK S \in SUBSET rows : Bad(S) /\ Cardinality(S) = n
  BY <1>2
<1>4. PICK r \in S : TRUE
  BY <1>3
<1> DEFINE others == S \ {r}
<1>5. IsFiniteSet(others) /\ Cardinality(others) = n - 1 /\ n \in Nat
  BY <1>2, <1>3, <1>4, FS_RemoveElement
<1>6. Cardinality(others) \in Nat
  BY <1>5, FS_CardinalityType
<1>7. ~Bad(others)
  <2> SUFFICES ASSUME Bad(others) PROVE FALSE
    OBVIOUS
  <2>1. n - 1 \in sizes
    BY <1>5, <1>6
  <2> HIDE DEF sizes
  <2> QED
    BY <1>2, <1>5, <2>1
<1>8. \A s \in S : s.at \in Nat
  BY <1>3 DEF CacheRows
<1>9. CASE others = {}
  <2>1. r \in Newest(S)
    BY <1>4, <1>8, <1>9 DEF Newest
  <2> QED
    BY <1>3, <2>1
<1>10. CASE others # {}
  <2>1. PICK s \in others : \A x \in others : x.at <= s.at
    BY <1>5, <1>7, <1>10 DEF Newest
  <2>2. s \in Newest(S) \/ r \in Newest(S)
    BY <1>4, <1>8, <2>1 DEF Newest
  <2> QED
    BY <1>3, <2>2
<1> QED
  BY <1>9, <1>10

LEMMA SomeNewestExactFirst ==
    ASSUME NEW rows, rows \subseteq CacheRows, IsFiniteSet(rows), rows # {}, NEW q
    PROVE  NewestExactFirst(rows, q) # {}
<1> DEFINE exact == {r \in rows : r.key.model = q.model}
<1>1. IsFiniteSet(exact) /\ exact \subseteq CacheRows
  BY FS_Subset
<1> HIDE DEF exact
<1>2. Newest(rows) # {} /\ (exact # {} => Newest(exact) # {})
  BY <1>1, SomeNewest
<1> QED
  BY <1>2 DEF NewestExactFirst, exact

----------------------------------------------------------------------------
(* A stored run answers the command that asks for it again.                *)

\* A cache has a finite number of rows, in the file and in a process.
CachesFinite == IsFiniteSet(disk) /\ \A p \in Procs : IsFiniteSet(mem[p])

LEMMA FiniteInit == Init => CachesFinite
BY CommandAssumption, FS_EmptySet DEF Init, CachesFinite

LEMMA FiniteStep ==
    ASSUME TypeOK, CachesFinite, [Next]_vars
    PROVE  CachesFinite'
<1>1. DOMAIN mem = Procs
  BY DEF TypeOK
<1> USE <1>1
<1>2. ASSUME NEW p \in Procs, Start(p) PROVE CachesFinite'
  BY <1>2 DEF Start, CachesFinite
<1>3. ASSUME NEW p \in Procs, Exit(p) PROVE CachesFinite'
  BY <1>3, FS_EmptySet DEF Exit, CachesFinite
<1>4. ASSUME NEW p \in Procs, Persist(p) PROVE CachesFinite'
  <2> DEFINE row == [key |-> HintedAsk(p), at |-> now]
             put == Put(mem[p], row)
  <2>1. IsFiniteSet(put)
    <3>1. IsFiniteSet({r \in mem[p] : r.key # row.key})
      BY FS_Subset DEF CachesFinite
    <3> QED
      BY <3>1, FS_AddElement DEF Put
  <2>2. IsFiniteSet(Saved(put, disk))
    <3>1. IsFiniteSet(put \cup disk) /\ Saved(put, disk) \subseteq put \cup disk
      BY <2>1, FS_Union DEF CachesFinite, Saved
    <3> QED
      BY <3>1, FS_Subset
  <2>3. /\ mem' = mem \/ mem' = [mem EXCEPT ![p] = put]
        /\ disk' = disk \/ (disk' = Saved(mem'[p], disk) /\ mem'[p] = put)
    BY <1>4 DEF Persist
  <2> HIDE DEF put
  <2> QED
    BY <2>1, <2>2, <2>3 DEF CachesFinite
<1>5. CASE UNCHANGED <<disk, mem>>
  BY <1>5 DEF CachesFinite
<1>6. ASSUME NEW p \in Procs,
             FirstLookup(p) \/ AskCatalog(p) \/ SecondLookup(p) \/ RunSuite(p) \/ Export(p)
      PROVE  UNCHANGED <<disk, mem>>
  BY <1>6 DEF FirstLookup, AskCatalog, SecondLookup, RunSuite, Export
<1> QED
  BY <1>2, <1>3, <1>4, <1>5, <1>6 DEF Next, Tick, vars

\* The key that a stored run has, and a cache that has its row or a later one.
RunKey(d) == Ask(d.req, d.hints.vision = "yes", d.hints.ctx)
Keeps(cache, d) == \E row \in cache : row.key = RunKey(d) /\ row.at >= d.at

\* What a persist has reported stored is in the file, and what was stored when
\* a process loaded the file is in that process.
RunsAreKept ==
    /\ \A d \in stored : d.at <= now /\ Keeps(disk, d)
    /\ \A p \in Procs : \A d \in due[p] : Keeps(mem[p], d)

\* put_with_suite_tools never replaces a row by an earlier one, and save keeps
\* the later of two.
LEMMA PutKeeps ==
    ASSUME NEW cache, NEW d, d.at \in Nat, NEW t \in Nat, d.at <= t, NEW key,
           Keeps(cache, d) \/ key = RunKey(d)
    PROVE  Keeps(Put(cache, [key |-> key, at |-> t]), d)
<1> DEFINE row == [key |-> key, at |-> t]
<1>1. CASE key = RunKey(d)
  <2>1. row \in Put(cache, row) /\ row.key = RunKey(d) /\ row.at >= d.at
    BY <1>1 DEF Put
  <2> QED
    BY <2>1 DEF Keeps
<1>2. CASE key # RunKey(d)
  <2>1. PICK r \in cache : r.key = RunKey(d) /\ r.at >= d.at
    BY <1>2 DEF Keeps
  <2>2. r \in Put(cache, row)
    BY <1>2, <2>1 DEF Put
  <2> QED
    BY <2>1, <2>2 DEF Keeps
<1> QED
  BY <1>1, <1>2

LEMMA SaveKeeps ==
    ASSUME NEW ours, RowsOK(ours), NEW theirs, RowsOK(theirs), NEW d, d.at \in Nat,
           Keeps(ours, d) \/ Keeps(theirs, d)
    PROVE  Keeps(Saved(ours, theirs), d)
<1>1. \A r \in ours \cup theirs : r.at \in Nat
  BY DEF RowsOK, CacheRows
<1>2. CASE Keeps(ours, d)
  <2>1. PICK r \in ours : r.key = RunKey(d) /\ r.at >= d.at
    BY <1>2 DEF Keeps
  <2>2. CASE \A s \in theirs : s.key = r.key => s.at <= r.at
    BY <2>1, <2>2 DEF Keeps, Saved
  <2>3. CASE ~\A s \in theirs : s.key = r.key => s.at <= r.at
    <3>1. PICK s \in theirs : s.key = r.key /\ s.at > r.at
      BY <1>1, <2>3
    <3>2. \A x \in ours : x.key = s.key => s.at > x.at
      BY <2>1, <3>1 DEF RowsOK
    <3>3. s \in Saved(ours, theirs) /\ s.at >= d.at
      BY <1>1, <2>1, <3>1, <3>2 DEF Saved
    <3> QED
      BY <2>1, <3>1, <3>3 DEF Keeps
  <2> QED
    BY <2>2, <2>3
<1>3. CASE Keeps(theirs, d)
  <2>1. PICK s \in theirs : s.key = RunKey(d) /\ s.at >= d.at
    BY <1>3 DEF Keeps
  <2>2. CASE \A r \in ours : r.key = s.key => s.at > r.at
    BY <2>1, <2>2 DEF Keeps, Saved
  <2>3. CASE ~\A r \in ours : r.key = s.key => s.at > r.at
    <3>1. PICK r \in ours : r.key = s.key /\ s.at <= r.at
      BY <1>1, <2>3
    <3>2. \A x \in theirs : x.key = r.key => x.at <= r.at
      BY <2>1, <3>1 DEF RowsOK
    <3>3. r \in Saved(ours, theirs) /\ r.at >= d.at
      BY <1>1, <2>1, <3>1, <3>2 DEF Saved
    <3> QED
      BY <2>1, <3>1, <3>3 DEF Keeps
  <2> QED
    BY <2>2, <2>3
<1> QED
  BY <1>2, <1>3

LEMMA KeptInit == Init => RunsAreKept
BY DEF Init, RunsAreKept

LEMMA KeptStep ==
    ASSUME TypeOK, RunsAreKept, [Next]_vars
    PROVE  RunsAreKept'
<1>1. /\ DOMAIN mem = Procs /\ DOMAIN due = Procs
      /\ now \in Nat /\ \A d \in stored : d.at \in Nat
      /\ \A p \in Procs : due[p] \subseteq stored
  BY Clock DEF TypeOK, Runs
<1> USE <1>1
<1>2. ASSUME NEW p \in Procs, Start(p) PROVE RunsAreKept'
  BY <1>2 DEF Start, RunsAreKept
<1>3. ASSUME NEW p \in Procs, Exit(p) PROVE RunsAreKept'
  BY <1>3 DEF Exit, RunsAreKept
<1>4. ASSUME NEW p \in Procs, Persist(p) PROVE RunsAreKept'
  <2> DEFINE put == Put(mem[p], [key |-> HintedAsk(p), at |-> now])
             this == [req |-> req[p], hints |-> hints[p], at |-> now]
  <2>1. RowsOK(put) /\ RowsOK(disk)
    BY TypeParts, HintedAskIsKey, PutOK DEF CachesOK
  <2>2. \A d \in due[p] : Keeps(put, d)
    <3> SUFFICES ASSUME NEW d \in due[p] PROVE Keeps(put, d)
      OBVIOUS
    <3>1. d.at \in Nat /\ d.at <= now /\ Keeps(mem[p], d)
      BY DEF RunsAreKept
    <3> QED
      BY <3>1, PutKeeps
  <2>3. this.at = now /\ Keeps(put, this)
    <3>1. this.req = req[p] /\ this.hints = hints[p] /\ this.at = now
      OBVIOUS
    <3> HIDE DEF this
    <3>2. HintedAsk(p) = RunKey(this)
      BY <3>1 DEF RunKey, HintedAsk
    <3>3. this.at \in Nat /\ this.at <= now
      BY <3>1
    <3>4. Keeps(Put(mem[p], [key |-> HintedAsk(p), at |-> now]), this)
      BY <3>2, <3>3, PutKeeps
    <3> QED
      BY <3>1, <3>4
  <2>4. /\ mem' = mem \/ mem' = [mem EXCEPT ![p] = put]
        /\ \/ disk' = disk /\ stored' = stored
           \/ disk' = Saved(put, disk) /\ stored' = stored \cup {this}
        /\ due' = due /\ now' = now
    BY <1>4 DEF Persist
  <2> HIDE DEF put, this
  <2>5. ASSUME NEW d \in stored' PROVE d.at <= now' /\ Keeps(disk', d)
    <3>1. CASE disk' = disk /\ stored' = stored
      BY <2>4, <2>5, <3>1 DEF RunsAreKept
    <3>2. CASE disk' = Saved(put, disk) /\ stored' = stored \cup {this}
      <4>1. d.at \in Nat /\ d.at <= now /\ (Keeps(put, d) \/ Keeps(disk, d))
        BY <2>3, <2>5, <3>2 DEF RunsAreKept
      <4>2. Keeps(Saved(put, disk), d)
        BY <2>1, <4>1, SaveKeeps
      <4> QED
        BY <2>4, <3>2, <4>1, <4>2
    <3> QED
      BY <2>4, <3>1, <3>2
  <2>6. \A q \in Procs : \A d \in due'[q] : Keeps(mem'[q], d)
    BY <2>2, <2>4 DEF RunsAreKept
  <2> QED
    BY <2>5, <2>6 DEF RunsAreKept
<1>5. CASE Tick
  BY <1>5 DEF Tick, RunsAreKept
<1>6. ASSUME NEW p \in Procs,
             FirstLookup(p) \/ AskCatalog(p) \/ SecondLookup(p) \/ RunSuite(p) \/ Export(p)
      PROVE  UNCHANGED <<now, disk, mem, stored, due>>
  BY <1>6 DEF FirstLookup, AskCatalog, SecondLookup, RunSuite, Export
<1>7. CASE UNCHANGED <<now, disk, mem, stored, due>>
  BY <1>7 DEF RunsAreKept
<1> QED
  BY <1>2, <1>3, <1>4, <1>5, <1>6, <1>7 DEF Next, vars

\* What RepeatsReuseTheRun asks of one process and one run.
Reuses(p, d) ==
    Repeats(p, d) /\ Valid(d, now) =>
        /\ Open(req[p]) => pc[p] \in {"looking", "done"}
        /\ pc[p] = "running" =>
              \/ hints[p].ctx # d.hints.ctx
              \/ (hints[p].vision = "yes") # (d.hints.vision = "yes")
        /\ Open(req[p]) /\ req[p].host = "cli" =>
              \A row \in printed[p].row : row.at >= d.at

\* The row of a valid run is one that the open lookup may take, under whatever
\* knobs it was stored.
LEMMA OpenFindsTheRun ==
    ASSUME TypeOK, CachesFinite, NEW p \in Procs, NEW d \in Runs,
           Keeps(mem[p], d), d.at <= now, Repeats(p, d), Valid(d, now), Open(req[p])
    PROVE  LET open == Unspecified(mem[p], req[p], now)
           IN  open # {} /\ \A a \in open : a.row.at >= d.at
<1> DEFINE q == Ask(req[p], FALSE, 0)
           rows == {r \in mem[p] : /\ Eligible(r, q, now) /\ r.key.suite = q.suite
                                   /\ r.key.tools = "builtin"}
           exact == {r \in rows : r.key.model = q.model}
<1>1. PICK row \in mem[p] : row.key = RunKey(d) /\ row.at >= d.at
  BY DEF Keeps
<1>2. /\ row.key.model = q.model /\ row.key.label = q.label /\ row.key.suite = q.suite
      /\ row.key.tools = "builtin" /\ row.key.current
  <2>1. /\ q.model = req[p].model /\ q.label = req[p].label /\ q.suite = req[p].suite
    BY DEF Ask
  <2>2. /\ row.key.model = d.req.model /\ row.key.label = d.req.label
        /\ row.key.suite = d.req.suite /\ row.key.tools = d.req.tools /\ row.key.current
    BY <1>1 DEF RunKey, Ask
  <2> HIDE DEF q
  <2> QED
    BY <2>1, <2>2 DEF Repeats, Open
<1>3. mem[p] \subseteq CacheRows /\ now \in Nat /\ d.at \in Nat
  BY Clock DEF TypeOK, Runs
<1>4. Valid(row, now)
  BY <1>1, <1>3, TTLAssumption DEF Valid, CacheRows
<1>5. row \in exact
  BY <1>2, <1>4 DEF Eligible, SameCard, SameModel
<1>6. exact \subseteq CacheRows /\ IsFiniteSet(exact)
  BY <1>3, FS_Subset DEF CachesFinite
<1> DEFINE found == FindUnspecifiedCatalog(mem[p], q, now)
<1>7. found = Newest(exact)
  BY <1>5 DEF FindUnspecifiedCatalog, NewestExactFirst
<1>8. found # {} /\ \A r \in found : row.at <= r.at /\ r \in exact
  <2> HIDE DEF exact
  <2> QED
    BY <1>5, <1>6, <1>7, SomeNewest DEF Newest
<1>9. ASSUME NEW r \in found PROVE r.at >= d.at
  <2>1. row.at \in Nat /\ d.at <= row.at
    BY <1>1, <1>3 DEF CacheRows
  <2> HIDE DEF found, exact
  <2>2. r.at \in Nat /\ row.at <= r.at
    BY <1>6, <1>8, <1>9 DEF CacheRows
  <2> QED
    BY <1>3, <2>1, <2>2
<1>10. Unspecified(mem[p], req[p], now) =
         {[row |-> r, suite |-> req[p].suite, ctx |-> r.key.ctx] : r \in found}
  <2>1. req[p].tools = "builtin" /\ req[p].vision = "unset" /\ req[p].ctx = 0
    BY DEF Open
  <2> QED
    BY <2>1, Zenon DEF Unspecified
<1> HIDE DEF found
<1>11. ASSUME NEW a \in Unspecified(mem[p], req[p], now) PROVE a.row.at >= d.at
  <2>1. PICK r \in found : a = [row |-> r, suite |-> req[p].suite, ctx |-> r.key.ctx]
    BY <1>10
  <2> QED
    BY <1>9, <2>1
<1>12. Unspecified(mem[p], req[p], now) # {}
  BY <1>8, <1>10
<1> QED
  BY <1>11, <1>12

\* So the first lookup has an answer for it, and on the command line none that
\* is older than the run.
LEMMA OpenIsAnswered ==
    ASSUME TypeOK, CachesFinite, NEW p \in Procs, NEW d \in Runs,
           Keeps(mem[p], d), d.at <= now, Repeats(p, d), Valid(d, now), Open(req[p])
    PROVE  /\ FirstAnswers(mem[p], req[p], now) # {}
           /\ req[p].host = "cli" =>
                \A a \in FirstAnswers(mem[p], req[p], now) : a.row.at >= d.at
<1> DEFINE open == Unspecified(mem[p], req[p], now)
           q == Ask(req[p], req[p].vision = "yes", req[p].ctx)
           same == GetWithSuiteTools(mem[p], q, now)
           hits == CachedProbe(mem[p], q, now)
           answers == FirstAnswers(mem[p], req[p], now)
<1>1. open # {} /\ \A a \in open : a.row.at >= d.at
  BY OpenFindsTheRun
<1>2. same # {} => hits # {}
  BY DEF CachedProbe
<1>3. answers = IF open # {} /\ (req[p].host = "cli" \/ same = {}) THEN open ELSE hits
  BY DEF FirstAnswers
<1> HIDE DEF open, same, hits, answers
<1> QED
  BY <1>1, <1>2, <1>3 DEF answers

\* The second lookup has one when the knobs came out the same.
LEMMA SameKnobsAreAnswered ==
    ASSUME TypeOK, NEW p \in Procs, NEW d \in Runs,
           Keeps(mem[p], d), d.at <= now, Repeats(p, d), Valid(d, now),
           hints[p].ctx = d.hints.ctx,
           (hints[p].vision = "yes") = (d.hints.vision = "yes")
    PROVE  CachedProbe(mem[p], HintedAsk(p), now) # {}
<1>1. PICK row \in mem[p] : row.key = RunKey(d) /\ row.at >= d.at
  BY DEF Keeps
<1>2. RunKey(d) = HintedAsk(p)
  BY DEF RunKey, HintedAsk, Ask, Repeats
<1>3. row.at \in Nat /\ now \in Nat /\ d.at \in Nat
  BY Clock DEF TypeOK, CacheRows, Runs
<1>4. Valid(row, now)
  BY <1>1, <1>3, TTLAssumption DEF Valid
<1> DEFINE q == HintedAsk(p)
<1> HIDE DEF q
<1>5. row.key = q
  BY <1>1, <1>2 DEF q
<1>6. GetWithSuiteTools(mem[p], q, now) # {}
  BY <1>4, <1>5 DEF GetWithSuiteTools
<1> QED
  BY <1>6 DEF CachedProbe, q

Reused == \A p \in Procs : \A d \in due[p] : Reuses(p, d)

LEMMA ReuseStep ==
    ASSUME TypeOK, StepsInOrder, CachesFinite, RunsAreKept, Reused, [Next]_vars,
           NEW p \in Procs, NEW d \in due'[p]
    PROVE  Reuses(p, d)'
<1>1. /\ DOMAIN pc = Procs /\ DOMAIN req = Procs /\ DOMAIN hints = Procs
      /\ DOMAIN printed = Procs /\ DOMAIN due = Procs
  BY DEF TypeOK
<1>2. d \in due[p] => Reuses(p, d) /\ d \in Runs /\ Keeps(mem[p], d) /\ d.at <= now
  BY DEF Reused, RunsAreKept, TypeOK
<1>3. /\ pc[p] # "done" => printed[p] = Silent
      /\ Silent.row = {}
  BY DEF StepsInOrder, Silent
<1>4. CASE /\ d \in due[p] /\ pc'[p] = pc[p] /\ req'[p] = req[p] /\ hints'[p] = hints[p]
           /\ printed'[p] = printed[p] /\ (Valid(d, now)' => Valid(d, now))
  BY <1>2, <1>4 DEF Reuses, Repeats, Open
<1>5. ASSUME NEW q \in Procs, q # p,
             \/ Start(q) \/ FirstLookup(q) \/ AskCatalog(q) \/ SecondLookup(q)
             \/ RunSuite(q) \/ Persist(q) \/ Export(q) \/ Exit(q)
      PROVE  Reuses(p, d)'
  <2>1. /\ pc'[p] = pc[p] /\ req'[p] = req[p] /\ hints'[p] = hints[p]
        /\ printed'[p] = printed[p] /\ due'[p] = due[p] /\ now' = now
    BY <1>5, OthersStay
  <2>2. Valid(d, now)' => Valid(d, now)
    BY <2>1 DEF Valid
  <2> QED
    BY <1>4, <2>1, <2>2
<1>6. CASE Tick \/ UNCHANGED vars
  <2>1. /\ pc' = pc /\ req' = req /\ hints' = hints /\ printed' = printed /\ due' = due
        /\ now' = now \/ now' = now + 1
    BY <1>6 DEF Tick, vars
  <2>2. d \in Runs /\ d.at <= now /\ d.at \in Nat /\ now \in Nat
    BY <1>2, <2>1, Clock DEF Runs
  <2>3. Valid(d, now)' => Valid(d, now)
    BY <2>1, <2>2, TTLAssumption DEF Valid
  <2> QED
    BY <1>4, <2>1, <2>3
<1>7. CASE Start(p)
  <2>1. /\ pc[p] = "off" /\ printed'[p] = printed[p]
        /\ \E r \in Requests : req'[p] = r /\ pc'[p] = IF r.host = "export" THEN "exporting"
                                                       ELSE "looking"
    BY <1>1, <1>7 DEF Start
  <2> QED
    BY <1>3, <2>1 DEF Reuses, Repeats
<1>8. CASE FirstLookup(p)
  <2>1. /\ pc[p] = "looking" /\ req' = req /\ hints' = hints /\ due' = due /\ now' = now
    BY <1>8 DEF FirstLookup
  <2> SUFFICES ASSUME Repeats(p, d), Valid(d, now)
               PROVE  /\ Open(req[p]) => pc'[p] = "done"
                      /\ pc'[p] # "running"
                      /\ Open(req[p]) /\ req[p].host = "cli" =>
                            \A row \in printed'[p].row : row.at >= d.at
    <3>1. (Repeats(p, d)' => Repeats(p, d)) /\ (Valid(d, now)' => Valid(d, now))
      BY <2>1 DEF Repeats, Valid
    <3> QED
      BY <2>1, <3>1 DEF Reuses, Open
  <2>2. pc'[p] \in {"done", "catalog"}
    BY <1>1, <1>8 DEF FirstLookup, Emit
  <2>3. ASSUME Open(req[p])
        PROVE  \E a \in FirstAnswers(mem[p], req[p], now) : Emit(p, FromCache(a))
    <3>1. FirstAnswers(mem[p], req[p], now) # {}
      BY <1>2, <2>1, <2>3, OpenIsAnswered
    <3>2. ~req[p].force /\ req[p].named
      BY <2>3 DEF Repeats, Open
    <3> QED
      BY <1>8, <3>1, <3>2 DEF FirstLookup
  <2>4. ASSUME Open(req[p]), req[p].host = "cli", NEW row \in printed'[p].row
        PROVE  row.at >= d.at
    <3>1. PICK a \in FirstAnswers(mem[p], req[p], now) : Emit(p, FromCache(a))
      BY <2>3, <2>4
    <3>2. printed'[p].row = {a.row}
      BY <1>1, <3>1 DEF Emit, FromCache
    <3> QED
      BY <1>2, <2>1, <2>4, <3>2, OpenIsAnswered
  <2>5. Open(req[p]) => pc'[p] = "done"
    BY <1>1, <2>3 DEF Emit
  <2> QED
    BY <2>2, <2>4, <2>5
<1>9. CASE SecondLookup(p)
  <2>1. /\ pc[p] = "hinted" /\ req' = req /\ hints' = hints /\ due' = due /\ now' = now
    BY <1>9 DEF SecondLookup
  <2> SUFFICES ASSUME Repeats(p, d), Valid(d, now)
               PROVE  /\ ~Open(req[p])
                      /\ pc'[p] = "running" =>
                            \/ hints[p].ctx # d.hints.ctx
                            \/ (hints[p].vision = "yes") # (d.hints.vision = "yes")
    <3>1. (Repeats(p, d)' => Repeats(p, d)) /\ (Valid(d, now)' => Valid(d, now))
      BY <2>1 DEF Repeats, Valid
    <3> QED
      BY <2>1, <3>1 DEF Reuses, Open
  <2>2. ~Open(req[p])
    BY <1>2, <2>1 DEF Reuses
  <2>3. ASSUME pc'[p] = "running", hints[p].ctx = d.hints.ctx,
               (hints[p].vision = "yes") = (d.hints.vision = "yes")
        PROVE  FALSE
    <3>1. CachedProbe(mem[p], HintedAsk(p), now) # {}
      BY <1>2, <2>1, <2>3, SameKnobsAreAnswered
    <3>2. ~req[p].force
      BY DEF Repeats
    <3>3. pc'[p] = "done"
      BY <1>1, <1>9, <3>1, <3>2 DEF SecondLookup, Emit
    <3> QED
      BY <2>3, <3>3
  <2> QED
    BY <2>2, <2>3
<1>10. CASE AskCatalog(p) \/ RunSuite(p) \/ Persist(p)
  <2>1. /\ pc[p] \in {"catalog", "running", "ran"} /\ pc'[p] # "running"
        /\ req' = req /\ due' = due /\ now' = now
    BY <1>1, <1>10 DEF AskCatalog, RunSuite, Persist, Emit
  <2>2. Repeats(p, d)' /\ Valid(d, now)' => ~Open(req[p])
    BY <1>2, <2>1 DEF Reuses, Repeats, Valid
  <2> QED
    BY <2>1, <2>2 DEF Reuses, Open
<1>11. CASE Export(p)
  <2>1. /\ pc[p] = "exporting" /\ pc'[p] = "done"
        /\ req' = req /\ due' = due /\ now' = now
    BY <1>1, <1>11 DEF Export, Emit
  <2>2. Repeats(p, d)' /\ Valid(d, now)' => ~Open(req[p])
    BY <1>2, <2>1 DEF Reuses, Repeats, Valid
  <2> QED
    BY <2>1, <2>2 DEF Reuses, Open
<1>12. CASE Exit(p)
  BY <1>1, <1>12 DEF Exit
<1> QED
  BY <1>5, <1>6, <1>7, <1>8, <1>9, <1>10, <1>11, <1>12 DEF Next

\* For any requests, catalogs, caches and interleaving of commands: while a run
\* that a persist has reported stored is valid, a command that loaded the file
\* since then and asks for its card does not pay for it again.
THEOREM RunsAreReused == Spec => []RepeatsReuseTheRun
<1> DEFINE Inv == TypeOK /\ StepsInOrder /\ CachesFinite /\ RunsAreKept /\ Reused
<1>1. Init => Inv
  <2> SUFFICES ASSUME Init PROVE Inv
    OBVIOUS
  <2>1. StepsInOrder /\ Reused
    BY DEF Init, StepsInOrder, Reused
  <2> QED
    BY <2>1, TypeInit, FiniteInit, KeptInit
<1>2. Inv /\ [Next]_vars => Inv'
  <2> SUFFICES ASSUME Inv, [Next]_vars PROVE Inv'
    OBVIOUS
  <2>1. Reused'
    BY ReuseStep DEF Reused
  <2> QED
    BY <2>1, TypeStep, OrderStep, FiniteStep, KeptStep
<1>3. Inv => RepeatsReuseTheRun
  BY DEF Reused, Reuses, RepeatsReuseTheRun
<1> QED
  BY <1>1, <1>2, <1>3, PTL DEF Spec
----------------------------------------------------------------------------
(* What is exported.                                                       *)

\* A row that was measured under the asked window is found under it.
LEMMA WindowIsFound ==
    ASSUME NEW cache, cache \subseteq CacheRows, IsFiniteSet(cache), NEW q, NEW t,
           NEW s \in cache, Eligible(s, q, t), s.key.ctx = q.ctx, s.key.tools = "builtin"
    PROVE  FindWithCostAndAdvertised(cache, q, t) # {}
<1> DEFINE default == GetWithSuiteTools(cache, [q EXCEPT !.suite = "full", !.vision = FALSE,
                                                         !.tools = "builtin"], t)
           anyTier == {r \in cache : /\ Eligible(r, q, t) /\ r.key.ctx = q.ctx
                                     /\ r.key.tools = "builtin"}
<1>1. CASE default # {}
  BY <1>1 DEF FindWithCostAndAdvertised
<1>2. CASE default = {}
  <2>1. IsFiniteSet(anyTier) /\ anyTier \subseteq CacheRows /\ anyTier # {}
    BY FS_Subset
  <2>2. FindWithCostAndAdvertised(cache, q, t) =
          {[row |-> r, suite |-> r.key.suite] : r \in NewestExactFirst(anyTier, q)}
    BY <1>2 DEF FindWithCostAndAdvertised
  <2> HIDE DEF anyTier
  <2>3. NewestExactFirst(anyTier, q) # {}
    BY <2>1, SomeNewestExactFirst
  <2> QED
    BY <2>2, <2>3
<1> QED
  BY <1>1, <1>2

\* A row that an overlay may be made of, and what OverlayWindow asks of one
\* process.
UsableAt(row, t) == Valid(row, t) /\ row.key.current /\ row.key.tools = "builtin"
WindowFits(p) ==
    printed[p].from = "export" =>
        \A row \in printed[p].row :
            /\ UsableAt(row, printed[p].at) /\ OneCard(row.key, req[p])
            /\ printed[p].ctx = IF req[p].ctx # 0 THEN req[p].ctx ELSE row.key.ctx
            /\ (\E s \in mem[p] : /\ UsableAt(s, printed[p].at) /\ SameCard(s.key, req[p])
                                  /\ s.key.ctx = req[p].ctx)
                  => req[p].ctx \in {0, row.key.ctx}

LEMMA WindowsFit == (\A p \in Procs : WindowFits(p)) <=> OverlayWindow
BY DEF WindowFits, UsableAt, OverlayWindow

LEMMA ExportFits ==
    ASSUME TypeOK, CachesFinite, NEW p \in Procs, Export(p)
    PROVE  WindowFits(p)'
<1> DEFINE q == Ask(req[p], FALSE, req[p].ctx)
           found == FindWithCostAndAdvertised(mem[p], q, now)
           given == IF q.ctx = 0 THEN {} ELSE {a.row : a \in found}
           newest == FindAndAdvertised(mem[p], q, now)
           rows == IF given # {} THEN given ELSE newest
           Shown(r) == [from |-> "export", row |-> {r}, suite |-> r.key.suite,
                        ctx |-> IF q.ctx # 0 THEN q.ctx ELSE r.key.ctx, at |-> now]
<1>1. /\ q \in CardKeys /\ q.current /\ q.ctx = req[p].ctx
      /\ q.model = req[p].model /\ q.label = req[p].label
      /\ req[p].model \in Models /\ req[p].label \in Labels
      /\ mem[p] \subseteq CacheRows /\ IsFiniteSet(mem[p]) /\ DOMAIN printed = Procs
  BY CommandAssumption DEF Ask, CardKeys, TypeOK, CachesFinite
<1>2. /\ req' = req /\ mem' = mem
      /\ \/ \E r \in rows : Emit(p, Shown(r))
         \/ \E word \in {"error", "stale"} : Emit(p, [Silent EXCEPT !.from = word])
  BY DEF Export
<1>3. CASE \E word \in {"error", "stale"} : Emit(p, [Silent EXCEPT !.from = word])
  BY <1>1, <1>3 DEF Emit, Silent, WindowFits
<1>4. ASSUME NEW r \in rows, Emit(p, Shown(r)) PROVE WindowFits(p)'
  <2> DEFINE Fine == Eligible(r, q, now) /\ r.key.tools = "builtin" /\ r \in mem[p]
  <2>1. given # {} => Fine /\ r.key.ctx = q.ctx
    <3> SUFFICES ASSUME given # {} PROVE Fine /\ r.key.ctx = q.ctx
      OBVIOUS
    <3>1. r \in given
      BY <1>4
    <3>2. PICK a \in found : r = a.row
      BY <3>1
    <3> HIDE DEF q
    <3>3. /\ a.row \in mem[p] /\ Eligible(a.row, q, now) /\ a.row.key.tools = "builtin"
          /\ a.row.key.ctx = q.ctx
      BY <1>1, WindowRowFits
    <3> QED
      BY <3>2, <3>3
  <2>2. given = {} => Fine
    <3> SUFFICES ASSUME given = {} PROVE Fine
      OBVIOUS
    <3>1. r \in newest
      BY <1>4
    <3> HIDE DEF q
    <3> QED
      BY <3>1, NewestIsOne DEF FindAndAdvertised
  <2>3. Fine
    BY <2>1, <2>2
  <2>4. ASSUME NEW s \in mem[p], UsableAt(s, now), SameCard(s.key, req[p]),
               s.key.ctx = req[p].ctx
        PROVE  req[p].ctx \in {0, r.key.ctx}
    <3>1. Eligible(s, q, now) /\ s.key.ctx = q.ctx /\ s.key.tools = "builtin"
      BY <1>1, <2>4 DEF UsableAt, Eligible, SameCard, SameModel
    <3>2. found # {}
      <4> HIDE DEF q
      <4> QED
        BY <1>1, <3>1, WindowIsFound
    <3> HIDE DEF q, found
    <3> QED
      BY <1>1, <2>1, <3>2
  <2>5. OneCard(r.key, req[p])
    <3>1. r.key.model \in Models /\ r.key.label \in Labels
      BY <1>1, <2>3 DEF CacheRows, CardKeys
    <3>2. SameCard(r.key, req[p])
      BY <1>1, <2>3 DEF Eligible, SameCard, SameModel
    <3> QED
      BY <1>1, <3>1, <3>2, SameCardIsOneCard
  <2>6. UsableAt(r, now)
    BY <2>3 DEF UsableAt, Eligible
  <2>7. /\ printed'[p].from = "export" /\ printed'[p].row = {r} /\ printed'[p].at = now
        /\ printed'[p].ctx = IF req[p].ctx # 0 THEN req[p].ctx ELSE r.key.ctx
    BY <1>1, <1>4 DEF Emit
  <2> HIDE DEF q, rows, given, found, newest, Shown, Fine
  <2> QED
    BY <1>2, <2>4, <2>5, <2>6, <2>7 DEF WindowFits, UsableAt
<1> QED
  BY <1>2, <1>3, <1>4

LEMMA WindowStep ==
    ASSUME TypeOK, StepsInOrder, CachesFinite, [Next]_vars, NEW p \in Procs, WindowFits(p)
    PROVE  WindowFits(p)'
<1>1. CASE Export(p)
  BY <1>1, ExportFits
<1>2. CASE printed'[p].from # "export"
  BY <1>2 DEF WindowFits
<1>3. CASE printed'[p] = printed[p] /\ req'[p] = req[p] /\ mem'[p] = mem[p]
  BY <1>3 DEF WindowFits, UsableAt
<1>4. ASSUME NEW q \in Procs, q # p,
             \/ Start(q) \/ FirstLookup(q) \/ AskCatalog(q) \/ SecondLookup(q)
             \/ RunSuite(q) \/ Persist(q) \/ Export(q) \/ Exit(q)
      PROVE  printed'[p] = printed[p] /\ req'[p] = req[p] /\ mem'[p] = mem[p]
  BY <1>4, OthersStay
<1>5. ASSUME \/ Start(p) \/ FirstLookup(p) \/ AskCatalog(p) \/ SecondLookup(p)
             \/ RunSuite(p) \/ Persist(p) \/ Exit(p)
      PROVE  printed'[p].from # "export"
  <2>1. /\ DOMAIN printed = Procs
        /\ pc[p] # "done" => printed[p] = Silent
        /\ Silent.from # "export" /\ [Silent EXCEPT !.from = "error"].from # "export"
        /\ RunEnvelope(p).from # "export" /\ \A a : FromCache(a).from # "export"
    BY DEF TypeOK, StepsInOrder, Silent, RunEnvelope, FromCache
  <2>2. CASE Start(p)
    BY <2>1, <2>2 DEF Start
  <2>3. CASE FirstLookup(p)
    BY <2>1, <2>3 DEF FirstLookup, Emit
  <2>4. CASE AskCatalog(p)
    BY <2>1, <2>4 DEF AskCatalog, Emit
  <2>5. CASE SecondLookup(p)
    BY <2>1, <2>5 DEF SecondLookup, Emit
  <2>6. CASE RunSuite(p)
    BY <2>1, <2>6 DEF RunSuite, Emit
  <2>7. CASE Persist(p)
    BY <2>1, <2>7 DEF Persist, Emit
  <2>8. CASE Exit(p)
    BY <2>1, <2>8 DEF Exit
  <2> QED
    BY <1>5, <2>2, <2>3, <2>4, <2>5, <2>6, <2>7, <2>8
<1> QED
  BY <1>1, <1>2, <1>3, <1>4, <1>5 DEF Next, Tick, vars

\* For any requests and caches: an overlay is of a valid row of the card,
\* measured with the built-in tools, its window is the one that was passed or
\* else the row's, and when a row was measured under the window that was passed
\* the overlay is of such a row.
THEOREM OverlaysTellTheirWindow == Spec => []OverlayWindow
<1> DEFINE Inv == TypeOK /\ StepsInOrder /\ CachesFinite /\ \A p \in Procs : WindowFits(p)
<1>1. Init => Inv
  <2> SUFFICES ASSUME Init PROVE Inv
    OBVIOUS
  <2>1. StepsInOrder /\ \A p \in Procs : WindowFits(p)
    BY DEF Init, StepsInOrder, WindowFits, Silent
  <2> QED
    BY <2>1, TypeInit, FiniteInit
<1>2. Inv /\ [Next]_vars => Inv'
  BY TypeStep, OrderStep, FiniteStep, WindowStep
<1>3. Inv => OverlayWindow
  BY WindowsFit
<1> QED
  BY <1>1, <1>2, <1>3, PTL DEF Spec

----------------------------------------------------------------------------
(* The table of canact matrix, a command of its own.                       *)

\* The clock does not go back.
LEMMA TableClock ==
    /\ WalkStart \in Nat /\ WalkTime \in Nat
    /\ TableTypeOK => clock \in Nat /\ WalkStart <= clock
<1>1. WalkStart \in Nat /\ WalkTime \in Nat
  BY MatrixAssumption
<1> QED
  BY <1>1 DEF TableTypeOK

\* What matrix_entries compares of a row: a rank and a time.
LEMMA TableRowTypes ==
    ASSUME TableTypeOK, NEW row \in loaded
    PROVE  row.at \in Nat /\ Richness(row.key.suite) \in Nat
BY MatrixAssumption DEF TableTypeOK, Richness, CacheRows

\* The loop's comparison orders rows: what beats the old line is as rich as
\* whatever the old line was as rich as.
LEMMA RicherStaysRich ==
    ASSUME TableTypeOK, NEW row \in loaded, NEW old \in loaded, NEW other \in loaded,
           Richer(row, old), AsRich(old, other)
    PROVE  AsRich(row, other)
BY TableRowTypes DEF Richer, AsRich

\* A row that is valid was valid before: the age only grows.
LEMMA ValidBefore ==
    ASSUME NEW row, row.at \in Nat, NEW t \in Nat, NEW u \in Nat, t <= u, Valid(row, u)
    PROVE  Valid(row, t)
BY TTLAssumption DEF Valid

TableInv == TableTypeOK /\ RichestRowWins

LEMMA TableInvInit ==
    ASSUME TableInit
    PROVE  TableInv
<1>1. clock \in WalkStart..(WalkStart + WalkTime)
  BY TableClock DEF TableInit
<1>2. TableTypeOK
  BY <1>1 DEF TableInit, TableTypeOK
<1>3. RichestRowWins
  BY DEF TableInit, RichestRowWins
<1> QED
  BY <1>2, <1>3 DEF TableInv

LEMMA TableTypeStep ==
    ASSUME TableTypeOK, [TableNext]_tableVars
    PROVE  TableTypeOK'
<1> USE DEF TableTypeOK
<1>1. ASSUME NEW row \in left, Visit(row) PROVE TableTypeOK'
  BY <1>1 DEF Visit
<1>2. CASE ClockTick
  <2>1. clock' \in WalkStart..(WalkStart + WalkTime)
    BY <1>2, TableClock DEF ClockTick
  <2> QED
    BY <1>2, <2>1 DEF ClockTick
<1>3. CASE UNCHANGED tableVars
  BY <1>3 DEF tableVars
<1> QED
  BY <1>1, <1>2, <1>3 DEF TableNext

\* A row that takes its place in the table takes it from at most one line,
\* and stands for all the rows that line stood for.
LEMMA RichestAfterTaking ==
    ASSUME TableInv, NEW row \in left, Visit(row), Valid(row, clock), Wanted(row),
           \A r \in best : Group(r) = Group(row) => Richer(row, r)
    PROVE  RichestRowWins'
<1> DEFINE old == {r \in best : Group(r) = Group(row)}
<1>1. best' = (best \ old) \cup {row} /\ left' = left \ {row}
      /\ clock' = clock /\ loaded' = loaded /\ want' = want
  BY DEF Visit
<1>2. \A r : Wanted(r)' <=> Wanted(r)
  BY <1>1 DEF Wanted
<1>3. \A r, s \in best' : Group(r) = Group(s) => r = s
  BY <1>1 DEF TableInv, RichestRowWins
<1>4. \A r \in best' : Valid(r, WalkStart) /\ Wanted(r)'
  <2>1. Valid(row, WalkStart)
    <3>1. row \in loaded /\ TableTypeOK
      BY DEF TableInv, TableTypeOK
    <3>2. row.at \in Nat
      BY <3>1, TableRowTypes
    <3> QED
      BY <3>1, <3>2, TableClock, ValidBefore
  <2> QED
    BY <1>1, <1>2, <2>1 DEF TableInv, RichestRowWins
<1>5. ASSUME NEW x \in loaded' \ left', Valid(x, clock'), Wanted(x)'
      PROVE  \E r \in best' : Group(r) = Group(x) /\ AsRich(r, x)
  <2>1. CASE x = row
    <3>1. row \in loaded /\ TableTypeOK
      BY DEF TableInv, TableTypeOK
    <3>2. row.at \in Nat /\ Richness(row.key.suite) \in Nat
      BY <3>1, TableRowTypes
    <3>3. AsRich(row, row)
      BY <3>2 DEF AsRich, Richer
    <3> QED
      BY <1>1, <2>1, <3>3
  <2>2. CASE x # row
    <3>1. PICK r \in best : Group(r) = Group(x) /\ AsRich(r, x)
      BY <1>1, <1>2, <1>5, <2>2 DEF TableInv, RichestRowWins
    <3>2. CASE r \in old
      <4>1. AsRich(row, x)
        BY <1>1, <1>5, <3>1, <3>2, RicherStaysRich DEF TableInv, TableTypeOK
      <4> QED
        BY <1>1, <3>1, <3>2, <4>1
    <3>3. CASE r \notin old
      BY <1>1, <3>1, <3>3
    <3> QED
      BY <3>2, <3>3
  <2> QED
    BY <2>1, <2>2
<1> HIDE DEF old
<1> QED
  BY <1>3, <1>4, <1>5 DEF RichestRowWins

\* A row that does not count, or is no richer than its line, changes nothing.
LEMMA RichestAfterPassing ==
    ASSUME TableInv, NEW row \in left, Visit(row),
           \/ ~Valid(row, clock)
           \/ ~Wanted(row)
           \/ \E r \in best : Group(r) = Group(row) /\ ~Richer(row, r)
    PROVE  RichestRowWins'
<1>1. best' = best /\ left' = left \ {row}
      /\ clock' = clock /\ loaded' = loaded /\ want' = want
  BY DEF Visit
<1>2. \A r : Wanted(r)' <=> Wanted(r)
  BY <1>1 DEF Wanted
<1>3. ASSUME NEW x \in loaded' \ left', Valid(x, clock'), Wanted(x)'
      PROVE  \E r \in best' : Group(r) = Group(x) /\ AsRich(r, x)
  <2>1. CASE x = row
    BY <1>1, <1>2, <1>3, <2>1 DEF AsRich
  <2>2. CASE x # row
    BY <1>1, <1>2, <1>3, <2>2 DEF TableInv, RichestRowWins
  <2> QED
    BY <2>1, <2>2
<1> QED
  BY <1>1, <1>2, <1>3 DEF TableInv, RichestRowWins

LEMMA RichestStep ==
    ASSUME TableInv, [TableNext]_tableVars
    PROVE  RichestRowWins'
<1>1. ASSUME NEW row \in left, Visit(row) PROVE RichestRowWins'
  BY <1>1, RichestAfterTaking, RichestAfterPassing
<1>2. CASE ClockTick
  <2>1. clock' = clock + 1 /\ loaded' = loaded /\ want' = want /\ left' = left /\ best' = best
    BY <1>2 DEF ClockTick
  <2>2. \A r : Wanted(r)' <=> Wanted(r)
    BY <2>1 DEF Wanted
  <2>3. \A r \in loaded : Valid(r, clock') => Valid(r, clock)
    <3>1. clock \in Nat /\ clock' \in Nat /\ clock <= clock'
      BY <2>1, TableClock DEF TableInv
    <3> QED
      BY <3>1, TableRowTypes, ValidBefore DEF TableInv
  <2> QED
    BY <2>1, <2>2, <2>3 DEF TableInv, RichestRowWins
<1>3. CASE UNCHANGED tableVars
  BY <1>3 DEF tableVars, TableInv, RichestRowWins, Wanted
<1> QED
  BY <1>1, <1>2, <1>3 DEF TableNext

\* Every reachable state of the walk is well typed: a line of the table is a
\* row the loop has visited.
THEOREM TableTypeCorrect == TableSpec => []TableTypeOK
<1>1. TableInit => TableTypeOK
  BY TableInvInit DEF TableInv
<1> QED
  BY <1>1, TableTypeStep, PTL DEF TableSpec

\* canact matrix shows the richest and newest row of each group, in whatever
\* order the HashMap gives the rows and however long the walk takes.
THEOREM RichestWins == TableSpec => []RichestRowWins
<1>1. TableInit => TableInv
  BY TableInvInit
<1>2. TableInv /\ [TableNext]_tableVars => TableInv'
  BY TableTypeStep, RichestStep DEF TableInv
<1>3. TableInv => RichestRowWins
  BY DEF TableInv
<1> QED
  BY <1>1, <1>2, <1>3, PTL DEF TableSpec
=============================================================================
