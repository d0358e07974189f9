---------------------------- MODULE CacheLookup ----------------------------
(***************************************************************************)
(* The lookups of src/cache.rs: which rows of a loaded cache may answer a  *)
(* command.                                                                *)
(*                                                                         *)
(* A cache key is a record, and a request for a card is the key it would   *)
(* be stored under; ctx is 0 where the code has None, tools is "builtin"   *)
(* where it has None and the digest of the caller's list otherwise, and    *)
(* current is PROBE_SUITE_VERSION.  A model id is a name and a set with    *)
(* its provider prefix, or empty.  The rows lie in a HashMap, so a lookup  *)
(* that takes the newest of several is a set: any of them may be taken.    *)
(***************************************************************************)
EXTENDS Naturals, FiniteSets

CONSTANTS
    Labels,     \* provider labels
    Family,     \* provider_family of each label
    Names,      \* model names without a prefix
    TTL         \* CACHE_TTL_SECS

\* A family's own name, where it is a label, is a label of that family.
ASSUME FamilyAssumption ==
    /\ Family \in [Labels -> STRING]
    /\ \A label \in Labels : Family[label] \in Labels =>
          Family[Family[label]] = Family[label]
ASSUME TTLAssumption == TTL \in Nat \ {0}

Tiers == {"policy", "full", "all"}
AtMostOne(labels) == {{}} \cup {{label} : label \in labels}
Models == [prefix : AtMostOne(Labels), name : Names]
CardKeys == [model : Models, label : Labels, suite : Tiers, vision : BOOLEAN,
             ctx : Nat, tools : STRING, current : BOOLEAN]
CacheRows == [key : CardKeys, at : Nat]     \* at is cached_at

\* is_valid, with the age saturating at 0.
Valid(row, t) == row.at <= t => t - row.at < TTL

\* strip_normalized_provider_prefix for either of two labels.
Stripped(model, label1, label2) ==
    IF model.prefix \subseteq {label1, Family[label1], label2, Family[label2]}
    THEN [model EXCEPT !.prefix = {}] ELSE model

\* models_equivalent and providers_equivalent.
SameModel(k, q) ==
    \/ k.model = q.model
    \/ Stripped(k.model, q.label, k.label) = Stripped(q.model, q.label, k.label)
SameCard(k, q) == SameModel(k, q) /\ Family[k.label] = Family[q.label]

\* What every scan of the cache asks of a row.
Eligible(row, q, t) == Valid(row, t) /\ row.key.current /\ SameCard(row.key, q)

\* key_knobs_match_suite.
KnobsMatch(k, q) == k.suite = q.suite /\ k.vision = q.vision /\ k.ctx = q.ctx

\* max_by_key on cached_at, and on the exact model id before it.
Newest(rows) == {r \in rows : \A s \in rows : s.at <= r.at}
NewestExactFirst(rows, q) ==
    LET exact == {r \in rows : r.key.model = q.model} IN
    Newest(IF exact # {} THEN exact ELSE rows)

----------------------------------------------------------------------------
\* get_with_suite_tools: the row of the very key, or the newest row of the
\* same card with the same knobs and the same tool list.
GetWithSuiteTools(cache, q, t) ==
    LET own == {r \in cache : r.key = q /\ Valid(r, t)} IN
    IF own # {} THEN own
    ELSE Newest({r \in cache : /\ Eligible(r, q, t) /\ KnobsMatch(r.key, q)
                               /\ r.key.tools = q.tools})

\* find_profile_unspecified_catalog_suite: the catalog's knobs may differ.
FindUnspecifiedCatalog(cache, q, t) ==
    NewestExactFirst({r \in cache : /\ Eligible(r, q, t) /\ r.key.suite = q.suite
                                    /\ r.key.tools = "builtin"}, q)

\* find_profile_with_cost_and_advertised: a row of any tier with the same
\* window, the full one without vision first.
FindWithCostAndAdvertised(cache, q, t) ==
    LET default == GetWithSuiteTools(cache, [q EXCEPT !.suite = "full", !.vision = FALSE,
                                                      !.tools = "builtin"], t) IN
    IF default # {} THEN {[row |-> r, suite |-> "full"] : r \in default}
    ELSE {[row |-> r, suite |-> r.key.suite] :
            r \in NewestExactFirst({r \in cache : /\ Eligible(r, q, t) /\ r.key.ctx = q.ctx
                                                  /\ r.key.tools = "builtin"}, q)}

\* find_profile_and_advertised: the newest row of the card, whatever its knobs.
FindAndAdvertised(cache, q, t) ==
    NewestExactFirst({r \in cache : Eligible(r, q, t) /\ r.key.tools = "builtin"}, q)

\* stale_suite_version: a row of the card that another suite version left.
StaleSuite(cache, q, t) ==
    \E r \in cache : Valid(r, t) /\ ~r.key.current /\ SameCard(r.key, q)

=============================================================================
