---------------------------- MODULE MatrixTable ----------------------------
(***************************************************************************)
(* The table of canact matrix: matrix_entries of src/cache.rs, which walks *)
(* the rows of the cache once and keeps one of each group.                 *)
(*                                                                         *)
(* The rows lie in a HashMap, so they come in any order; the clock is read *)
(* at every row and may move on between two.                               *)
(***************************************************************************)
EXTENDS CacheLookup

CONSTANTS
    Caches,     \* what the cache may hold
    WalkStart,  \* the clock when the walk begins
    WalkTime    \* bound on the clock

ASSUME MatrixAssumption ==
    /\ \A rows \in Caches : rows \subseteq CacheRows
    /\ WalkStart \in Nat /\ WalkTime \in Nat

VARIABLES
    clock,  \* unix_now
    loaded, \* the rows of the file
    want,   \* the provider filter, or none
    left,   \* the rows the loop has not come to
    best    \* the rows of the table so far

tableVars == <<clock, loaded, want, left, best>>

TableInit ==
    /\ clock = WalkStart
    /\ loaded \in Caches
    /\ want \in AtMostOne(Labels)
    /\ left = loaded
    /\ best = {}

Richness(suite) == CASE suite = "all" -> 3 [] suite = "full" -> 2 [] OTHER -> 1

\* The row's line in the table: its label, and its model without the label's
\* prefix.  Two labels of a family have a line each.
Group(row) ==
    [label |-> row.key.label, model |-> Stripped(row.key.model, row.key.label, row.key.label)]

\* A slip: within a tier the row that comes last wins.
RicherOrLast(row, old) == Richness(row.key.suite) >= Richness(old.key.suite)

\* The comparison of the loop: the tier first, then cached_at.
Richer(row, old) ==
    \/ Richness(row.key.suite) > Richness(old.key.suite)
    \/ Richness(row.key.suite) = Richness(old.key.suite) /\ row.at > old.at

\* The filter's part of the loop.
Wanted(row) ==
    /\ row.key.current /\ row.key.tools = "builtin"
    /\ \A label \in want : Family[row.key.label] = Family[label]

\* One turn of the loop.
Visit(row) ==
    LET old == {r \in best : Group(r) = Group(row)} IN
    /\ row \in left /\ left' = left \ {row}
    /\ best' = IF Valid(row, clock) /\ Wanted(row) /\ \A r \in old : Richer(row, r)
               THEN (best \ old) \cup {row} ELSE best
    /\ UNCHANGED <<clock, loaded, want>>

ClockTick ==
    /\ clock < WalkStart + WalkTime
    /\ clock' = clock + 1
    /\ UNCHANGED <<loaded, want, left, best>>

TableNext == (\E row \in left : Visit(row)) \/ ClockTick

TableSpec == TableInit /\ [][TableNext]_tableVars

----------------------------------------------------------------------------
(* Properties.                                                             *)

TableTypeOK ==
    /\ clock \in WalkStart..(WalkStart + WalkTime)
    /\ loaded \in Caches
    /\ want \in AtMostOne(Labels)
    /\ left \subseteq loaded
    /\ best \subseteq loaded \ left

\* No richer row, and no newer one of the same tier.
AsRich(row, other) == ~Richer(other, row)

\* "the richest suite wins (all, then full, then policy)", and "ties keep the
\* newer", of each label's rows: in whatever order the rows come and whenever some of them expire,
\* the table has at most one line of a group, each line is a row that counted,
\* and for every row visited that still counts the line of its group is at
\* least as rich and as new.
RichestRowWins ==
    /\ \A r, s \in best : Group(r) = Group(s) => r = s
    /\ \A r \in best : Valid(r, WalkStart) /\ Wanted(r)
    /\ \A row \in loaded \ left : Valid(row, clock) /\ Wanted(row) =>
          \E r \in best : Group(r) = Group(row) /\ AsRich(r, row)

\* "Cache list, matrix, and export treat the labels in one row as one card"
\* (README): of a model under labels of one family the table shows one line.
\* matrix_entries groups by the label itself, and shows one for each.
OneLineACard == \A r, s \in best : SameCard(r.key, s.key) => r = s
=============================================================================
