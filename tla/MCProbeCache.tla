---------------------------- MODULE MCProbeCache ----------------------------
(* Instances of ProbeCache for TLC: one key an earlier release may have left *)
(* a row for, processes of one release, a TTL of two ticks.                  *)
EXTENDS ProbeCache, TLC

CONSTANTS p1, p2, k1, k2

OneProc == {p1}
TwoProcs == {p1, p2}
OneKey == {k1}
TwoKeys == {k1, k2}

OneEpoch == [p \in Procs |-> 2]

\* An old epoch, a refusal scored the old way, and a row with no epochs.
MCOldRows ==
    {[at |-> 1, epoch |-> 1, measured |-> TRUE, tools |-> "scored"],
     [at |-> 1, epoch |-> 2, measured |-> TRUE, tools |-> "old_refusal"],
     [at |-> 1, epoch |-> 0, measured |-> TRUE, tools |-> "scored"]}

Symmetry == Permutations(Procs) \cup Permutations(Keys)
=============================================================================
