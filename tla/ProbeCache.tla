----------------------------- MODULE ProbeCache -----------------------------
(***************************************************************************)
(* probes.json (src/cache.rs): a file of rows that several canact          *)
(* processes load, migrate, add to and save with no lock between them.     *)
(*                                                                         *)
(* A save reads the file again, keeps for every key the later of its own   *)
(* row and the file's, writes the result to a temporary file of its own    *)
(* and renames that over the cache.  The rename is atomic; the whole save  *)
(* is not.                                                                 *)
(*                                                                         *)
(* A row's profile is abstracted to what the cache itself looks at: when   *)
(* it was cached, the grader epoch of one dimension whose grader changes   *)
(* between releases, whether that dimension holds a measurement, and the   *)
(* state of a tool probe whose vendor refused tools.                       *)
(***************************************************************************)
EXTENDS Naturals

CONSTANTS
    Procs,      \* processes that use the file
    Keys,       \* cache keys
    Epoch,      \* current_grader_version in each process's build, from 1
    OldRows,    \* rows that releases before these processes may have left
    TTL,        \* CACHE_TTL_SECS
    StartTime,  \* the clock when the first process starts
    MaxTime     \* bound on the clock

\* A vendor's "does not support tools": an old row scored it Medium or left
\* it unfinished, and load turns it into a completed Weak.
ToolRows == {"scored", "old_refusal", "refusal"}

\* cached_at is 0 for a key without a row; epoch 0 is an empty version map,
\* which counts as current.
Rows == [at : Nat, epoch : Nat, measured : BOOLEAN, tools : ToolRows]
NoRow == [at |-> 0, epoch |-> 0, measured |-> FALSE, tools |-> "scored"]

ASSUME TimeAssumption ==
    /\ TTL \in Nat \ {0}
    /\ StartTime \in Nat \ {0}
    /\ MaxTime \in Nat

ASSUME EpochAssumption == Epoch \in [Procs -> Nat \ {0}]

ASSUME OldRowsAssumption ==
    /\ OldRows \subseteq Rows
    /\ \A r \in OldRows : r.at \in 1..(StartTime - 1)

VARIABLES
    now,        \* unix_now
    disk,       \* the rows of the file
    readable,   \* the file is JSON, or absent
    pc,         \* what each process is doing with the cache
    mem,        \* the ProbeCache value a process holds
    seen,       \* the file as the process's save read it
    out,        \* the merged rows in the process's temporary file
    promised    \* latest cached_at that a save of the key has reported stored

vars == <<now, disk, readable, pc, mem, seen, out, promised>>

Empty == [k \in Keys |-> NoRow]

Init ==
    /\ now = StartTime
    /\ disk \in [Keys -> OldRows \cup {NoRow}]
    /\ readable = TRUE
    /\ pc = [p \in Procs |-> "off"]
    /\ mem = [p \in Procs |-> Empty]
    /\ seen = [p \in Procs |-> Empty]
    /\ out = [p \in Procs |-> Empty]
    /\ promised = [k \in Keys |-> 0]

----------------------------------------------------------------------------
(* Rows.                                                                   *)

\* migrate_stale_tool_scores on one row.
ToolsMigrated(row) ==
    IF row.tools = "old_refusal" THEN [row EXCEPT !.tools = "refusal"] ELSE row

\* A slip: the dimension is reset but its stored epoch stays.
GradersMigratedInPlace(p, row) ==
    IF row.epoch \in {0, Epoch[p]} THEN row ELSE [row EXCEPT !.measured = FALSE]

\* apply_grader_freshness on one row: a dimension of another epoch is reset
\* to "Not probed" and its epoch is moved along.
GradersMigrated(p, row) ==
    IF row.epoch \in {0, Epoch[p]} THEN row
    ELSE [row EXCEPT !.epoch = Epoch[p], !.measured = FALSE]

\* A slip: only the keys that have a row are carried over.
MigratedRowsOnly(p, rows) ==
    [k \in {k \in Keys : rows[k].at > 0} |-> GradersMigrated(p, ToolsMigrated(rows[k]))]

Migrated(p, rows) == [k \in Keys |-> GradersMigrated(p, ToolsMigrated(rows[k]))]

\* Neither migration reports a change for the row.
UpToDate(p, row) == row.epoch \in {0, Epoch[p]} /\ row.tools # "old_refusal"

\* A slip: the comparison of the merge is turned round.
Earlier(ours, theirs) == IF theirs.at > 0 /\ ours.at >= theirs.at THEN theirs ELSE ours

\* The loop of save: ours stays when ours.cached_at >= theirs.cached_at.
Later(ours, theirs) == IF ours.at >= theirs.at THEN ours ELSE theirs

Merged(ours, theirs) == [k \in Keys |-> Later(ours[k], theirs[k])]

----------------------------------------------------------------------------
(* One process.                                                            *)

\* ProbeCache::load.  A file that is not JSON is an error and the command
\* ends; when a row was migrated, load goes on to save.
Load(p) ==
    /\ pc[p] = "off" /\ readable
    /\ mem' = [mem EXCEPT ![p] = Migrated(p, disk)]
    /\ pc' = [pc EXCEPT ![p] = IF \A k \in Keys : UpToDate(p, disk[k])
                                 THEN "ready" ELSE "migrated"]
    /\ UNCHANGED <<now, disk, readable, seen, out, promised>>

\* A slip: put stamps the default grader version, not the current one.
PutDefaultEpoch(p, k) ==
    /\ pc[p] = "ready"
    /\ mem' = [mem EXCEPT ![p][k] =
                  [at |-> now, epoch |-> 1, measured |-> TRUE, tools |-> "scored"]]
    /\ UNCHANGED <<now, disk, readable, pc, seen, out, promised>>

\* put_with_suite_tools: the row of a run that has just been measured.
Put(p, k) ==
    /\ pc[p] = "ready"
    /\ mem' = [mem EXCEPT ![p][k] =
                  [at |-> now, epoch |-> Epoch[p], measured |-> TRUE, tools |-> "scored"]]
    /\ UNCHANGED <<now, disk, readable, pc, seen, out, promised>>

\* A slip: the file is not read again before it is replaced.
SaveMergeBlind(p) ==
    /\ pc[p] \in {"ready", "migrated"}
    /\ pc' = [pc EXCEPT ![p] = "merged"]
    /\ seen' = [seen EXCEPT ![p] = disk]
    /\ out' = [out EXCEPT ![p] = mem[p]]
    /\ UNCHANGED <<now, disk, readable, mem, promised>>

\* save up to the temporary file: read, merge, write.  A file it cannot read
\* is left out of the merge.
SaveMerge(p) ==
    /\ pc[p] \in {"ready", "migrated"}
    /\ pc' = [pc EXCEPT ![p] = "merged"]
    /\ seen' = [seen EXCEPT ![p] = IF readable THEN disk ELSE Empty]
    /\ out' = [out EXCEPT ![p] = IF readable THEN Merged(mem[p], disk) ELSE mem[p]]
    /\ UNCHANGED <<now, disk, readable, mem, promised>>

\* The save is over: what it read and merged is dropped.
DropCopies(p) ==
    /\ seen' = [seen EXCEPT ![p] = Empty]
    /\ out' = [out EXCEPT ![p] = Empty]

\* save's rename, which ends the save.
SaveRename(p) ==
    /\ pc[p] = "merged"
    /\ pc' = [pc EXCEPT ![p] = "ready"]
    /\ disk' = out[p]
    /\ readable' = TRUE
    /\ promised' = [k \in Keys |->
                      IF mem[p][k].at > promised[k] THEN mem[p][k].at ELSE promised[k]]
    /\ DropCopies(p)
    /\ UNCHANGED <<now, mem>>

\* A slip: the cache itself is opened for writing, and a failure half way
\* leaves it empty.
SaveFailsInPlace(p) ==
    /\ pc[p] \in {"migrated", "merged"}
    /\ pc' = [pc EXCEPT ![p] = "ready"]
    /\ disk' = IF pc[p] = "merged" THEN Empty ELSE disk
    /\ DropCopies(p)
    /\ UNCHANGED <<now, readable, mem, promised>>

\* The temporary file cannot be written or renamed: load and persist only
\* warn, the rows stay in memory.
SaveFails(p) ==
    /\ pc[p] \in {"migrated", "merged"}
    /\ pc' = [pc EXCEPT ![p] = "ready"]
    /\ DropCopies(p)
    /\ UNCHANGED <<now, disk, readable, mem, promised>>

\* The process ends or is killed, with or without a save under way.
Exit(p) ==
    /\ pc[p] # "off"
    /\ pc' = [pc EXCEPT ![p] = "off"]
    /\ mem' = [mem EXCEPT ![p] = Empty]
    /\ DropCopies(p)
    /\ UNCHANGED <<now, disk, readable, promised>>

\* Something else leaves the file unreadable: the rows it held are gone.
Damage ==
    /\ readable /\ readable' = FALSE
    /\ disk' = Empty
    /\ promised' = [k \in Keys |-> 0]
    /\ UNCHANGED <<now, pc, mem, seen, out>>

Tick ==
    /\ now < StartTime + MaxTime
    /\ now' = now + 1
    /\ UNCHANGED <<disk, readable, pc, mem, seen, out, promised>>

Next ==
    \/ \E p \in Procs :
        \/ Load(p) \/ SaveMerge(p) \/ SaveRename(p) \/ SaveFails(p) \/ Exit(p)
        \/ \E k \in Keys : Put(p, k)
    \/ Damage \/ Tick

Spec == Init /\ [][Next]_vars

----------------------------------------------------------------------------
(* Properties.                                                             *)

\* Every variable keeps to the values the cache can give it.
TypeOK ==
    /\ now \in StartTime..(StartTime + MaxTime)
    /\ disk \in [Keys -> Rows]
    /\ readable \in BOOLEAN
    /\ pc \in [Procs -> {"off", "migrated", "ready", "merged"}]
    /\ mem \in [Procs -> [Keys -> Rows]]
    /\ seen \in [Procs -> [Keys -> Rows]]
    /\ out \in [Procs -> [Keys -> Rows]]
    /\ promised \in [Keys -> Nat]

\* All processes run builds with the same graders.
OneRelease == \A p, q \in Procs : Epoch[p] = Epoch[q]

\* Migration sticks: what a save is about to write needs no migration, so
\* no save brings back a row that a load has migrated, although the merge
\* takes rows from a file another process may not have migrated yet.
\* apply_grader_freshness: otherwise "every later load treats the row as
\* stale and rewrites the file again".
SavesNeedNoMigration ==
    OneRelease =>
        \A p \in Procs, k \in Keys : pc[p] = "merged" => UpToDate(p, out[p][k])

\* A row measured by this release is never reset to "Not probed", in the
\* file, in a process or on its way to the file.
MeasurementsSurvive ==
    OneRelease =>
        \A k \in Keys :
            /\ disk[k].at >= StartTime => disk[k].measured
            /\ \A p \in Procs :
                /\ mem[p][k].at >= StartTime => mem[p][k].measured
                /\ out[p][k].at >= StartTime => out[p][k].measured

AsLate(new, old) == \A k \in Keys : new[k].at >= old[k].at

\* A save leaves the file with a row at least as late as the process's own
\* for every key; and when nobody replaced the file since the save read it,
\* with one at least as late as the file's: no key is lost, none goes back.
SavesOnlyAdvance ==
    [][\A p \in Procs :
          pc[p] = "merged" /\ pc'[p] = "ready" /\ disk' # disk =>
              /\ AsLate(disk', mem[p])
              /\ seen[p] = disk => AsLate(disk', disk)]_vars

\* docs/read-the-card.md: "Entries last 30 days".  Once a save has reported a
\* row stored, the file holds that row or a later one until the TTL is over,
\* whatever crashes and restarts come in between.
EntriesLast30Days ==
    \A k \in Keys :
        promised[k] > 0 /\ now - promised[k] < TTL => disk[k].at >= promised[k]

\* With one process at a time a row in the file changes only for a later
\* one or for its own migration, however often a process dies on the way.
RowsOnlyImprove ==
    [][readable' =>
          \A k \in Keys :
              \/ disk'[k].at > disk[k].at
              \/ disk'[k] = disk[k]
              \/ \E p \in Procs : disk'[k] = Migrated(p, disk)[k]]_vars
=============================================================================
