--------------------------- MODULE ProbeCacheProofs ---------------------------
(***************************************************************************)
(* Proofs about the shared cache file, for any set of processes and keys.  *)
(***************************************************************************)
EXTENDS ProbeCache, TLAPS

USE TimeAssumption, EpochAssumption, OldRowsAssumption

----------------------------------------------------------------------------
(* Type correctness.                                                       *)

\* The empty file is a file of rows.
LEMMA EmptyType == Empty \in [Keys -> Rows]
  BY DEF Empty, NoRow, Rows, ToolRows

\* Migration turns rows into up-to-date rows of the same age.
LEMMA MigratedRow ==
    ASSUME NEW p \in Procs, NEW r \in Rows
    PROVE  LET m == GradersMigrated(p, ToolsMigrated(r)) IN
           /\ m \in Rows
           /\ m.at = r.at
           /\ UpToDate(p, m)
  <1>1. ToolsMigrated(r) \in Rows /\ ToolsMigrated(r).at = r.at
        /\ ToolsMigrated(r).tools # "old_refusal"
        /\ ToolsMigrated(r).epoch = r.epoch
    BY DEF ToolsMigrated, Rows, ToolRows
  <1> DEFINE t == ToolsMigrated(r)
             m == GradersMigrated(p, t)
  <1>2. Epoch[p] \in Nat \ {0}
    OBVIOUS
  <1> HIDE DEF t
  <1>3. t \in Rows /\ t.at = r.at /\ t.tools # "old_refusal"
    BY <1>1 DEF t
  <1>4. m \in Rows /\ m.at = r.at /\ m.tools # "old_refusal" /\ m.epoch \in {0, Epoch[p]}
    BY <1>2, <1>3 DEF GradersMigrated, Rows
  <1> HIDE DEF m
  <1>5. UpToDate(p, m)
    BY <1>4 DEF UpToDate
  <1> QED
    BY <1>4, <1>5 DEF m, t

\* Merging two files of rows gives a file of rows at least as late as both.
LEMMA MergedRows ==
    ASSUME NEW a \in [Keys -> Rows], NEW b \in [Keys -> Rows]
    PROVE  /\ Merged(a, b) \in [Keys -> Rows]
           /\ AsLate(Merged(a, b), a)
           /\ AsLate(Merged(a, b), b)
           /\ \A k \in Keys : Merged(a, b)[k] \in {a[k], b[k]}
           /\ \A k \in Keys : Merged(a, b)[k] = b[k] => a[k] = b[k] \/ a[k].at < b[k].at
  BY DEF Merged, Later, AsLate, Rows

LEMMA MigratedRows ==
    ASSUME NEW p \in Procs, NEW a \in [Keys -> Rows]
    PROVE  /\ Migrated(p, a) \in [Keys -> Rows]
           /\ \A k \in Keys : Migrated(p, a)[k].at = a[k].at
  <1>1. \A k \in Keys : a[k] \in Rows
    OBVIOUS
  <1> QED
    BY <1>1, MigratedRow DEF Migrated

\* Every reachable state of the cache is well typed.
THEOREM TypeCorrect == Spec => []TypeOK
  <1>1. Init => TypeOK
    <2> SUFFICES ASSUME Init PROVE TypeOK
      OBVIOUS
    <2>1. NoRow \in Rows
      BY DEF NoRow, Rows, ToolRows
    <2>2. disk \in [Keys -> Rows]
      BY <2>1 DEF Init
    <2> QED
      BY <2>2, EmptyType DEF Init, TypeOK
  <1>2. TypeOK /\ [Next]_vars => TypeOK'
    <2> SUFFICES ASSUME TypeOK, [Next]_vars PROVE TypeOK'
      OBVIOUS
    <2> USE DEF TypeOK
    <2>1. ASSUME NEW p \in Procs, Load(p) PROVE TypeOK'
      <3>1. Migrated(p, disk) \in [Keys -> Rows]
        BY MigratedRows
      <3> QED
        BY <2>1, <3>1 DEF Load
    <2>2. ASSUME NEW p \in Procs, NEW k \in Keys, Put(p, k) PROVE TypeOK'
      <3>1. [at |-> now, epoch |-> Epoch[p], measured |-> TRUE, tools |-> "scored"] \in Rows
        BY DEF Rows, ToolRows
      <3> QED
        BY <2>2, <3>1 DEF Put
    <2>3. ASSUME NEW p \in Procs, SaveMerge(p) PROVE TypeOK'
      <3>1. Merged(mem[p], disk) \in [Keys -> Rows]
        BY MergedRows
      <3> QED
        BY <2>3, <3>1, EmptyType DEF SaveMerge
    <2>4. ASSUME NEW p \in Procs, SaveRename(p) PROVE TypeOK'
      <3>1. promised' \in [Keys -> Nat]
        BY <2>4 DEF SaveRename, Rows
      <3> QED
        BY <2>4, <3>1, EmptyType DEF SaveRename, DropCopies
    <2>5. ASSUME NEW p \in Procs, SaveFails(p) PROVE TypeOK'
      BY <2>5, EmptyType DEF SaveFails, DropCopies
    <2>6. ASSUME NEW p \in Procs, Exit(p) PROVE TypeOK'
      BY <2>6, EmptyType DEF Exit, DropCopies
    <2>7. CASE Damage
      BY <2>7, EmptyType DEF Damage
    <2>8. CASE Tick
      BY <2>8 DEF Tick
    <2>9. CASE UNCHANGED vars
      BY <2>9 DEF vars
    <2> QED
      BY <2>1, <2>2, <2>3, <2>4, <2>5, <2>6, <2>7, <2>8, <2>9 DEF Next
  <1> QED
    BY <1>1, <1>2, PTL DEF Spec

----------------------------------------------------------------------------
(* A save only advances the file.                                          *)

\* The temporary file of a save is at least as late as what the process holds
\* and as what it read.  SavesOnlyAdvance is this, seen at the rename.
MergeDominates ==
    \A p \in Procs :
        pc[p] = "merged" => AsLate(out[p], mem[p]) /\ AsLate(out[p], seen[p])

LEMMA MergeDominatesStep == TypeOK /\ MergeDominates /\ [Next]_vars => MergeDominates'
  <1> SUFFICES ASSUME TypeOK, MergeDominates, [Next]_vars,
                      NEW q \in Procs, pc'[q] = "merged"
               PROVE  AsLate(out'[q], mem'[q]) /\ AsLate(out'[q], seen'[q])
    BY DEF MergeDominates, AsLate
  <1> USE DEF TypeOK
  <1>1. ASSUME NEW p \in Procs, Load(p)
        PROVE  AsLate(out'[q], mem'[q]) /\ AsLate(out'[q], seen'[q])
    BY <1>1 DEF Load, MergeDominates
  <1>2. ASSUME NEW p \in Procs, NEW k \in Keys, Put(p, k)
        PROVE  AsLate(out'[q], mem'[q]) /\ AsLate(out'[q], seen'[q])
    BY <1>2 DEF Put, MergeDominates
  <1>3. ASSUME NEW p \in Procs, SaveMerge(p)
        PROVE  AsLate(out'[q], mem'[q]) /\ AsLate(out'[q], seen'[q])
    <2>1. CASE p = q
      <3>1. AsLate(Merged(mem[q], disk), mem[q]) /\ AsLate(Merged(mem[q], disk), disk)
        BY MergedRows
      <3>2. AsLate(mem[q], mem[q]) /\ AsLate(mem[q], Empty)
        BY DEF AsLate, Empty, NoRow, Rows
      <3> QED
        BY <1>3, <2>1, <3>1, <3>2 DEF SaveMerge
    <2>2. CASE p # q
      BY <1>3, <2>2 DEF SaveMerge, MergeDominates
    <2> QED
      BY <2>1, <2>2
  <1>4. ASSUME NEW p \in Procs, SaveRename(p) \/ SaveFails(p) \/ Exit(p)
        PROVE  AsLate(out'[q], mem'[q]) /\ AsLate(out'[q], seen'[q])
    BY <1>4 DEF SaveRename, SaveFails, Exit, DropCopies, MergeDominates
  <1>5. CASE Damage \/ Tick \/ UNCHANGED vars
    BY <1>5 DEF Damage, Tick, vars, MergeDominates
  <1> QED
    BY <1>1, <1>2, <1>3, <1>4, <1>5 DEF Next

\* A save leaves the file no earlier than the process's own rows and, unless
\* somebody replaced the file in between, than the file it read.
THEOREM SavesAdvance == Spec => SavesOnlyAdvance
  <1>1. Init => MergeDominates
    BY DEF Init, MergeDominates
  <1>2. ASSUME TypeOK, MergeDominates, [Next]_vars
        PROVE  [\A p \in Procs :
                  pc[p] = "merged" /\ pc'[p] = "ready" /\ disk' # disk =>
                      /\ AsLate(disk', mem[p])
                      /\ seen[p] = disk => AsLate(disk', disk)]_vars
    <2> SUFFICES ASSUME NEW p \in Procs, pc[p] = "merged", pc'[p] = "ready", disk' # disk
                 PROVE  /\ AsLate(disk', mem[p])
                        /\ seen[p] = disk => AsLate(disk', disk)
      OBVIOUS
    <2> USE <1>2 DEF TypeOK
    <2>1. disk' = out[p]
      <3>1. ASSUME NEW q \in Procs, SaveRename(q) PROVE disk' = out[p]
        BY <3>1 DEF SaveRename
      <3>2. Damage => pc' = pc
        BY DEF Damage
      <3>3. \A q \in Procs : Load(q) \/ SaveMerge(q) \/ SaveFails(q) \/ Exit(q) => disk' = disk
        BY DEF Load, SaveMerge, SaveFails, Exit
      <3>4. \A q \in Procs, k \in Keys : Put(q, k) => disk' = disk
        BY DEF Put
      <3>5. Tick \/ UNCHANGED vars => disk' = disk
        BY DEF Tick, vars
      <3> QED
        BY <3>1, <3>2, <3>3, <3>4, <3>5 DEF Next
    <2> QED
      BY <2>1 DEF MergeDominates
  <1> QED
    BY <1>1, <1>2, TypeCorrect, MergeDominatesStep, PTL DEF Spec, SavesOnlyAdvance

----------------------------------------------------------------------------
(* Migration sticks and never costs a measurement.                         *)

\* A row put since the processes started holds its measurement.
Kept(p, r) == r.at >= StartTime => r.measured /\ r.epoch = Epoch[p]

\* No row of the file is from the future, and one put since the processes
\* started is measured.
FileRow(k) == disk[k].at <= now /\ (disk[k].at >= StartTime => disk[k].measured)

\* What a process holds is up to date; where the file is not, the process's
\* row is at least as late, so that its own wins the merge.
HeldRow(p, k) ==
    /\ mem[p][k].at <= now /\ out[p][k].at <= now
    /\ Kept(p, disk[k]) /\ Kept(p, mem[p][k]) /\ Kept(p, out[p][k])
    /\ pc[p] # "off" =>
          /\ UpToDate(p, mem[p][k])
          /\ UpToDate(p, disk[k]) \/ mem[p][k].at >= disk[k].at
    /\ pc[p] = "merged" => UpToDate(p, out[p][k])

MigrationInv ==
    /\ \A k \in Keys : FileRow(k)
    /\ \A p \in Procs, k \in Keys : HeldRow(p, k)

\* Builds of one release agree on what is up to date and what is kept.
LEMMA SameRelease ==
    ASSUME OneRelease, NEW p \in Procs, NEW q \in Procs, NEW r \in Rows
    PROVE  /\ UpToDate(p, r) <=> UpToDate(q, r)
           /\ Kept(p, r) <=> Kept(q, r)
  <1>1. Epoch[p] = Epoch[q]
    BY DEF OneRelease
  <1> QED
    BY <1>1 DEF UpToDate, Kept, GradersMigrated, ToolsMigrated

\* Migration keeps what was measured since the start.
LEMMA MigrationKeeps ==
    ASSUME NEW p \in Procs, NEW r \in Rows, Kept(p, r)
    PROVE  LET m == GradersMigrated(p, ToolsMigrated(r)) IN
           Kept(p, m) /\ UpToDate(p, m) /\ m.at = r.at
  <1>1. UpToDate(p, GradersMigrated(p, ToolsMigrated(r)))
        /\ GradersMigrated(p, ToolsMigrated(r)).at = r.at
    BY MigratedRow
  <1>2. Kept(p, GradersMigrated(p, ToolsMigrated(r)))
    BY DEF Kept, GradersMigrated, ToolsMigrated, Rows
  <1> QED
    BY <1>1, <1>2

LEMMA EmptyRow ==
    ASSUME NEW p \in Procs
    PROVE  UpToDate(p, NoRow) /\ Kept(p, NoRow) /\ NoRow.at = 0 /\ NoRow \in Rows
  BY DEF UpToDate, Kept, NoRow, GradersMigrated, ToolsMigrated, Rows, ToolRows

LEMMA MigrationInit == Init => MigrationInv
  <1> SUFFICES ASSUME Init PROVE MigrationInv
    OBVIOUS
  <1>1. \A k \in Keys : disk[k].at \in Nat /\ disk[k].at < StartTime
    <2>1. \A k \in Keys : disk[k] \in OldRows \/ disk[k] = NoRow
      BY DEF Init
    <2>2. NoRow.at = 0
      BY DEF NoRow
    <2> QED
      BY <2>1, <2>2, TimeAssumption, OldRowsAssumption
  <1>2. now = StartTime /\ \A p \in Procs : pc[p] = "off"
    BY DEF Init
  <1>3. \A p \in Procs, k \in Keys : mem[p][k] = NoRow /\ out[p][k] = NoRow
    BY DEF Init, Empty
  <1>4. \A p \in Procs, k \in Keys : Kept(p, disk[k])
    BY <1>1, TimeAssumption DEF Kept
  <1>5. \A p \in Procs : Kept(p, NoRow) /\ NoRow.at <= StartTime
    BY TimeAssumption DEF Kept, NoRow
  <1> QED
    BY <1>1, <1>2, <1>3, <1>4, <1>5, TimeAssumption DEF MigrationInv, FileRow, HeldRow

LEMMA FileRowStep ==
    TypeOK /\ MigrationInv /\ [Next]_vars => \A k \in Keys : FileRow(k)'
  <1> SUFFICES ASSUME TypeOK, MigrationInv, [Next]_vars, NEW k \in Keys
               PROVE  FileRow(k)'
    OBVIOUS
  <1>1. now \in Nat /\ disk[k].at \in Nat /\ FileRow(k)
    BY DEF TypeOK, MigrationInv, Rows
  <1>2. ASSUME NEW q \in Procs, SaveRename(q) PROVE FileRow(k)'
    <2>1. disk'[k] = out[q][k] /\ now' = now /\ HeldRow(q, k)
      BY <1>2 DEF SaveRename, MigrationInv
    <2> QED
      BY <2>1 DEF FileRow, HeldRow, Kept
  <1>3. CASE Damage
    <2>1. disk'[k] = NoRow /\ now' = now
      BY <1>3 DEF Damage, Empty
    <2> QED
      BY <2>1, <1>1, TimeAssumption DEF FileRow, NoRow
  <1>4. CASE Tick
    BY <1>1, <1>4 DEF Tick, FileRow
  <1>5. ASSUME now' = now, disk' = disk PROVE FileRow(k)'
    BY <1>1, <1>5 DEF FileRow
  <1>6. \A q \in Procs, j \in Keys :
          Load(q) \/ Put(q, j) \/ SaveMerge(q) \/ SaveFails(q) \/ Exit(q)
             => now' = now /\ disk' = disk
    BY DEF Load, Put, SaveMerge, SaveFails, Exit
  <1> QED
    BY <1>2, <1>3, <1>4, <1>5, <1>6 DEF Next, vars

LEMMA HeldRowStep ==
    OneRelease /\ TypeOK /\ MigrationInv /\ [Next]_vars
        => \A p \in Procs, k \in Keys : HeldRow(p, k)'
  <1> SUFFICES ASSUME OneRelease, TypeOK, MigrationInv, [Next]_vars,
                      NEW p \in Procs, NEW k \in Keys
               PROVE  HeldRow(p, k)'
    OBVIOUS
  <1>r. disk[k] \in Rows /\ mem[p][k] \in Rows /\ out[p][k] \in Rows /\ now \in Nat
    BY DEF TypeOK
  <1>n. disk[k].at \in Nat /\ mem[p][k].at \in Nat /\ out[p][k].at \in Nat
    BY <1>r DEF Rows
  <1>h. FileRow(k) /\ HeldRow(p, k)
    BY DEF MigrationInv
  <1>e. UpToDate(p, NoRow) /\ Kept(p, NoRow) /\ NoRow.at <= now /\ Empty[k] = NoRow
    BY EmptyRow, <1>r DEF Empty
  <1>s. UNCHANGED <<now, disk, pc, mem, out>> => HeldRow(p, k)'
    BY <1>h DEF HeldRow
  <1>o. ASSUME UNCHANGED <<now, disk>>, mem'[p] = mem[p], out'[p] = out[p], pc'[p] = pc[p]
        PROVE  HeldRow(p, k)'
    BY <1>o, <1>h DEF HeldRow
  <1>1. ASSUME NEW q \in Procs, Load(q) PROVE HeldRow(p, k)'
    <2>1. CASE p = q
      <3>1. UNCHANGED <<now, disk, out>> /\ pc'[p] # "merged"
        BY <1>1, <2>1 DEF Load, TypeOK
      <3>2. mem'[p][k] = GradersMigrated(p, ToolsMigrated(disk[k]))
        BY <1>1, <2>1 DEF Load, TypeOK, Migrated
      <3>3. UpToDate(p, mem'[p][k]) /\ mem'[p][k].at = disk[k].at /\ Kept(p, mem'[p][k])
        BY <3>2, <1>r, <1>h, MigrationKeeps DEF HeldRow
      <3> QED
        BY <3>1, <3>3, <1>h, <1>n DEF HeldRow, FileRow
    <2>2. CASE p # q
      BY <1>1, <2>2, <1>o DEF Load, TypeOK
    <2> QED
      BY <2>1, <2>2
  <1>2. ASSUME NEW q \in Procs, NEW j \in Keys, Put(q, j) PROVE HeldRow(p, k)'
    <2> DEFINE r == [at |-> now, epoch |-> Epoch[p], measured |-> TRUE, tools |-> "scored"]
    <2>1. UpToDate(p, r) /\ Kept(p, r) /\ r.at = now
      BY DEF UpToDate, Kept, GradersMigrated, ToolsMigrated
    <2>2. UNCHANGED <<now, disk, out, pc>> /\ (p = q => pc[p] # "merged")
      BY <1>2 DEF Put
    <2>3. mem'[p][k] = mem[p][k] \/ (p = q /\ mem'[p][k] = r)
      BY <1>2 DEF Put, TypeOK
    <2> HIDE DEF r
    <2>4. CASE mem'[p][k] = mem[p][k]
      BY <2>2, <2>4, <1>h DEF HeldRow
    <2>5. CASE p = q /\ mem'[p][k] = r
      BY <2>1, <2>2, <2>5, <1>h, <1>r, <1>n DEF HeldRow, FileRow
    <2> QED
      BY <2>3, <2>4, <2>5
  <1>3. ASSUME NEW q \in Procs, SaveMerge(q) PROVE HeldRow(p, k)'
    <2>1. CASE p = q
      <3>1. UNCHANGED <<now, disk, mem>> /\ pc[p] # "off"
        BY <1>3, <2>1 DEF SaveMerge
      <3>2. /\ out'[p][k] \in {mem[p][k], disk[k]}
            /\ out'[p][k] = disk[k] => disk[k] = mem[p][k] \/ mem[p][k].at < disk[k].at
        BY <1>3, <2>1, <1>n DEF SaveMerge, TypeOK, Merged, Later
      <3>3. UpToDate(p, out'[p][k]) /\ Kept(p, out'[p][k]) /\ out'[p][k].at <= now
        BY <3>1, <3>2, <1>h, <1>n, <1>r DEF HeldRow, FileRow
      <3> QED
        BY <3>1, <3>3, <1>h DEF HeldRow
    <2>2. CASE p # q
      BY <1>3, <2>2, <1>o DEF SaveMerge, TypeOK
    <2> QED
      BY <2>1, <2>2
  <1>4. ASSUME NEW q \in Procs, SaveRename(q) PROVE HeldRow(p, k)'
    <2>1. disk'[k] = out[q][k] /\ UNCHANGED <<now, mem>>
          /\ pc[q] = "merged" /\ HeldRow(q, k) /\ out[q][k] \in Rows
      BY <1>4 DEF SaveRename, MigrationInv, TypeOK
    <2>2. UpToDate(p, disk'[k]) /\ Kept(p, disk'[k])
      BY <2>1, SameRelease DEF HeldRow
    <2>3. /\ out'[p][k] \in {out[p][k], NoRow}
          /\ pc'[p] = "merged" => pc[p] = "merged" /\ out'[p][k] = out[p][k]
          /\ pc'[p] # "off" => pc[p] # "off"
      BY <1>4, <1>e DEF SaveRename, DropCopies, TypeOK
    <2> QED
      BY <2>1, <2>2, <2>3, <1>h, <1>e DEF HeldRow
  <1>5. ASSUME NEW q \in Procs, SaveFails(q) \/ Exit(q) PROVE HeldRow(p, k)'
    <2>1. UNCHANGED <<now, disk>>
      BY <1>5 DEF SaveFails, Exit
    <2>2. /\ out'[p][k] \in {out[p][k], NoRow}
          /\ mem'[p][k] \in {mem[p][k], NoRow}
          /\ pc'[p] = "merged" => pc[p] = "merged" /\ out'[p][k] = out[p][k]
          /\ pc'[p] # "off" => pc[p] # "off" /\ mem'[p][k] = mem[p][k]
      BY <1>5, <1>e DEF SaveFails, Exit, DropCopies, TypeOK
    <2> QED
      BY <2>1, <2>2, <1>h, <1>e DEF HeldRow
  <1>6. CASE Damage
    <2>1. disk'[k] = NoRow /\ UNCHANGED <<now, pc, mem, out>>
      BY <1>6, <1>e DEF Damage
    <2> QED
      BY <2>1, <1>h, <1>e DEF HeldRow
  <1>7. CASE Tick
    <2>1. now' = now + 1 /\ UNCHANGED <<disk, pc, mem, out>>
      BY <1>7 DEF Tick
    <2> QED
      BY <2>1, <1>h, <1>n, <1>r DEF HeldRow
  <1>8. CASE UNCHANGED vars
    BY <1>8, <1>s DEF vars
  <1> QED
    BY <1>1, <1>2, <1>3, <1>4, <1>5, <1>6, <1>7, <1>8 DEF Next

LEMMA MigrationStep ==
    OneRelease /\ TypeOK /\ MigrationInv /\ [Next]_vars => MigrationInv'
  BY FileRowStep, HeldRowStep DEF MigrationInv

\* Processes of one release: no save brings back a row that needs migrating.
THEOREM MigrationSticks == Spec => []SavesNeedNoMigration
  <1>1. CASE OneRelease
    <2>1. TypeOK /\ MigrationInv => SavesNeedNoMigration
      BY DEF SavesNeedNoMigration, MigrationInv, HeldRow
    <2> QED
      BY <1>1, <2>1, TypeCorrect, MigrationInit, MigrationStep, PTL DEF Spec
  <1>2. CASE ~OneRelease
    <2>1. SavesNeedNoMigration
      BY <1>2 DEF SavesNeedNoMigration
    <2> QED
      BY <2>1, PTL
  <1> QED
    BY <1>1, <1>2

\* Processes of one release: a row measured since they started is never reset.
THEOREM MeasurementsKept == Spec => []MeasurementsSurvive
  <1>1. CASE OneRelease
    <2>1. TypeOK /\ MigrationInv => MeasurementsSurvive
      BY DEF MeasurementsSurvive, MigrationInv, FileRow, HeldRow, Kept
    <2> QED
      BY <1>1, <2>1, TypeCorrect, MigrationInit, MigrationStep, PTL DEF Spec
  <1>2. CASE ~OneRelease
    <2>1. MeasurementsSurvive
      BY <1>2 DEF MeasurementsSurvive
    <2> QED
      BY <2>1, PTL
  <1> QED
    BY <1>1, <1>2

----------------------------------------------------------------------------
(* One process at a time keeps what it has promised.                       *)

OneProcess == \A p, q \in Procs : p = q

\* The file, and a temporary file that will replace it, hold every promised
\* row or a later one; an unreadable file has none to hold.  The last conjunct
\* is what a second process breaks.
EntryInv ==
    /\ \A k \in Keys : promised[k] <= disk[k].at
    /\ ~readable => \A k \in Keys : promised[k] = 0
    /\ \A p \in Procs, k \in Keys : pc[p] = "merged" => promised[k] <= out[p][k].at

LEMMA EntryInit == Init => EntryInv
  <1> SUFFICES ASSUME Init PROVE EntryInv
    OBVIOUS
  <1>1. \A k \in Keys : disk[k].at \in Nat
    BY OldRowsAssumption DEF Init, NoRow, Rows
  <1> QED
    BY <1>1 DEF Init, EntryInv

LEMMA EntryStep ==
    OneProcess /\ TypeOK /\ MergeDominates /\ EntryInv /\ [Next]_vars => EntryInv'
  <1> SUFFICES ASSUME OneProcess, TypeOK, MergeDominates, EntryInv, [Next]_vars
               PROVE  EntryInv'
    OBVIOUS
  <1>n. \A k \in Keys : /\ disk[k].at \in Nat /\ promised[k] \in Nat
                        /\ \A p \in Procs : mem[p][k].at \in Nat /\ out[p][k].at \in Nat
    BY DEF TypeOK, Rows
  <1>1. ASSUME NEW q \in Procs, NEW j \in Keys, Put(q, j) PROVE EntryInv'
    <2>1. UNCHANGED <<disk, readable, out, promised>>
          /\ \A p \in Procs : pc'[p] = "merged" => pc[p] = "merged"
      BY <1>1 DEF Put, TypeOK
    <2> QED
      BY <2>1 DEF EntryInv
  <1>2. ASSUME NEW q \in Procs, SaveMerge(q) PROVE EntryInv'
    <2>1. UNCHANGED <<disk, readable, promised>>
      BY <1>2 DEF SaveMerge
    <2>2. \A k \in Keys : promised[k] <= out'[q][k].at
      <3>1. CASE readable
        BY <1>2, <3>1, <1>n DEF SaveMerge, TypeOK, Merged, Later, EntryInv
      <3>2. CASE ~readable
        BY <1>2, <3>2, <1>n DEF SaveMerge, TypeOK, EntryInv
      <3> QED
        BY <3>1, <3>2
    <2>3. \A p \in Procs : p = q
      BY DEF OneProcess
    <2> QED
      BY <2>1, <2>2, <2>3 DEF EntryInv
  <1>3. ASSUME NEW q \in Procs, SaveRename(q) PROVE EntryInv'
    <2>1. /\ pc[q] = "merged" /\ pc' = [pc EXCEPT ![q] = "ready"]
          /\ disk' = out[q] /\ readable' = TRUE
      BY <1>3 DEF SaveRename
    <2>2. \A k \in Keys : promised'[k] \in {promised[k], mem[q][k].at}
      BY <1>3 DEF SaveRename
    <2>3. \A k \in Keys : mem[q][k].at <= out[q][k].at /\ promised[k] <= out[q][k].at
      BY <2>1 DEF MergeDominates, AsLate, EntryInv
    <2>4. \A p \in Procs : pc'[p] # "merged"
      BY <2>1 DEF OneProcess, TypeOK
    <2> QED
      BY <2>1, <2>2, <2>3, <2>4 DEF EntryInv
  <1>4. ASSUME NEW q \in Procs, SaveFails(q) \/ Exit(q) PROVE EntryInv'
    <2>1. UNCHANGED <<disk, readable, promised>> /\ pc'[q] # "merged"
      BY <1>4 DEF SaveFails, Exit, TypeOK
    <2>2. \A p \in Procs : pc'[p] # "merged"
      BY <2>1 DEF OneProcess
    <2> QED
      BY <2>1, <2>2 DEF EntryInv
  <1>5. CASE Damage
    <2>1. \A k \in Keys : promised'[k] = 0 /\ disk'[k].at = 0
      BY <1>5 DEF Damage, Empty, NoRow
    <2>2. UNCHANGED <<out, pc>>
      BY <1>5 DEF Damage
    <2> QED
      BY <2>1, <2>2, <1>n DEF EntryInv
  <1>6. CASE Tick \/ UNCHANGED vars
    BY <1>6 DEF Tick, vars, EntryInv
  <1>7. ASSUME NEW q \in Procs, Load(q) PROVE EntryInv'
    <2>1. UNCHANGED <<disk, readable, out, promised>>
          /\ \A p \in Procs : pc'[p] = "merged" => pc[p] = "merged"
      BY <1>7 DEF Load, TypeOK
    <2> QED
      BY <2>1 DEF EntryInv
  <1> QED
    BY <1>1, <1>2, <1>3, <1>4, <1>5, <1>6, <1>7 DEF Next

\* With one process at a time a row that a save reported stored stays in the
\* file, or gives way to a later one, through crashes, failed saves and
\* restarts.  With two processes it is false, which a run shows.
THEOREM OneProcessKeepsEntries == OneProcess /\ Spec => []EntriesLast30Days
  <1> SUFFICES ASSUME OneProcess PROVE Spec => []EntriesLast30Days
    OBVIOUS
  <1>1. Init => MergeDominates
    BY DEF Init, MergeDominates
  <1>2. EntryInv /\ TypeOK => EntriesLast30Days
    BY DEF EntryInv, EntriesLast30Days
  <1> QED
    BY <1>1, <1>2, EntryInit, EntryStep, MergeDominatesStep, TypeCorrect, PTL DEF Spec

-----------------------------------------------------------------------------
(* One process at a time only improves the rows.                           *)

\* The row a run of p leaves at time t.
Measurement(p, t) == [at |-> t, epoch |-> Epoch[p], measured |-> TRUE, tools |-> "scored"]

\* What a row can be: none, one of an earlier release, or a measurement of p.
Known(p, r) ==
    /\ r.at <= now
    /\ r.at = 0 => r = NoRow
    /\ r.at >= StartTime => r = Measurement(p, r.at)

KnownInv ==
    \A p \in Procs, k \in Keys :
        Known(p, disk[k]) /\ Known(p, mem[p][k]) /\ Known(p, out[p][k])

\* A row that may take the place of the file's.
Follows(p, k, r) == r.at > disk[k].at \/ r \in {disk[k], Migrated(p, disk)[k]}

\* Where a process's row is as old as the file's it is that row, migrated or
\* not; so what a merge prefers to the file's row is later or that row.  An
\* unreadable file holds nothing a row could fall behind.
ImproveInv ==
    /\ ~readable => disk = Empty
    /\ \A p \in Procs, k \in Keys :
          /\ pc[p] # "off" /\ mem[p][k].at = disk[k].at => Follows(p, k, mem[p][k])
          /\ pc[p] = "merged" =>
                /\ Follows(p, k, out[p][k])
                /\ out[p][k] = mem[p][k] \/ out[p][k].at > mem[p][k].at

\* Migration keeps a row of each of the three sorts what it is.
LEMMA MigrationKnown ==
    ASSUME TypeOK, NEW p \in Procs, NEW k \in Keys, Known(p, disk[k])
    PROVE  Known(p, Migrated(p, disk)[k])
  <1> DEFINE r == disk[k]
             m == Migrated(p, disk)[k]
  <1>1. r \in Rows /\ Epoch[p] \in Nat \ {0} /\ now \in Nat
    BY DEF TypeOK
  <1>2. m = GradersMigrated(p, ToolsMigrated(r))
    BY DEF Migrated
  <1>3. m.at = r.at
    BY <1>1, <1>2, MigratedRow
  <1>4. r.at = 0 \/ r.at >= StartTime => r.epoch \in {0, Epoch[p]} /\ r.tools = "scored"
    BY DEF Known, NoRow, Measurement
  <1>5. r.at = 0 \/ r.at >= StartTime => m = r
    BY <1>2, <1>4 DEF ToolsMigrated, GradersMigrated
  <1> QED
    BY <1>1, <1>3, <1>5 DEF Known

LEMMA KnownInit == Init => KnownInv
  <1> SUFFICES ASSUME Init, NEW p \in Procs, NEW k \in Keys
               PROVE  Known(p, disk[k]) /\ Known(p, mem[p][k]) /\ Known(p, out[p][k])
    BY DEF KnownInv
  <1>1. Known(p, NoRow)
    BY DEF Init, Known, NoRow
  <1>2. ASSUME NEW r \in OldRows PROVE Known(p, r)
    BY DEF Init, Known, Rows
  <1>3. mem[p][k] = NoRow /\ out[p][k] = NoRow /\ disk[k] \in OldRows \cup {NoRow}
    BY DEF Init, Empty
  <1> QED
    BY <1>1, <1>2, <1>3

LEMMA KnownStep == OneProcess /\ TypeOK /\ KnownInv /\ [Next]_vars => KnownInv'
  <1> SUFFICES ASSUME OneProcess, TypeOK, KnownInv, [Next]_vars PROVE KnownInv'
    OBVIOUS
  <1> DEFINE Kn(p, r) == /\ r.at <= now'
                         /\ r.at = 0 => r = NoRow
                         /\ r.at >= StartTime => r = Measurement(p, r.at)
  <1>n. now \in Nat /\ now >= StartTime /\ now' \in Nat /\ now' >= now
    BY DEF TypeOK, Next, Load, Put, SaveMerge, SaveRename, SaveFails, Exit, Damage, Tick, vars
  <1>t. \A p \in Procs, k \in Keys :
            disk[k] \in Rows /\ mem[p][k] \in Rows /\ out[p][k] \in Rows
    BY DEF TypeOK
  <1>0. ASSUME NEW p \in Procs, NEW r \in Rows, Known(p, r) PROVE Kn(p, r)
    BY <1>n, <1>0 DEF Known, Rows
  <1>1. ASSUME NEW p \in Procs, NEW k \in Keys
        PROVE  /\ Kn(p, disk[k]) /\ Kn(p, mem[p][k]) /\ Kn(p, out[p][k])
               /\ Kn(p, NoRow) /\ Kn(p, Measurement(p, now)) /\ Kn(p, Migrated(p, disk)[k])
    <2>1. Kn(p, disk[k]) /\ Kn(p, mem[p][k]) /\ Kn(p, out[p][k])
      BY <1>0, <1>t DEF KnownInv
    <2>2. Kn(p, NoRow) /\ Kn(p, Measurement(p, now))
      BY <1>n DEF NoRow, Measurement
    <2>3. Migrated(p, disk)[k] \in Rows
      BY MigratedRows DEF TypeOK
    <2>4. Kn(p, Migrated(p, disk)[k])
      <3>1. Known(p, Migrated(p, disk)[k])
        BY MigrationKnown DEF KnownInv
      <3> QED
        BY <1>0, <2>3, <3>1
    <2> QED
      BY <2>1, <2>2, <2>4
  <1> HIDE DEF Kn
  <1>2. ASSUME NEW p \in Procs, NEW k \in Keys
        PROVE  Kn(p, disk'[k]) /\ Kn(p, mem'[p][k]) /\ Kn(p, out'[p][k])
    <2>0. \A q \in Procs : q = p
      BY DEF OneProcess
    <2>1. disk'[k] \in {disk[k], out[p][k], NoRow}
      BY <2>0 DEF Next, Load, Put, SaveMerge, SaveRename, SaveFails, Exit, Damage, Tick, vars, Empty
    <2>2. mem'[p][k] \in {mem[p][k], Migrated(p, disk)[k], Measurement(p, now), NoRow}
      BY <2>0 DEF Next, Load, Put, SaveMerge, SaveRename, SaveFails, Exit, Damage, Tick, vars,
                  Empty, TypeOK, Measurement
    <2>3. out'[p][k] \in {out[p][k], mem[p][k], disk[k], NoRow}
      BY <2>0 DEF Next, Load, Put, SaveMerge, SaveRename, SaveFails, Exit, Damage, Tick, vars,
                  Empty, TypeOK, Merged, Later, DropCopies
    <2> QED
      BY <1>1, <2>1, <2>2, <2>3
  <1> QED
    BY <1>2 DEF Kn, KnownInv, Known

LEMMA ImproveInit == Init => ImproveInv
  BY DEF Init, ImproveInv

\* What a merge of a row that follows the file's with the file gives.
LEMMA MergeFollows ==
    ASSUME TypeOK, ImproveInv, KnownInv, NEW p \in Procs, SaveMerge(p), NEW k \in Keys
    PROVE  /\ Follows(p, k, out'[p][k])
           /\ out'[p][k] = mem[p][k] \/ out'[p][k].at > mem[p][k].at
  <1>1. /\ pc[p] # "off" /\ mem[p][k] \in Rows /\ disk[k] \in Rows
        /\ mem[p][k].at \in Nat /\ disk[k].at \in Nat
        /\ out'[p] = IF readable THEN Merged(mem[p], disk) ELSE mem[p]
    BY DEF SaveMerge, TypeOK, Rows
  <1>2. mem[p][k].at >= disk[k].at => Follows(p, k, mem[p][k])
    <2>1. mem[p][k].at = disk[k].at => Follows(p, k, mem[p][k])
      BY <1>1 DEF ImproveInv
    <2>2. mem[p][k].at > disk[k].at => Follows(p, k, mem[p][k])
      BY DEF Follows
    <2> QED
      BY <1>1, <2>1, <2>2
  <1>3. CASE readable
    BY <1>1, <1>2, <1>3 DEF Merged, Later, Follows
  <1>4. CASE ~readable
    <2>1. disk[k].at = 0
      BY <1>4 DEF ImproveInv, Empty, NoRow
    <2> QED
      BY <1>1, <1>2, <1>4, <2>1
  <1> QED
    BY <1>3, <1>4

LEMMA ImproveStep ==
    OneProcess /\ TypeOK /\ KnownInv /\ ImproveInv /\ KnownInv' /\ TypeOK' /\ [Next]_vars
        => ImproveInv'
  <1> SUFFICES ASSUME OneProcess, TypeOK, KnownInv, ImproveInv, KnownInv', TypeOK', [Next]_vars
               PROVE  ImproveInv'
    OBVIOUS
  <1>s. \A p, q \in Procs : p = q
    BY DEF OneProcess
  <1>1. ASSUME NEW q \in Procs, Load(q) PROVE ImproveInv'
    <2>1. /\ UNCHANGED <<disk, readable, out>>
          /\ mem'[q] = Migrated(q, disk) /\ pc'[q] # "merged"
      BY <1>1 DEF Load, TypeOK
    <2> QED
      BY <1>s, <2>1 DEF ImproveInv, Follows
  <1>2. ASSUME NEW q \in Procs, NEW j \in Keys, Put(q, j) PROVE ImproveInv'
    <2>1. /\ UNCHANGED <<disk, readable, pc, out>> /\ pc[q] = "ready"
          /\ \A k \in Keys : mem'[q][k] = IF k = j THEN Measurement(q, now) ELSE mem[q][k]
      BY <1>2 DEF Put, TypeOK, Measurement
    <2>2. disk[j].at = now => disk[j] = Measurement(q, now)
      <3>1. Known(q, disk[j])
        BY DEF KnownInv
      <3>2. now \in Nat /\ now >= StartTime
        BY DEF TypeOK
      <3> QED
        BY <3>1, <3>2 DEF Known
    <2>3. Measurement(q, now).at = now
      BY DEF Measurement
    <2>4. ASSUME NEW k \in Keys, mem'[q][k].at = disk[k].at PROVE Follows(q, k, mem'[q][k])
      <3>1. CASE k = j
        BY <2>1, <2>2, <2>3, <2>4, <3>1 DEF Follows
      <3>2. CASE k # j
        BY <2>1, <2>4, <3>2 DEF ImproveInv
      <3> QED
        BY <3>1, <3>2
    <2> QED
      BY <1>s, <2>1, <2>4 DEF ImproveInv, Follows
  <1>3. ASSUME NEW q \in Procs, SaveMerge(q) PROVE ImproveInv'
    <2>1. UNCHANGED <<disk, readable, mem>> /\ pc[q] # "off"
      BY <1>3 DEF SaveMerge
    <2>2. \A k \in Keys : /\ Follows(q, k, out'[q][k])
                          /\ out'[q][k] = mem[q][k] \/ out'[q][k].at > mem[q][k].at
      BY <1>3, MergeFollows
    <2> QED
      BY <1>s, <2>1, <2>2 DEF ImproveInv, Follows
  <1>4. ASSUME NEW q \in Procs, SaveRename(q) PROVE ImproveInv'
    <2>1. /\ pc[q] = "merged" /\ pc'[q] = "ready" /\ disk' = out[q] /\ readable'
          /\ mem' = mem
      BY <1>4 DEF SaveRename, TypeOK
    <2>2. \A k \in Keys : mem[q][k].at \in Nat
      BY DEF TypeOK, Rows
    <2>3. \A k \in Keys : mem'[q][k].at = disk'[k].at => mem'[q][k] = disk'[k]
      BY <2>1, <2>2 DEF ImproveInv
    <2> QED
      BY <1>s, <2>1, <2>3 DEF ImproveInv, Follows
  <1>5. ASSUME NEW q \in Procs, SaveFails(q) \/ Exit(q) PROVE ImproveInv'
    <2>1. /\ UNCHANGED <<disk, readable>> /\ pc[q] # "off" /\ pc'[q] # "merged"
          /\ pc'[q] # "off" => mem' = mem
      BY <1>5 DEF SaveFails, Exit, TypeOK
    <2> QED
      BY <1>s, <2>1 DEF ImproveInv, Follows
  <1>6. CASE Damage
    <2>1. disk' = Empty /\ ~readable' /\ UNCHANGED <<pc, mem, out>>
      BY <1>6 DEF Damage
    <2>2. \A k \in Keys : disk'[k] = NoRow /\ disk'[k].at = 0
      BY <2>1 DEF Empty, NoRow
    <2>3. ASSUME NEW p \in Procs, NEW k \in Keys
          PROVE  /\ mem'[p][k].at = 0 => mem'[p][k] = NoRow
                 /\ out'[p][k].at = 0 => out'[p][k] = NoRow
                 /\ out'[p][k].at \in Nat
      BY DEF KnownInv, Known, TypeOK, Rows
    <2> QED
      BY <2>1, <2>2, <2>3 DEF ImproveInv, Follows
  <1>7. CASE Tick \/ UNCHANGED vars
    BY <1>7 DEF Tick, vars, ImproveInv, Follows
  <1> QED
    BY <1>1, <1>2, <1>3, <1>4, <1>5, <1>6, <1>7 DEF Next

\* With one process at a time a row of the file gives way to a later one or to
\* its own migration only, through crashes, failed saves, restarts and the loss
\* of the file: a save never puts back what an earlier load has held (load,
\* put_with_suite_tools, save).
THEOREM OneProcessImproves == OneProcess /\ Spec => RowsOnlyImprove
  <1> SUFFICES ASSUME OneProcess PROVE Spec => RowsOnlyImprove
    OBVIOUS
  <1>1. TypeOK /\ ImproveInv /\ [Next]_vars =>
            [readable' =>
                \A k \in Keys :
                    \/ disk'[k].at > disk[k].at
                    \/ disk'[k] = disk[k]
                    \/ \E p \in Procs : disk'[k] = Migrated(p, disk)[k]]_vars
    <2> SUFFICES ASSUME TypeOK, ImproveInv, [Next]_vars, readable', NEW k \in Keys
                 PROVE  \/ disk'[k].at > disk[k].at
                        \/ disk'[k] = disk[k]
                        \/ \E p \in Procs : disk'[k] = Migrated(p, disk)[k]
      OBVIOUS
    <2>1. ASSUME NEW q \in Procs, SaveRename(q) PROVE Follows(q, k, disk'[k])
      BY <2>1 DEF SaveRename, ImproveInv
    <2>2. (\E q \in Procs : SaveRename(q)) \/ disk' = disk
      BY DEF Next, Load, Put, SaveMerge, SaveFails, Exit, Damage, Tick, vars
    <2> QED
      BY <2>1, <2>2 DEF Follows
  <1> QED
    BY <1>1, KnownInit, KnownStep, ImproveInit, ImproveStep, TypeCorrect, PTL
    DEF Spec, RowsOnlyImprove
=============================================================================
