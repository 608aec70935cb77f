---------------------------- MODULE IndexRecovery ----------------------------
(***************************************************************************)
(* The persistent index of a volume: an archive of records, the state file *)
(* that describes it, and the cursor into the volume's event stream        *)
(* (crates/index/src/lib.rs, recovery.rs, state.rs, cursor.rs).            *)
(*                                                                         *)
(* A build scans the tree, replaces the records, then the state, each      *)
(* atomically.  A volume decision replaces the state alone.  Recovery      *)
(* compares the two files, and rebuilds the state from the records or      *)
(* builds both anew.  A command can be cancelled or die between its steps. *)
(* The scan epoch of the state tells a cursor taken against this state     *)
(* from an older one; it counts on only while the states are written for   *)
(* one mount identity, and a decision may be written for another one.      *)
(***************************************************************************)
EXTENDS Naturals, FiniteSets

CONSTANTS
    Files,        \* what the tree may hold below its root
    DecisionRoots,  \* what a volume decision may be about: Root, Volume or either
    Aliased,      \* whether the root is given through a link, so that it is not canonical
    Damageable,   \* the files that may be damaged: "records", "state"
    MaxCommands,  \* builds, decisions and checkpoints
    MaxStops,     \* cancellations and crashes
    MaxDamage,    \* damages of a file
    MaxOutages    \* times the root cannot be reached

\* The root, which is its own first entry, and the mount point of its volume, which is the
\* root itself or lies above it.
Root == "root"
Volume == "volume"

ASSUME FilesAssumption ==
    /\ IsFiniteSet(Files) /\ Damageable \subseteq {"records", "state"}
    /\ DecisionRoots \subseteq {Root, Volume} /\ Aliased \in BOOLEAN

VARIABLES
    tree,       \* the files below the root
    reachable,  \* whether the root can be scanned
    records,    \* [is : none, ok or bad, files]
    st,         \* the state: [is : none, ok, bad or old schema, root, mount, count, suspended, epoch]
    cursor,     \* [is : none or ok, mount, epoch, health, write]: write is the state it was taken against
    job,        \* the running command: [pc, files, previous : the state it has read]
    writes,     \* how often the state has been written
    lost,       \* history: how often it had been when the count of epochs last began anew
    commands, stops, damage, outages

vars == <<tree, reachable, records, st, cursor, job, writes, lost, commands, stops, damage, outages>>
bounds == <<commands, stops, damage, outages>>
world == <<tree, reachable>>

Records(files) == [is |-> "ok", files |-> files]
NoRecords == [is |-> "none", files |-> {}]
StateFile(is) ==
    [is |-> is, root |-> Root, mount |-> Root, count |-> 0, suspended |-> FALSE, epoch |-> 0]
NoCursor == [is |-> "none", mount |-> Root, epoch |-> 0, health |-> "clean", write |-> 0]
Healths == {"clean", "repair-required"}
Idle == [pc |-> "idle", files |-> {}, previous |-> StateFile("none")]

\* scan_tree: a root that cannot be read is noted as inaccessible and leaves the scan empty.
Scan == IF reachable THEN tree \cup {Root} ELSE {}

\* mount_identity: the canonical path, or the path as it was given when it cannot be
\* reached.  The device number is part of it and does not change here.
Mounts == {Root, Volume, "alias"}
mount_identity(path) == IF path = Root /\ Aliased /\ ~reachable THEN "alias" ELSE path

\* The epoch of the next state: one more than that of the state that was read before, if
\* that was one of the same mount identity.
NextEpoch(previous, mount) ==
    IF previous.is = "ok" /\ previous.mount = mount THEN previous.epoch + 1 ELSE 1

\* from_page and from_decision: the state of a path.
State(path, count, suspended, previous) ==
    [is |-> "ok", root |-> path, mount |-> mount_identity(path), count |-> count,
     suspended |-> suspended, epoch |-> NextEpoch(previous, mount_identity(path))]

\* A build and a decision read the state that is there, and fail when they cannot.
PreviousIsReadable == st.is \in {"none", "ok"}

\* A state for another mount identity than the one before begins a new count of epochs.
WriteState(s) ==
    /\ st' = s /\ writes' = writes + 1
    /\ lost' = IF st.is = "ok" /\ st.mount = s.mount THEN lost ELSE writes

-----------------------------------------------------------------------------
Init ==
    /\ tree = {} /\ reachable = TRUE
    /\ records = Records({Root}) /\ st = State(Root, 1, FALSE, StateFile("none"))
    /\ cursor = NoCursor
    /\ job = Idle
    /\ writes = 1 /\ lost = 0
    /\ commands = 0 /\ stops = 0 /\ damage = 0 /\ outages = 0

Command == job = Idle /\ commands < MaxCommands /\ commands' = commands + 1

\* build_persistent: reads the state and scans.
BeginBuild == job' = [pc |-> "scanned", files |-> Scan, previous |-> st]

StartBuild ==
    /\ Command /\ PreviousIsReadable
    /\ BeginBuild
    /\ UNCHANGED <<world, records, st, cursor, writes, lost, stops, damage, outages>>

SaveRecords ==
    /\ job.pc = "scanned"
    /\ records' = Records(job.files)
    /\ job' = [job EXCEPT !.pc = "saved"]
    /\ UNCHANGED <<world, st, cursor, writes, lost, bounds>>

\* No state can be made of an empty scan.
FinishBuild ==
    /\ job.pc = "saved"
    /\ IF job.files = {} THEN UNCHANGED <<st, writes, lost>>
                         ELSE WriteState(State(Root, Cardinality(job.files), FALSE, job.previous))
    /\ job' = Idle
    /\ UNCHANGED <<world, records, cursor, bounds>>

\* write_volume_decision_state: a decision about the volume at a path, without records.
Decide(path, suspended) ==
    /\ Command /\ PreviousIsReadable
    /\ WriteState(State(path, 0, suspended, st))
    /\ UNCHANGED <<world, records, cursor, job, stops, damage, outages>>

\* checkpoint_fsevents_cursor.
Checkpoint(health) ==
    /\ Command /\ st.is = "ok"
    /\ cursor' = [is |-> "ok", mount |-> st.mount, epoch |-> st.epoch, health |-> health, write |-> writes]
    /\ UNCHANGED <<world, records, st, job, writes, lost, stops, damage, outages>>

-----------------------------------------------------------------------------
\* suspended_admission_plan: a decision about the root itself keeps the volume out of the index.
Suspended == st.is = "ok" /\ st.root = Root /\ st.suspended

\* Whether the state describes the root and the records.
Describes == st.is = "ok" /\ st.root = Root /\ st.count = Cardinality(records.files)

\* Mutant: records that do not fit the state are put away as well.
PlanQuarantiningMismatch ==
    IF Suspended THEN "Ready"
    ELSE IF records.is = "none" THEN "RebuildRecordsAndState"
    ELSE IF records.is = "bad" \/ (st.is = "ok" /\ ~Describes) THEN "QuarantineRecordsAndRebuild"
    ELSE IF st.is = "ok" THEN "Ready" ELSE "RebuildState"

\* Mutant: a state of another schema counts as good.
PlanTrustingOldState ==
    IF Suspended THEN "Ready"
    ELSE IF records.is = "none" THEN "RebuildRecordsAndState"
    ELSE IF records.is = "bad" THEN "QuarantineRecordsAndRebuild"
    ELSE IF st.is = "old" \/ Describes THEN "Ready" ELSE "RebuildState"

\* plan_persistent_index_recovery.
Plan ==
    IF Suspended THEN "Ready"
    ELSE IF records.is = "none" THEN "RebuildRecordsAndState"
    ELSE IF records.is = "bad" THEN "QuarantineRecordsAndRebuild"
    ELSE IF st.is = "old" THEN "MigrateState"
    ELSE IF Describes THEN "Ready" ELSE "RebuildState"

\* The user runs a recovery (diagnostics-index-recover).
StartRecovery ==
    /\ job = Idle /\ Plan # "Ready"
    /\ job' = [Idle EXCEPT !.pc = "recover"]
    /\ UNCHANGED <<world, records, st, cursor, writes, lost, bounds>>

\* Mutant: the rebuilt state starts a new count of epochs.
RecoverStateAnew ==
    /\ job.pc = "recover" /\ Plan \in {"RebuildState", "MigrateState"}
    /\ IF records.files = {} THEN UNCHANGED <<st, writes, lost>>
       ELSE WriteState(State(Root, Cardinality(records.files), FALSE, StateFile("none")))
    /\ job' = Idle
    /\ UNCHANGED <<world, records, cursor, bounds>>

\* recover_persistent_index: the state alone, from the records (write_state_from_records).
\* A state that cannot be read counts as none, and no state can be made of no records.
RecoverState ==
    /\ job.pc = "recover" /\ Plan \in {"RebuildState", "MigrateState"}
    /\ IF records.files = {} THEN UNCHANGED <<st, writes, lost>>
       ELSE WriteState(State(Root, Cardinality(records.files), FALSE, st))
    /\ job' = Idle
    /\ UNCHANGED <<world, records, cursor, bounds>>

\* Missing records are built anew, unless the state cannot be read.
RecoverRecords ==
    /\ job.pc = "recover" /\ Plan = "RebuildRecordsAndState"
    /\ IF PreviousIsReadable THEN BeginBuild ELSE job' = Idle
    /\ UNCHANGED <<world, records, st, cursor, writes, lost, bounds>>

\* Bad records are moved aside before the build begins.
Quarantine ==
    /\ job.pc = "recover" /\ Plan = "QuarantineRecordsAndRebuild"
    /\ records' = NoRecords
    /\ job' = [job EXCEPT !.pc = "quarantined"]
    /\ UNCHANGED <<world, st, cursor, writes, lost, bounds>>

RebuildQuarantined ==
    /\ job.pc = "quarantined"
    /\ IF PreviousIsReadable THEN BeginBuild ELSE job' = Idle
    /\ UNCHANGED <<world, records, st, cursor, writes, lost, bounds>>

-----------------------------------------------------------------------------
Change ==
    /\ \E f \in Files : tree' = IF f \in tree THEN tree \ {f} ELSE tree \cup {f}
    /\ UNCHANGED <<reachable, records, st, cursor, job, writes, lost, bounds>>

Outage ==
    /\ reachable /\ outages < MaxOutages
    /\ reachable' = FALSE
    /\ outages' = outages + 1
    /\ UNCHANGED <<tree, records, st, cursor, job, writes, lost, commands, stops, damage>>

Return ==
    /\ ~reachable
    /\ reachable' = TRUE
    /\ UNCHANGED <<tree, records, st, cursor, job, writes, lost, bounds>>

\* A command is cancelled or dies: the files stay as they are.
Stop ==
    /\ job # Idle /\ stops < MaxStops
    /\ job' = Idle
    /\ stops' = stops + 1
    /\ UNCHANGED <<world, records, st, cursor, writes, lost, commands, damage, outages>>

\* A file is damaged or lost between commands, or comes from another version.
Damage ==
    /\ job = Idle /\ damage < MaxDamage
    /\ damage' = damage + 1
    /\ \/ "records" \in Damageable /\ UNCHANGED <<st, lost>>
            /\ records' \in {NoRecords, [is |-> "bad", files |-> {}]}
       \/ "state" \in Damageable /\ UNCHANGED records
            /\ \E is \in {"none", "bad", "old"} : st' = StateFile(is)
            /\ lost' = writes
    /\ UNCHANGED <<world, cursor, job, writes, commands, stops, outages>>

Recover == RecoverState \/ RecoverRecords \/ Quarantine \/ RebuildQuarantined
Advance == SaveRecords \/ FinishBuild \/ Recover

Next ==
    \/ StartBuild \/ StartRecovery \/ Advance
    \/ \E path \in DecisionRoots, suspended \in BOOLEAN : Decide(path, suspended)
    \/ \E health \in Healths : Checkpoint(health)
    \/ Change \/ Outage \/ Return \/ Stop \/ Damage

Spec == Init /\ [][Next]_vars

-----------------------------------------------------------------------------
\* FseventsResumePlan::evaluate: whether a cursor may be continued.
Resume ==
    IF /\ cursor.is = "ok" /\ st.is = "ok" /\ cursor.health = "clean"
       /\ cursor.mount = st.mount /\ cursor.epoch = st.epoch
    THEN "Continue" ELSE "Rescan"

\* The contents of a state file after n writes.
StateFiles(n) ==
    [is : {"none", "ok", "bad", "old"}, root : {Root, Volume}, mount : Mounts,
     count : 0..(Cardinality(Files) + 1), suspended : BOOLEAN, epoch : 0..n]

\* The files are well formed; epochs never run ahead of the writes that made them.
TypeOK ==
    /\ tree \subseteq Files /\ reachable \in BOOLEAN
    /\ writes \in Nat /\ lost \in 0..writes /\ damage \in Nat /\ outages \in Nat
    /\ records \in [is : {"none", "ok", "bad"}, files : SUBSET (Files \cup {Root})]
    /\ st \in StateFiles(writes)
    /\ cursor \in [is : {"none", "ok"}, mount : Mounts, epoch : 0..writes, health : Healths,
                  write : 0..writes]
    /\ job \in [pc : {"idle", "scanned", "saved", "recover", "quarantined"},
               files : SUBSET (Files \cup {Root}), previous : StateFiles(writes)]

\* A record archive that can be read is only ever replaced by a scan that reached the
\* root, as long as the root could always be reached: no interruption, decision or
\* recovery puts it away or empties it (write_persistent_index, recover_persistent_index).
RecordsKept ==
    [][records.is = "ok" /\ damage' = damage /\ outages = 0
         => records'.is = "ok" /\ Root \in records'.files]_vars

\* The state keeps the volume out of the index, or describes records that can be read.
Healthy == Suspended \/ (records.is = "ok" /\ Describes)

\* Between two commands the plan tells files that need a recovery.
RecoveryIsOffered == job = Idle /\ ~Healthy => Plan # "Ready"

\* A build or a recovery that ends without being stopped leaves records and a state that
\* agree, whatever was damaged or interrupted before.
IndexIsSettled == job # Idle /\ job' = Idle /\ stops' = stops => Healthy'

\* A cursor is continued only while the state it was taken against is the one on disk:
\* a rebuild, a decision or a recovery in between forces a rescan.  The count of epochs
\* is kept in the state alone and begins anew when that is lost or is replaced by one of
\* another mount identity, so this is said of cursors taken since.
ContinueIsSameScan == Resume = "Continue" /\ cursor.write > lost => cursor.write = writes
=============================================================================
