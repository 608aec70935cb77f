------------------------- MODULE DurableFilesProofs -------------------------
(***************************************************************************)
(* Proofs about the files that outlive a process, for all bounds: wherever *)
(* a command is stopped, and however often.                                *)
(*                                                                         *)
(* The index of a volume.  Every write of a state for the same mount       *)
(* identity takes the next epoch, so a cursor that was taken since the     *)
(* count last began anew has a smaller epoch unless it was taken against   *)
(* the last write.                                                         *)
(*                                                                         *)
(* The manifest of content archives, for one process at a time.  A pending *)
(* promotion whose journal survives is made from the manifest that is      *)
(* there or has led to it, and its new archive holds what it retires; so   *)
(* completing it at any later time loses nothing.                          *)
(*                                                                         *)
(* The progress store, for one process at a time.  A job takes an id above *)
(* all others, writes its payload before its first row, and owns that row: *)
(* nobody else makes it terminal unless the user stops the job, and the    *)
(* job itself does so once and last.                                       *)
(***************************************************************************)
EXTENDS IndexRecovery, ContentManifest, JobProgress, FiniteSetTheorems, WellFoundedInduction, TLAPS

-----------------------------------------------------------------------------
(* The persistent index of a volume *)

Building == job.pc \in {"scanned", "saved"}

\* Since the count of epochs last began anew, the mount identity is the same and the
\* epoch of a cursor is at most that of the state, and equal to it only when the cursor
\* was taken against the last write.
CursorFollows ==
  cursor.is = "ok" /\ cursor.write > lost =>
    /\ st.is = "ok" /\ cursor.mount = st.mount /\ cursor.epoch <= st.epoch
    /\ cursor.epoch = st.epoch => cursor.write = writes

\* Nothing but the build itself touches the state while it runs.
BuildFollows == Building => job.previous = st

\* Every scan has seen the root, if it could always be reached.
RootIsKept ==
  outages = 0 =>
    /\ reachable
    /\ records.is = "ok" => Root \in records.files
    /\ Building => Root \in job.files

IndexInv == TypeOK /\ CursorFollows /\ BuildFollows /\ RootIsKept

\* A scan finds at most the files that there may be, and the root.
LEMMA ScanIsBounded ==
  ASSUME NEW S \in SUBSET (Files \cup {Root})
  PROVE  Cardinality(S) \in 0..(Cardinality(Files) + 1)
<1>1. IsFiniteSet(Files \cup {Root}) /\ Cardinality(Files \cup {Root}) <= Cardinality(Files) + 1
  <2>1. IsFiniteSet(Files \cup {Root})
        /\ Cardinality(Files \cup {Root}) = IF Root \in Files THEN Cardinality(Files) ELSE Cardinality(Files) + 1
    BY FilesAssumption, FS_AddElement
  <2>2. Cardinality(Files) \in Nat
    BY FilesAssumption, FS_CardinalityType
  <2>3. QED
    BY <2>1, <2>2
<1>2. IsFiniteSet(S) /\ Cardinality(S) <= Cardinality(Files \cup {Root})
  BY <1>1, FS_Subset
<1>3. Cardinality(S) \in Nat /\ Cardinality(Files) \in Nat /\ Cardinality(Files \cup {Root}) \in Nat
  BY <1>1, <1>2, FilesAssumption, FS_CardinalityType
<1>4. QED
  BY <1>1, <1>2, <1>3

\* A state file that cannot be read, or is not there.
LEMMA StateFileType ==
  ASSUME NEW n \in Nat, NEW is \in {"none", "bad", "old"}
  PROVE  StateFile(is) \in StateFiles(n)
<1>1. Cardinality(Files) \in Nat
  BY FilesAssumption, FS_CardinalityType
<1>2. QED
  BY <1>1 DEF StateFile, StateFiles, Mounts

\* Whatever was read before, the next state is well formed, and counts on from a state of
\* the same mount identity.
LEMMA StateType ==
  ASSUME NEW n \in Nat, NEW previous \in StateFiles(n), NEW path \in {Root, Volume},
         NEW count \in 0..(Cardinality(Files) + 1), NEW suspended \in BOOLEAN
  PROVE  LET s == State(path, count, suspended, previous)
         IN  /\ s \in StateFiles(n + 1) /\ s.is = "ok"
             /\ previous.is = "ok" /\ previous.mount = s.mount => s.epoch = previous.epoch + 1
<1>1. previous.epoch \in 0..n
  BY DEF StateFiles
<1>2. \A mount \in Mounts : NextEpoch(previous, mount) \in 0..(n + 1)
  BY <1>1 DEF NextEpoch
<1>3. mount_identity(path) \in Mounts
  BY DEF mount_identity, Mounts
<1> DEFINE mount == mount_identity(path)
<1>4. NextEpoch(previous, mount) \in 0..(n + 1)
  BY <1>2, <1>3
<1>5. previous.is = "ok" /\ previous.mount = mount => NextEpoch(previous, mount) = previous.epoch + 1
  BY DEF NextEpoch
<1>6. State(path, count, suspended, previous) =
        [is |-> "ok", root |-> path, mount |-> mount, count |-> count, suspended |-> suspended,
         epoch |-> NextEpoch(previous, mount)]
  BY DEF State
<1> HIDE DEF mount
<1>7. QED
  BY <1>3, <1>4, <1>5, <1>6 DEF StateFiles, mount

\* The first build has left records of the root, and its state.
LEMMA InitIndexInv == Init => IndexInv
<1> SUFFICES ASSUME Init PROVE IndexInv
  OBVIOUS
<1>1. Cardinality(Files) \in Nat
  BY FilesAssumption, FS_CardinalityType
<1>2. StateFile("none") \in StateFiles(0) /\ StateFile("none") \in StateFiles(1)
  BY StateFileType
<1>3. st \in StateFiles(1)
  <2>1. 1 \in 0..(Cardinality(Files) + 1) /\ Root \in {Root, Volume} /\ 0 \in Nat /\ 0 + 1 = 1
    BY <1>1
  <2>2. FALSE \in BOOLEAN
    OBVIOUS
  <2>3. State(Root, 1, FALSE, StateFile("none")) \in StateFiles(0 + 1)
    BY <1>2, <2>1, <2>2, StateType, Zenon
  <2>4. QED
    BY <2>1, <2>3 DEF Init
<1>4. TypeOK
  <2>1. reachable \in BOOLEAN
    BY Zenon DEF Init
  <2>2. records \in [is : {"none", "ok", "bad"}, files : SUBSET (Files \cup {Root})]
    BY DEF Init, Records
  <2>3. cursor \in [is : {"none", "ok"}, mount : Mounts, epoch : 0..writes, health : Healths,
                    write : 0..writes]
    BY DEF Init, NoCursor, Mounts, Healths
  <2>4. job \in [pc : {"idle", "scanned", "saved", "recover", "quarantined"},
                 files : SUBSET (Files \cup {Root}), previous : StateFiles(writes)]
    BY <1>2 DEF Init, Idle
  <2>5. tree = {} /\ writes = 1 /\ lost = 0 /\ damage = 0 /\ outages = 0
    BY DEF Init
  <2>6. st \in StateFiles(writes)
    BY <1>3, <2>5
  <2>7. tree \subseteq Files /\ writes \in Nat /\ lost \in 0..writes /\ damage \in Nat /\ outages \in Nat
    BY <2>5
  <2>8. QED
    BY <2>1, <2>2, <2>3, <2>4, <2>6, <2>7, Zenon DEF TypeOK
<1>5. CursorFollows /\ BuildFollows /\ RootIsKept
  BY DEF Init, CursorFollows, BuildFollows, RootIsKept, Building, Records, NoCursor, Idle
<1>6. QED
  BY <1>4, <1>5 DEF IndexInv

\* A build starts from the state that is there, and with a scan.
LEMMA BuildBegins ==
  ASSUME IndexInv, BeginBuild, UNCHANGED <<world, records, st, cursor, writes, lost, damage, outages>>
  PROVE  IndexInv'
<1>1. Scan \in SUBSET (Files \cup {Root}) /\ (outages = 0 => Root \in Scan)
  BY DEF IndexInv, TypeOK, Scan, RootIsKept
<1>2. TypeOK'
  BY <1>1 DEF IndexInv, TypeOK, BeginBuild, world
<1>3. CursorFollows'
  BY DEF IndexInv, CursorFollows
<1>4. BuildFollows'
  BY DEF BuildFollows, BeginBuild
<1>5. RootIsKept'
  BY <1>1 DEF IndexInv, RootIsKept, BeginBuild, Building, world
<1>6. QED
  BY <1>2, <1>3, <1>4, <1>5 DEF IndexInv

\* A state is written with the next epoch, which leaves every older cursor behind, or for
\* another mount identity, with which the count begins anew.
LEMMA StateMovesOn ==
  ASSUME IndexInv, NEW path \in {Root, Volume}, NEW count \in 0..(Cardinality(Files) + 1),
         NEW suspended \in BOOLEAN,
         WriteState(State(path, count, suspended, st)), job' = Idle,
         UNCHANGED <<world, records, cursor, damage, outages>>
  PROVE  IndexInv'
<1> DEFINE s == State(path, count, suspended, st)
<1>1. /\ writes \in Nat /\ lost \in 0..writes /\ st \in StateFiles(writes)
      /\ cursor.epoch \in 0..writes /\ cursor.write \in 0..writes /\ st.epoch \in 0..writes
  BY DEF IndexInv, TypeOK, StateFiles
<1>2. /\ s \in StateFiles(writes + 1) /\ s.is = "ok"
      /\ st.is = "ok" /\ st.mount = s.mount => s.epoch = st.epoch + 1
  BY <1>1, StateType
<1>3. /\ st' = s /\ writes' = writes + 1
      /\ lost' = IF st.is = "ok" /\ st.mount = s.mount THEN lost ELSE writes
  BY DEF WriteState
<1> HIDE DEF s
<1>4. TypeOK'
  <2>1. writes' \in Nat /\ lost' \in 0..writes' /\ st' \in StateFiles(writes')
    BY <1>1, <1>2, <1>3
  <2>2. cursor' \in [is : {"none", "ok"}, mount : Mounts, epoch : 0..writes', health : Healths,
                     write : 0..writes']
    BY <1>1, <1>3 DEF IndexInv, TypeOK
  <2>3. Idle \in [pc : {"idle", "scanned", "saved", "recover", "quarantined"},
                  files : SUBSET (Files \cup {Root}), previous : StateFiles(writes')]
    BY <2>1, StateFileType DEF Idle
  <2>4. QED
    BY <2>1, <2>2, <2>3 DEF IndexInv, TypeOK, world
<1>5. CursorFollows'
  <2> SUFFICES ASSUME cursor.is = "ok", cursor.write > lost'
               PROVE  s.is = "ok" /\ cursor.mount = s.mount /\ cursor.epoch < s.epoch /\ s.epoch \in Nat
    BY <1>1, <1>3 DEF CursorFollows
  <2>1. st.is = "ok" /\ st.mount = s.mount /\ lost' = lost
    BY <1>1, <1>3
  <2>2. cursor.mount = st.mount /\ cursor.epoch <= st.epoch
    BY <2>1 DEF IndexInv, CursorFollows
  <2>3. QED
    BY <1>1, <1>2, <2>1, <2>2
<1>6. BuildFollows' /\ RootIsKept'
  BY DEF IndexInv, BuildFollows, RootIsKept, Building, Idle, world
<1>7. QED
  BY <1>4, <1>5, <1>6 DEF IndexInv

\* A command ends, or a recovery begins, and the files stay as they are.
LEMMA FilesRest ==
  ASSUME IndexInv, NEW pc \in {"idle", "recover", "quarantined"}, job' = [Idle EXCEPT !.pc = pc],
         UNCHANGED <<world, records, st, cursor, writes, lost, damage, outages>>
  PROVE  IndexInv'
<1>1. StateFile("none") \in StateFiles(writes)
  BY StateFileType DEF IndexInv, TypeOK
<1>2. TypeOK'
  BY <1>1 DEF IndexInv, TypeOK, Idle, world
<1>3. CursorFollows' /\ BuildFollows' /\ RootIsKept'
  BY DEF IndexInv, CursorFollows, BuildFollows, RootIsKept, Building, Idle, world
<1>4. QED
  BY <1>2, <1>3 DEF IndexInv

\* Every step of the index keeps the invariant.
LEMMA NextIndexInv == IndexInv /\ [Next]_vars => IndexInv'
<1> SUFFICES ASSUME IndexInv, [Next]_vars PROVE IndexInv'
  OBVIOUS
<1> USE DEF bounds, Command
<1>a. Idle = [Idle EXCEPT !.pc = "idle"]
  BY DEF Idle
<1>1. CASE StartBuild
  BY <1>1, BuildBegins DEF StartBuild
<1>2. CASE SaveRecords
  BY <1>2 DEF SaveRecords, IndexInv, TypeOK, CursorFollows, BuildFollows, RootIsKept, Building, Records, world
<1>3. CASE FinishBuild
  <2>1. job.previous = st /\ job' = Idle
    BY <1>3 DEF FinishBuild, IndexInv, BuildFollows, Building
  <2>2. CASE job.files = {}
    BY <1>a, <1>3, <2>1, <2>2, FilesRest DEF FinishBuild
  <2>3. CASE job.files # {}
    <3>1. Cardinality(job.files) \in 0..(Cardinality(Files) + 1)
      BY ScanIsBounded DEF IndexInv, TypeOK
    <3>2. QED
      BY <1>3, <2>1, <2>3, <3>1, StateMovesOn DEF FinishBuild
  <2>4. QED
    BY <2>2, <2>3
<1>4. CASE \E path \in DecisionRoots, suspended \in BOOLEAN : Decide(path, suspended)
  <2>1. PICK path \in DecisionRoots, suspended \in BOOLEAN : Decide(path, suspended)
    BY <1>4
  <2>2. 0 \in 0..(Cardinality(Files) + 1) /\ path \in {Root, Volume}
    BY FilesAssumption, FS_CardinalityType
  <2>3. job' = Idle
    BY <2>1 DEF Decide
  <2>4. QED
    BY <2>1, <2>2, <2>3, StateMovesOn DEF Decide
<1>5. CASE \E health \in Healths : Checkpoint(health)
  <2>1. PICK health \in Healths : Checkpoint(health)
    BY <1>5
  <2>2. st.mount \in Mounts /\ st.epoch \in 0..writes /\ writes \in Nat
    BY DEF IndexInv, TypeOK, StateFiles
  <2>3. TypeOK'
    BY <2>1, <2>2 DEF Checkpoint, IndexInv, TypeOK, world
  <2>4. CursorFollows' /\ BuildFollows' /\ RootIsKept'
    BY <2>1, <2>2 DEF Checkpoint, IndexInv, CursorFollows, BuildFollows, RootIsKept, Building, world
  <2>5. QED
    BY <2>3, <2>4 DEF IndexInv
<1>6. CASE RecoverState
  <2>1. CASE records.files = {}
    BY <1>a, <1>6, <2>1, FilesRest DEF RecoverState
  <2>2. CASE records.files # {}
    <3>1. Cardinality(records.files) \in 0..(Cardinality(Files) + 1)
      BY ScanIsBounded DEF IndexInv, TypeOK
    <3>2. QED
      BY <1>6, <2>2, <3>1, StateMovesOn DEF RecoverState
  <2>3. QED
    BY <2>1, <2>2
<1>7. CASE RecoverRecords
  <2>1. CASE PreviousIsReadable
    BY <1>7, <2>1, BuildBegins DEF RecoverRecords
  <2>2. CASE ~PreviousIsReadable
    BY <1>a, <1>7, <2>2, FilesRest DEF RecoverRecords
  <2>3. QED
    BY <2>1, <2>2
<1>8. CASE Quarantine
  BY <1>8 DEF Quarantine, IndexInv, TypeOK, CursorFollows, BuildFollows, RootIsKept, Building, NoRecords, world
<1>9. CASE RebuildQuarantined
  <2>1. CASE PreviousIsReadable
    BY <1>9, <2>1, BuildBegins DEF RebuildQuarantined
  <2>2. CASE ~PreviousIsReadable
    BY <1>a, <1>9, <2>2, FilesRest DEF RebuildQuarantined
  <2>3. QED
    BY <2>1, <2>2
<1>b. CASE StartRecovery
  BY <1>b, FilesRest DEF StartRecovery
<1>10. CASE Change
  BY <1>10 DEF Change, IndexInv, TypeOK, CursorFollows, BuildFollows, RootIsKept, Building
<1>11. CASE Outage
  <2>1. outages \in Nat /\ outages' = outages + 1
    BY <1>11 DEF Outage, IndexInv, TypeOK
  <2>2. RootIsKept'
    BY <2>1 DEF RootIsKept
  <2>3. TypeOK'
    <3>1. reachable' \in BOOLEAN
      BY <1>11, Zenon DEF Outage
    <3>2. UNCHANGED <<tree, records, st, cursor, job, writes, lost, damage>> /\ outages' \in Nat
      BY <1>11, <2>1 DEF Outage
    <3>3. QED
      BY <3>1, <3>2 DEF IndexInv, TypeOK
  <2>4. CursorFollows' /\ BuildFollows'
    BY <1>11 DEF Outage, IndexInv, CursorFollows, BuildFollows, Building
  <2>5. QED
    BY <2>2, <2>3, <2>4 DEF IndexInv
<1>12. CASE Return
  BY <1>12 DEF Return, IndexInv, TypeOK, CursorFollows, BuildFollows, RootIsKept, Building
<1>13. CASE Stop
  BY <1>a, <1>13, FilesRest DEF Stop
<1>14. CASE Damage
  <2>1. job = Idle /\ ~Building /\ ~Building'
    BY <1>14 DEF Damage, Building, Idle
  <2>2. CursorFollows'
    BY <1>14 DEF Damage, IndexInv, CursorFollows, TypeOK
  <2>3. TypeOK'
    <3>1. damage' \in Nat /\ 0 \in 0..(Cardinality(Files) + 1)
      BY <1>14, FilesAssumption, FS_CardinalityType DEF Damage, IndexInv, TypeOK
    <3>2. CASE records' \in {NoRecords, [is |-> "bad", files |-> {}]} /\ UNCHANGED <<st, lost>>
      BY <1>14, <3>1, <3>2 DEF Damage, IndexInv, TypeOK, NoRecords, world
    <3>3. CASE UNCHANGED records /\ (\E is \in {"none", "bad", "old"} : st' = StateFile(is)) /\ lost' = writes
      <4>1. st' \in StateFiles(writes) /\ lost' \in 0..writes /\ writes' = writes
        BY <1>14, <3>3, StateFileType DEF Damage, IndexInv, TypeOK
      <4>2. QED
        BY <1>14, <3>1, <3>3, <4>1 DEF Damage, IndexInv, TypeOK, world
    <3>4. QED
      BY <1>14, <3>2, <3>3 DEF Damage
  <2>4. BuildFollows' /\ RootIsKept'
    BY <1>14, <2>1 DEF Damage, IndexInv, BuildFollows, RootIsKept, NoRecords, world
  <2>5. QED
    BY <2>2, <2>3, <2>4 DEF IndexInv
<1>15. CASE UNCHANGED vars
  BY <1>15 DEF vars, IndexInv, TypeOK, CursorFollows, BuildFollows, RootIsKept, Building
<1>16. QED
  BY <1>1, <1>2, <1>3, <1>4, <1>5, <1>6, <1>7, <1>8, <1>9, <1>10, <1>11, <1>12, <1>13, <1>14, <1>15, <1>b
     DEF Next, Advance, Recover

\* The inductive invariant holds in every state.
LEMMA IndexInvHolds == Spec => []IndexInv
<1>1. QED
  BY InitIndexInv, NextIndexInv, PTL DEF Spec

\* The files stay well formed, and no epoch runs ahead of the writes of the state.
THEOREM IndexTypes == Spec => []TypeOK
<1>1. IndexInv => TypeOK
  BY DEF IndexInv
<1>2. QED
  BY <1>1, IndexInvHolds, PTL

\* A cursor is continued only while the state it was taken against is the one on disk,
\* however builds, decisions and recoveries were interrupted, unless the count of
\* epochs began anew since: the state was lost, or written for another mount identity
\* (IndexVolumeState::from_page, from_decision, FseventsResumePlan::evaluate).
THEOREM ContinuedCursorIsCurrent == Spec => []ContinueIsSameScan
<1>1. IndexInv => ContinueIsSameScan
  BY DEF IndexInv, CursorFollows, ContinueIsSameScan, Resume
<1>2. QED
  BY <1>1, IndexInvHolds, PTL

\* Records that can be read are only replaced by records of the root, as long as the
\* root can be reached and nothing is damaged from outside: no decision and no recovery
\* puts them away (write_persistent_index, recover_persistent_index).
THEOREM RecordsAreKept == Spec => RecordsKept
<1> DEFINE Keeps == records.is = "ok" /\ damage' = damage /\ outages = 0
                      => records'.is = "ok" /\ Root \in records'.files
<1>1. IndexInv /\ [Next]_vars => [Keeps]_vars
  <2> SUFFICES ASSUME IndexInv, Next, records.is = "ok", damage' = damage, outages = 0
               PROVE  records'.is = "ok" /\ Root \in records'.files
    OBVIOUS
  <2>1. Root \in records.files /\ (Building => Root \in job.files)
    BY DEF IndexInv, RootIsKept
  <2>2. CASE SaveRecords
    BY <2>1, <2>2 DEF SaveRecords, Building, Records
  <2>3. ~Quarantine
    BY DEF Quarantine, Plan
  <2>4. ~Damage
    <3>1. ASSUME Damage PROVE FALSE
      BY <3>1 DEF Damage, IndexInv, TypeOK
    <3>2. QED
      BY <3>1
  <2>5. CASE UNCHANGED records
    BY <2>1, <2>5
  <2>6. QED
    BY <2>2, <2>3, <2>4, <2>5
       DEF Next, Advance, Recover, StartBuild, StartRecovery, FinishBuild, Decide, Checkpoint, RecoverState,
           RecoverRecords, RebuildQuarantined, Change, Outage, Return, Stop, bounds
<1>2. QED
  BY <1>1, IndexInvHolds, PTL DEF Spec, RecordsKept

-----------------------------------------------------------------------------
(* The manifest of content archives *)

\* The documents that contents c put in a set of archives.
Held(c, archives) == UNION {c[a] : a \in archives}

\* Archives that have been written; a removed one keeps its name.
Used == {a \in Archives : contents[a] # {}}

\* Only archives that have been written are named anywhere, and so are the documents.
NamesUsed ==
  /\ Origin \subseteq Used
  /\ \A a \in Archives : contents[a] \subseteq Used /\ (file[a] = "ok" => a \in Used)
  /\ manifest.archives \subseteq Used /\ retired \subseteq Used
  /\ journal.previous \subseteq Used /\ journal.new \subseteq Used /\ journal.retire \subseteq Used
  /\ \A p \in Writers :
       task[p].seen \subseteq Used /\ task[p].new \subseteq Used /\ task[p].retire \subseteq Used

\* The new archive of a pending promotion holds what the retired ones hold, and without
\* interruptions a journal is there only while its promotion runs.
JournalFits ==
  /\ journal.state = "pending" => Held(contents, journal.retire) \subseteq Held(contents, journal.new)
  /\ journal.state = "pending" /\ content_stops = 0 => \E p \in Writers : task[p].pc \in {"promote", "forget"}

\* What a task has set out to do.
TaskFits(p) ==
  /\ task[p].pc \in {"journal", "promote"} => Held(contents, task[p].retire) \subseteq Held(contents, task[p].new)
  /\ task[p].pc \in {"promote", "complete"} => journal = Pending(task[p].seen, task[p].new, task[p].retire)
  /\ task[p].pc \in {"compacted", "maintain"} =>
       \E a \in Archives \ Origin : task[p].new = {a} /\ contents[a] = {a}

\* As long as nothing is damaged: the manifest can be read, what a task has read of it is
\* current, and what it is going to write can be read.
TaskSound(p) ==
  /\ task[p].pc # "rewrite"
  /\ task[p].pc \in {"journal", "promote", "compacted", "maintain"} => \A a \in task[p].new : file[a] = "ok"
  /\ task[p].pc \in {"journal", "promote", "maintain", "cleanup"} => task[p].seen = manifest.archives
  /\ task[p].pc = "complete" =>
       \A a \in promote_archive(task[p].seen, task[p].new, task[p].retire) : file[a] = "ok"

ManifestSound ==
  /\ manifest.state = "ok" /\ \A a \in manifest.archives : file[a] = "ok"
  /\ \A p \in Writers : TaskSound(p)

\* Whatever was published is in the manifest, which is the one before or after the pending
\* promotion, if there is one.
PublishedSound ==
  content_stops = 0 \/ ~Maintained =>
    /\ published \subseteq Held(contents, manifest.archives)
    /\ journal.state = "pending" => manifest.archives \in {journal.previous, Promoted}

\* A compacted archive is published or about to be.
CompactedSound ==
  content_stops = 0 =>
    \A a \in Archives : contents[a] = {a} =>
      a \in published \/ \E p \in Writers : task[p].pc \in {"compacted", "maintain"} /\ task[p].new = {a}

Undamaged == content_damage = 0 => ManifestSound /\ PublishedSound /\ CompactedSound

ContentInv ==
  /\ ContentTypeOK /\ NamesUsed /\ JournalFits /\ Undamaged
  /\ \A p \in Writers : TaskFits(p)

\* What archives hold together.
LEMMA HeldMember ==
  ASSUME NEW c, NEW S
  PROVE  \A x : x \in Held(c, S) <=> \E a \in S : x \in c[a]
BY DEF Held

\* The more archives, the more they hold.
LEMMA HeldGrows ==
  ASSUME NEW c, NEW S, NEW T, S \subseteq T
  PROVE  Held(c, S) \subseteq Held(c, T)
BY HeldMember

\* A promotion keeps every document, if the new archive holds those of the retired ones.
LEMMA PromotionHolds ==
  ASSUME NEW c, NEW previous, NEW new, NEW retire, Held(c, retire) \subseteq Held(c, new)
  PROVE  Held(c, previous) \subseteq Held(c, promote_archive(previous, new, retire))
<1> SUFFICES ASSUME NEW x \in Held(c, previous)
             PROVE  x \in Held(c, promote_archive(previous, new, retire))
  OBVIOUS
<1>1. PICK a \in previous : x \in c[a]
  BY HeldMember
<1>2. CASE a \in retire
  <2>1. x \in Held(c, new)
    BY <1>1, <1>2, HeldMember
  <2>2. new \subseteq promote_archive(previous, new, retire)
    BY DEF promote_archive
  <2>3. QED
    BY <2>1, <2>2, HeldGrows
<1>3. CASE a \notin retire
  <2>1. a \in promote_archive(previous, new, retire)
    BY <1>3 DEF promote_archive
  <2>2. QED
    BY <1>1, <2>1, HeldMember
<1>4. QED
  BY <1>2, <1>3

\* The first manifest names archives that can be read.
LEMMA InitContentInv == ContentInit => ContentInv
<1> SUFFICES ASSUME ContentInit PROVE ContentInv
  OBVIOUS
<1> USE DEF ContentInit, NoTask, Task, NoJournal, Manifest
<1>1. ContentTypeOK
  BY OriginAssumption DEF ContentTypeOK, Steps
<1>2. \A a \in Origin : a \in Archives /\ contents[a] = {a} /\ file[a] = "ok"
  BY OriginAssumption
<1>3. NamesUsed
  BY <1>2, OriginAssumption DEF NamesUsed, Used
<1>4. JournalFits
  BY DEF JournalFits
<1>5. ASSUME NEW p \in Writers PROVE TaskFits(p) /\ TaskSound(p)
  BY DEF TaskFits, TaskSound
<1>6. ManifestSound
  BY <1>2, <1>5 DEF ManifestSound
<1>7. PublishedSound
  <2>1. \A x \in Origin : x \in Held(contents, Origin)
    BY <1>2, HeldMember
  <2>2. QED
    BY <2>1 DEF PublishedSound
<1>8. CompactedSound
  <2>1. \A a \in Archives : contents[a] = {a} => a \in Origin
    OBVIOUS
  <2>2. QED
    BY <2>1 DEF CompactedSound
<1>9. QED
  BY <1>1, <1>3, <1>4, <1>5, <1>6, <1>7, <1>8 DEF ContentInv, Undamaged

Tasks == [pc : Steps, seen : SUBSET Archives, new : SUBSET Archives, retire : SUBSET Archives]

\* The only task there is has taken a step.
LEMMA TaskStep ==
  ASSUME OneWriter, ContentTypeOK, NEW p \in Writers, NEW t \in Tasks, Do(p, t)
  PROVE  task' \in [Writers -> Tasks] /\ \A q \in Writers : q = p /\ task'[q] = t
<1>1. task \in [Writers -> Tasks]
  BY DEF ContentTypeOK, Tasks
<1>2. QED
  BY <1>1 DEF Do, OneWriter

\* A step that changes no file keeps the invariant, if the task it leads to is in order.
LEMMA TaskOnly ==
  ASSUME OneWriter, ContentInv, NEW p \in Writers, NEW t \in Tasks, Do(p, t),
         UNCHANGED <<files, retired, published, content_damage>>,
         content_stops' \in Nat, content_stops' = 0 => content_stops = 0,
         t.seen \subseteq Used, t.new \subseteq Used, t.retire \subseteq Used,
         TaskFits(p)', content_damage = 0 => TaskSound(p)',
         content_stops' = 0 /\ journal.state = "pending" => t.pc \in {"promote", "forget"},
         content_stops' = 0 /\ content_damage = 0 /\ task[p].pc \in {"compacted", "maintain"} =>
           t.pc \in {"compacted", "maintain"} /\ t.new = task[p].new
  PROVE  ContentInv'
<1>1. task' \in [Writers -> Tasks] /\ \A q \in Writers : q = p /\ task'[q] = t
  BY TaskStep DEF ContentInv
<1>2. UNCHANGED <<file, contents, manifest, journal>>
  BY DEF files
<1>3. ContentTypeOK'
  BY <1>1, <1>2 DEF ContentInv, ContentTypeOK, Tasks
<1>4. Used' = Used /\ Maintained' = Maintained /\ Promoted' = Promoted
  BY <1>2 DEF Used, Maintained, Promoted
<1>5. NamesUsed'
  BY <1>1, <1>2, <1>4 DEF ContentInv, NamesUsed
<1>6. JournalFits'
  BY <1>1, <1>2 DEF ContentInv, JournalFits
<1>7. \A q \in Writers : TaskFits(q)'
  BY <1>1
<1>8. ASSUME content_damage = 0 PROVE ManifestSound' /\ PublishedSound' /\ CompactedSound'
  <2>1. ManifestSound /\ PublishedSound /\ CompactedSound
    BY <1>8 DEF ContentInv, Undamaged
  <2>2. ManifestSound'
    BY <1>1, <1>2, <1>8, <2>1 DEF ManifestSound
  <2>3. PublishedSound'
    BY <1>2, <1>4, <2>1 DEF PublishedSound
  <2>4. CompactedSound'
    BY <1>1, <1>2, <1>8, <2>1 DEF CompactedSound
  <2>5. QED
    BY <2>2, <2>3, <2>4
<1>9. QED
  BY <1>3, <1>5, <1>6, <1>7, <1>8 DEF ContentInv, Undamaged

\* A task that is given up leaves the files.
LEMMA StopTaskKeeps ==
  ASSUME OneWriter, ContentInv, NEW p \in Writers, StopTask(p)
  PROVE  ContentInv'
<1>1. NoTask \in Tasks /\ NoTask.pc = "idle" /\ NoTask.seen = {} /\ NoTask.new = {} /\ NoTask.retire = {}
  BY DEF NoTask, Task, Tasks, Steps
<1>2. task'[p] = NoTask
  BY <1>1, TaskStep DEF ContentInv, StopTask
<1>3. TaskFits(p)' /\ TaskSound(p)'
  BY <1>1, <1>2 DEF TaskFits, TaskSound
<1>4. content_stops' \in Nat /\ content_stops' # 0
  BY DEF ContentInv, ContentTypeOK, StopTask
<1>5. QED
  BY <1>1, <1>3, <1>4, TaskOnly DEF StopTask

\* Cleanup reads the manifest that is there.
LEMMA StartCleanupKeeps ==
  ASSUME OneWriter, ContentInv, NEW p \in Writers, StartCleanup(p)
  PROVE  ContentInv'
<1> DEFINE t == Task("cleanup", manifest.archives, {}, retired)
<1>1. /\ t \in Tasks /\ t.pc = "cleanup" /\ t.seen = manifest.archives /\ t.new = {} /\ t.retire = retired
      /\ manifest.archives \subseteq Used /\ retired \subseteq Used
  BY DEF ContentInv, ContentTypeOK, NamesUsed, Task, Tasks, Steps
<1>2. Do(p, t) /\ UNCHANGED <<files, retired, published, content_stops, content_damage>> /\ task[p].pc = "idle"
  BY DEF StartCleanup, NoTask, Task
<1> HIDE DEF t
<1>3. task'[p] = t /\ (\A q \in Writers : q = p)
  BY <1>1, <1>2, TaskStep DEF ContentInv
<1>4. TaskFits(p)' /\ TaskSound(p)'
  BY <1>1, <1>2, <1>3 DEF TaskFits, TaskSound, files
<1>5. journal.state = "pending" => content_stops # 0
  BY <1>2, <1>3 DEF ContentInv, JournalFits
<1>6. content_stops \in Nat
  BY DEF ContentInv, ContentTypeOK
<1>7. QED
  BY <1>1, <1>2, <1>4, <1>5, <1>6, TaskOnly

\* Maintenance reads the manifest that is there.
LEMMA ReadForMaintenanceKeeps ==
  ASSUME OneWriter, ContentInv, NEW p \in Writers, ReadForMaintenance(p)
  PROVE  ContentInv'
<1> DEFINE t == IF manifest.state = "ok" THEN [task[p] EXCEPT !.pc = "maintain", !.seen = manifest.archives] ELSE NoTask
<1>1. task[p] \in Tasks /\ task[p].pc = "compacted"
  BY DEF ContentInv, ContentTypeOK, Tasks, ReadForMaintenance
<1>2. Do(p, t) /\ UNCHANGED <<files, retired, published, content_stops, content_damage>>
  BY DEF ReadForMaintenance
<1>3. \/ manifest.state # "ok" /\ t = NoTask
      \/ /\ t.pc = "maintain" /\ t.seen = manifest.archives /\ t.new = task[p].new /\ t.retire = task[p].retire
         /\ manifest.state = "ok"
  BY <1>1 DEF Tasks
<1>4. t \in Tasks
  BY <1>1 DEF Tasks, Steps, NoTask, Task, ContentInv, ContentTypeOK
<1>5. t.seen \subseteq Used /\ t.new \subseteq Used /\ t.retire \subseteq Used
  BY <1>3 DEF ContentInv, NamesUsed, NoTask, Task
<1> HIDE DEF t
<1>6. task'[p] = t /\ (\A q \in Writers : q = p)
  BY <1>2, <1>4, TaskStep DEF ContentInv
<1>7. TaskFits(p)'
  BY <1>1, <1>2, <1>3, <1>6 DEF ContentInv, TaskFits, files, NoTask, Task
<1>8. ASSUME content_damage = 0 PROVE TaskSound(p)' /\ manifest.state = "ok"
  BY <1>1, <1>2, <1>3, <1>6, <1>8 DEF ContentInv, Undamaged, ManifestSound, TaskSound, files
<1>9. journal.state = "pending" => content_stops # 0
  BY <1>1, <1>6 DEF ContentInv, JournalFits
<1>10. content_stops \in Nat
  BY DEF ContentInv, ContentTypeOK
<1>11. QED
  BY <1>2, <1>3, <1>4, <1>5, <1>7, <1>8, <1>9, <1>10, TaskOnly

\* Recovery of a promotion takes over what the journal says.
LEMMA StartPromotionRecoveryKeeps ==
  ASSUME OneWriter, ContentInv, NEW p \in Writers, StartPromotionRecovery(p)
  PROVE  ContentInv'
<1>1. task[p].pc = "idle" /\ UNCHANGED <<files, retired, published, content_stops, content_damage>>
  BY DEF StartPromotionRecovery, NoTask, Task
<1>2. content_stops \in Nat /\ (\A q \in Writers : q = p)
  BY DEF ContentInv, ContentTypeOK, OneWriter
<1>3. journal.state = "pending" => content_stops # 0
  BY <1>1, <1>2 DEF ContentInv, JournalFits
<1>4. CASE Do(p, Task("discard", {}, {}, {}))
  <2> DEFINE t == Task("discard", {}, {}, {})
  <2>1. t \in Tasks /\ t.pc = "discard" /\ t.seen = {} /\ t.new = {} /\ t.retire = {}
    BY DEF Task, Tasks, Steps
  <2> HIDE DEF t
  <2>2. task'[p] = t
    BY <1>4, <2>1, TaskStep DEF ContentInv, t
  <2>3. TaskFits(p)' /\ TaskSound(p)'
    BY <2>1, <2>2 DEF TaskFits, TaskSound
  <2>4. Do(p, t)
    BY <1>4 DEF t
  <2>5. QED
    BY <1>1, <1>2, <1>3, <2>1, <2>3, <2>4, TaskOnly
<1>5. CASE PromotionPlan = "CompletePromotion" /\ Do(p, Task("complete", journal.previous, journal.new, journal.retire))
  <2> DEFINE t == Task("complete", journal.previous, journal.new, journal.retire)
  <2>1. /\ t \in Tasks /\ t.pc = "complete" /\ t.seen = journal.previous /\ t.new = journal.new
        /\ t.retire = journal.retire
    BY DEF Task, Tasks, Steps, ContentInv, ContentTypeOK
  <2> HIDE DEF t
  <2>2. task'[p] = t /\ Do(p, t)
    BY <1>5, <2>1, TaskStep DEF ContentInv, t
  <2>3. journal.state = "pending" /\ \A a \in Promoted : file[a] = "ok"
    BY <1>5 DEF PromotionPlan, Readable, ContentInv, ContentTypeOK
  <2>4. journal = Pending(journal.previous, journal.new, journal.retire)
    BY <2>3 DEF Pending, ContentInv, ContentTypeOK
  <2>5. TaskFits(p)' /\ TaskSound(p)'
    BY <1>1, <2>1, <2>2, <2>3, <2>4 DEF TaskFits, TaskSound, Promoted, files
  <2>6. t.seen \subseteq Used /\ t.new \subseteq Used /\ t.retire \subseteq Used
    BY <2>1 DEF ContentInv, NamesUsed
  <2>7. QED
    BY <1>1, <1>2, <1>3, <2>1, <2>2, <2>5, <2>6, TaskOnly
<1>6. QED
  BY <1>4, <1>5 DEF StartPromotionRecovery

\* The journal of a promotion is written before its manifest.
LEMMA WriteJournalKeeps ==
  ASSUME OneWriter, ContentInv, NEW p \in Writers, WriteJournal(p)
  PROVE  ContentInv'
<1> DEFINE t == [task[p] EXCEPT !.pc = "promote"]
<1>1. task[p] \in Tasks /\ task[p].pc = "journal"
  BY DEF ContentInv, ContentTypeOK, Tasks, WriteJournal
<1>2. /\ t \in Tasks /\ t.pc = "promote" /\ t.seen = task[p].seen /\ t.new = task[p].new
      /\ t.retire = task[p].retire
  BY <1>1 DEF Tasks, Steps
<1>3. Do(p, t) /\ UNCHANGED <<file, contents, manifest, retired, published, content_stops, content_damage>>
  BY DEF WriteJournal
<1> HIDE DEF t
<1>4. task' \in [Writers -> Tasks] /\ \A q \in Writers : q = p /\ task'[q] = t
  BY <1>2, <1>3, TaskStep DEF ContentInv
<1>5. /\ journal' = Pending(task[p].seen, task[p].new, task[p].retire)
      /\ journal'.state = "pending" /\ journal'.previous = task[p].seen
      /\ journal'.new = task[p].new /\ journal'.retire = task[p].retire
  BY DEF WriteJournal, Pending
<1>6. ContentTypeOK'
  BY <1>1, <1>3, <1>4, <1>5 DEF ContentInv, ContentTypeOK, Tasks, Pending
<1>7. Used' = Used /\ Maintained' = Maintained
  BY <1>3 DEF Used, Maintained
<1>8. NamesUsed'
  BY <1>2, <1>3, <1>4, <1>5, <1>7 DEF ContentInv, NamesUsed
<1>9. TaskFits(p) /\ Held(contents, task[p].retire) \subseteq Held(contents, task[p].new)
  BY <1>1 DEF ContentInv, TaskFits
<1>10. JournalFits'
  BY <1>2, <1>3, <1>4, <1>5, <1>9 DEF JournalFits
<1>11. \A q \in Writers : TaskFits(q)'
  BY <1>2, <1>3, <1>4, <1>5, <1>9 DEF TaskFits
<1>12. ASSUME content_damage = 0 PROVE ManifestSound' /\ PublishedSound' /\ CompactedSound'
  <2>1. ManifestSound /\ PublishedSound /\ CompactedSound /\ TaskSound(p)
    BY <1>12 DEF ContentInv, Undamaged, ManifestSound
  <2>2. ManifestSound'
    BY <1>1, <1>2, <1>3, <1>4, <2>1 DEF ManifestSound, TaskSound
  <2>3. PublishedSound'
    BY <1>1, <1>3, <1>5, <1>7, <2>1 DEF PublishedSound, TaskSound
  <2>4. CompactedSound'
    BY <1>1, <1>3, <1>4, <2>1 DEF CompactedSound
  <2>5. QED
    BY <2>2, <2>3, <2>4
<1>13. QED
  BY <1>3, <1>6, <1>8, <1>10, <1>11, <1>12 DEF ContentInv, Undamaged

Calm == content_stops = 0 \/ ~Maintained

\* A manifest that can be read and holds what its predecessor held keeps the invariant.
LEMMA ManifestWritten ==
  ASSUME OneWriter, ContentInv, NEW p \in Writers, NEW t \in Tasks, Do(p, t),
         NEW archives \in SUBSET Used, WriteManifest(archives),
         UNCHANGED <<file, contents, journal, retired, content_stops, content_damage>>,
         t.pc \in {"forget", "discard", "idle"},
         t.seen \subseteq Used, t.new \subseteq Used, t.retire \subseteq Used,
         content_stops = 0 /\ journal.state = "pending" => t.pc = "forget",
         content_damage = 0 =>
           /\ \A a \in archives : file[a] = "ok"
           /\ Calm => /\ Held(contents, manifest.archives) \subseteq Held(contents, archives)
                      /\ journal.state = "pending" => archives \in {journal.previous, Promoted}
           /\ task[p].pc \in {"compacted", "maintain"} => task[p].new \subseteq archives
  PROVE  ContentInv'
<1>1. task' \in [Writers -> Tasks] /\ \A q \in Writers : q = p /\ task'[q] = t
  BY TaskStep DEF ContentInv
<1>2. archives \subseteq Archives /\ manifest' = Manifest(archives) /\ manifest'.archives = archives /\ manifest'.state = "ok"
  BY DEF Used, WriteManifest, Manifest
<1>3. /\ published' = published \cup Held(contents, {a \in archives : file[a] = "ok"})
      /\ published' \subseteq Archives
  <2>1. published' = published \cup Held(contents, {a \in archives : file[a] = "ok"})
    BY DEF WriteManifest, Documents, Held, Readable
  <2>2. ASSUME NEW x \in Held(contents, {a \in archives : file[a] = "ok"}) PROVE x \in Archives
    BY <1>2, HeldMember DEF ContentInv, ContentTypeOK
  <2>3. QED
    BY <2>1, <2>2 DEF ContentInv, ContentTypeOK
<1>4. ContentTypeOK'
  BY <1>1, <1>2, <1>3 DEF ContentInv, ContentTypeOK, Tasks, Manifest
<1>5. Used' = Used /\ Maintained' = Maintained /\ Promoted' = Promoted
  BY DEF Used, Maintained, Promoted
<1>6. NamesUsed'
  BY <1>1, <1>2, <1>5 DEF ContentInv, NamesUsed
<1>7. JournalFits'
  BY <1>1 DEF ContentInv, JournalFits
<1>8. \A q \in Writers : TaskFits(q)' /\ TaskSound(q)'
  BY <1>1 DEF TaskFits, TaskSound
<1>9. ASSUME content_damage = 0 PROVE ManifestSound' /\ PublishedSound' /\ CompactedSound'
  <2>1. ManifestSound /\ PublishedSound /\ CompactedSound
    BY <1>9 DEF ContentInv, Undamaged
  <2>2. ManifestSound'
    BY <1>2, <1>8, <1>9 DEF ManifestSound
  <2>3. PublishedSound'
    <3> SUFFICES ASSUME Calm
                 PROVE  /\ published' \subseteq Held(contents, archives)
                        /\ journal.state = "pending" => archives \in {journal.previous, Promoted}
      BY <1>2, <1>5 DEF PublishedSound, Calm
    <3>1. Held(contents, {a \in archives : file[a] = "ok"}) \subseteq Held(contents, archives)
      BY HeldGrows
    <3>2. published \subseteq Held(contents, manifest.archives)
      BY <2>1 DEF PublishedSound, Calm
    <3>3. QED
      BY <1>3, <1>9, <3>1, <3>2
  <2>4. CompactedSound'
    <3> SUFFICES ASSUME content_stops = 0, NEW a \in Archives, contents[a] = {a}
                 PROVE  a \in published'
      BY DEF CompactedSound
    <3>1. CASE a \in published
      BY <1>3, <3>1
    <3>2. CASE task[p].pc \in {"compacted", "maintain"} /\ task[p].new = {a}
      <4>1. a \in archives /\ file[a] = "ok"
        BY <1>9, <3>2
      <4>2. a \in Held(contents, {b \in archives : file[b] = "ok"})
        BY <4>1, HeldMember
      <4>3. QED
        BY <1>3, <4>2
    <3>3. QED
      BY <1>1, <2>1, <3>1, <3>2 DEF CompactedSound
  <2>5. QED
    BY <2>2, <2>3, <2>4
<1>10. QED
  BY <1>4, <1>6, <1>7, <1>8, <1>9 DEF ContentInv, Undamaged

\* The manifest of a promotion replaces the one that it was made from.
LEMMA PromoteKeeps ==
  ASSUME OneWriter, ContentInv, NEW p \in Writers, Promote(p)
  PROVE  ContentInv'
<1> DEFINE t == [task[p] EXCEPT !.pc = "forget"]
           archives == promote_archive(task[p].seen, task[p].new, task[p].retire)
<1>1. task[p] \in Tasks /\ task[p].pc = "promote"
  BY DEF ContentInv, ContentTypeOK, Tasks, Promote
<1>2. /\ t \in Tasks /\ t.pc = "forget" /\ t.seen = task[p].seen /\ t.new = task[p].new
      /\ t.retire = task[p].retire
  BY <1>1 DEF Tasks, Steps
<1>3. /\ Do(p, t) /\ WriteManifest(archives)
      /\ UNCHANGED <<file, contents, journal, retired, content_stops, content_damage>>
  BY DEF Promote
<1>4. /\ task[p].seen \subseteq Used /\ task[p].new \subseteq Used /\ task[p].retire \subseteq Used
      /\ archives \subseteq task[p].seen \cup task[p].new
  BY DEF ContentInv, NamesUsed, promote_archive
<1>5. /\ Held(contents, task[p].retire) \subseteq Held(contents, task[p].new)
      /\ journal = Pending(task[p].seen, task[p].new, task[p].retire)
  BY <1>1 DEF ContentInv, TaskFits
<1>6. archives = Promoted
  BY <1>5 DEF Promoted, Pending
<1>7. Held(contents, task[p].seen) \subseteq Held(contents, archives)
  BY <1>5, PromotionHolds
<1> HIDE DEF t, archives
<1>8. ASSUME content_damage = 0
      PROVE  (\A a \in archives : file[a] = "ok") /\ task[p].seen = manifest.archives
  BY <1>1, <1>4, <1>8 DEF ContentInv, Undamaged, ManifestSound, TaskSound
<1>9. QED
  BY <1>1, <1>2, <1>3, <1>4, <1>6, <1>7, <1>8, ManifestWritten

\* Recovery writes the manifest of the pending promotion.
LEMMA CompletePromotionKeeps ==
  ASSUME OneWriter, ContentInv, NEW p \in Writers, CompletePromotion(p)
  PROVE  ContentInv'
<1> DEFINE t == Task("discard", {}, {}, {})
           archives == promote_archive(task[p].seen, task[p].new, task[p].retire)
<1>1. task[p].pc = "complete" /\ t \in Tasks /\ t.pc = "discard" /\ t.seen = {} /\ t.new = {} /\ t.retire = {}
  BY DEF Task, Tasks, Steps, CompletePromotion
<1>2. /\ Do(p, t) /\ WriteManifest(archives)
      /\ UNCHANGED <<file, contents, journal, retired, content_stops, content_damage>>
  BY DEF CompletePromotion
<1>3. task[p].seen \subseteq Used /\ task[p].new \subseteq Used /\ archives \subseteq task[p].seen \cup task[p].new
  BY DEF ContentInv, NamesUsed, promote_archive
<1>4. journal = Pending(task[p].seen, task[p].new, task[p].retire)
  BY <1>1 DEF ContentInv, TaskFits
<1>5. /\ archives = Promoted /\ journal.state = "pending" /\ journal.previous = task[p].seen
      /\ journal.new = task[p].new /\ journal.retire = task[p].retire
  BY <1>4 DEF Promoted, Pending
<1>6. Held(contents, task[p].retire) \subseteq Held(contents, task[p].new)
  BY <1>5 DEF ContentInv, JournalFits
<1>7. Held(contents, task[p].seen) \subseteq Held(contents, archives)
  BY <1>6, PromotionHolds
<1>8. content_stops # 0
  BY <1>1, <1>5 DEF ContentInv, JournalFits, OneWriter
<1> HIDE DEF t, archives
<1>9. ASSUME content_damage = 0 PROVE \A a \in archives : file[a] = "ok"
  BY <1>1, <1>9 DEF ContentInv, Undamaged, ManifestSound, TaskSound, archives
<1>10. ASSUME content_damage = 0, Calm PROVE Held(contents, manifest.archives) \subseteq Held(contents, archives)
  <2>1. manifest.archives \in {task[p].seen, archives}
    BY <1>5, <1>10 DEF ContentInv, Undamaged, PublishedSound, Calm
  <2>2. QED
    BY <1>7, <2>1
<1>11. QED
  BY <1>1, <1>2, <1>3, <1>5, <1>8, <1>9, <1>10, ManifestWritten

\* Maintenance adds its archive to the manifest that is there.
LEMMA PublishMaintenanceKeeps ==
  ASSUME OneWriter, ContentInv, NEW p \in Writers, PublishMaintenance(p)
  PROVE  ContentInv'
<1> DEFINE archives == promote_archive(task[p].seen, task[p].new, {})
<1>1. /\ task[p].pc = "maintain" /\ NoTask \in Tasks /\ NoTask.pc = "idle"
      /\ NoTask.seen = {} /\ NoTask.new = {} /\ NoTask.retire = {}
  BY DEF NoTask, Task, Tasks, Steps, PublishMaintenance
<1>2. /\ Do(p, NoTask) /\ WriteManifest(archives)
      /\ UNCHANGED <<file, contents, journal, retired, content_stops, content_damage>>
  BY DEF PublishMaintenance
<1>3. task[p].seen \subseteq Used /\ task[p].new \subseteq Used /\ archives = task[p].seen \cup task[p].new
  BY DEF ContentInv, NamesUsed, promote_archive
<1>4. Maintained
  BY <1>1 DEF ContentInv, TaskFits, Maintained
<1>5. content_stops = 0 => journal.state # "pending"
  BY <1>1 DEF ContentInv, JournalFits, OneWriter
<1> HIDE DEF archives
<1>6. ASSUME content_damage = 0
      PROVE  (\A a \in archives : file[a] = "ok") /\ task[p].seen = manifest.archives
  BY <1>1, <1>3, <1>6 DEF ContentInv, Undamaged, ManifestSound, TaskSound
<1>7. Held(contents, task[p].seen) \subseteq Held(contents, archives)
  BY <1>3, HeldGrows
<1>8. QED
  BY <1>1, <1>2, <1>3, <1>4, <1>5, <1>6, <1>7, ManifestWritten DEF Calm

\* A recovered manifest is written only after something was damaged.
LEMMA RewriteManifestKeeps ==
  ASSUME OneWriter, ContentInv, NEW p \in Writers, RewriteManifest(p)
  PROVE  ContentInv'
<1>1. /\ task[p].pc = "rewrite" /\ NoTask \in Tasks /\ NoTask.pc = "idle"
      /\ NoTask.seen = {} /\ NoTask.new = {} /\ NoTask.retire = {}
  BY DEF NoTask, Task, Tasks, Steps, RewriteManifest
<1>2. content_damage # 0
  BY <1>1 DEF ContentInv, Undamaged, ManifestSound, TaskSound
<1>3. task[p].seen \subseteq Used
  BY DEF ContentInv, NamesUsed
<1>4. content_stops = 0 => journal.state # "pending"
  BY <1>1 DEF ContentInv, JournalFits, OneWriter
<1>5. /\ Do(p, NoTask) /\ WriteManifest(task[p].seen)
      /\ UNCHANGED <<file, contents, journal, retired, content_stops, content_damage>>
  BY DEF RewriteManifest
<1>6. QED
  BY <1>1, <1>2, <1>3, <1>4, <1>5, ManifestWritten

\* The journal goes when its promotion is done.
LEMMA JournalGone ==
  ASSUME OneWriter, ContentInv, NEW p \in Writers, FinishPromotion(p) \/ DiscardJournal(p)
  PROVE  ContentInv'
<1>1. NoTask \in Tasks /\ NoTask.pc = "idle" /\ NoTask.seen = {} /\ NoTask.new = {} /\ NoTask.retire = {}
  BY DEF NoTask, Task, Tasks, Steps
<1>2. /\ task[p].pc \in {"forget", "discard"} /\ journal' = NoJournal /\ Do(p, NoTask)
      /\ retired' \in {retired, retired \cup task[p].retire}
      /\ UNCHANGED <<file, contents, manifest, published, content_stops, content_damage>>
  BY DEF FinishPromotion, DiscardJournal
<1>3. task' \in [Writers -> Tasks] /\ \A q \in Writers : q = p /\ task'[q] = NoTask
  BY <1>1, <1>2, TaskStep DEF ContentInv
<1>4. journal'.state = "none" /\ journal'.previous = {} /\ journal'.new = {} /\ journal'.retire = {}
  BY <1>2 DEF NoJournal
<1>5. ContentTypeOK'
  <2>1. retired' \subseteq Archives
    BY <1>2 DEF ContentInv, ContentTypeOK
  <2>2. QED
    BY <1>2, <1>3, <2>1 DEF ContentInv, ContentTypeOK, Tasks, NoJournal
<1>6. Used' = Used /\ Maintained' = Maintained
  BY <1>2 DEF Used, Maintained
<1>7. NamesUsed'
  BY <1>1, <1>2, <1>3, <1>4, <1>6 DEF ContentInv, NamesUsed
<1>8. JournalFits'
  BY <1>4 DEF JournalFits
<1>9. \A q \in Writers : TaskFits(q)' /\ TaskSound(q)'
  BY <1>1, <1>3 DEF TaskFits, TaskSound
<1>10. ASSUME content_damage = 0 PROVE ManifestSound' /\ PublishedSound' /\ CompactedSound'
  <2>1. ManifestSound /\ PublishedSound /\ CompactedSound
    BY <1>10 DEF ContentInv, Undamaged
  <2>2. ManifestSound' /\ PublishedSound'
    BY <1>2, <1>4, <1>6, <1>9, <2>1 DEF ManifestSound, PublishedSound
  <2>3. CompactedSound'
    BY <1>2, <1>3, <2>1 DEF CompactedSound
  <2>4. QED
    BY <2>2, <2>3
<1>11. QED
  BY <1>2, <1>5, <1>7, <1>8, <1>9, <1>10 DEF ContentInv, Undamaged

\* Cleanup removes archives that the manifest does not name.
LEMMA RemoveArchiveKeeps ==
  ASSUME OneWriter, ContentInv, NEW p \in Writers, NEW a \in Archives, RemoveArchive(p, a)
  PROVE  ContentInv'
<1> DEFINE t == IF task[p].retire = {a} THEN NoTask ELSE [task[p] EXCEPT !.retire = @ \ {a}]
<1>1. task[p] \in Tasks /\ task[p].pc = "cleanup"
  BY DEF ContentInv, ContentTypeOK, Tasks, RemoveArchive
<1>2. t \in Tasks /\ t.pc \in {"idle", "cleanup"} /\ (t.pc = "cleanup" => t.seen = task[p].seen)
  BY <1>1 DEF Tasks, Steps, NoTask, Task
<1>3. t.seen \subseteq task[p].seen /\ t.new \subseteq task[p].new /\ t.retire \subseteq task[p].retire
  BY <1>1 DEF Tasks, NoTask, Task
<1>4. /\ Do(p, t) /\ UNCHANGED <<contents, manifest, journal, retired, published, content_stops, content_damage>>
      /\ file' = IF a \notin task[p].seen THEN [file EXCEPT ![a] = "none"] ELSE file
  BY DEF RemoveArchive
<1> HIDE DEF t
<1>5. task' \in [Writers -> Tasks] /\ \A q \in Writers : q = p /\ task'[q] = t
  BY <1>2, <1>4, TaskStep DEF ContentInv
<1>6. /\ file' \in [Archives -> {"none", "ok", "bad"}]
      /\ \A b \in Archives : file'[b] = "ok" => file[b] = "ok"
      /\ \A b \in task[p].seen : b \in Archives => file'[b] = file[b]
  BY <1>4 DEF ContentInv, ContentTypeOK
<1>7. ContentTypeOK'
  BY <1>4, <1>5, <1>6 DEF ContentInv, ContentTypeOK, Tasks
<1>8. Used' = Used /\ Maintained' = Maintained /\ Promoted' = Promoted
  BY <1>4 DEF Used, Maintained, Promoted
<1>9. NamesUsed'
  BY <1>3, <1>4, <1>5, <1>6, <1>8 DEF ContentInv, NamesUsed
<1>10. JournalFits'
  BY <1>1, <1>4, <1>5 DEF ContentInv, JournalFits
<1>11. \A q \in Writers : TaskFits(q)'
  BY <1>2, <1>5 DEF TaskFits
<1>12. ASSUME content_damage = 0 PROVE ManifestSound' /\ PublishedSound' /\ CompactedSound'
  <2>1. ManifestSound /\ PublishedSound /\ CompactedSound /\ task[p].seen = manifest.archives
    BY <1>1, <1>12 DEF ContentInv, Undamaged, ManifestSound, TaskSound
  <2>2. manifest.archives \subseteq Archives
    BY DEF ContentInv, ContentTypeOK
  <2>3. ManifestSound'
    BY <1>2, <1>4, <1>5, <1>6, <2>1, <2>2 DEF ManifestSound, TaskSound
  <2>4. PublishedSound'
    BY <1>4, <1>8, <2>1 DEF PublishedSound
  <2>5. CompactedSound'
    BY <1>1, <1>4, <1>5, <2>1 DEF CompactedSound
  <2>6. QED
    BY <2>3, <2>4, <2>5
<1>13. QED
  BY <1>4, <1>7, <1>9, <1>10, <1>11, <1>12 DEF ContentInv, Undamaged

\* Recovery of the manifest begins only after something was damaged.
LEMMA StartManifestRecoveryKeeps ==
  ASSUME OneWriter, ContentInv, NEW p \in Writers, StartManifestRecovery(p)
  PROVE  ContentInv'
<1> DEFINE t == Task("rewrite", ManifestPlan.archives, {}, {})
<1>1. ManifestPlan.archives \subseteq {a \in Archives : file[a] = "ok"}
  BY DEF ManifestPlan, Discovered, Readable, ContentInv, ContentTypeOK
<1>2. t \in Tasks /\ t.pc = "rewrite" /\ t.seen = ManifestPlan.archives /\ t.new = {} /\ t.retire = {}
  BY <1>1 DEF Task, Tasks, Steps
<1>3. /\ Do(p, t) /\ task[p].pc = "idle" /\ manifest' \in {Missing, manifest}
      /\ UNCHANGED <<file, contents, journal, retired, published, content_stops, content_damage>>
  BY DEF StartManifestRecovery, NoTask, Task
<1>4. content_damage # 0
  <2>1. manifest.state = "ok" /\ (\A a \in manifest.archives : file[a] = "ok") => ManifestPlan.do = "Ready"
    BY DEF ManifestPlan, Readable
  <2>2. QED
    BY <2>1 DEF StartManifestRecovery, ContentInv, Undamaged, ManifestSound
<1> HIDE DEF t
<1>5. task' \in [Writers -> Tasks] /\ \A q \in Writers : q = p /\ task'[q] = t
  BY <1>2, <1>3, TaskStep DEF ContentInv
<1>6. ContentTypeOK'
  BY <1>3, <1>5 DEF ContentInv, ContentTypeOK, Tasks, Missing
<1>7. Used' = Used
  BY <1>3 DEF Used
<1>8. NamesUsed'
  BY <1>1, <1>2, <1>3, <1>5, <1>7 DEF ContentInv, NamesUsed, Missing
<1>9. JournalFits'
  BY <1>3, <1>5 DEF ContentInv, JournalFits
<1>10. \A q \in Writers : TaskFits(q)'
  BY <1>2, <1>5 DEF TaskFits
<1>11. QED
  BY <1>3, <1>4, <1>6, <1>8, <1>9, <1>10 DEF ContentInv, Undamaged

\* Once something is damaged, only the names are said to be in order.
LEMMA DamageContentKeeps ==
  ASSUME ContentInv, DamageContent
  PROVE  ContentInv'
<1>1. /\ UNCHANGED <<contents, journal, retired, task, published, content_stops>>
      /\ manifest' \in {Damaged, manifest}
      /\ content_damage' \in Nat /\ content_damage' # 0
  BY DEF DamageContent, ContentInv, ContentTypeOK
<1>2. /\ file' \in [Archives -> {"none", "ok", "bad"}]
      /\ \A a \in Archives : file'[a] = "ok" => file[a] = "ok"
  BY DEF DamageContent, ContentInv, ContentTypeOK
<1>3. ContentTypeOK'
  BY <1>1, <1>2 DEF ContentInv, ContentTypeOK, Damaged
<1>4. Used' = Used
  BY <1>1 DEF Used
<1>5. NamesUsed'
  BY <1>1, <1>2, <1>4 DEF ContentInv, NamesUsed, Damaged
<1>6. JournalFits'
  BY <1>1 DEF ContentInv, JournalFits
<1>7. \A q \in Writers : TaskFits(q)'
  BY <1>1 DEF ContentInv, TaskFits
<1>8. QED
  BY <1>1, <1>3, <1>5, <1>6, <1>7 DEF ContentInv, Undamaged

\* A new archive changes nothing about those that there are.
LEMMA ArchiveWritten ==
  ASSUME OneWriter, ContentInv, NEW p \in Writers, task[p] = NoTask,
         NEW a \in Archives, contents[a] = {}, NEW documents, documents # {}, documents \subseteq Used \cup {a},
         file' = [file EXCEPT ![a] = "ok"], contents' = [contents EXCEPT ![a] = documents],
         UNCHANGED <<manifest, journal, retired, published, content_stops, content_damage>>,
         NEW t \in Tasks, Do(p, t), t.new = {a}, t.seen \subseteq Used, t.retire \subseteq Used,
         \/ t.pc = "journal" /\ Held(contents, t.retire) \subseteq documents /\ a \notin documents
         \/ t.pc = "compacted" /\ documents = {a},
         content_damage = 0 /\ t.pc = "journal" => t.seen = manifest.archives
  PROVE  ContentInv'
<1>1. task' \in [Writers -> Tasks] /\ \A q \in Writers : q = p /\ task'[q] = t
  BY TaskStep DEF ContentInv
<1>2. /\ contents \in [Archives -> SUBSET Archives] /\ file \in [Archives -> {"none", "ok", "bad"}]
      /\ documents \subseteq Archives
  BY DEF ContentInv, ContentTypeOK, Used
<1>3. /\ contents' \in [Archives -> SUBSET Archives] /\ file' \in [Archives -> {"none", "ok", "bad"}]
      /\ contents'[a] = documents /\ file'[a] = "ok"
      /\ \A b \in Archives : b # a => contents'[b] = contents[b] /\ file'[b] = file[b]
  BY <1>2
<1>4. a \notin Used /\ Used' = Used \cup {a}
  BY <1>3 DEF Used
<1>5. ASSUME NEW S \in SUBSET Used PROVE Held(contents', S) = Held(contents, S)
  <2>1. \A b \in S : contents'[b] = contents[b]
    BY <1>3, <1>4 DEF Used
  <2>2. QED
    <3>1. \A x : x \in Held(contents', S) <=> x \in Held(contents, S)
      BY <2>1 DEF Held
    <3>2. QED
      BY <3>1
<1>6. ContentTypeOK'
  BY <1>1, <1>3 DEF ContentInv, ContentTypeOK, Tasks
<1>7. NamesUsed'
  BY <1>1, <1>3, <1>4 DEF ContentInv, NamesUsed
<1>8. /\ journal.retire \subseteq Used /\ journal.new \subseteq Used /\ manifest.archives \subseteq Used
      /\ Origin \subseteq Used
  BY DEF ContentInv, NamesUsed
<1>9. journal.state = "pending" => content_stops # 0
  BY DEF ContentInv, JournalFits, OneWriter, NoTask, Task
<1>10. JournalFits'
  <2>1. journal.state = "pending" => Held(contents', journal.retire) \subseteq Held(contents', journal.new)
    <3>1. Held(contents', journal.retire) = Held(contents, journal.retire)
      BY <1>5, <1>8
    <3>2. Held(contents', journal.new) = Held(contents, journal.new)
      BY <1>5, <1>8
    <3>3. QED
      BY <3>1, <3>2 DEF ContentInv, JournalFits
  <2>2. QED
    BY <1>9, <2>1 DEF JournalFits
<1>11. TaskFits(p)'
  <2>1. CASE t.pc = "journal"
    <3>1. Held(contents', t.retire) = Held(contents, t.retire)
      BY <1>5
    <3>2. Held(contents', t.new) = documents
      <4>1. \A x : x \in Held(contents', t.new) <=> x \in documents
        BY <1>3, HeldMember
      <4>2. QED
        BY <4>1
    <3>3. Held(contents', t.retire) \subseteq Held(contents', t.new)
      BY <2>1, <3>1, <3>2
    <3>4. QED
      BY <1>1, <2>1, <3>3 DEF TaskFits
  <2>2. CASE t.pc = "compacted"
    <3>1. a \in Archives \ Origin /\ contents'[a] = {a}
      BY <1>3, <1>4, <1>8, <2>2
    <3>2. QED
      BY <1>1, <2>2, <3>1 DEF TaskFits
  <2>3. QED
    BY <2>1, <2>2
<1>12. ASSUME content_damage = 0 PROVE ManifestSound' /\ PublishedSound' /\ CompactedSound'
  <2>1. ManifestSound /\ PublishedSound /\ CompactedSound
    BY <1>12 DEF ContentInv, Undamaged
  <2>2. ManifestSound'
    <3>1. \A b \in manifest.archives : file'[b] = "ok"
      BY <1>3, <1>4, <1>8, <2>1 DEF ManifestSound, Used
    <3>2. TaskSound(p)'
      BY <1>1, <1>3, <1>12 DEF TaskSound
    <3>3. QED
      BY <1>1, <2>1, <3>1, <3>2 DEF ManifestSound
  <2>3. PublishedSound'
    <3>1. Maintained => Maintained'
      BY <1>3 DEF Maintained
    <3>2. Held(contents', manifest.archives) = Held(contents, manifest.archives)
      BY <1>5, <1>8
    <3>3. Promoted' = Promoted
      BY DEF Promoted
    <3>4. QED
      BY <2>1, <3>1, <3>2, <3>3 DEF PublishedSound
  <2>4. CompactedSound'
    <3> SUFFICES ASSUME content_stops = 0, NEW b \in Archives, contents'[b] = {b}
                 PROVE  b \in published \/ (t.pc \in {"compacted", "maintain"} /\ t.new = {b})
      BY <1>1 DEF CompactedSound
    <3>1. CASE b = a
      BY <1>3, <3>1
    <3>2. CASE b # a
      BY <1>1, <1>3, <2>1, <3>2 DEF CompactedSound, NoTask, Task
    <3>3. QED
      BY <3>1, <3>2
  <2>5. QED
    BY <2>2, <2>3, <2>4
<1>13. QED
  BY <1>1, <1>6, <1>7, <1>10, <1>11, <1>12 DEF ContentInv, Undamaged

\* A promotion has compacted archives of the manifest into a new one.
LEMMA StartPromotionKeeps ==
  ASSUME OneWriter, ContentInv, NEW p \in Writers, NEW a \in Archives, NEW retire \in SUBSET Archives,
         StartPromotion(p, a, retire)
  PROVE  ContentInv'
<1> DEFINE documents == Held(contents, retire)
           t == Task("journal", manifest.archives, {a}, retire)
<1>1. /\ task[p] = NoTask /\ contents[a] = {} /\ retire \subseteq manifest.archives /\ retire # {}
      /\ file' = [file EXCEPT ![a] = "ok"] /\ contents' = [contents EXCEPT ![a] = documents]
      /\ UNCHANGED <<manifest, journal, retired, published, content_stops, content_damage>> /\ Do(p, t)
  BY DEF StartPromotion, Documents, Held
<1>2. /\ manifest.archives \subseteq Used /\ a \notin Used
      /\ \A b \in Used : contents[b] # {} /\ contents[b] \subseteq Used
  BY <1>1 DEF ContentInv, NamesUsed, Used
<1>3. /\ t \in Tasks /\ t.pc = "journal" /\ t.seen = manifest.archives /\ t.new = {a} /\ t.retire = retire
  BY DEF Task, Tasks, Steps, ContentInv, ContentTypeOK
<1>4. documents # {} /\ documents \subseteq Used
  <2>1. \A x : x \in documents <=> \E b \in retire : x \in contents[b]
    BY HeldMember
  <2> HIDE DEF documents
  <2>2. QED
    BY <1>1, <1>2, <2>1
<1> HIDE DEF documents, t
<1>5. documents \subseteq Used \cup {a} /\ a \notin documents /\ Held(contents, t.retire) \subseteq documents
  BY <1>2, <1>3, <1>4 DEF documents
<1>6. QED
  BY <1>1, <1>2, <1>3, <1>4, <1>5, ArchiveWritten

\* Segments are compacted into an archive of documents of its own.
LEMMA CompactSegmentsKeeps ==
  ASSUME OneWriter, ContentInv, NEW p \in Writers, NEW a \in Archives, CompactSegments(p, a)
  PROVE  ContentInv'
<1> DEFINE t == Task("compacted", {}, {a}, {})
<1>1. t \in Tasks /\ t.pc = "compacted" /\ t.seen = {} /\ t.new = {a} /\ t.retire = {}
  BY DEF Task, Tasks, Steps
<1>2. /\ task[p] = NoTask /\ contents[a] = {}
      /\ file' = [file EXCEPT ![a] = "ok"] /\ contents' = [contents EXCEPT ![a] = {a}]
      /\ UNCHANGED <<manifest, journal, retired, published, content_stops, content_damage>> /\ Do(p, t)
  BY DEF CompactSegments
<1> HIDE DEF t
<1>3. {a} # {} /\ {a} \subseteq Used \cup {a}
  OBVIOUS
<1>4. QED
  BY <1>1, <1>2, <1>3, ArchiveWritten

\* Every step keeps the invariant.
LEMMA NextContentInv ==
  ASSUME OneWriter
  PROVE  ContentInv /\ [ContentNext]_contentVars => ContentInv'
<1> SUFFICES ASSUME ContentInv, [ContentNext]_contentVars PROVE ContentInv'
  OBVIOUS
<1>1. CASE UNCHANGED contentVars
  <2>1. UNCHANGED <<file, contents, manifest, journal, retired, task, published, content_stops, content_damage>>
    BY <1>1 DEF contentVars
  <2>2. Used' = Used /\ Maintained' = Maintained /\ Promoted' = Promoted
    BY <2>1 DEF Used, Maintained, Promoted
  <2>3. ContentTypeOK' /\ NamesUsed' /\ JournalFits' /\ (\A p \in Writers : TaskFits(p)')
    BY <2>1, <2>2 DEF ContentInv, ContentTypeOK, NamesUsed, JournalFits, TaskFits
  <2>4. Undamaged'
    BY <2>1, <2>2 DEF ContentInv, Undamaged, ManifestSound, TaskSound, PublishedSound, CompactedSound
  <2>5. QED
    BY <2>3, <2>4 DEF ContentInv
<1>2. CASE ContentNext
  <2>1. CASE DamageContent
    BY <2>1, DamageContentKeeps
  <2>2. ASSUME NEW p \in Writers,
               \/ \E a \in Archives, retire \in SUBSET Archives : StartPromotion(p, a, retire)
               \/ \E a \in Archives : CompactSegments(p, a)
               \/ StartCleanup(p) \/ RecoverContent(p) \/ StopTask(p)
        PROVE  ContentInv'
    BY <2>2, StartPromotionKeeps, CompactSegmentsKeeps, StartCleanupKeeps, StartPromotionRecoveryKeeps,
       StartManifestRecoveryKeeps, StopTaskKeeps DEF RecoverContent
  <2>3. ASSUME NEW p \in Writers, AdvanceTask(p) PROVE ContentInv'
    BY <2>3, WriteJournalKeeps, PromoteKeeps, JournalGone, ReadForMaintenanceKeeps, PublishMaintenanceKeeps,
       CompletePromotionKeeps, RewriteManifestKeeps, RemoveArchiveKeeps
       DEF AdvanceTask, PromotionStep, MaintenanceStep, RecoveryStep
  <2>4. QED
    BY <1>2, <2>1, <2>2, <2>3, Zenon DEF ContentNext
<1>3. QED
  BY <1>1, <1>2

\* The invariant holds in every state, as long as the processes take turns.
LEMMA ContentInvHolds ==
  ASSUME OneWriter
  PROVE  ContentSpec => []ContentInv
<1>1. ContentInv /\ [ContentNext]_contentVars => ContentInv'
  BY NextContentInv
<1>2. QED
  BY <1>1, InitContentInv, PTL DEF ContentSpec

\* The manifest, the journal and the tasks stay well formed.
THEOREM ContentTypes == OneWriter => (ContentSpec => []ContentTypeOK)
<1> SUFFICES ASSUME OneWriter PROVE ContentSpec => []ContentTypeOK
  OBVIOUS
<1>1. ContentInv => ContentTypeOK
  BY DEF ContentInv
<1>2. QED
  BY <1>1, ContentInvHolds, PTL

\* One process at a time never loses content: whatever a manifest offered once is offered
\* by the one that is there, wherever promotions, cleanups and recoveries were
\* interrupted, and no compacted archive is left behind (promote_content_archive_manifest,
\* cleanup_inactive_archives, recover_content_manifest_promotion, maintain_segments).
THEOREM PublishedContentIsServed == OneWriter => (ContentSpec => []ContentServed)
<1> SUFFICES ASSUME OneWriter PROVE ContentSpec => []ContentServed
  OBVIOUS
<1>1. ContentInv => ContentServed
  <2> SUFFICES ASSUME ContentInv PROVE ContentServed
    OBVIOUS
  <2>1. FoundIsFound
    <3> SUFFICES ASSUME content_damage = 0, content_stops = 0 \/ ~Maintained PROVE published \subseteq Offered
      BY DEF FoundIsFound
    <3>1. published \subseteq Held(contents, manifest.archives) /\ \A a \in manifest.archives : file[a] = "ok"
      BY DEF ContentInv, Undamaged, PublishedSound, ManifestSound
    <3>2. {a \in manifest.archives : Readable(a)} = manifest.archives
      BY <3>1 DEF Readable
    <3>3. Offered = Held(contents, manifest.archives)
      BY <3>2 DEF Offered, Documents, Held
    <3>4. QED
      BY <3>1, <3>3
  <2>2. NotStranded
    BY DEF ContentInv, Undamaged, CompactedSound, NotStranded, NoTask, Task
  <2>3. QED
    BY <2>1, <2>2 DEF ContentServed
<1>2. QED
  BY <1>1, ContentInvHolds, PTL

-----------------------------------------------------------------------------
(* The payload catalog and the progress store *)

Taking == {"catalog_read", "catalog_write"}
Late == {"upsert_read", "upsert_write", "planned", "work", "command", "done"}
Aimed == {"Pause", "Resume", "Stop"}

\* A row of the store has the payload of its job, is terminal only when the job has
\* ended, and stays.
FilesFit ==
  /\ DOMAIN catalog \subseteq 1..jobs
  /\ DOMAIN store \subseteq DOMAIN catalog
  /\ \A i \in DOMAIN store : /\ catalog[i] = store[i].job
                             /\ Terminal(store[i].state) => store[i].job \in ended
  /\ \A j \in begun : \E i \in DOMAIN store : store[i].job = j

\* A process takes an id above all others before it writes any.
TakesNewId(p) ==
  /\ proc[p].pc # "idle" => proc[p].job = jobs /\ jobs > 0
  /\ proc[p].pc \in {"floor"} \cup Taking => proc[p].then = "idle" /\ DOMAIN catalog \subseteq 1..(jobs - 1)
  /\ proc[p].pc = "floor" => proc[p].id \in 0..(jobs - 1) /\ \A i \in DOMAIN catalog : i <= proc[p].id
  /\ proc[p].pc \in Taking => proc[p].id \in 1..jobs /\ \A i \in DOMAIN catalog : i < proc[p].id
  /\ proc[p].pc = "catalog_write" => proc[p].buf = catalog

\* From then on the id is its own: its row stays restorable until the process itself
\* reports the end, which it does once and last.
OwnsId(p) ==
  /\ proc[p].pc \in Late => proc[p].id \in DOMAIN catalog /\ catalog[proc[p].id] = proc[p].job
  /\ proc[p].pc \in Late \ {"done"} /\ proc[p].id \in DOMAIN store => restorable(store[proc[p].id].state)
  /\ proc[p].pc \in {"upsert_read", "upsert_write"} =>
       /\ proc[p].want \in Snapshots /\ proc[p].want.job = proc[p].job
       /\ proc[p].then \in {"planned", "work", "done"}
       /\ Terminal(proc[p].want.state) => proc[p].then = "done" /\ proc[p].job \in ended
  /\ proc[p].pc \in {"upsert_write", "command"} => proc[p].buf = store

\* A command is aimed at a job other than itself.
AimsAtOthers(p) ==
  proc[p].work.kind \in Aimed =>
    proc[p].work.id \in DOMAIN store /\ (proc[p].pc \in Taking \cup Late => proc[p].work.id # proc[p].id)

ProgressInv ==
  /\ ProgressTypeOK /\ FilesFit
  /\ \A p \in Procs : TakesNewId(p) /\ OwnsId(p) /\ AimsAtOthers(p)

\* Before the first job there is nothing.
LEMMA InitProgressInv == ProgressInit => ProgressInv
<1> SUFFICES ASSUME ProgressInit PROVE ProgressInv
  OBVIOUS
<1>1. ProgressTypeOK
  BY ProgressAssumption DEF ProgressInit, ProgressTypeOK, Nothing, NoJob, NoWork, Labels, Works
<1>2. FilesFit
  BY DEF ProgressInit, FilesFit, Nothing
<1>3. ASSUME NEW p \in Procs PROVE TakesNewId(p) /\ OwnsId(p) /\ AimsAtOthers(p)
  BY DEF ProgressInit, NoJob, NoWork, TakesNewId, OwnsId, AimsAtOthers, Taking, Late, Aimed
<1>4. QED
  BY <1>1, <1>2, <1>3 DEF ProgressInv

\* A nonempty set of naturals has a least element.
LEMMA LeastNatural ==
  ASSUME NEW S \in SUBSET Nat, S # {}
  PROVE  \E n \in S : \A m \in S : n <= m
<1> DEFINE R == {ss \in Nat \X Nat : ss[1] < ss[2]}
<1>1. IsWellFoundedOn(R, Nat)
  BY NatLessThanWellFounded, Zenon DEF OpToRel
<1>2. \E n \in S : \A m \in S : ~(<<m, n>> \in R)
  <2> HIDE DEF R
  <2> QED
    BY <1>1, WFMin
<1>3. PICK n \in S : \A m \in S : ~(<<m, n>> \in R)
  BY <1>2
<1>4. ASSUME NEW m \in S PROVE n <= m
  <2>1. m \in Nat /\ n \in Nat
    OBVIOUS
  <2>2. m < n => <<m, n>> \in R
    BY <2>1
  <2>3. QED
    BY <1>3, <2>1, <2>2
<1>5. QED
  BY <1>4

\* A nonempty set of ids has a largest element, so Above is an upper bound within the ids.
LEMMA AboveBounds ==
  ASSUME NEW f, NEW n \in Nat, DOMAIN f \subseteq 1..n
  PROVE  Above(f) \in 0..n /\ \A i \in DOMAIN f : i <= Above(f)
<1>1. CASE DOMAIN f = {}
  BY <1>1 DEF Above
<1>2. CASE DOMAIN f # {}
  <2> DEFINE S == {n - i : i \in DOMAIN f}
  <2>1. S \in SUBSET Nat /\ S # {}
    BY <1>2
  <2>2. PICK m \in S : \A k \in S : m <= k
    BY <2>1, LeastNatural
  <2>3. PICK x \in DOMAIN f : m = n - x
    BY <2>2
  <2>4. ASSUME NEW y \in DOMAIN f PROVE x >= y
    <3>1. n - y \in S /\ x \in 1..n /\ y \in 1..n
      OBVIOUS
    <3>2. n - x <= n - y
      BY <2>2, <2>3, <3>1
    <3>3. QED
      BY <3>1, <3>2
  <2>5. Max(DOMAIN f) \in DOMAIN f /\ \A y \in DOMAIN f : Max(DOMAIN f) >= y
    BY <2>3, <2>4, Zenon DEF Max
  <2>6. QED
    BY <1>2, <2>5 DEF Above
<1>3. QED
  BY <1>1, <1>2

\* What a step writes into the record of its process.
LEMMA ProcStep ==
  ASSUME ProgressTypeOK, NEW p \in Procs, NEW local, DOMAIN local = DOMAIN NoJob,
         local.pc \in Labels, local.id \in 0..MaxJobs, local.work \in Works,
         proc' = [proc EXCEPT ![p] = local]
  PROVE  /\ DOMAIN proc' = Procs /\ proc'[p] = local
         /\ \A q \in Procs : /\ DOMAIN proc'[q] = DOMAIN NoJob
                             /\ proc'[q].pc \in Labels /\ proc'[q].id \in 0..MaxJobs /\ proc'[q].work \in Works
<1>1. DOMAIN proc = Procs
  BY DEF ProgressTypeOK
<1>2. DOMAIN proc' = Procs /\ proc'[p] = local /\ \A q \in Procs : q # p => proc'[q] = proc[q]
  BY <1>1
<1>3. ASSUME NEW q \in Procs
      PROVE  DOMAIN proc'[q] = DOMAIN NoJob /\ proc'[q].pc \in Labels /\ proc'[q].id \in 0..MaxJobs /\ proc'[q].work \in Works
  BY <1>2 DEF ProgressTypeOK
<1>4. QED
  BY <1>2, <1>3

\* With one process, what its step keeps is kept.
LEMMA OneIsAll ==
  ASSUME OneProcess, NEW p \in Procs, ProgressTypeOK', FilesFit', TakesNewId(p)', OwnsId(p)', AimsAtOthers(p)'
  PROVE  ProgressInv'
BY DEF OneProcess, ProgressInv

\* A process that leaves, dies or gives up keeps the files as they are.
LEMMA LeaveKeeps ==
  ASSUME OneProcess, ProgressInv, NEW p \in Procs, proc' = [proc EXCEPT ![p] = NoJob],
         UNCHANGED <<catalog, store, begun, ended, jobs>>
  PROVE  ProgressInv'
<1>1. DOMAIN NoJob = DOMAIN NoJob /\ NoJob.pc \in Labels /\ NoJob.id \in 0..MaxJobs /\ NoJob.work \in Works
  BY ProgressAssumption DEF NoJob, Labels, NoWork, Works
<1>2. proc'[p] = NoJob /\ ProgressTypeOK'
  BY <1>1, ProcStep DEF ProgressInv, ProgressTypeOK
<1>3. FilesFit'
  BY DEF ProgressInv, FilesFit
<1>4. TakesNewId(p)' /\ OwnsId(p)' /\ AimsAtOthers(p)'
  BY <1>2 DEF NoJob, NoWork, TakesNewId, OwnsId, AimsAtOthers, Taking, Late, Aimed
<1>5. QED
  BY <1>2, <1>3, <1>4, OneIsAll

\* A process that is going to persist a snapshot of its own job: a terminal one is the
\* last, and its job has ended.
LEMMA PersistKeeps ==
  ASSUME OneProcess, ProgressInv, NEW p \in Procs, NEW snapshot \in Snapshots,
         NEW label \in {"planned", "work", "done"},
         proc[p].pc \in Late \ {"done"}, Persist(p, snapshot, label),
         snapshot.job = proc[p].job,
         ended \subseteq ended', ended' \subseteq Jobs,
         Terminal(snapshot.state) => label = "done" /\ proc[p].job \in ended',
         UNCHANGED <<catalog, store, begun, jobs>>
  PROVE  ProgressInv'
<1> DEFINE pc == IF proc[p].last = snapshot THEN label ELSE "upsert_read"
           local == [proc[p] EXCEPT !.want = snapshot, !.then = label, !.buf = Nothing, !.pc = pc]
<1>1. DOMAIN proc[p] = DOMAIN NoJob /\ proc[p].id \in 0..MaxJobs /\ proc[p].work \in Works
  BY DEF ProgressInv, ProgressTypeOK
<1>2. DOMAIN NoJob = {"pc", "job", "id", "work", "buf", "last", "want", "then"}
  BY DEF NoJob
<1>3. pc \in {label, "upsert_read"} /\ pc \in Labels /\ pc \in Late
  BY DEF Labels, Late
<1>4. /\ DOMAIN local = DOMAIN NoJob /\ local.pc = pc /\ local.want = snapshot /\ local.then = label
      /\ local.id = proc[p].id /\ local.job = proc[p].job /\ local.work = proc[p].work
  BY <1>1, <1>2
<1>5. proc' = [proc EXCEPT ![p] = local]
  BY DEF Persist
<1> HIDE DEF local, pc
<1>6. proc'[p] = local /\ ProgressTypeOK'
  BY <1>1, <1>3, <1>4, <1>5, ProcStep DEF ProgressInv, ProgressTypeOK
<1>7. FilesFit'
  BY DEF ProgressInv, FilesFit
<1>8. TakesNewId(p)' /\ AimsAtOthers(p)'
  BY <1>3, <1>4, <1>6 DEF ProgressInv, TakesNewId, AimsAtOthers, Taking, Late
<1>9. OwnsId(p)'
  BY <1>3, <1>4, <1>6 DEF ProgressInv, OwnsId, Late
<1>10. QED
  BY <1>6, <1>7, <1>8, <1>9, OneIsAll

\* A job starts above the ids of the catalog.
LEMMA LaunchKeeps ==
  ASSUME OneProcess, ProgressInv, NEW p \in Procs, NEW work \in Works, Launch(p, work)
  PROVE  ProgressInv'
<1> DEFINE local == [NoJob EXCEPT !.pc = "floor", !.job = jobs + 1, !.id = Above(catalog), !.work = work]
<1>1. jobs \in Nat /\ jobs < MaxJobs /\ MaxJobs \in Nat /\ jobs' = jobs + 1
  BY ProgressAssumption DEF ProgressInv, ProgressTypeOK, Launch
<1>2. DOMAIN catalog \subseteq 1..jobs
  BY DEF ProgressInv, FilesFit
<1>3. Above(catalog) \in 0..jobs /\ \A i \in DOMAIN catalog : i <= Above(catalog)
  BY <1>1, <1>2, AboveBounds
<1>4. /\ DOMAIN local = DOMAIN NoJob /\ local.pc = "floor" /\ local.job = jobs + 1
      /\ local.id = Above(catalog) /\ local.work = work /\ local.then = "idle"
  BY DEF NoJob
<1>5. proc' = [proc EXCEPT ![p] = local]
  BY DEF Launch
<1> HIDE DEF local
<1>6. Above(catalog) \in 0..MaxJobs /\ "floor" \in Labels /\ jobs' \in 0..MaxJobs
  BY <1>1, <1>3 DEF Labels
<1>7. proc'[p] = local /\ ProgressTypeOK'
  BY <1>4, <1>5, <1>6, ProcStep DEF ProgressInv, ProgressTypeOK, Launch
<1>8. UNCHANGED <<catalog, store, begun, ended>>
  BY DEF Launch
<1>9. FilesFit'
  BY <1>1, <1>8 DEF ProgressInv, FilesFit
<1>10. TakesNewId(p)'
  BY <1>1, <1>2, <1>3, <1>4, <1>7, <1>8 DEF TakesNewId, Taking
<1>11. OwnsId(p)'
  BY <1>4, <1>7 DEF OwnsId, Late
<1>12. AimsAtOthers(p)'
  <2>1. work.kind \in Aimed => work.id # 0
    BY DEF Works, Aimed, Ids
  <2>2. work.id \in DOMAIN store \cup {0}
    BY DEF Launch
  <2>3. QED
    BY <1>4, <1>7, <1>8, <2>1, <2>2 DEF AimsAtOthers, Taking, Late
<1>13. QED
  BY <1>7, <1>9, <1>10, <1>11, <1>12, OneIsAll

\* The id is above those of both files.
LEMMA TakeIdKeeps ==
  ASSUME OneProcess, ProgressInv, NEW p \in Procs, TakeId(p)
  PROVE  ProgressInv'
<1> DEFINE id == 1 + Max({proc[p].id, Above(store)})
           local == [proc[p] EXCEPT !.id = id, !.pc = "catalog_read"]
<1>1. DOMAIN proc[p] = DOMAIN NoJob /\ proc[p].work \in Works /\ jobs \in Nat /\ jobs <= MaxJobs
  BY DEF ProgressInv, ProgressTypeOK
<1>2. DOMAIN NoJob = {"pc", "job", "id", "work", "buf", "last", "want", "then"}
  BY DEF NoJob
<1>3. /\ proc[p].pc = "floor" /\ proc[p].job = jobs /\ jobs > 0 /\ proc[p].then = "idle"
      /\ DOMAIN catalog \subseteq 1..(jobs - 1) /\ DOMAIN store \subseteq DOMAIN catalog
      /\ proc[p].id \in 0..(jobs - 1) /\ \A i \in DOMAIN catalog : i <= proc[p].id
  BY DEF ProgressInv, TakeId, TakesNewId, FilesFit
<1>4. jobs - 1 \in Nat /\ DOMAIN store \subseteq 1..(jobs - 1)
  BY <1>1, <1>3
<1>5. Above(store) \in 0..(jobs - 1)
  BY <1>4, AboveBounds
<1>6. id \in 1..jobs /\ proc[p].id < id
  <2> DEFINE a == proc[p].id  b == Above(store)
  <2>1. a \in Nat /\ b \in Nat /\ a <= jobs - 1 /\ b <= jobs - 1
    BY <1>1, <1>3, <1>5
  <2> HIDE DEF a, b
  <2>2. \E x \in {a, b} : \A y \in {a, b} : x >= y
    BY <2>1
  <2>3. Max({a, b}) \in {a, b} /\ \A y \in {a, b} : Max({a, b}) >= y
    BY <2>2, Zenon DEF Max
  <2>4. QED
    BY <1>1, <2>1, <2>3 DEF a, b
<1>7. /\ DOMAIN local = DOMAIN NoJob /\ local.pc = "catalog_read" /\ local.job = proc[p].job
      /\ local.id = id /\ local.work = proc[p].work /\ local.then = proc[p].then
  BY <1>1, <1>2
<1>8. proc' = [proc EXCEPT ![p] = local]
  BY DEF TakeId
<1> HIDE DEF local, id
<1>9. id \in 0..MaxJobs /\ "catalog_read" \in Labels
  BY <1>1, <1>6, ProgressAssumption DEF Labels
<1>10. UNCHANGED <<catalog, store, begun, ended, jobs>>
  BY DEF TakeId
<1>11. proc'[p] = local /\ ProgressTypeOK'
  BY <1>1, <1>7, <1>8, <1>9, <1>10, ProcStep DEF ProgressInv, ProgressTypeOK
<1>12. FilesFit'
  BY <1>10 DEF ProgressInv, FilesFit
<1>13. \A i \in DOMAIN catalog : i < id
  BY <1>1, <1>3, <1>6
<1>14. TakesNewId(p)'
  BY <1>3, <1>6, <1>7, <1>10, <1>11, <1>13 DEF TakesNewId, Taking
<1>15. OwnsId(p)'
  BY <1>7, <1>11 DEF OwnsId, Late
<1>16. AimsAtOthers(p)'
  <2>1. ASSUME proc[p].work.kind \in Aimed PROVE proc[p].work.id \in DOMAIN store /\ proc[p].work.id # id
    BY <1>1, <1>3, <1>4, <1>6, <1>13, <2>1 DEF ProgressInv, AimsAtOthers
  <2>2. QED
    BY <1>7, <1>10, <1>11, <2>1 DEF AimsAtOthers
<1>17. QED
  BY <1>11, <1>12, <1>14, <1>15, <1>16, OneIsAll

\* What is read is what is there, as nobody else writes.
LEMMA CatalogReadKeeps ==
  ASSUME OneProcess, ProgressInv, NEW p \in Procs, CatalogRead(p)
  PROVE  ProgressInv'
<1> DEFINE local == [proc[p] EXCEPT !.buf = catalog, !.pc = "catalog_write"]
<1>1. DOMAIN proc[p] = DOMAIN NoJob /\ proc[p].work \in Works /\ proc[p].id \in 0..MaxJobs
  BY DEF ProgressInv, ProgressTypeOK
<1>2. DOMAIN NoJob = {"pc", "job", "id", "work", "buf", "last", "want", "then"}
  BY DEF NoJob
<1>3. /\ DOMAIN local = DOMAIN NoJob /\ local.pc = "catalog_write" /\ local.job = proc[p].job
      /\ local.id = proc[p].id /\ local.work = proc[p].work /\ local.then = proc[p].then /\ local.buf = catalog
  BY <1>1, <1>2
<1>4. proc' = [proc EXCEPT ![p] = local] /\ proc[p].pc = "catalog_read"
  BY DEF CatalogRead
<1> HIDE DEF local
<1>5. UNCHANGED <<catalog, store, begun, ended, jobs>>
  BY DEF CatalogRead
<1>6. proc'[p] = local /\ ProgressTypeOK'
  BY <1>1, <1>3, <1>4, <1>5, ProcStep DEF ProgressInv, ProgressTypeOK, Labels
<1>7. FilesFit'
  BY <1>5 DEF ProgressInv, FilesFit
<1>8. TakesNewId(p)' /\ OwnsId(p)' /\ AimsAtOthers(p)'
  BY <1>3, <1>4, <1>5, <1>6 DEF ProgressInv, TakesNewId, OwnsId, AimsAtOthers, Taking, Late
<1>9. QED
  BY <1>6, <1>7, <1>8, OneIsAll

\* The payload is in the catalog before the store has a row of the job.
LEMMA CatalogWriteKeeps ==
  ASSUME OneProcess, ProgressInv, NEW p \in Procs, CatalogWrite(p)
  PROVE  ProgressInv'
<1> DEFINE snapshot == Snapshot(proc[p].job, "Planned", 0, "job")
           pc == IF proc[p].last = snapshot THEN "planned" ELSE "upsert_read"
           local == [proc[p] EXCEPT !.want = snapshot, !.then = "planned", !.buf = Nothing, !.pc = pc]
<1>1. /\ DOMAIN proc[p] = DOMAIN NoJob /\ proc[p].work \in Works /\ proc[p].id \in 0..MaxJobs
      /\ jobs \in 0..MaxJobs
  BY DEF ProgressInv, ProgressTypeOK
<1>2. DOMAIN NoJob = {"pc", "job", "id", "work", "buf", "last", "want", "then"}
  BY DEF NoJob
<1>3. /\ proc[p].pc = "catalog_write" /\ proc[p].job = jobs /\ jobs > 0 /\ proc[p].buf = catalog
      /\ proc[p].id \in 1..jobs /\ \A i \in DOMAIN catalog : i < proc[p].id
      /\ DOMAIN catalog \subseteq 1..(jobs - 1) /\ DOMAIN store \subseteq DOMAIN catalog
  BY DEF ProgressInv, CatalogWrite, TakesNewId, FilesFit, Taking
<1>4. snapshot \in Snapshots /\ snapshot.job = proc[p].job /\ ~Terminal(snapshot.state)
  BY <1>1, <1>3, ProgressAssumption DEF Snapshot, Snapshots, States, Jobs, Terminal, restorable
<1>5. pc \in {"planned", "upsert_read"}
  OBVIOUS
<1>6. /\ DOMAIN local = DOMAIN NoJob /\ local.pc = pc /\ local.want = snapshot /\ local.then = "planned"
      /\ local.id = proc[p].id /\ local.job = proc[p].job /\ local.work = proc[p].work
  BY <1>1, <1>2
<1>7. proc' = [proc EXCEPT ![p] = local]
  BY DEF CatalogWrite, Persist
<1> HIDE DEF local, pc, snapshot
<1>8. UNCHANGED <<store, begun, ended, jobs>>
  BY DEF CatalogWrite
<1>9. /\ DOMAIN catalog' = DOMAIN catalog \cup {proc[p].id} /\ catalog'[proc[p].id] = proc[p].job
      /\ \A i \in DOMAIN catalog : catalog'[i] = catalog[i]
  BY <1>1, <1>3 DEF CatalogWrite, WithRow
<1>10. proc'[p] = local /\ ProgressTypeOK'
  <2>1. pc \in Labels
    BY <1>5 DEF Labels
  <2>2. DOMAIN catalog' \subseteq Ids /\ \A i \in DOMAIN catalog' : catalog'[i] \in Jobs
    BY <1>1, <1>3, <1>9 DEF ProgressInv, ProgressTypeOK, Ids, Jobs
  <2>3. QED
    BY <1>1, <1>6, <1>7, <1>8, <2>1, <2>2, ProcStep DEF ProgressInv, ProgressTypeOK
<1>11. proc[p].id \notin DOMAIN store
  BY <1>3
<1>12. FilesFit'
  BY <1>1, <1>3, <1>8, <1>9 DEF ProgressInv, FilesFit
<1>13. TakesNewId(p)' /\ AimsAtOthers(p)'
  BY <1>3, <1>5, <1>6, <1>8, <1>10 DEF ProgressInv, TakesNewId, AimsAtOthers, Taking, Late
<1>14. OwnsId(p)'
  BY <1>4, <1>5, <1>6, <1>8, <1>9, <1>10, <1>11 DEF OwnsId, Late
<1>15. QED
  BY <1>10, <1>12, <1>13, <1>14, OneIsAll

\* The store is read, to be changed and written.
LEMMA StoreReadKeeps ==
  ASSUME OneProcess, ProgressInv, NEW p \in Procs, UpsertRead(p) \/ CommandRead(p)
  PROVE  ProgressInv'
<1> DEFINE pc == IF proc[p].pc = "upsert_read" THEN "upsert_write" ELSE "command"
           local == [proc[p] EXCEPT !.buf = store, !.pc = pc]
<1>1. DOMAIN proc[p] = DOMAIN NoJob /\ proc[p].work \in Works /\ proc[p].id \in 0..MaxJobs
  BY DEF ProgressInv, ProgressTypeOK
<1>2. DOMAIN NoJob = {"pc", "job", "id", "work", "buf", "last", "want", "then"}
  BY DEF NoJob
<1>3. /\ DOMAIN local = DOMAIN NoJob /\ local.pc = pc /\ local.job = proc[p].job /\ local.want = proc[p].want
      /\ local.id = proc[p].id /\ local.work = proc[p].work /\ local.then = proc[p].then /\ local.buf = store
  BY <1>1, <1>2
<1>4. /\ proc' = [proc EXCEPT ![p] = local] /\ proc[p].pc \in {"upsert_read", "work"}
      /\ pc \in {"upsert_write", "command"} /\ (pc = "upsert_write" => proc[p].pc = "upsert_read")
  BY DEF UpsertRead, CommandRead
<1> HIDE DEF local, pc
<1>5. UNCHANGED <<catalog, store, begun, ended, jobs>>
  BY DEF UpsertRead, CommandRead
<1>6. proc'[p] = local /\ ProgressTypeOK'
  BY <1>1, <1>3, <1>4, <1>5, ProcStep DEF ProgressInv, ProgressTypeOK, Labels
<1>7. FilesFit'
  BY <1>5 DEF ProgressInv, FilesFit
<1>8. TakesNewId(p)' /\ AimsAtOthers(p)'
  BY <1>3, <1>4, <1>5, <1>6 DEF ProgressInv, TakesNewId, AimsAtOthers, Taking, Late
<1>9. OwnsId(p)'
  BY <1>3, <1>4, <1>5, <1>6 DEF ProgressInv, OwnsId, Late
<1>10. QED
  BY <1>6, <1>7, <1>8, <1>9, OneIsAll

\* A process replaces its own row, and no other.
LEMMA UpsertWrites ==
  ASSUME ProgressInv, NEW p \in Procs, UpsertWrite(p)
  PROVE  /\ proc[p].id \in DOMAIN catalog /\ catalog[proc[p].id] = proc[p].job
         /\ proc[p].want \in Snapshots /\ proc[p].want.job = proc[p].job
         /\ Terminal(proc[p].want.state) => proc[p].then = "done" /\ proc[p].job \in ended
         /\ proc[p].id \in DOMAIN store => restorable(store[proc[p].id].state)
         /\ DOMAIN store' = DOMAIN store \cup {proc[p].id} /\ store'[proc[p].id] = proc[p].want
         /\ \A i \in DOMAIN store : i # proc[p].id => store'[i] = store[i]
<1>1. /\ proc[p].id \in DOMAIN catalog /\ catalog[proc[p].id] = proc[p].job
      /\ proc[p].want \in Snapshots /\ proc[p].want.job = proc[p].job
      /\ Terminal(proc[p].want.state) => proc[p].then = "done" /\ proc[p].job \in ended
      /\ proc[p].id \in DOMAIN store => restorable(store[proc[p].id].state)
      /\ proc[p].buf = store
  BY DEF ProgressInv, UpsertWrite, OwnsId, Late
<1>2. store' = WithRow(store, proc[p].id, proc[p].want)
  BY <1>1 DEF UpsertWrite
<1>3. QED
  BY <1>1, <1>2 DEF WithRow

\* The row it writes is terminal only when it is the last one.
LEMMA UpsertWriteKeeps ==
  ASSUME OneProcess, ProgressInv, NEW p \in Procs, UpsertWrite(p)
  PROVE  ProgressInv'
<1> DEFINE local == [proc[p] EXCEPT !.last = proc[p].want, !.buf = Nothing, !.pc = proc[p].then]
<1>1. DOMAIN proc[p] = DOMAIN NoJob /\ proc[p].work \in Works /\ proc[p].id \in 0..MaxJobs
  BY DEF ProgressInv, ProgressTypeOK
<1>2. DOMAIN NoJob = {"pc", "job", "id", "work", "buf", "last", "want", "then"}
  BY DEF NoJob
<1>3. /\ DOMAIN local = DOMAIN NoJob /\ local.pc = proc[p].then /\ local.job = proc[p].job
      /\ local.id = proc[p].id /\ local.work = proc[p].work
  BY <1>1, <1>2
<1>4. /\ proc' = [proc EXCEPT ![p] = local] /\ proc[p].pc = "upsert_write"
      /\ UNCHANGED <<catalog, ended, jobs>> /\ begun' = begun \cup {proc[p].job}
  BY DEF UpsertWrite
<1> HIDE DEF local
<1>5. proc[p].then \in {"planned", "work", "done"}
  BY <1>4 DEF ProgressInv, OwnsId
<1>6. /\ proc[p].id \in DOMAIN catalog /\ catalog[proc[p].id] = proc[p].job
      /\ proc[p].want \in Snapshots /\ proc[p].want.job = proc[p].job
      /\ Terminal(proc[p].want.state) => proc[p].then = "done" /\ proc[p].job \in ended
      /\ DOMAIN store' = DOMAIN store \cup {proc[p].id} /\ store'[proc[p].id] = proc[p].want
      /\ \A i \in DOMAIN store : i # proc[p].id => store'[i] = store[i]
  BY UpsertWrites
<1>7. proc'[p] = local /\ ProgressTypeOK'
  <2>1. proc[p].then \in Labels
    BY <1>5 DEF Labels
  <2>2. DOMAIN store' \subseteq Ids /\ \A i \in DOMAIN store' : store'[i] \in Snapshots
    BY <1>6 DEF ProgressInv, ProgressTypeOK
  <2>3. proc[p].job \in Jobs
    BY <1>6 DEF ProgressInv, ProgressTypeOK
  <2>4. QED
    BY <1>1, <1>3, <1>4, <2>1, <2>2, <2>3, ProcStep DEF ProgressInv, ProgressTypeOK
<1>8. FilesFit'
  <2>1. /\ DOMAIN store \subseteq DOMAIN catalog
        /\ \A i \in DOMAIN store : catalog[i] = store[i].job /\ (Terminal(store[i].state) => store[i].job \in ended)
        /\ \A j \in begun : \E i \in DOMAIN store : store[i].job = j
    BY DEF ProgressInv, FilesFit
  <2>2. \A i \in DOMAIN store' : catalog[i] = store'[i].job /\ (Terminal(store'[i].state) => store'[i].job \in ended)
    BY <1>6, <2>1
  <2>3. ASSUME NEW j \in begun' PROVE \E i \in DOMAIN store' : store'[i].job = j
    <3>1. CASE j = proc[p].job
      BY <1>6, <3>1
    <3>2. CASE j \in begun /\ j # proc[p].job
      <4>1. PICK i \in DOMAIN store : store[i].job = j
        BY <2>1, <3>2
      <4>2. i # proc[p].id
        BY <1>6, <2>1, <3>2, <4>1
      <4>3. QED
        BY <1>6, <4>1, <4>2
    <3>3. QED
      BY <1>4, <3>1, <3>2
  <2>4. QED
    BY <1>4, <1>6, <2>1, <2>2, <2>3 DEF ProgressInv, FilesFit
<1>9. TakesNewId(p)'
  BY <1>3, <1>4, <1>5, <1>7 DEF ProgressInv, TakesNewId, Taking
<1>10. AimsAtOthers(p)'
  BY <1>3, <1>4, <1>5, <1>6, <1>7 DEF ProgressInv, AimsAtOthers, Taking, Late
<1>11. OwnsId(p)'
  BY <1>3, <1>4, <1>5, <1>6, <1>7 DEF OwnsId, Late, Terminal
<1>12. QED
  BY <1>7, <1>8, <1>9, <1>10, <1>11, OneIsAll

\* A command writes the store it has read, with the same jobs; what it makes terminal
\* has ended, and its own row is not.
LEMMA CommandKeeps ==
  ASSUME OneProcess, ProgressInv, NEW p \in Procs, NEW rows,
         proc[p].pc = "command", CommandDone(p), WriteStore(p, rows),
         DOMAIN rows = DOMAIN store,
         \A i \in DOMAIN store : /\ rows[i] \in Snapshots /\ rows[i].job = store[i].job
                                 /\ Terminal(rows[i].state) => rows[i].job \in ended',
         proc[p].id \in DOMAIN store => restorable(rows[proc[p].id].state),
         ended \subseteq ended', ended' \subseteq Jobs,
         UNCHANGED <<catalog, begun, jobs>>
  PROVE  ProgressInv'
<1> DEFINE local == [proc[p] EXCEPT !.work = NoWork, !.buf = Nothing, !.pc = "work"]
<1>1. DOMAIN proc[p] = DOMAIN NoJob /\ proc[p].id \in 0..MaxJobs
  BY DEF ProgressInv, ProgressTypeOK
<1>2. DOMAIN NoJob = {"pc", "job", "id", "work", "buf", "last", "want", "then"}
  BY DEF NoJob
<1>3. /\ DOMAIN local = DOMAIN NoJob /\ local.pc = "work" /\ local.job = proc[p].job
      /\ local.id = proc[p].id /\ local.work = NoWork
  BY <1>1, <1>2
<1>4. proc' = [proc EXCEPT ![p] = local]
  BY DEF CommandDone
<1> HIDE DEF local
<1>5. store' = rows
  BY DEF ProgressInv, OwnsId, WriteStore
<1>6. proc'[p] = local /\ ProgressTypeOK'
  <2>1. "work" \in Labels /\ NoWork \in Works
    BY DEF Labels, Works, NoWork
  <2>2. DOMAIN store' \subseteq Ids /\ \A i \in DOMAIN store' : store'[i] \in Snapshots
    BY <1>5 DEF ProgressInv, ProgressTypeOK
  <2>3. QED
    BY <1>1, <1>3, <1>4, <2>1, <2>2, ProcStep DEF ProgressInv, ProgressTypeOK
<1>7. FilesFit'
  BY <1>5 DEF ProgressInv, FilesFit
<1>8. TakesNewId(p)' /\ AimsAtOthers(p)'
  BY <1>3, <1>6 DEF ProgressInv, TakesNewId, AimsAtOthers, Taking, Aimed, NoWork
<1>9. OwnsId(p)'
  BY <1>3, <1>5, <1>6 DEF ProgressInv, OwnsId, Late
<1>10. QED
  BY <1>6, <1>7, <1>8, <1>9, OneIsAll

\* A command changes only rows of jobs that have not ended.
LEMMA AcceptedRows ==
  ASSUME ProgressInv, NEW w \in Works, w.kind \in Aimed, w.id \in DOMAIN store, Accepts(store[w.id], w.kind)
  PROVE  LET rows == [store EXCEPT ![w.id] = Commanded(@, w.kind)]
         IN  /\ restorable(store[w.id].state)
             /\ DOMAIN rows = DOMAIN store /\ rows[w.id] \in Snapshots /\ rows[w.id].job = store[w.id].job
             /\ Terminal(rows[w.id].state) => w.kind = "Stop"
             /\ \A i \in DOMAIN store : i # w.id => rows[i] = store[i]
<1> DEFINE s == store[w.id]
           c == Commanded(s, w.kind)
           rows == [store EXCEPT ![w.id] = c]
<1>1. s \in [job : Jobs, state : States, units : 0..MaxUnits, by : {"job", "user", "restart", "deferred"}]
  BY DEF ProgressInv, ProgressTypeOK, Snapshots
<1>2. restorable(s.state)
  BY DEF Accepts, restorable, Aimed
<1>3. c \in Snapshots /\ c.job = s.job /\ (Terminal(c.state) => w.kind = "Stop")
  BY <1>1 DEF Commanded, Aimed, Snapshots, States, Terminal, restorable
<1>4. DOMAIN rows = DOMAIN store /\ rows[w.id] = c /\ \A i \in DOMAIN store : i # w.id => rows[i] = store[i]
  OBVIOUS
<1>5. QED
  BY <1>2, <1>3, <1>4

\* A restore pauses what was running, and nothing more.
LEMMA RestoredRows ==
  ASSUME ProgressInv
  PROVE  /\ DOMAIN Restored(store) = DOMAIN store
         /\ \A i \in DOMAIN store : /\ Restored(store)[i] \in Snapshots
                                    /\ Restored(store)[i].job = store[i].job
                                    /\ Terminal(Restored(store)[i].state) <=> Terminal(store[i].state)
<1>1. ASSUME NEW i \in DOMAIN store
      PROVE  /\ Restored(store)[i] \in Snapshots
             /\ Restored(store)[i].job = store[i].job
             /\ Terminal(Restored(store)[i].state) <=> Terminal(store[i].state)
  <2>1. store[i] \in [job : Jobs, state : States, units : 0..MaxUnits, by : {"job", "user", "restart", "deferred"}]
    BY DEF ProgressInv, ProgressTypeOK, Snapshots
  <2>2. Restored(store)[i] = IF store[i].state \in {"Planned", "Running"}
                               THEN [store[i] EXCEPT !.state = "Paused", !.by = "restart"] ELSE store[i]
    BY DEF Restored
  <2>3. QED
    BY <2>1, <2>2 DEF Snapshots, States, Terminal, restorable
<1>2. QED
  BY <1>1 DEF Restored

\* Snapshots that the runtime makes of its job are snapshots.
LEMMA SnapshotType ==
  ASSUME NEW owner \in Jobs, NEW state \in States, NEW units \in 0..MaxUnits,
         NEW by \in {"job", "user", "restart", "deferred"}
  PROVE  /\ Snapshot(owner, state, units, by) \in Snapshots
         /\ Snapshot(owner, state, units, by).job = owner /\ Snapshot(owner, state, units, by).state = state
BY DEF Snapshot, Snapshots

\* The job of a process that has its id is one of the jobs.
LEMMA OwnJob ==
  ASSUME ProgressInv, NEW p \in Procs, proc[p].pc \in Late
  PROVE  proc[p].job \in Jobs
BY DEF ProgressInv, ProgressTypeOK, OwnsId

\* A job that ends says so last.
LEMMA EndKeeps ==
  ASSUME OneProcess, ProgressInv, NEW p \in Procs, NEW status \in {"Completed", "Cancelled", "Failed"},
         proc[p].pc \in Late \ {"done"}, EndJob(p, status), UNCHANGED <<catalog, store, begun, jobs>>
  PROVE  ProgressInv'
<1> DEFINE units == IF status = "Completed" THEN MaxUnits ELSE 0
<1>1. units \in 0..MaxUnits /\ status \in States
  BY ProgressAssumption DEF States
<1>2. proc[p].job \in Jobs
  BY OwnJob
<1>3. Snapshot(proc[p].job, status, units, "job") \in Snapshots
      /\ Snapshot(proc[p].job, status, units, "job").job = proc[p].job
  BY <1>1, <1>2, SnapshotType
<1>4. Persist(p, Snapshot(proc[p].job, status, units, "job"), "done") /\ ended' = ended \cup {proc[p].job}
  BY DEF EndJob
<1>5. ended' \subseteq Jobs
  BY <1>2, <1>4 DEF ProgressInv, ProgressTypeOK
<1> HIDE DEF units
<1>6. QED
  BY <1>3, <1>4, <1>5, PersistKeeps

\* A job that reports goes on.
LEMMA ReportKeeps ==
  ASSUME OneProcess, ProgressInv, NEW p \in Procs, Defer(p) \/ RunAttempt(p) \/ ReportProgress(p)
  PROVE  ProgressInv'
<1>1. proc[p].pc \in Late \ {"done"} /\ UNCHANGED <<catalog, store, begun, ended, jobs>>
  BY DEF Defer, RunAttempt, ReportProgress, Late
<1>2. proc[p].job \in Jobs /\ ended \subseteq Jobs /\ 0 \in 0..MaxUnits
  BY <1>1, OwnJob, ProgressAssumption DEF ProgressInv, ProgressTypeOK
<1>3. PICK state \in {"Paused", "Running"}, units \in 0..MaxUnits, by \in {"job", "deferred"},
           label \in {"work", "done"} :
        Persist(p, Snapshot(proc[p].job, state, units, by), label)
  BY <1>2 DEF Defer, RunAttempt, ReportProgress
<1>4. Snapshot(proc[p].job, state, units, by) \in Snapshots
      /\ Snapshot(proc[p].job, state, units, by).job = proc[p].job
      /\ Snapshot(proc[p].job, state, units, by).state = state
  BY <1>2, SnapshotType DEF States
<1>5. ~Terminal(state)
  BY DEF Terminal, restorable
<1>6. QED
  BY <1>1, <1>2, <1>3, <1>4, <1>5, PersistKeeps

\* A command is applied, or its job fails.
LEMMA ApplyCommandKeeps ==
  ASSUME OneProcess, ProgressInv, NEW p \in Procs, ApplyCommand(p)
  PROVE  ProgressInv'
<1> DEFINE w == proc[p].work
           rows == [store EXCEPT ![w.id] = Commanded(@, w.kind)]
<1>1. /\ proc[p].pc = "command" /\ w.kind \in Aimed /\ w \in Works /\ proc[p].buf = store
      /\ w.id \in DOMAIN store /\ w.id # proc[p].id
      /\ UNCHANGED <<catalog, begun, jobs>>
  BY DEF ProgressInv, ProgressTypeOK, ApplyCommand, OwnsId, AimsAtOthers, Aimed, Late
<1>2. CASE Accepts(store[w.id], w.kind)
  <2>1. /\ WriteStore(p, rows) /\ CommandDone(p)
        /\ ended' = IF w.kind = "Stop" THEN ended \cup {store[w.id].job} ELSE ended
    BY <1>1, <1>2 DEF ApplyCommand
  <2>2. /\ DOMAIN rows = DOMAIN store /\ rows[w.id] \in Snapshots /\ rows[w.id].job = store[w.id].job
        /\ Terminal(rows[w.id].state) => w.kind = "Stop"
        /\ \A i \in DOMAIN store : i # w.id => rows[i] = store[i]
    BY <1>1, <1>2, AcceptedRows
  <2> HIDE DEF rows
  <2>3. \A i \in DOMAIN store : store[i] \in Snapshots /\ (Terminal(store[i].state) => store[i].job \in ended)
    BY DEF ProgressInv, ProgressTypeOK, FilesFit
  <2>4. ended \subseteq ended' /\ ended' \subseteq Jobs
    BY <1>1, <2>1, <2>3 DEF ProgressInv, ProgressTypeOK, Snapshots
  <2>5. \A i \in DOMAIN store : /\ rows[i] \in Snapshots /\ rows[i].job = store[i].job
                                /\ Terminal(rows[i].state) => rows[i].job \in ended'
    BY <2>1, <2>2, <2>3, <2>4
  <2>6. proc[p].id \in DOMAIN store => restorable(rows[proc[p].id].state)
    BY <1>1, <2>2 DEF ProgressInv, OwnsId, Late
  <2>7. QED
    BY <1>1, <2>1, <2>2, <2>4, <2>5, <2>6, CommandKeeps
<1>3. CASE ~Accepts(store[w.id], w.kind)
  <2>1. EndJob(p, "Failed") /\ UNCHANGED store
    BY <1>1, <1>3 DEF ApplyCommand
  <2>2. QED
    BY <1>1, <2>1, EndKeeps DEF Late
<1>4. QED
  BY <1>2, <1>3

\* A restore is applied.
LEMMA RestoreKeeps ==
  ASSUME OneProcess, ProgressInv, NEW p \in Procs, RestoreInterrupted(p)
  PROVE  ProgressInv'
<1>1. /\ proc[p].pc = "command" /\ proc[p].buf = store /\ WriteStore(p, Restored(store)) /\ CommandDone(p)
      /\ UNCHANGED <<catalog, begun, ended, jobs>>
  BY DEF ProgressInv, OwnsId, RestoreInterrupted
<1>2. /\ DOMAIN Restored(store) = DOMAIN store
      /\ \A i \in DOMAIN store : /\ Restored(store)[i] \in Snapshots
                                 /\ Restored(store)[i].job = store[i].job
                                 /\ Terminal(Restored(store)[i].state) <=> Terminal(store[i].state)
  BY RestoredRows
<1>3. /\ ended \subseteq Jobs
      /\ \A i \in DOMAIN store : Terminal(store[i].state) => store[i].job \in ended
      /\ proc[p].id \in DOMAIN store => restorable(store[proc[p].id].state)
  BY <1>1 DEF ProgressInv, ProgressTypeOK, FilesFit, OwnsId, Late
<1>4. proc[p].id \in DOMAIN store => restorable(Restored(store)[proc[p].id].state)
  BY <1>2, <1>3 DEF Terminal
<1>5. QED
  BY <1>1, <1>2, <1>3, <1>4, CommandKeeps

\* A write that fails leaves the files, and the job fails or is given up.
LEMMA WriteFailsKeeps ==
  ASSUME OneProcess, ProgressInv, NEW p \in Procs, WriteFails(p)
  PROVE  ProgressInv'
<1>1. UNCHANGED <<catalog, store, begun, jobs>>
  BY DEF WriteFails
<1>2. CASE proc[p].pc = "command" \/ proc[p].then = "work"
  <2>1. EndJob(p, "Failed")
    BY <1>2 DEF WriteFails
  <2>2. proc[p].pc \in Late \ {"done"}
    BY <1>2 DEF WriteFails, Writing, ProgressInv, TakesNewId, Taking, Late
  <2>3. QED
    BY <1>1, <2>1, <2>2, EndKeeps
<1>3. CASE ~(proc[p].pc = "command" \/ proc[p].then = "work")
  BY <1>1, <1>3, LeaveKeeps DEF WriteFails
<1>4. QED
  BY <1>2, <1>3

\* Every step keeps the invariant.
LEMMA NextProgressInv ==
  ASSUME OneProcess
  PROVE  ProgressInv /\ [ProgressNext]_progressVars => ProgressInv'
<1> SUFFICES ASSUME ProgressInv, [ProgressNext]_progressVars PROVE ProgressInv'
  OBVIOUS
<1>1. CASE UNCHANGED progressVars
  BY <1>1 DEF progressVars, ProgressInv, ProgressTypeOK, FilesFit, TakesNewId, OwnsId, AimsAtOthers
<1>2. CASE ProgressNext
  <2>1. PICK p \in Procs : \/ \E work \in Works : Launch(p, work)
                           \/ JobStep(p) \/ WriteFails(p) \/ Crash(p)
    BY <1>2 DEF ProgressNext
  <2>2. CASE \E status \in {"Completed", "Cancelled", "Failed"} : Finish(p, status)
    BY <2>2, EndKeeps DEF Finish, Late
  <2>3. CASE Leave(p) \/ Crash(p)
    BY <2>3, LeaveKeeps DEF Leave, Crash
  <2>4. QED
    BY <2>1, <2>2, <2>3, LaunchKeeps, TakeIdKeeps, CatalogReadKeeps, CatalogWriteKeeps, StoreReadKeeps,
       UpsertWriteKeeps, ReportKeeps, ApplyCommandKeeps, RestoreKeeps, WriteFailsKeeps DEF JobStep
<1>3. QED
  BY <1>1, <1>2

\* The invariant holds in every state, as long as the processes take turns.
LEMMA ProgressInvHolds ==
  ASSUME OneProcess
  PROVE  ProgressSpec => []ProgressInv
<1>1. ProgressInv /\ [ProgressNext]_progressVars => ProgressInv'
  BY NextProgressInv
<1>2. QED
  BY <1>1, InitProgressInv, PTL DEF ProgressSpec

\* Ids and jobs stay within the bounds, and every row of the store is a snapshot.
THEOREM ProgressTypes == OneProcess => (ProgressSpec => []ProgressTypeOK)
<1> SUFFICES ASSUME OneProcess PROVE ProgressSpec => []ProgressTypeOK
  OBVIOUS
<1>1. ProgressInv => ProgressTypeOK
  BY DEF ProgressInv
<1>2. QED
  BY <1>1, ProgressInvHolds, PTL

\* Processes that take turns lose no work, wherever they die and whichever write fails:
\* a job that was planned and neither ended nor was stopped is in the store as
\* restorable, with its own payload in the catalog (progress.rs, runtime.rs).
THEOREM UnfinishedCanBeRestored == OneProcess => (ProgressSpec => []UnfinishedIsRestorable)
<1> SUFFICES ASSUME OneProcess PROVE ProgressSpec => []UnfinishedIsRestorable
  OBVIOUS
<1>1. ProgressInv => UnfinishedIsRestorable
  <2> SUFFICES ASSUME ProgressInv PROVE UnfinishedIsRestorable
    OBVIOUS
  <2>1. FilesFit
    BY DEF ProgressInv
  <2>2. ASSUME NEW j \in begun \ ended
        PROVE  \E i \in DOMAIN store : store[i].job = j /\ restorable(store[i].state)
    BY <2>1 DEF FilesFit, Terminal
  <2>3. RestorableHasPayload
    BY <2>1 DEF FilesFit, RestorableHasPayload
  <2>4. QED
    BY <2>2, <2>3 DEF UnfinishedIsRestorable
<1>2. QED
  BY <1>1, ProgressInvHolds, PTL

\* No step of processes that take turns brings back a job that has ended, been
\* cancelled or failed: neither a resume, a restore nor a late report of its own
\* (apply_progress_command, restore_interrupted_checked, persist_progress_checked).
THEOREM EndedJobsStayOut == OneProcess => (ProgressSpec => EndedStaysOut)
<1> SUFFICES ASSUME OneProcess PROVE ProgressSpec => EndedStaysOut
  OBVIOUS
<1> DEFINE StaysOut == \A i \in DOMAIN store :
             Terminal(store[i].state) => i \in DOMAIN store' /\ Terminal(store'[i].state)
<1>1. ProgressInv /\ [ProgressNext]_progressVars => [StaysOut]_progressVars
  <2> SUFFICES ASSUME ProgressInv, ProgressNext, NEW i \in DOMAIN store, Terminal(store[i].state)
               PROVE  i \in DOMAIN store' /\ Terminal(store'[i].state)
    OBVIOUS
  <2>1. CASE UNCHANGED store
    BY <2>1
  <2>2. CASE \E p \in Procs : UpsertWrite(p)
    BY <2>2, UpsertWrites DEF Terminal
  <2>3. ASSUME NEW p \in Procs, ApplyCommand(p), store' # store
        PROVE  i \in DOMAIN store' /\ Terminal(store'[i].state)
    <3> DEFINE w == proc[p].work
               rows == [store EXCEPT ![w.id] = Commanded(@, w.kind)]
    <3>1. w.kind \in Aimed /\ w \in Works /\ proc[p].buf = store /\ w.id \in DOMAIN store
      BY <2>3 DEF ProgressInv, ProgressTypeOK, ApplyCommand, OwnsId, AimsAtOthers, Aimed
    <3>2. Accepts(store[w.id], w.kind) /\ store' = rows
      BY <2>3, <3>1 DEF ApplyCommand, WriteStore
    <3>3. /\ restorable(store[w.id].state) /\ DOMAIN rows = DOMAIN store
          /\ \A x \in DOMAIN store : x # w.id => rows[x] = store[x]
      BY <3>1, <3>2, AcceptedRows
    <3> HIDE DEF rows
    <3>4. QED
      BY <3>2, <3>3 DEF Terminal
  <2>4. ASSUME NEW p \in Procs, RestoreInterrupted(p), store' # store
        PROVE  i \in DOMAIN store' /\ Terminal(store'[i].state)
    <3>1. proc[p].buf = store
      BY <2>4 DEF ProgressInv, OwnsId, RestoreInterrupted
    <3>2. store' = Restored(store)
      BY <2>4, <3>1 DEF RestoreInterrupted, WriteStore
    <3>3. QED
      BY <3>2, RestoredRows
  <2>5. UNCHANGED store \/ \E p \in Procs : UpsertWrite(p) \/ ApplyCommand(p) \/ RestoreInterrupted(p)
    BY DEF ProgressNext, JobStep, Launch, TakeId, CatalogRead, CatalogWrite, UpsertRead, Defer, RunAttempt,
           ReportProgress, Finish, Leave, CommandRead, WriteFails, Crash
  <2>6. QED
    BY <2>1, <2>2, <2>3, <2>4, <2>5
<1>2. QED
  BY <1>1, ProgressInvHolds, PTL DEF ProgressSpec, EndedStaysOut
=============================================================================
