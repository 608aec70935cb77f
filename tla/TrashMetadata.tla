---------------------------- MODULE TrashMetadata ----------------------------
(***************************************************************************)
(* The Trash and the file that remembers where its items came from:        *)
(* crates/ops trashmeta.rs, removal.rs and restore_path of relocate.rs,    *)
(* with restore_destination_from_metadata of crates/app.                   *)
(*                                                                         *)
(* Several processes may run operations on one metadata file, which each   *)
(* of them reads, changes and replaces by the rename of a temporary file.  *)
(* A process can stop, fail or be cancelled between any two steps; recovery *)
(* replays what it left, in a context that has no metadata path.           *)
(***************************************************************************)
EXTENDS Naturals, FiniteSets, Functions

CONSTANTS
  Procs,       \* processes that run an operation
  Items,       \* files, each with a home: the path it was created at
  NameOf,      \* base name of each home
  SpareNames,  \* names the system gives an item whose name is taken in the Trash
  Deletable,   \* sorts of paths the user deletes for good: "home", "trash"
  MaxOps,      \* bound on the operations
  MaxCrashes   \* bound on the crashes

ASSUME TrashAssumption == NameOf \in [Items -> STRING] /\ MaxOps \in Nat /\ MaxCrashes \in Nat

\* No lock is taken on the metadata file, and it is keyed by base name: what holds for
\* one process at a time, and for items that do not share a name, is stated under
\* these conditions.
OneOperator == \A p, q \in Procs : p = q
NamesDiffer == \A i, j \in Items : NameOf[i] = NameOf[j] => i = j

NamesInTrash == {NameOf[i] : i \in Items} \cup SpareNames

Nowhere == <<"nowhere">>
Home(i) == <<"home", i>>
InTrash(n) == <<"trash", n>>
HomePaths == {Home(i) : i \in Items}
TrashPaths == {InTrash(n) : n \in NamesInTrash}
UserPaths == HomePaths \cup TrashPaths

BaseName(path) == IF path[1] = "home" THEN NameOf[path[2]] ELSE path[2]

VARIABLES
  place,       \* the path of each item
  meta,        \* the metadata file: the home to restore each name to
  temp,        \* the temporary metadata file of each process, if it has one
  proc,        \* the operation of each process
  unfinished,  \* operations journaled as started that no process runs any more
  replayed,    \* items that a replay moved to the Trash
  ops, crashes

trashVars == <<place, meta, temp, proc, unfinished, replayed, ops, crashes>>

NoFile == {}
Entries == UNION {[D -> Items] : D \in SUBSET NamesInTrash}
Nothing == [n \in {} |-> n]

Idle == [kind |-> "none", pc |-> "idle", path |-> Nowhere, dest |-> Nowhere, todo |-> {},
         buf |-> Nothing, recorded |-> TRUE, reconciling |-> FALSE]

Occupied(path) == \E i \in Items : place[i] = path
TrashNames == {n \in NamesInTrash : Occupied(InTrash(n))}

TrashInit ==
  /\ place = [i \in Items |-> Home(i)]
  /\ meta = Nothing
  /\ temp = [p \in Procs |-> NoFile]
  /\ proc = [p \in Procs |-> Idle]
  /\ unfinished = {}
  /\ replayed = {}
  /\ ops = 0
  /\ crashes = 0

-----------------------------------------------------------------------------
(* Operations begin *)

BeginAs(p, op) ==
  /\ proc[p] = Idle
  /\ proc' = [proc EXCEPT ![p] = op]

\* Where apply enters the operation: a trash writes its metadata before the item
\* goes, the others change the tree first.
FirstStep(kind, recorded) ==
  CASE kind = "trash" /\ recorded -> "read"
    [] kind = "empty" -> "next"
    [] OTHER -> "change"

Operation(kind, path, dest, recorded) ==
  [kind |-> kind, pc |-> FirstStep(kind, recorded), path |-> path, dest |-> dest,
   todo |-> IF kind = "empty" THEN TrashNames ELSE {}, buf |-> Nothing,
   recorded |-> recorded, reconciling |-> FALSE]

\* The operations a user can ask for; a restore takes its destination from the
\* metadata, and is refused without.
Requests ==
  {<<"trash", path, Nowhere>> : path \in {q \in HomePaths : Occupied(q)}}
    \cup {<<"delete", path, Nowhere>> : path \in {q \in UserPaths : Occupied(q) /\ q[1] \in Deletable}}
    \cup {<<"restore", InTrash(n), Home(meta[n])>> : n \in TrashNames \cap DOMAIN meta}
    \cup {<<"empty", Nowhere, Nowhere>>}

Start(p, r) ==
  /\ ops < MaxOps
  /\ ops' = ops + 1
  /\ BeginAs(p, Operation(r[1], r[2], r[3], TRUE))
  /\ UNCHANGED <<place, meta, temp, unfinished, replayed, crashes>>

\* recover_operations_from_journal: OperationContext::new has no metadata path.
Replay(p, r) ==
  /\ unfinished' = unfinished \ {r}
  /\ BeginAs(p, Operation(r[1], r[2], r[3], FALSE))
  /\ UNCHANGED <<place, meta, temp, replayed, ops, crashes>>

-----------------------------------------------------------------------------
(* Steps of an operation *)

StepTo(p, label) == proc' = [proc EXCEPT ![p].pc = label]

\* The journal entry of the outcome; an error leaves no temporary file.
Fail(p) ==
  /\ proc' = [proc EXCEPT ![p] = Idle]
  /\ temp' = [temp EXCEPT ![p] = NoFile]

\* After a change of the tree: the entry of the path that is gone.
AfterChange(p) == StepTo(p, IF proc[p].recorded THEN "read" ELSE "completed")

MoveItem(from, to) == place' = [i \in Items |-> IF place[i] = from THEN to ELSE place[i]]

\* trash::delete. The system, not GFM, picks the name in the Trash.
TrashDelete(p) ==
  /\ proc[p].pc = "change" /\ proc[p].kind = "trash" /\ Occupied(proc[p].path)
  /\ LET name == BaseName(proc[p].path)
         free == IF name \in TrashNames THEN SpareNames \ TrashNames ELSE {name}
     IN \E n \in free : MoveItem(proc[p].path, InTrash(n))
  /\ replayed' = IF proc[p].recorded THEN replayed
                 ELSE replayed \cup {i \in Items : place[i] = proc[p].path}
  /\ StepTo(p, "completed")
  /\ UNCHANGED <<meta, temp, unfinished, ops, crashes>>

\* delete_path, of any path.
DeletePath(p) ==
  /\ proc[p].pc = "change" /\ proc[p].kind = "delete" /\ Occupied(proc[p].path)
  /\ MoveItem(proc[p].path, Nowhere)
  /\ AfterChange(p)
  /\ UNCHANGED <<meta, temp, unfinished, replayed, ops, crashes>>

\* restore_path: the move (under the fail policy), then its entry.
RestorePath(p) ==
  /\ proc[p].pc = "change" /\ proc[p].kind = "restore" /\ Occupied(proc[p].path)
  /\ ~Occupied(proc[p].dest)
  /\ MoveItem(proc[p].path, proc[p].dest)
  /\ replayed' = replayed \ {i \in Items : place[i] = proc[p].path}
  /\ AfterChange(p)
  /\ UNCHANGED <<meta, temp, unfinished, ops, crashes>>

\* empty_trash_path: delete_trash_child of each listed child, then the
\* reconciliation, which is left out without a metadata path.
DeleteTrashChild(p) ==
  /\ proc[p].pc = "next"
  /\ \E n \in proc[p].todo :
       /\ Occupied(InTrash(n))
       /\ MoveItem(InTrash(n), Nowhere)
       /\ proc' = [proc EXCEPT ![p].todo = @ \ {n}, ![p].path = InTrash(n),
                               ![p].pc = IF @ = "next" /\ proc[p].recorded THEN "read" ELSE "next"]
  /\ UNCHANGED <<meta, temp, unfinished, replayed, ops, crashes>>

\* Mutant: only children this run deleted are looked at.
ReconcileOwnOnly(p) ==
  /\ proc[p].pc = "next" /\ proc[p].todo = {}
  /\ StepTo(p, "completed")
  /\ UNCHANGED <<place, meta, temp, unfinished, replayed, ops, crashes>>

Reconcile(p) ==
  /\ proc[p].pc = "next" /\ proc[p].todo = {}
  /\ proc' = [proc EXCEPT ![p].reconciling = TRUE,
                          ![p].pc = IF proc[p].recorded THEN "read" ELSE "completed"]
  /\ UNCHANGED <<place, meta, temp, unfinished, replayed, ops, crashes>>

-----------------------------------------------------------------------------
(* trashmeta.rs *)

\* push, after the retain that drops an older entry of the name.
WithEntry(entries, name, i) ==
  [n \in DOMAIN entries \cup {name} |-> IF n = name THEN i ELSE entries[n]]

\* What the operation makes of the entries it has read.
Changed(p, entries) ==
  LET op == proc[p]
      name == BaseName(op.path)
  IN CASE op.kind = "trash" -> WithEntry(entries, name, op.path[2])
       [] op.reconciling -> Restrict(entries, DOMAIN entries \cap TrashNames)
       [] OTHER -> Restrict(entries, DOMAIN entries \ {name})

\* read_trash_metadata, and the change in memory. A reconciliation that finds
\* nothing stale does not write.
ReadMetadata(p) ==
  /\ proc[p].pc = "read"
  /\ LET entries == Changed(p, meta) IN
     proc' = [proc EXCEPT ![p].buf = entries,
                          ![p].pc = IF proc[p].reconciling /\ entries = meta
                                    THEN "completed" ELSE "create"]
  /\ UNCHANGED <<place, meta, temp, unfinished, replayed, ops, crashes>>

\* File::create; the entries stay in the writer's buffer.
CreateTemporary(p) ==
  /\ proc[p].pc = "create"
  /\ temp' = [temp EXCEPT ![p] = {Nothing}]
  /\ StepTo(p, "flush")
  /\ UNCHANGED <<place, meta, unfinished, replayed, ops, crashes>>

\* Mutant: the temporary file is installed before the entries are flushed.
FlushNothing(p) ==
  /\ proc[p].pc = "flush"
  /\ StepTo(p, "rename")
  /\ UNCHANGED <<place, meta, temp, unfinished, replayed, ops, crashes>>

\* flush and sync_all
FlushTemporary(p) ==
  /\ proc[p].pc = "flush"
  /\ temp' = [temp EXCEPT ![p] = {proc[p].buf}]
  /\ StepTo(p, "rename")
  /\ UNCHANGED <<place, meta, unfinished, replayed, ops, crashes>>

AfterWrite(op) ==
  CASE op.kind = "trash" -> "change"
    [] op.kind = "empty" /\ ~op.reconciling -> "next"
    [] OTHER -> "completed"

RenameTemporary(p) ==
  /\ proc[p].pc = "rename"
  /\ \E entries \in temp[p] : meta' = entries
  /\ temp' = [temp EXCEPT ![p] = NoFile]
  /\ StepTo(p, AfterWrite(proc[p]))
  /\ UNCHANGED <<place, unfinished, replayed, ops, crashes>>

\* The journal entry of a completed operation.
Complete(p) ==
  /\ proc[p].pc = "completed"
  /\ proc' = [proc EXCEPT ![p] = Idle]
  /\ UNCHANGED <<place, meta, temp, unfinished, replayed, ops, crashes>>

\* A failed call, a missing path, an occupied destination or a cancelled check:
\* there is a check between any two steps.
Abandon(p) ==
  /\ proc[p] # Idle
  /\ Fail(p)
  /\ UNCHANGED <<place, meta, unfinished, replayed, ops, crashes>>

\* The path of the journaled operation: Empty Trash has none.
Asked(op) == IF op.kind = "empty" THEN Nowhere ELSE op.path

\* The end of the process: its temporary file stays, and is never looked at.
StopProcess(p) ==
  /\ proc[p] # Idle
  /\ crashes < MaxCrashes
  /\ crashes' = crashes + 1
  /\ unfinished' = unfinished \cup
       {<<proc[p].kind, Asked(proc[p]), proc[p].dest>>}
  /\ proc' = [proc EXCEPT ![p] = Idle]
  /\ temp' = [temp EXCEPT ![p] = NoFile]
  /\ UNCHANGED <<place, meta, replayed, ops>>

Step(p) ==
  \/ TrashDelete(p) \/ DeletePath(p) \/ RestorePath(p) \/ DeleteTrashChild(p) \/ Reconcile(p)
  \/ ReadMetadata(p) \/ CreateTemporary(p) \/ FlushTemporary(p) \/ RenameTemporary(p)
  \/ Complete(p) \/ Abandon(p) \/ StopProcess(p)

TrashNext ==
  \E p \in Procs :
    \/ \E r \in Requests : Start(p, r)
    \/ \E r \in unfinished : Replay(p, r)
    \/ Step(p)

TrashSpec == TrashInit /\ [][TrashNext]_trashVars

-----------------------------------------------------------------------------
Places == UserPaths \cup {Nowhere}
TrashKinds == {"none", "trash", "delete", "restore", "empty"}
TrashLabels == {"idle", "change", "next", "read", "create", "flush", "rename", "completed"}

Operations ==
  [kind : TrashKinds, pc : TrashLabels, path : Places, dest : Places,
   todo : SUBSET NamesInTrash, buf : Entries, recorded : BOOLEAN, reconciling : BOOLEAN]

\* What a user can ask for, at some time.
Askable(kind, path, dest) ==
  \/ kind = "trash" /\ path \in HomePaths /\ dest = Nowhere
  \/ kind = "delete" /\ path \in UserPaths /\ dest = Nowhere
  \/ kind = "restore" /\ path \in TrashPaths /\ dest \in HomePaths
  \/ kind = "empty" /\ path = Nowhere /\ dest = Nowhere

\* The values the variables take; no two items are at one path, an operation that is
\* not writing has no temporary file, and only Empty Trash goes through a list.
TrashTypeOK ==
  /\ place \in [Items -> Places]
  /\ \A i, j \in Items : place[i] = place[j] => i = j \/ place[i] = Nowhere
  /\ meta \in Entries
  /\ temp \in [Procs -> SUBSET Entries]
  /\ proc \in [Procs -> Operations]
  /\ \A p \in Procs : /\ temp[p] # NoFile => proc[p].pc \in {"flush", "rename"}
                      /\ proc[p] = Idle \/ Askable(proc[p].kind, Asked(proc[p]), proc[p].dest)
                      /\ proc[p].pc = "next" \/ proc[p].reconciling => proc[p].kind = "empty"
  /\ \A r \in unfinished : Askable(r[1], r[2], r[3])
  /\ replayed \subseteq Items

\* Whatever is interrupted, an item that an operation with a metadata path moved
\* to the Trash can be restored to its home: the metadata is never written in
\* part, and an entry goes only with its item. A completed Empty Trash leaves no
\* entry without an item, those of earlier interrupted runs included
\* (write_trash_metadata, remove_deleted_trash_metadata, empty_trash_path).
TrashedIsRestorable ==
  /\ \A i \in Items \ replayed : \A n \in NamesInTrash :
       place[i] = InTrash(n) => n \in DOMAIN meta /\ meta[n] = i
  /\ \A p \in Procs :
       (proc[p].kind = "empty" /\ proc[p].pc = "completed" /\ proc[p].recorded)
         => DOMAIN meta \subseteq TrashNames

\* "No Trash metadata removal before the corresponding delete succeeds"
\* (docs/operation-recovery.md, invariant 12).
RemovalAfterDelete ==
  [][\A n \in DOMAIN meta \ DOMAIN meta' : n \notin TrashNames]_trashVars

-----------------------------------------------------------------------------
(* What the documentation says of this code and the code does not do *)

\* "Restore uses metadata-backed original destinations": an item comes back to
\* its own home.
RestoredToItsOrigin ==
  \A i \in Items : place[i] \in HomePaths => place[i] = Home(i)

\* "Startup recovery should call ... with the runtime journal and Trash metadata
\* paths": what a replay moves to the Trash can be restored too.
ReplayedIsRestorable ==
  \A i \in Items : \A n \in NamesInTrash : place[i] = InTrash(n) => n \in DOMAIN meta
=============================================================================
