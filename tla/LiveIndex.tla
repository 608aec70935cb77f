------------------------------ MODULE LiveIndex ------------------------------
(***************************************************************************)
(* The live index kept current by file events: the file system changes,    *)
(* the watcher turns changes into events (crates/mac/src/watch.rs), the    *)
(* event queue holds them, and LiveIndex::apply_event applies each one to  *)
(* the sharded in-memory index (crates/index/src/live.rs and rename.rs,    *)
(* crates/search/src/shard.rs and ingest.rs).                              *)
(*                                                                         *)
(* The tree has two levels: top names and, in each, one child.  A file has *)
(* an identity (device and inode) and a version that stands for its        *)
(* metadata; the index records both under one path per identity.  The loop *)
(* that drains the queue and applies the batch is the caller's: it skips   *)
(* an event whose file is gone and keeps one that was cancelled.           *)
(***************************************************************************)
EXTENDS Naturals, Sequences, FiniteSets, SequencesExt, FiniteSetsExt

CONSTANTS
    max_pending, visible_burst, Batches,  \* of the event queue
    Tops,          \* the top-level names
    VisiblePaths,  \* the paths whose events are enqueued as visible
    MaxFiles,      \* files made, the initial ones included
    MaxVersion,    \* modifications of one file
    MaxEdits,      \* changes of the disk
    MaxStream,     \* events in the watcher's channel
    Habits         \* what else the environment does, see below

(***************************************************************************)
(* Habits the environment may have:                                        *)
(*   "overwriting_moves" renames onto a path that exists                   *)
(*   "split_moves"       renames reported as one event for each path       *)
(*   "mixed_priorities"  a path's events now visible, now background       *)
(***************************************************************************)
ASSUME HabitsAssumption ==
    Habits \subseteq {"overwriting_moves", "split_moves", "mixed_priorities"}

\* The habits the index can follow: a rename is reported with both its paths, and the
\* events of a path have one priority.
Careful == Habits \subseteq {"overwriting_moves"}

VARIABLES
    visible, background, repair_required,  \* of the event queue
    disk,   \* the file of each path
    made,   \* identities given out
    edits,  \* changes of the disk so far
    index,  \* what the index records of each path
    stream, \* the watcher's channel of events
    batch,  \* drained events that are still to be applied
    tangled \* history: the top-level names where a rename overlapped another event

\* The batch the queue hands out is the one the loop applies; events come from the
\* watcher's channel (Receive), none by themselves.
INSTANCE EventQueue WITH drained <- batch, Arrivals <- {}

ASSUME QueueSizes == SizesAssumption

liveVars == <<visible, background, repair_required, disk, made, edits, stream, index, batch, tangled>>

Paths == {<<t>> : t \in Tops} \cup {<<t, "child">> : t \in Tops}
Subtree(p) == {q \in Paths : IsPrefix(p, q)}

None == [id |-> 0, version |-> 0]
Files == [id : 1..MaxFiles, version : 0..MaxVersion]
There(tree, p) == tree[p] # None
Leaf(p) == \A q \in Subtree(p) \ {p} : ~There(disk, q)

\* p's place under `to` when its ancestor `from` is renamed.
renamed_path(p, from, to) == to \o SubSeq(p, Len(from) + 1, Len(p))

Quiet == stream = <<>> /\ pending = 0 /\ batch = <<>>

-----------------------------------------------------------------------------
\* The file system and the watcher.

Event(kind, p) == [kind |-> kind, path |-> p, to |-> p]

\* map_notify_event: one event for a rename reported with both its paths; the two
\* halves of one reported apart count as a removal and a creation.
Reports(from, to) ==
    {<<[kind |-> "Rename", path |-> from, to |-> to]>>}
    \cup (IF "split_moves" \in Habits THEN {<<Event("Remove", from), Event("Create", to)>>} ELSE {})

\* The events that are not applied yet, and the top-level names an event is about.
UnderWay == Range(stream) \cup Range(visible) \cup Range(background) \cup Range(batch)
Names(e) == {Head(p) : p \in {e.path, e.to} \ {<<>>}}

\* Two events of one name overlap when one of them is a rename: the queue may then put one
\* in the place of the other, or hand them out in another order.
Overlapping(e) ==
    {o \in UnderWay : Names(o) \cap Names(e) # {} /\ "Rename" \in {o.kind, e.kind}}

\* The names that are tangled by an event e, which lead on to those it leads to.
Tangled(e) ==
    IF Overlapping(e) = {} /\ Names(e) \cap tangled = {} THEN {}
    ELSE UNION {Names(o) : o \in {e} \cup Overlapping(e)}

Send(events) ==
    /\ Len(stream) + Len(events) <= MaxStream
    /\ stream' = stream \o events
    /\ tangled' = tangled \cup UNION {Tangled(e) : e \in Range(events)}
    /\ UNCHANGED <<visible, background, repair_required, index, batch>>

Edit == edits < MaxEdits /\ edits' = edits + 1

Create(p) ==
    /\ Edit /\ ~There(disk, p) /\ made < MaxFiles
    /\ Len(p) = 2 => There(disk, Front(p))
    /\ disk' = [disk EXCEPT ![p] = [id |-> made + 1, version |-> 0]]
    /\ made' = made + 1
    /\ Send(<<Event("Create", p)>>)

Modify(p) ==
    /\ Edit /\ There(disk, p) /\ disk[p].version < MaxVersion
    /\ disk' = [disk EXCEPT ![p].version = @ + 1]
    /\ Send(<<Event("Modify", p)>>)
    /\ UNCHANGED made

Delete(p) ==
    /\ Edit /\ There(disk, p) /\ Leaf(p)
    /\ disk' = [disk EXCEPT ![p] = None]
    /\ Send(<<Event("Remove", p)>>)
    /\ UNCHANGED made

\* A rename on one level of the tree, of a directory with what it holds.
Move(from, to) ==
    /\ Edit /\ from # to /\ Len(from) = Len(to)
    /\ There(disk, from)
    /\ Len(to) = 2 => There(disk, Front(to))
    /\ ~There(disk, to) \/ ("overwriting_moves" \in Habits /\ Leaf(to))
    /\ disk' = [p \in Paths |->
                  IF p \in Subtree(from) THEN None
                  ELSE IF p \in Subtree(to) THEN disk[renamed_path(p, to, from)]
                  ELSE disk[p]]
    /\ \E report \in Reports(from, to) : Send(report)
    /\ UNCHANGED made

\* The kernel lost track of the changes and says so.
LoseTrack == ~repair_required /\ stream = <<>> /\ Send(<<Rescan>>) /\ UNCHANGED <<disk, made, edits>>

-----------------------------------------------------------------------------
\* The queue, between the channel and the index.

PriorityOf(p) ==
    IF "mixed_priorities" \in Habits THEN Priorities
    ELSE IF p \in VisiblePaths THEN {"Visible"} ELSE {"Background"}

Receive ==
    /\ stream # <<>>
    /\ \E priority \in PriorityOf(Head(stream).to) : enqueue(priority, Head(stream))
    /\ stream' = Tail(stream)
    /\ UNCHANGED <<disk, made, edits, index, batch, tangled>>

TakeBatch ==
    /\ batch = <<>> /\ pending > 0
    /\ Drain
    /\ UNCHANGED <<disk, made, edits, stream, index, tangled>>

-----------------------------------------------------------------------------
\* The index: one record per path and per identity.

insert(tree, p, file) ==
    [q \in Paths |-> IF q = p THEN file ELSE IF tree[q].id = file.id THEN None ELSE tree[q]]

remove_subtree(tree, p) == [q \in Paths |-> IF q \in Subtree(p) THEN None ELSE tree[q]]

\* Records of different files inserted one after the other, in any order.
insert_all(tree, records) ==
    LET Replaced(q) == \E p \in Paths : There(records, p) /\ records[p].id = tree[q].id
    IN  [q \in Paths |-> IF There(records, q) THEN records[q] ELSE IF Replaced(q) THEN None ELSE tree[q]]

\* The records of tree at the places put back into the index at.
Restore(at, tree, places) ==
    insert_all(at, [q \in Paths |-> IF q \in places THEN tree[q] ELSE None])

\* Mutant: a renamed folder takes only its own record along.
MovedRootOnly(from, to) ==
    insert(remove_subtree(index, from), to, [index[from] EXCEPT !.version = disk[to].version])

\* The index with the records of a renamed subtree moved: the root's record is read
\* anew and keeps its old identity, the others move as they are.
Moved(from, to) ==
    LET moved_record(p) == IF p = from /\ There(index, p) THEN [index[p] EXCEPT !.version = disk[to].version]
                           ELSE index[p]
    IN  insert_all(remove_subtree(index, from),
                   [q \in Paths |-> IF q \in Subtree(to) THEN moved_record(renamed_path(q, to, from)) ELSE None])

Known(from) == \E p \in Subtree(from) : There(index, p)

correlate_rename(from, to) ==
    IF ~Known(from)
      THEN IF There(disk, to) THEN insert(index, to, disk[to]) ELSE index
      ELSE IF There(disk, to) THEN Moved(from, to) ELSE remove_subtree(index, from)

\* Mutant: the records taken out under the old name are not put back.
RenameForgotten(from, to) ==
    IF There(disk, to) THEN remove_subtree(Moved(from, to), to) ELSE index

\* The index a rename leaves when it is cancelled after its last insertion.
RenameRolledBack(from, to) ==
    IF ~Known(from)
      THEN [correlate_rename(from, to) EXCEPT ![to] = None]
      ELSE Restore(remove_subtree(Moved(from, to), to), index, Subtree(from))

\* upsert_path and apply_metadata_update: a file that is gone is an error and
\* changes nothing.
Upserted(p) == IF There(disk, p) THEN insert(index, p, disk[p]) ELSE index

\* insert_record_transactional cancelled after the insertion.
UpsertRolledBack(p) ==
    LET replaced == {q \in Paths : q = p \/ index[q].id = disk[p].id}
    IN  Restore([Upserted(p) EXCEPT ![p] = None], index, replaced)

\* A rescan is left to the caller (NeedsRescan).
apply_event(e) ==
    CASE e.kind \in {"Create", "Other", "Metadata", "Modify"} -> Upserted(e.path)
      [] e.kind = "Remove" -> remove_subtree(index, e.path)
      [] e.kind = "Rename" -> correlate_rename(e.path, e.to)
      [] e.kind = "Rescan" -> index

Apply ==
    /\ batch # <<>>
    /\ index' = apply_event(Head(batch))
    /\ batch' = Tail(batch)
    /\ UNCHANGED <<visible, background, repair_required, disk, made, edits, stream, tangled>>

\* Cancelled before anything changed, or after the last change and rolled back.
CancelledIndex(e) ==
    {index} \cup
    (CASE e.kind = "Rename" /\ There(disk, e.to) -> {RenameRolledBack(e.path, e.to)}
       [] e.kind \in {"Create", "Modify"} /\ There(disk, e.path) -> {UpsertRolledBack(e.path)}
       [] OTHER -> {})

ApplyCancelled ==
    /\ batch # <<>>
    /\ index' \in CancelledIndex(Head(batch))
    /\ UNCHANGED <<visible, background, repair_required, disk, made, edits, stream, batch, tangled>>

-----------------------------------------------------------------------------
\* A folder with a child, all of it indexed.
Start(p) == IF p = <<"a">> THEN [id |-> 1, version |-> 0]
            ELSE IF p = <<"a", "child">> THEN [id |-> 2, version |-> 0] ELSE None

LiveInit ==
    /\ Init
    /\ disk = [p \in Paths |-> Start(p)] /\ made = 2 /\ edits = 0
    /\ index = disk
    /\ stream = <<>> /\ batch = <<>> /\ tangled = {}

Change ==
    \/ \E p \in Paths : Create(p) \/ Modify(p) \/ Delete(p)
    \/ \E from, to \in Paths : Move(from, to)
    \/ LoseTrack

LiveNext == Change \/ Receive \/ TakeBatch \/ Apply \/ ApplyCancelled
LiveSpec == LiveInit /\ [][LiveNext]_liveVars

-----------------------------------------------------------------------------
\* The index holds files under existing paths, and a file under one path only.
LiveTypeOK ==
    /\ disk \in [Paths -> Files \cup {None}]
    /\ index \in [Paths -> Files \cup {None}]
    /\ \A p, q \in Paths : There(index, p) /\ index[p].id = index[q].id => p = q

\* When no event waits any more, the index shows what is on the disk, or the queue has
\* said that a repair is required.  Only where a rename was under way together with
\* another event of the same names may the index be wrong without a word; that does not
\* spread to any other name.
IndexIsCurrent ==
    Quiet /\ ~repair_required => \A p \in Paths : Head(p) \notin tangled => index[p] = disk[p]

\* A cancelled event has no effect on the index: every record it took out or
\* replaced is back.
CancelLeavesIndex ==
    [][batch # <<>> /\ batch' = batch => index' = index]_liveVars
=============================================================================
