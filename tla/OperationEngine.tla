--------------------------- MODULE OperationEngine ---------------------------
(***************************************************************************)
(* One journaled copy or move of crates/ops: Operator (operator.rs) with   *)
(* its journal and recovery selection, over the mutating algorithms of     *)
(* copy.rs, relocate.rs, target.rs, transfer.rs and removal.rs.            *)
(*                                                                         *)
(* A step is at most one system call that changes the file system or one   *)
(* append to the journal; the process can stop between any two of them, a  *)
(* call can fail, and the pause and cancel flags can be set at any time.   *)
(* After a stop, recover_with_policy replays what the journal says is      *)
(* unfinished, in the context that recover_operations_from_journal         *)
(* (crates/app/src/operation.rs) gives it.                                 *)
(*                                                                         *)
(* A directory holds regular files only: copy_directory treats a nested    *)
(* directory as it treats the outer one. Metadata preservation, locked     *)
(* items and Finder packages can only fail an operation, as any system     *)
(* call here can.                                                          *)
(***************************************************************************)
EXTENDS Integers, Sequences, FiniteSets, SequencesExt

CONSTANTS
  Data,         \* contents of a file, targets of a link
  Names,        \* names of the files in a directory
  SizeOf,       \* length of each content, and of a directory
  Configs,      \* the operations to run, each with the trees it finds
  MaxAttempts,  \* OperationRecoveryPolicy.max_attempts of the foreground
  Budget        \* bounds on the crashes, faults and stop requests

Kinds == {"copy", "move"}
Policies == {"Fail", "Replace", "KeepBoth", "Merge", "Skip"}
Verifications == {"None", "Size", "Bytes"}

ASSUME EngineAssumption ==
  /\ SizeOf \in [Data \cup {"dir"} -> Nat \ {0}]
  /\ MaxAttempts \in Nat \ {0}
  /\ Budget \in [{"crash", "fault", "stop"} -> Nat]

-----------------------------------------------------------------------------
(* Trees *)

None == [kind |-> "none"]
File(d) == [kind |-> "file", data |-> d, whole |-> TRUE]
Link(d) == [kind |-> "link", data |-> d, whole |-> TRUE]
Dir(kids) == [kind |-> "dir", kids |-> kids]

\* A file whose bytes are still being written.
PartOf(node) == [node EXCEPT !.whole = FALSE]

Exists(node) == node # None
IsDir(node) == node.kind = "dir"
NonDir(node) == node.kind \in {"file", "link"}

\* The item itself, or one of its children.
Self == "."
ItemOf(node, c) ==
  IF c = Self THEN node
  ELSE IF IsDir(node) /\ c \in DOMAIN node.kids THEN node.kids[c] ELSE None

Put(node, c, item) ==
  IF c = Self THEN item
  ELSE Dir([k \in DOMAIN node.kids \cup {c} |-> IF k = c THEN item ELSE node.kids[k]])

Drop(node, c) ==
  IF c = Self THEN None
  ELSE Dir([k \in DOMAIN node.kids \ {c} |-> node.kids[k]])

\* Every item of a is in b, whole and with the same contents.
Holds(b, a) ==
  IF IsDir(a) THEN IsDir(b) /\ \A c \in DOMAIN a.kids : ItemOf(b, c) = a.kids[c]
  ELSE b = a

Files == {File(d) : d \in Data}
Links == {Link(d) : d \in Data}
DirsOf(kids) == {Dir(k) : k \in UNION {[D -> kids] : D \in SUBSET Names}}

\* An operation finds a whole tree at its source, and one or nothing at its
\* destination; two names of one file show the same contents.
ASSUME ConfigsAssumption ==
  /\ Self \notin Names
  /\ LET whole == Files \cup Links \cup DirsOf(Files) IN
     Configs \subseteq
       [kind : Kinds, conflict : Policies, verify : Verifications, from : whole,
        to : whole \cup {None}, alias : BOOLEAN, granted : BOOLEAN]
  /\ \A o \in Configs : o.alias => o.to = o.from

\* fs::metadata().len(): a link is followed, to a file with the contents it
\* stands for; an unfinished file is shorter than any other.
Length(node) ==
  IF IsDir(node) THEN SizeOf["dir"] ELSE IF node.whole THEN SizeOf[node.data] ELSE 0

\* verify_copy_checked, and verify_existing_symlink_copy for a link.
Verified(policy, a, b) ==
  IF a.kind = "link" THEN b.kind = "link" /\ b.data = a.data
  ELSE /\ policy = "Size" => Length(b) = Length(a)
       /\ policy = "Bytes" => ~IsDir(b) /\ b.whole /\ b.data = a.data

\* Comparing tells what an operation found at its destination from what it would
\* put there: it is not turned off, and no other item has the length of the source's.
ComparisonTells ==
  \A o \in Configs :
    /\ o.verify # "None"
    /\ \A c \in Names \cup {Self} :
         LET a == ItemOf(o.from, c)
             b == ItemOf(o.to, c)
         IN  a.kind = "file" /\ Exists(b) /\ Length(b) = Length(a) => b = a

-----------------------------------------------------------------------------
(* Journal *)

Failed(class) == <<"Failed", class>>
Started == <<"Started">>
Completed == <<"Completed">>
Skipped == <<"Skipped">>
Paused == <<"Paused">>
Cancelled == <<"Cancelled">>

\* FailureClass of the messages this code writes.
Classes == {"Transient", "Permanent", "MissingFile", "Permission"}
Failures == {Failed(c) : c \in Classes}
Statuses == Failures \cup {Started, Completed, Skipped, Paused, Cancelled}

VARIABLES
  op,       \* the operation and the trees it found: never changes
  fs,       \* the trees at the paths the operation deals with
  orphans,  \* trees at hidden siblings that no attempt knows of any more
  journal,  \* the statuses journaled for the operation
  target,   \* the destination path in the journaled operation
  pc,       \* where the engine is
  ctx,      \* the OperationContext of the attempt, and what remains to retry
  cp,       \* the copy that is running
  outcome,  \* the status the attempt is about to journal
  control,  \* OperationCancellation and OperationPause
  budget    \* crashes, faults and stop requests left

vars == <<op, fs, orphans, journal, target, pc, ctx, cp, outcome, control, budget>>

Paths == {"from", "to", "alt", "stage", "backup"}

NoCopy == [conflict |-> "Fail", resuming |-> FALSE, mode |-> "Fresh", root |-> "to",
           todo |-> {}, child |-> Self, created |-> FALSE, delete_source |-> FALSE]

ForegroundContext ==
  [conflict |-> op.conflict, verify |-> op.verify, resuming |-> FALSE,
   retry |-> TRUE, stoppable |-> TRUE]

\* OperationContext::new: what recovery runs with, whatever the operation had.
\* Its gate allows everything and nobody holds its stop flags.
RecoveryContext ==
  [conflict |-> "Fail", verify |-> "Size", resuming |-> TRUE,
   retry |-> FALSE, stoppable |-> FALSE]

Init ==
  /\ op \in Configs
  /\ fs = [p \in Paths |-> CASE p = "from" -> op.from [] p = "to" -> op.to [] OTHER -> None]
  /\ orphans = {}
  /\ journal = <<>>
  /\ target = "to"
  /\ pc = "idle"
  /\ ctx = RecoveryContext
  /\ cp = NoCopy
  /\ outcome = Completed
  /\ control = {}
  /\ budget = Budget

-----------------------------------------------------------------------------
(* recovery.rs *)

StartedCount == Len(SelectSeq(journal, LAMBDA s : s = Started))

\* Mutant: a cancelled operation is taken up again.
RecoverableOrCancelled(retry_failed, max_attempts) ==
  /\ journal # <<>>
  /\ \/ Last(journal) \in {Started, Paused, Cancelled}
     \/ /\ retry_failed
        /\ Last(journal) = Failed("Transient")
        /\ StartedCount < max_attempts

recoverable_operations(retry_failed, max_attempts) ==
  /\ journal # <<>>
  /\ \/ Last(journal) \in {Started, Paused}
     \/ /\ retry_failed
        /\ Last(journal) = Failed("Transient")
        /\ StartedCount < max_attempts

\* append_started
Restarted == IF Last(journal) = Started THEN journal ELSE Append(journal, Started)

-----------------------------------------------------------------------------
(* Steps *)

Goto(label) == pc' = label

Raise(e) == outcome' = e /\ Goto("unwind")
End(status) == outcome' = status /\ Goto("append")

\* check_control: cancellation first, then pause.
StopError == IF "cancel" \in control THEN Cancelled ELSE Paused

\* Replace the item that is being copied.
SetItem(item) == fs' = [fs EXCEPT ![cp.root] = Put(@, cp.child, item)]

Source == ItemOf(fs["from"], cp.child)
Destination == ItemOf(fs[cp.root], cp.child)
HasTarget == Exists(fs[target])

\* A source that replaces a destination of its own sort is never preceded by
\* the removal of that destination.
SameSort(a, b) == (NonDir(a) /\ NonDir(b)) \/ (IsDir(a) /\ IsDir(b))

\* Remove one child of a directory, or what is left of the tree at p, and go on
\* to label when nothing is left: remove_dir_all is not atomic.
RemoveTree(p, Then) ==
  IF IsDir(fs[p]) /\ DOMAIN fs[p].kids # {}
  THEN \E c \in DOMAIN fs[p].kids :
         /\ fs' = [fs EXCEPT ![p] = Drop(@, c)]
         /\ UNCHANGED <<pc, outcome>>
  ELSE fs' = [fs EXCEPT ![p] = None] /\ Then

\* Hidden siblings of an earlier attempt: this one takes new names.
Sweep ==
  /\ orphans' = orphans \cup ({fs["stage"], fs["backup"]} \ {None})
  /\ fs' = [fs EXCEPT !["stage"] = None, !["backup"] = None]

-----------------------------------------------------------------------------
(* operator.rs: an attempt from its started entry to its last entry *)

\* execute_with_retry_policy_and_progress. An operation whose access is refused
\* is journaled as started before it is journaled as failed.
Accept ==
  /\ pc = "idle" /\ journal = <<>>
  /\ journal' = <<Started>>
  /\ target' = IF op.granted /\ op.conflict = "KeepBoth" /\ HasTarget THEN "alt" ELSE "to"
  /\ ctx' = ForegroundContext
  /\ IF op.granted THEN Goto("begin") /\ UNCHANGED outcome ELSE End(Failed("Permission"))
  /\ UNCHANGED <<op, fs, orphans, cp, control, budget>>

\* execute_started_inner up to apply: skip, then the plan of the source, which
\* looks at the cancellation only.
Begin ==
  /\ pc = "begin"
  /\ Sweep
  /\ cp' = NoCopy
  /\ IF ctx.conflict = "Skip" /\ HasTarget THEN End(Skipped)
     ELSE IF "cancel" \in control THEN End(Cancelled)
     ELSE IF ~Exists(fs["from"]) THEN End(Failed("MissingFile"))
     ELSE Goto("apply") /\ UNCHANGED outcome
  /\ UNCHANGED <<op, journal, target, ctx, control, budget>>

StartCopy(conflict, resuming, delete_source) ==
  /\ cp' = [NoCopy EXCEPT !.conflict = conflict, !.resuming = resuming,
                          !.root = target, !.delete_source = delete_source]
  /\ Goto("copy")
  /\ UNCHANGED outcome

\* apply, and move_path up to its first system call that changes something.
Apply ==
  /\ pc = "apply"
  /\ \/ control # {} /\ Raise(StopError) /\ UNCHANGED cp
     \/ /\ control = {} /\ op.kind = "copy"
        /\ StartCopy(ctx.conflict, ctx.resuming, FALSE)
     \/ /\ control = {} /\ op.kind = "move"
        /\ IF ~HasTarget THEN Goto("rename") /\ UNCHANGED <<outcome, cp>>
           ELSE IF ctx.resuming THEN StartCopy("Replace", TRUE, TRUE)
           ELSE IF ctx.conflict = "Merge" THEN StartCopy("Merge", FALSE, TRUE)
           ELSE IF ctx.conflict # "Replace" THEN Raise(Failed("Permanent")) /\ UNCHANGED cp
           ELSE /\ Goto(IF ~SameSort(fs["from"], fs[target]) THEN "clear"
                        ELSE IF op.alias THEN "same_file" ELSE "rename")
                /\ UNCHANGED <<outcome, cp>>
  /\ UNCHANGED <<op, fs, orphans, journal, target, ctx, control, budget>>

\* prepare_destination under the replace policy, the sorts being different.
ClearTarget ==
  /\ pc = "clear"
  /\ RemoveTree(target,
       /\ Goto(IF op.kind = "move" THEN "rename" ELSE IF IsDir(fs["from"]) THEN "mkdir" ELSE "item")
       /\ UNCHANGED outcome)
  /\ UNCHANGED <<op, orphans, journal, target, ctx, cp, control, budget>>

-----------------------------------------------------------------------------
(* relocate.rs *)

\* What rename(2) can do.
Renameable(a, b) ==
  \/ ~Exists(b)
  \/ NonDir(a) /\ NonDir(b)
  \/ IsDir(a) /\ IsDir(b) /\ DOMAIN b.kids = {}

\* Mutant: when the rename fails the source is deleted without a copy.
RenameOrDelete ==
  /\ pc = "rename"
  /\ \/ /\ Renameable(fs["from"], fs[target])
        /\ fs' = [fs EXCEPT ![target] = fs["from"], !["from"] = None]
        /\ Goto("renamed")
     \/ Goto("delete_source") /\ UNCHANGED fs
  /\ UNCHANGED <<op, orphans, journal, target, ctx, cp, outcome, control, budget>>

\* The rename, or the copy and delete when it fails or the volumes differ.
Rename ==
  /\ pc = "rename"
  /\ \/ /\ Renameable(fs["from"], fs[target])
        /\ fs' = [fs EXCEPT ![target] = fs["from"], !["from"] = None]
        /\ Goto("renamed")
        /\ UNCHANGED <<cp, outcome>>
     \/ StartCopy("Replace", FALSE, TRUE) /\ UNCHANGED fs
  /\ UNCHANGED <<op, orphans, journal, target, ctx, control, budget>>

\* Source and destination are links to one file: only the source name goes.
CollapseSameFile ==
  /\ pc = "same_file"
  /\ fs' = [fs EXCEPT !["from"] = None]
  /\ Goto("renamed")
  /\ UNCHANGED <<op, orphans, journal, target, ctx, cp, outcome, control, budget>>

\* progress.complete() after the rename: a stop request is still obeyed.
Renamed ==
  /\ pc = "renamed"
  /\ IF control # {} THEN Raise(StopError) ELSE End(Completed)
  /\ UNCHANGED <<op, fs, orphans, journal, target, ctx, cp, control, budget>>

DeleteSource ==
  /\ pc = "delete_source"
  /\ RemoveTree("from", End(Completed))
  /\ UNCHANGED <<op, orphans, journal, target, ctx, cp, control, budget>>

-----------------------------------------------------------------------------
(* copy.rs *)

\* copy_path_with_session: which of its algorithms copies this source.
CopyPath ==
  /\ pc = "copy"
  /\ LET from == fs["from"]
         first == IF IsDir(from) THEN "mkdir" ELSE "item"
         To(mode, root, label) ==
           cp' = [cp EXCEPT !.mode = mode, !.root = root] /\ Goto(label) /\ UNCHANGED outcome
     IN IF control # {} THEN Raise(StopError) /\ UNCHANGED cp
        ELSE IF ~HasTarget THEN To("Fresh", target, first)
        ELSE IF cp.resuming THEN To("Resume", target, IF IsDir(from) THEN "mkdir" ELSE "existing")
        ELSE IF cp.conflict = "Merge" /\ IsDir(from) THEN To("Merge", target, "mkdir")
        ELSE IF cp.conflict # "Replace" THEN Raise(Failed("Permanent")) /\ UNCHANGED cp
        ELSE IF ~SameSort(from, fs[target]) THEN To("Fresh", target, "clear")
        ELSE IF op.alias THEN To("Fresh", target, "finish") ELSE To("Fresh", "stage", first)
  /\ UNCHANGED <<op, fs, orphans, journal, target, ctx, control, budget>>

\* copy_directory: the directory itself, then its children in any order.
MakeDirectory ==
  /\ pc = "mkdir"
  /\ LET kids == DOMAIN fs["from"].kids IN
     IF control # {} THEN Raise(StopError) /\ UNCHANGED <<fs, cp>>
     ELSE IF cp.mode = "Fresh"
     THEN /\ fs' = [fs EXCEPT ![cp.root] = Dir([k \in {} |-> None])]
          /\ cp' = [cp EXCEPT !.todo = kids, !.created = TRUE]
          /\ Goto("children")
          /\ UNCHANGED outcome
     ELSE IF IsDir(fs[cp.root])
     THEN cp' = [cp EXCEPT !.todo = kids] /\ Goto("children") /\ UNCHANGED <<fs, outcome>>
     ELSE Raise(Failed("Permanent")) /\ UNCHANGED <<fs, cp>>
  /\ UNCHANGED <<op, orphans, journal, target, ctx, control, budget>>

\* The next child, and the end of the directory. A metadata degradation event
\* at the end looks at the control flags too.
Children ==
  /\ pc = "children"
  /\ \/ control # {} /\ Raise(StopError) /\ UNCHANGED cp
     \/ /\ cp.todo = {}
        /\ cp' = [cp EXCEPT !.created = FALSE]
        /\ Goto(IF cp.root = "stage" THEN "backup" ELSE "copied")
        /\ UNCHANGED outcome
     \/ /\ control = {}
        /\ \E c \in cp.todo :
             LET there == Exists(ItemOf(fs[cp.root], c)) IN
             /\ cp' = [cp EXCEPT !.todo = @ \ {c}, !.child = c]
             /\ IF there /\ cp.mode = "Merge" THEN Raise(Failed("Permanent"))
                ELSE /\ Goto(IF there /\ cp.mode = "Resume" THEN "existing" ELSE "item")
                     /\ UNCHANGED outcome
  /\ UNCHANGED <<op, fs, orphans, journal, target, ctx, control, budget>>

ItemDone ==
  /\ cp' = [cp EXCEPT !.child = Self]
  /\ Goto(IF cp.child # Self THEN "children" ELSE IF cp.root = "stage" THEN "commit" ELSE "copied")
  /\ UNCHANGED outcome

\* copy_path_existing in resume mode: what is there is compared, not copied.
ExistingItem ==
  /\ pc = "existing"
  /\ IF control # {} THEN Raise(StopError) /\ UNCHANGED cp
     ELSE IF Verified(ctx.verify, Source, Destination) THEN ItemDone
     ELSE Raise(Failed("Permanent")) /\ UNCHANGED cp
  /\ UNCHANGED <<op, fs, orphans, journal, target, ctx, control, budget>>

\* copy_file_tracked and copy_symlink: a link, a clone and a hard link are made
\* by one call; a byte copy starts from an empty file.
CopyItem ==
  /\ pc = "item"
  /\ IF control # {} THEN Raise(StopError) /\ UNCHANGED fs
     ELSE /\ UNCHANGED outcome
          /\ \/ SetItem(Source) /\ Goto("finish")
             \/ Source.kind = "file" /\ SetItem(PartOf(Source)) /\ Goto("bytes")
  /\ UNCHANGED <<op, orphans, journal, target, ctx, cp, control, budget>>

\* copy_file_bytes_tracked: the check at the top of its loop returns at once,
\* past the removal of the unfinished file.
LoopCheck ==
  /\ pc = "bytes"
  /\ IF control # {} THEN Raise(StopError)
     ELSE Goto(IF Destination.whole THEN "finish" ELSE "write") /\ UNCHANGED outcome
  /\ UNCHANGED <<op, fs, orphans, journal, target, ctx, cp, control, budget>>

\* The last chunk, and the check after it, which removes the file.
WriteChunk ==
  /\ pc = "write"
  /\ IF control # {} THEN fs' = [fs EXCEPT ![cp.root] = Drop(@, cp.child)] /\ Raise(StopError)
     ELSE SetItem(Source) /\ Goto("bytes") /\ UNCHANGED outcome
  /\ UNCHANGED <<op, orphans, journal, target, ctx, cp, control, budget>>

\* preserve_metadata, verify_copy and the progress of the item.
FinishItem ==
  /\ pc = "finish"
  /\ IF control # {} THEN Raise(StopError) /\ UNCHANGED cp ELSE ItemDone
  /\ UNCHANGED <<op, fs, orphans, journal, target, ctx, control, budget>>

\* Mutant: the source of a move by copy stays.
CopiedKeepingSource ==
  /\ pc = "copied"
  /\ End(Completed)
  /\ UNCHANGED <<op, fs, orphans, journal, target, ctx, cp, control, budget>>

Copied ==
  /\ pc = "copied"
  /\ IF cp.delete_source THEN Goto("delete_source") /\ UNCHANGED outcome ELSE End(Completed)
  /\ UNCHANGED <<op, fs, orphans, journal, target, ctx, cp, control, budget>>

-----------------------------------------------------------------------------
(* target.rs: the end of a staged replacement *)

\* rename_replacing_file
CommitFile ==
  /\ pc = "commit"
  /\ fs' = [fs EXCEPT ![target] = fs["stage"], !["stage"] = None]
  /\ Goto("copied")
  /\ UNCHANGED <<op, orphans, journal, target, ctx, cp, outcome, control, budget>>

\* commit_staged_directory_replace: the old directory aside, the new one in,
\* the old one away.
BackUpTarget ==
  /\ pc = "backup"
  /\ fs' = [fs EXCEPT !["backup"] = fs[target], ![target] = None]
  /\ Goto("install")
  /\ UNCHANGED <<op, orphans, journal, target, ctx, cp, outcome, control, budget>>

InstallStage ==
  /\ pc = "install"
  /\ fs' = [fs EXCEPT ![target] = fs["stage"], !["stage"] = None]
  /\ Goto("cleanup")
  /\ UNCHANGED <<op, orphans, journal, target, ctx, cp, outcome, control, budget>>

RemoveBackup ==
  /\ pc = "cleanup"
  /\ RemoveTree("backup", Goto("copied") /\ UNCHANGED outcome)
  /\ UNCHANGED <<op, orphans, journal, target, ctx, cp, control, budget>>

-----------------------------------------------------------------------------
(* The end of an attempt *)

\* Mutant: an error removes the destination, whoever made it.
RolledBackAlways == outcome # Paused

\* What is removed on the way out: a staged copy always, a fresh directory
\* unless the operation is paused.
RolledBack == cp.root = "stage" \/ (cp.created /\ outcome # Paused)

Unwind ==
  /\ pc = "unwind"
  /\ fs' = IF RolledBack THEN [fs EXCEPT ![cp.root] = None] ELSE fs
  /\ Goto("append")
  /\ UNCHANGED <<op, orphans, journal, target, ctx, cp, outcome, control, budget>>

AppendOutcome ==
  /\ pc = "append"
  /\ journal' = Append(journal, outcome)
  /\ Goto(IF outcome \in {Completed, Skipped} THEN "idle" ELSE "returned")
  /\ UNCHANGED <<op, fs, orphans, target, ctx, cp, outcome, control, budget>>

\* retry_failed_by_id: one more attempt of what the journal calls recoverable.
Retry ==
  /\ pc = "returned"
  /\ ctx.retry
  /\ recoverable_operations(TRUE, MaxAttempts)
  /\ ~(Last(journal) \in Failures /\ "cancel" \in control)
  /\ journal' = Restarted
  /\ ctx' = [ctx EXCEPT !.resuming = TRUE, !.retry = FALSE]
  /\ Goto("begin")
  /\ UNCHANGED <<op, fs, orphans, target, cp, outcome, control, budget>>

\* No attempt is left, or the backoff before it was cancelled.
GiveUp ==
  /\ pc = "returned"
  /\ \/ ~ctx.retry
     \/ ~recoverable_operations(TRUE, MaxAttempts)
     \/ Last(journal) \in Failures /\ "cancel" \in control
  /\ Goto("idle")
  /\ UNCHANGED <<op, fs, orphans, journal, target, ctx, cp, outcome, control, budget>>

\* recover_with_policy, called when nothing is running.
Recover(retry_failed, max_attempts) ==
  /\ pc \in {"idle", "down"}
  /\ recoverable_operations(retry_failed, max_attempts)
  /\ journal' = Restarted
  /\ ctx' = RecoveryContext
  /\ control' = {}
  /\ Goto("begin")
  /\ UNCHANGED <<op, fs, orphans, target, cp, outcome, budget>>

-----------------------------------------------------------------------------
(* What the engine does not choose *)

Running == pc \notin {"idle", "down"}
Spend(what) == budget[what] > 0 /\ budget' = [budget EXCEPT ![what] = @ - 1]

Crash ==
  /\ Running
  /\ Spend("crash")
  /\ Goto("down")
  /\ control' = {}
  /\ ctx' = RecoveryContext
  /\ cp' = NoCopy
  /\ outcome' = Completed
  /\ UNCHANGED <<op, fs, orphans, journal, target>>

RequestStop(flag) ==
  /\ Running /\ ctx.stoppable
  /\ flag \notin control
  /\ Spend("stop")
  /\ control' = control \cup {flag}
  /\ UNCHANGED <<op, fs, orphans, journal, target, pc, ctx, cp, outcome>>

\* A call fails. A byte copy removes what it wrote; a failed installation is
\* preceded by the return of the backup.
SystemCallFails(class) ==
  /\ pc \in {"begin", "apply", "clear", "same_file", "delete_source", "copy", "mkdir", "children", "existing",
             "item", "bytes", "write", "finish", "commit", "backup", "install", "cleanup"}
  /\ Spend("fault")
  /\ fs' = CASE pc \in {"bytes", "write"} -> [fs EXCEPT ![cp.root] = Drop(@, cp.child)]
             [] pc = "install" -> [fs EXCEPT ![target] = fs["backup"], !["backup"] = None]
             [] OTHER -> fs
  /\ IF pc = "begin" THEN End(Failed(class)) /\ cp' = NoCopy
     ELSE Raise(Failed(class)) /\ UNCHANGED cp
  /\ UNCHANGED <<op, orphans, journal, target, ctx, control>>

\* Neither the installation nor the return of the backup works.
RestoreFails ==
  /\ pc = "install"
  /\ budget["fault"] > 1
  /\ budget' = [budget EXCEPT !["fault"] = @ - 2]
  /\ Raise(Failed("Permanent"))
  /\ UNCHANGED <<op, fs, orphans, journal, target, ctx, cp, control>>

\* The removals on the way out are best effort.
RollbackFails ==
  /\ pc = "unwind" /\ RolledBack
  /\ Spend("fault")
  /\ Goto("append")
  /\ UNCHANGED <<op, fs, orphans, journal, target, ctx, cp, outcome, control>>

AppendFails ==
  /\ pc = "append"
  /\ Spend("fault")
  /\ Goto("returned")
  /\ UNCHANGED <<op, fs, orphans, journal, target, ctx, cp, outcome, control>>

-----------------------------------------------------------------------------
Engine ==
  \/ Begin \/ Apply \/ ClearTarget
  \/ Rename \/ CollapseSameFile \/ Renamed \/ DeleteSource
  \/ CopyPath \/ MakeDirectory \/ Children \/ ExistingItem \/ CopyItem \/ LoopCheck
  \/ WriteChunk \/ FinishItem \/ Copied
  \/ CommitFile \/ BackUpTarget \/ InstallStage \/ RemoveBackup
  \/ Unwind \/ AppendOutcome \/ Retry \/ GiveUp

Next ==
  \/ Engine
  \/ Accept
  \/ \E retry_failed \in BOOLEAN, max_attempts \in {1, MaxAttempts} :
       Recover(retry_failed, max_attempts)
  \/ Crash \/ RestoreFails \/ RollbackFails \/ AppendFails
  \/ \E flag \in {"cancel", "pause"} : RequestStop(flag)
  \/ \E class \in {"Transient", "Permanent"} : SystemCallFails(class)

Spec == Init /\ [][Next]_vars

-----------------------------------------------------------------------------
PartFiles == {PartOf(f) : f \in Files}
Nodes == {None} \cup Files \cup PartFiles \cup Links \cup DirsOf(Files \cup PartFiles)

Labels == {"idle", "down", "begin", "apply", "clear", "rename", "same_file", "renamed",
           "delete_source", "copy", "mkdir", "children", "existing", "item", "bytes", "write",
           "finish", "copied", "commit", "backup", "install", "cleanup", "unwind", "append",
           "returned"}

Contexts ==
  [conflict : Policies, verify : Verifications, resuming : BOOLEAN, retry : BOOLEAN,
   stoppable : BOOLEAN]

Copies ==
  [conflict : Policies, resuming : BOOLEAN, mode : {"Fresh", "Merge", "Resume"},
   root : {"to", "alt", "stage"}, todo : SUBSET Names, child : Names \cup {Self},
   created : BOOLEAN, delete_source : BOOLEAN]

\* The values the variables of the engine take.
TypeOK ==
  /\ op \in Configs
  /\ fs \in [Paths -> Nodes]
  /\ orphans \subseteq Nodes \ {None}
  /\ journal \in Seq(Statuses)
  /\ target \in {"to", "alt"}
  /\ pc \in Labels
  /\ outcome \in Statuses \ {Started}
  /\ control \subseteq {"cancel", "pause"}
  /\ ctx \in Contexts
  /\ cp \in Copies

LastStatus == IF journal = <<>> THEN Skipped ELSE Last(journal)
Ended == pc \in {"idle", "down"} /\ LastStatus # Started

\* Whatever is interrupted, failed, retried or replayed, the user's data is in
\* one place: a copy leaves its source alone, and a move removes nothing of it
\* that is not whole at the destination (relocate.rs move_path, operator.rs).
SourceIsSafe ==
  \/ Holds(fs["from"], op.from)
  \/ op.kind = "move" /\ Holds(fs[target], op.from)

\* What was at the destination is never lost: a policy other than replace
\* leaves it there, and a replacement by the same sort of item keeps it, there
\* or in a hidden sibling, until the new one is complete at its path
\* (target.rs commit_staged_directory_replace, rename_replacing_file).
OldOrNew(hidden) ==
  \/ Holds(fs["to"], op.to)
  \/ /\ op.conflict = "Replace"
     /\ Holds(fs["to"], op.from) \/ \E n \in hidden : Holds(n, op.to)

OldTargetIsSafe ==
  (Exists(op.to) /\ (op.conflict = "Replace" => SameSort(op.from, op.to)))
    => OldOrNew({fs["backup"]} \cup orphans)

\* A completed entry is true: everything of the source is at the destination,
\* and a moved source is gone, also when the entry was written by a replay that
\* only compared what it found (copy.rs copy_path_existing).
CompletedIsDone ==
  LastStatus = Completed =>
    /\ Holds(fs[target], op.from)
    /\ op.kind = "move" => ~Exists(fs["from"])

\* A completed, skipped or cancelled operation is over: no later attempt, retry
\* or recovery touches a file or writes to the journal for it.
EndIsFinal ==
  [][(journal # <<>> /\ LastStatus \in {Completed, Skipped, Cancelled})
        => UNCHANGED <<fs, journal>>]_vars

-----------------------------------------------------------------------------
(* What the documentation says of this code and the code does not do *)

\* "Replacement never deletes a valid existing destination before the
\* replacement is ready" (docs/operation-recovery.md): the promise of
\* OldTargetIsSafe without its restriction to items of the same sort.
ReplacementIsReadyFirst ==
  Exists(op.to) => OldOrNew({fs["backup"]} \cup orphans)

\* "If replacement install failed after backup, restore the backup before
\* reporting failure": an operation that ended without success has the old or
\* the new item at the destination, not only in a hidden sibling.
FailureRestoresTarget ==
  (/\ pc = "idle" /\ LastStatus \in Failures
   /\ Exists(op.to) /\ (op.conflict = "Replace" => SameSort(op.from, op.to))) => OldOrNew({})

\* "No mutation without an access-gate decision": an operation that the gate
\* refused changes nothing.
RefusedChangesNothing ==
  ~op.granted => fs["from"] = op.from /\ fs["to"] = op.to

\* "If the destination already matches the intended result, complete without
\* duplicating work": no move is reported as failed when it is done.
DoneIsNotFailed ==
  pc = "idle" /\ LastStatus \in Failures /\ op.kind = "move"
    => Exists(fs["from"]) \/ ~Holds(fs[target], op.from)

\* byte_copy_cancellation_removes_partial_destination (crates/ops/src/tests.rs):
\* a cancelled copy leaves no unfinished file at a destination that was free.
CancelledLeavesNoPart ==
  pc = "idle" /\ LastStatus = Cancelled /\ budget["fault"] = Budget["fault"]
    => ~(fs[target].kind = "file" /\ ~fs[target].whole)
=============================================================================
