# A TLA+ verification project for gfm

gfm is a file manager and file-search engine for macOS written in Rust. This
directory holds TLA+ models of the parts of it that keep state: the job layer
on which everything else runs, file operations and the Trash, the live index
and its event queue, the files that outlive a process with their recovery, the
mounted volumes, and the caches and previews of a session. With the models come
the TLC configurations that check them on small instances, and TLAPS proofs, for
every instance, of nearly all of the safety properties that the runs check.

Run a check with `tlc -config MCWorkerPool.cfg MCWorkerPool` (likewise for the
others) and the proofs with `tlapm WorkerPoolProofs.tla`.

## 1. Inventory

| Component | State | Operations | Hard parts | What makes it correct |
|---|---|---|---|---|
| Isolated task queue (`jobs/isolated.rs`, policies in `fair.rs`, `schedule.rs`) | pending tasks, leases, leases per volume, completed and failed ids, admission cursor | `next`, `release`, lease drop | shared by threads under a mutex and a condition variable; dependency cycles; limits | limits hold, dependencies first, no class starves, nothing waits for ever |
| Worker pool (`jobs/lib.rs`) | threads, outcome list | `run_isolated_fair`, `run_retriable_isolated_fair` | panics while a lease is out; sleepers; cancellation | one outcome per task, the call returns |
| Scheduler (`jobs/lib.rs`) | priority heap; cancelled, completed and failed ledgers with their pruning order | schedule, cancel, bind volume, cancel by volume, mark completed, apply report, pop, drain, fair drain | every operation can be stopped by a control callback; the ledgers are bounded | no job lost or handed out twice; pruning never forgets an awaited completion |
| Cancellation (`jobs/cancel.rs`) | tree of flags with weak links both ways | `cancel`, `child`, `is_cancelled` | lock-free checks race with cancel, creation and drops | stays in the branch, reaches it, never goes back |
| Retriable execution and journal (`jobs/lib.rs`, `retry.rs`) | append-only journal file; attempt loop | attempts, backoff, `append`, `recoverable` | crashes, failing appends, cancellation between attempts | interrupted work is recovered, ended work is not repeated, retries are capped |
| Scheduling pressure (`jobs/schedule.rs`) | none | pure decision | thresholds | foreground work is never deferred |
| Progress store, payload catalog, restore plan (`jobs/progress.rs`, `restore.rs`, `app/runtime.rs`) | two files, each replaced by one rename | upsert, pause, resume, stop, restore | crashes and failed writes between the files; several processes read, modify and replace without a lock | what did not end can be restored with its payload, what ended cannot |
| Operation engine (`ops/`) | operation journal; the file tree | execute, pause, cancel, retry, recover | a crash or a failing call at any point of copy, move, replace | no data is lost, completed means done, ended operations are left alone |
| Trash (`ops/trashmeta.rs`, `removal.rs`) | the Trash; a metadata file | trash, restore, delete, empty | a stop between the item and its entry | what is in the Trash can be restored |
| Event queue and live index (`index/backpressure.rs`, `live.rs`, `rename.rs`, `mac/watch.rs`) | two bounded queues; one record per path and identity | deliver, coalesce, drop, drain, apply, roll back | late, merged, dropped and cancelled events, applied against a disk that has moved on | the index converges to the disk, or a repair is required |
| Index files and cursor (`index/lib.rs`, `state.rs`, `recovery.rs`, `cursor.rs`) | record file, state file, cursor | build, decide, checkpoint, recover | two files replaced one after the other; damage; unreachable root | records are kept, recovery settles, a cursor belongs to its scan |
| Repair schedule (`index/repair.rs`) | none: a function of the event ids observed | gaps, dropped roots, coalescing | ids late, repeated or missing | nothing lost goes without a scan |
| Content manifest (`store/contentset.rs`, `contentrecover.rs`, `index/content.rs`) | archives, manifest, promotion journal | promote, maintain, clean up, recover | a crash between files; damaged files | published content stays searchable |
| Background content index (`app/content.rs`, `index/content.rs`, `content/quarantine.rs`, `ocr.rs`) | record archive, content archive, extractor versions, quarantine, image queue, recognized texts | scan, compare, extract, compact, recognize | six files replaced one after the other by an attempt that can be stopped; files that change under it | the archive holds the text of each file as it is recorded |
| Volume events (`mac/volume.rs`) | list of volumes with two indexes | report, coalesce, drain, put back | reports resolved late and in batches | the list is what is mounted |
| Query caches (`index/session.rs`) | values, generations, a lazily cleaned order queue | get, insert, evict, compact, invalidate | the queue holds stale stamps | a least-recently-used cache within its budget |
| Preview scheduler (`preview/schedule.rs`) | tasks in flight, policy, tokens | schedule, finish, cancel, pressure | superseded tasks, limits that shrink while previews run | limits hold, no live preview is forgotten |
| Search, document parsers, fs, config, types, ui, other macOS bridges, telemetry, diagnostics, packaging, testkit, app | mostly none | parsing, I/O, layout, reports | data, not control | outside these models |

How they interact. A caller schedules jobs with the Scheduler, takes them out
with a fair drain, wraps each in a Task with its closure and gives the batch to
a WorkerPool. The pool's threads share one isolated task queue. Each job has a
Cancellation token; whoever holds a clone of the job may cancel it, and work
passes child tokens on. Retriable tasks are run by the same pool with an
attempt loop that writes a journal. The pool's WorkerReport goes back to the
Scheduler, whose ledgers decide which of the jobs still queued are ready next.
The runtime wraps a command in a job, enters it in the payload catalog and the
progress store, and takes up from there what an earlier process left. Such a
command runs a file operation, builds or recovers an index, or builds and
maintains the content archives, each of which keeps its own files. The watcher's events pass
through the event queue into the live index, and a lost event becomes a repair
job; DiskArbitration's reports keep the list of volumes, which decides what is
indexed. The last three groups meet only through commands and files, and
share no variable.

`PROJECT.json` lists every component with its status, and every hazard with
its line and the properties that would catch it.

## 2. Modules

| Module | What it is |
|---|---|
| `IsolatedQueue` | the task queue and its policies: state and transitions, no threads |
| `WorkerPool` | extends it with the worker threads, the outcome list and the caller |
| `JobLifecycle` | what a batch promises, with no queue or thread: the abstract specification WorkerPool implements |
| `AdmissionFairness` | extends `IsolatedQueue` with a history variable that counts how often a class is passed over |
| `Scheduler` | the scheduler and its ledgers |
| `Cancellation` | the token tree under concurrent calls |
| `RetriableJobs` | the attempt loop, the journal, crashes and recovery |
| `OperationEngine` | one journaled copy or move, with retries and recovery, one system call a step |
| `TrashMetadata` | trash, restore, delete and Empty Trash with the metadata file |
| `JobProgress` | payload catalog and progress store, and the runtime that writes them |
| `EventQueue` | the bounded, coalescing, two-priority event queue |
| `LiveIndex` | file system, watcher, `EventQueue` and live index together |
| `IndexRecovery` | record file, state file and cursor of a volume |
| `RepairSchedule` | which subtrees a resumed event stream has to scan again |
| `ContentManifest` | content archives, their manifest and the promotion journal |
| `ContentIndexing` | the attempts of the background content job over its files |
| `VolumeEvents` | the volume event stream and its state |
| `QueryCache`, `LruCache` | a cache of a query session, and the least-recently-used cache it implements |
| `PreviewScheduler` | previews in flight under limits and pressure |
| `SchedulerProofs`, `CancellationProofs` | lemmas and theorems about the module of that name |
| `WorkerPoolProofs` | the same about `IsolatedQueue`, `WorkerPool` and `AdmissionFairness` |
| `JobsRunAgainProofs` | about `RetriableJobs` and `ContentIndexing` |
| `FileOperationsProofs` | about `OperationEngine` and `TrashMetadata` |
| `DurableFilesProofs` | about `IndexRecovery`, `ContentManifest` and `JobProgress` |
| `EventStreamsProofs` | about `VolumeEvents` and `RepairSchedule` |
| `SessionProofs` | about `QueryCache`, `PreviewScheduler` and `MCSession` |
| `MCWorkerPool`, `MCScheduler`, `MCCancellation`, `MCRetriableJobs`, `MCContentIndexing` | instances of one component for TLC |
| `MCSharedByWorkers`, `MCJobsRunAgain`, `MCFileOperations`, `MCEventStreams`, `MCDurableFiles`, `MCSession` | instances of several components each |

The last six put components that share no state side by side: a variable
`part` says which of them a behaviour follows, and the others rest. Steps of
such components commute, so a property of one of them holds in every
interleaving exactly if it holds while the others rest.

Definitions keep the names of the code (`lease_next` and `release` are the
two critical sections of the queue; `admissible_volume`,
`dependencies_completed`, `drain_fair_ready` and so on are the functions of
that name). Definitions marked *Mutant* are wrong versions of the definition
that follows them. They are not used by any specification; put in place of
the right one, each makes a property fail, which shows that the property says
something about the code.

**IsolatedQueue.** A job is its position in the submitted vector, since removal
from the `VecDeque` keeps the order. One call of `next()` is one step, because
it holds the mutex throughout: either `lease_next` (the first admissible task
of the first class, from the cursor on, that has one), or
`remove_dependency_blocked`, or nothing. `IsolatedRetriableTaskQueue` repeats
the same code over another task type; the module stands for both.

**WorkerPool.** `pc` follows a worker through its loop: `next()`, waiting on
the condition variable, holding a lease before and during the work, finishing,
reporting. `lease.finish()` and the push of the outcome are separate steps,
because they take separate locks. A panic drops the lease, which releases it
as failed and notifies, and ends the thread. Condition variables may wake
spuriously. In the retriable variant a worker's work is the attempt loop of
`RetriableJobs`.

**JobLifecycle.** Queued, running, completed or failed. `Start` requires the
dependencies and a free slot; `GiveUp` requires that the job is in a set of
jobs none of which can ever complete.

**Scheduler.** The heap is the set of queued ids ordered by `Before`. Most
operations stage their result and assign it at the end, so a stop changes
nothing. Two mutate and can be stopped afterwards: `mark_completed` rolls back,
and `drain_fair_ready` does not. Both interruptions are actions.
`handed` and `tokens` record which jobs were returned and cancelled.

**Cancellation.** A token is alive while an `Arc` to it exists: its owner's
handle or a call in progress. Each atomic load and each locked section is a
step. History variables record on which tokens `cancel()` was called and
returned, and which tokens have answered true.

**RetriableJobs.** One sequence of journal entries per job, since the journal
is only read per id. A failure carries its class. Appends are atomic and may
fail; a crash (or a panic of the work, which unwinds through the run) loses
everything but the journal, and then `recoverable` decides which jobs run again.

**OperationEngine.** `fs` holds the trees at the five paths an operation
touches: source, target, a second target for keep-both, stage and backup. `pc`
walks through `Operator` and the copy and move algorithms; a step is at most
one call that changes the tree or one append to the journal. Every step can be
followed by a crash, most can fail, and the pause and cancel flags are looked
at where the code looks at them. A replay runs in the context that
`recover_operations_from_journal` gives it, which is not the operation's own.
Contents are values with a length, because replays compare lengths.

**TrashMetadata.** The metadata file is read, changed in memory, written to a
temporary file and renamed. The system picks the name of an item in the Trash,
the metadata is keyed by the base name of where it came from. A replay has no
metadata path. Any number of processes may work on the file; `OneOperator` and
`NamesDiffer` are the conditions under which it is right.

**JobProgress.** A process takes an id above those it reads, writes the catalog
row and the progress row, and then its progress as it goes; Pause, Resume, Stop
and Restore are jobs too. A file is replaced at once, but reading and replacing
are two steps. `OneProcess` is the condition that processes take turns.

**EventQueue, LiveIndex.** An event is a kind and one path or two. The tree has
two levels, a file an identity and a version. Events are merged by the path they
lead to: the key the code builds for a rename is the joined path of both, and
joining an absolute path leaves only that one. The disk may change at any time.
The history variable `tangled` collects the top-level names where a rename was
under way together with another event of one of its names; there events can be
merged, reordered or applied too late, and the index follows no more. `Habits`
says what the environment may do besides, see section 4.
`RenameRolledBack` and `UpsertRolledBack` are the hand-written rollbacks of
cancelled events, which stay in the batch and are applied again.

**IndexRecovery, ContentManifest.** Files are absent, readable, damaged or of
another version, and are replaced at once; between two of them the process can
stop. `Plan`, `PromotionPlan` and `ManifestPlan` are the recovery plans of the
code; whether a recovery is run is up to the user. A state is written for a mount
identity: a build and a recovery write that of the root, a volume decision that of
the path it is about, which is often the mount point above the root, and a root
that is a link has another one while it cannot be reached (`mount_identity`).
`writes` and `published` record what was written and offered, and `lost` which
write of the state was the last when the count of epochs began anew, because the
state was damaged or replaced by one of another identity. Nothing locks
the manifest: `OneWriter` says that one process works on it at a time.

**ContentIndexing.** A file has a version, a text is a version and the extractor
that read it, and the archive holds a set of texts per file. An attempt reads
the files it compares with (`Begin`), saves the scanned records, plans from the
delta and the quarantine, extracts one file a step from the disk as it is then,
and replaces the archive, the image queue, the extractor versions and the
quarantine in this order. `Stop` ends it between any two of these steps; what
follows, a retry, a resumed job or a new one, is the next `Begin`. `nature` says
what an extraction can come to: a text, a skip, a failure, or an image, told by
its record (`screenshot`) or by its content (`scan`).

**RepairSchedule.** A subtree is a sequence of numbers, and one path is below
another if it extends it. The repair jobs are a set; `SortedJobs` puts each at the
place given by the number of jobs before it, and `Kept` is the loop of
`coalesce_jobs` over that order.

**VolumeEvents.** `mounted` is what is really mounted, `reports` what
DiskArbitration has reported and nobody has read. A drain takes some of them,
coalesces them (`Joined`, one turn of the loop a value), resolves each against
`mounted` as it is then, and applies them to a copy (`Staged`). The history
variable `calm` says that no volume has changed its path, that none was mounted
at a path that waiting reports of another one name, and that no drain was stopped
while it polled.

**QueryCache, PreviewScheduler.** Here and in the two modules before, each operation
runs under one lock or one `&mut self` and is one step, except that an insert
into a cache evicts in a loop of its own steps, so that the refinement sees each
eviction. The order queue is a set of stamps, because generations order it.
`finish` of a preview goes by key: the history variable `orphaned` records the
tokens of the tasks that the late end of a superseded worker took away.

## 3. Runs

| Run | Instance | Distinct states | Result |
|---|---|---|---|
| `pool` | 3 tasks, 2 workers, 1 volume with a limit clamped to 1, all dependency relations with at most one dependency per task (chains, cycles, self-dependency, unknown id) and one with two | 648 304 | holds |
| `shared_by_workers` | admission: 8 jobs of 4 classes, a one-slot volume, any number of workers; tokens: 3 tokens, 2 threads | 1 199 046 | holds |
| `scheduler` | 3 jobs of 2 shapes, retention 1, reports of up to 3 outcomes, all dependencies on earlier jobs | 36 446 (by the view `Live`) | holds |
| `scheduler_stopped` | the same | | violated (finding) |
| `cancellation_reach` | 3 tokens, 2 threads | | violated (finding) |
| `jobs_run_again` | loop: 1 job, 3 attempts, 2 crashes; documents: 2 files of 3 pairs of natures, 2 versions, 2 extractors, 1 stop | 1 676 624 | holds |
| `retriable_cancel` | 1 job, 3 attempts, no crash | | violated (finding) |
| `operations` | 266 copies and moves (3 sources, 6 targets, 5 policies, same-file, refused and byte-verified ones) with 1 crash, 2 faults, 1 stop; a Trash with 2 items, 6 operations, 2 crashes | 2 137 675 | holds |
| `event_streams` | live index: 6 paths under 3 names, 4 files, 4 changes of the disk, queue of 2; queue alone: 6 events, room for 3; repair: 4 event ids, 4 observed, 2 dropped of 5 roots; volumes: 2 on 3 paths, 4 changes | 635 730 | holds |
| `durable_files` | index: a linked root below its mount point, 2 files, 3 commands, 2 stops, 1 damage; outage: 1 outage and 1 stop or damage; content: 4 archives, 3 stops, 2 damages; maintenance; jobs: 3 jobs, 2 faults | 652 186 | holds |
| `session` | cache: 3 keys, capacity 2, 10 uses; previews: 3 items, limits 1 and 2, 3 tasks, 2 versions | 622 521 | holds |
| `content_retry` | a readable and an unreliable file, 2 versions, 2 extractors, 1 stop | | violated (finding) |

What they check:

* `pool`: `VolumeIsolation` (lease counts are exact and within the limit),
  `SleepersHaveAWaker` (no lost wakeup, although removing a blocked task does
  not notify), `RunsAfterDependencies`, `ReportIsComplete` (exactly one outcome
  per task, agreeing with the ledgers), `ImplementsLifecycle` (refinement),
  `CallReturns` (liveness).
* `shared_by_workers`: `BoundedOvertaking`: while a class has a job that could
  run, at most as many other jobs are admitted as the other classes have slots.
  `CancelStaysLocal`, `CancelIsObserved` (a check that begins after `cancel()`
  returned on a live ancestor answers true), `CancelFansOut` (`cancel()` sets
  every descendant linked before), `AnswersAreFinal`.
* `scheduler`: `NoJobLost`, `HandedOutOnce`, `AwaitedCompletionsStay`
  (pruning keeps what queued jobs wait for), `LedgerBounded` (also: no entry
  leaks out of the pruning order).
* `jobs_run_again`: `WorkIsRecoverable` (write-ahead), `JournaledEndIsFinal`
  (ended work is never run again), `AttemptsAreCapped`, `LoopEnds` (liveness);
  `ContentIsCurrent`: no file has two texts in the archive, and between jobs a
  file that is as recorded has the text of that version and extractor, or, if it
  could not be read, none and a quarantine entry that brings it up again. It
  leaves out the files whose change a stopped attempt had seen: `content_retry`
  shows why.
* `operations`: `SourceIsSafe` (the user's data is whole at the source or, for a
  move, at the target), `OldTargetIsSafe` (what was at the target is there, in a
  hidden sibling, or replaced by the complete new item), `CompletedIsDone`,
  `EndIsFinal` (nothing touches a completed, skipped or cancelled operation),
  `TrashedIsRestorable` (also: a completed Empty Trash leaves no stale entry).
* `event_streams`: `IndexIsCurrent` (with all events applied, the index is the
  disk or a repair is required, except at the names where a rename overlapped
  another event, and what goes wrong there stays there), `BackgroundIsServed`
  (liveness: of a path with a background event, that one or a later one that
  took its place comes up),
  `RepairIsExact` (a lost id leads to a scan; coalescing covers every root once,
  with the most urgent reason), `TracksMounts` (while it is `calm`, a list with
  every report drained holds what is mounted), `IndexesAgree`.
* `durable_files`: `RecordsKept` (as long as the root could be reached),
  `ContinueIsSameScan` (of cursors taken since the count of epochs last began
  anew, over builds, decisions about the root or its volume, and recoveries),
  `ContentServed` (published content is served for ever unless damaged; no
  compacted archive stays behind),
  `RecoverySettled` (index, promotion and manifest: files that need a recovery
  are recognized as such between commands, a running command comes to an end
  (liveness), and a build or a recovery that was not stopped ends with files that
  agree),
  `UnfinishedIsRestorable` (with its own payload), `EndedStaysOut`.
* `session`: `LimitsHold`, `InflightIsTracked` (a running preview is in flight or
  cancelled, or its task was taken away by the late end of a superseded worker; an
  admitted one is in flight), `ImplementsLru` (refinement).

**Bounds.** Three tasks give a chain, a cycle of two or three, a fan-in and
contention of two tasks for a volume next to an independent one; two workers
give a sleeper and a waker, and the theorems cover all sizes. Retention 1 with
three jobs makes a ledger overflow with an awaited entry, so that rotation and
removal both happen; the code's 4096 differs only in size. Its view `Live` drops
the record of a job that has left the queue: the code no longer has it then, and
no action or property reads it. Three tokens give
parent, child and grandchild, or two siblings. Two crashes give a crash in a
recovered run. Two versions and two extractors let a file and the program change
between any two of three jobs, one of which is stopped; each unreadable nature
stands beside one that can be read.

One crash, two faults and one stop let an operation crash, be replayed, fail
and be retried, and let both the installation of a replacement and the return
of its backup fail. Six Trash operations with two crashes let an item be
trashed, restored and trashed again around interruptions. Three names and four changes let a file be
renamed, overlapped by another event and moved on beside a name that is left
alone. A queue of two for files on three paths overflows; a capacity of two for three keys evicts, and
ten uses exceed the limit at which the order queue is compacted. Three stops
interrupt a promotion, its recovery, and the recovery of that. Four
changes let a volume go and come back elsewhere within one batch, or its path be
taken by the other one. The bounds in
guards are the constants named `Max...` and `Budget`.

**Deadlock** is not checked as such: a pool that has returned, a scheduler
with an empty queue, or a job that is done is meant to stop. For the pool,
the retriable jobs, the event queue and the recoveries the liveness properties
say that they do not stop early once they run.

**Fairness.** `WorkerPool` and `RetriableJobs` assume weak fairness of every
worker's next step: operating-system threads are scheduled, and work is
assumed to return, fail or panic. Nothing is assumed of spurious wakeups,
cancellations or crashes. A critical section is one step, so weak fairness of
a worker also says that it gets the queue's mutex in the end; a batch needs
finitely many critical sections besides those of spurious wakeups.
`MCEventStreams` assumes that the consumer keeps taking batches with room for
more than one burst of visible events; with shorter ones background events
would starve, because the burst starts anew in each batch. `MCDurableFiles`
assumes that a command that is running goes on (weak fairness). That a recovery is
run is not assumed: it is a command the user gives (app/diagnostics.rs:167,
app/manifest.rs:934 and 1187), and no other path of the program calls it.

## 4. Findings

* `scheduler_stopped`: `drain_fair_ready_checked` clears the queue and then
  still calls `check_control()?` for each blocked job it puts back. Stopped
  there, it loses the jobs of its plan and the blocked jobs not yet pushed.
* `cancellation_reach`: a child created while its parent is being cancelled, or
  cut off by a dropped intermediate token, is never told.
* `retriable_cancel`: a cancellation after the backoff's last check is returned
  as `Cancelled` without a journal entry, so the journal still says that the
  job is to be retried.
* `content_retry`: `run_content_job` saves the scanned records before it
  extracts. An attempt stopped after that is followed by one that finds every
  file unchanged and completes: what was new or modified is not in the archive,
  and what was modified is still found by its old text, until it changes again.

Besides, in `ContentIndexing`: the image queue is replaced by the candidates of
the last job, so images that were not recognized in time drop out, and a text
recognized later is not taken over while its file stays unchanged; a file skipped
because it was too large under pressure is not looked at again; failures counted
by an attempt that is stopped before it writes the quarantine are forgotten; and
a file brought up again by its quarantine entry is read without a tombstone, so
that, after an attempt stopped over it, its archive can hold two versions.
`OneVersion` and `Right` are stated so as to allow these.

Divergences the models show outside the configured instances. Each
is met by checking the named property (`part` fixed where it is one of an MC
module) with the constants given; the runs above exclude it by their constants,
so that they show what holds besides.

| Where | Change | Property | What happens |
|---|---|---|---|
| `ops/verify.rs:35` | `SizeOf` equal for `"new"` and `"old"` | `SourceIsSafe` | a replayed move takes an older target of the same length for its own finished copy and deletes the source |
| `ops/target.rs:154` | none | `ReplacementIsReadyFirst` | a target of another sort is deleted before anything of the new item is written (docs/operation-recovery.md:153 says it never is) |
| `ops/target.rs:70` | none | `FailureRestoresTarget` | a crash between the two renames of a staged replacement and a failed recovery leave the old folder only under a hidden name (docs/operation-recovery.md:131) |
| `app/operation.rs:368` | none | `RefusedChangesNothing` | a refused operation journaled as started by a process that then crashed is replayed in a context that allows everything (docs/operation-recovery.md:315) |
| `ops/relocate.rs:28` | none | `DoneIsNotFailed` | a move that crashed after its rename is replayed, finds no source and is journaled as failed (docs/operation-recovery.md:123) |
| `ops/transfer.rs:70` | none | `CancelledLeavesNoPart` | a cancellation found at the top of the copy loop leaves the partial file (crates/ops/src/tests.rs:620 expects none) |
| `ops/trashmeta.rs:157` | `NameOf` equal for two items | `RestoredToItsOrigin` | entries are keyed by base name: one item is restored to the other's home |
| `ops/removal.rs:106` | the same, `Deletable = {"home", "trash"}` | `RemovalAfterDelete` | deleting a file outside the Trash removes the entry of a trashed file of its name |
| `ops/trashmeta.rs:157` | `Procs` of two | `RemovalAfterDelete` | two writers lose each other's entries |
| `app/operation.rs:368` | none | `ReplayedIsRestorable` | a replayed trash operation has no metadata path and records no entry |
| `app/runtime.rs:809` | `Procs` of two | `EndedStaysOut` | a running job writes its progress over a Stop |
| `app/runtime.rs:539` | `Procs` of two | `RestorableHasPayload` | two processes take the same id for different jobs |
| `preview/schedule.rs:451` | none | `RunningIsTracked` without `orphaned` | a superseded worker that finishes late removes the task of its successor, which runs on untracked with a live token |
| `index/backpressure.rs:241` | none | `IndexIsCurrent` without `tangled` | a waiting rename is replaced by a later event of the path it leads to and is never applied: the records stay under the old name or are lost, without a repair (PLAN.md:1089 counts renames among what events keep fresh) |
| `index/rename.rs:35` | none | the same | a folder that moves on before its event is applied loses what is below it, without a repair |
| `mac/watch.rs:73` | `Habits = {"split_moves"}` | `IndexIsCurrent` | a rename reported as two events is a removal and a creation: the children drop out |
| `index/backpressure.rs:134` | `Habits = {"mixed_priorities"}` | `IndexIsCurrent` | an older background event of a path is applied after a newer visible one |
| `index/rename.rs:116` | none | `CancelLeavesIndex` | the rollback of a rename forgets the record it overwrote at the new path (it comes back when the event is applied again) |
| `index/content.rs:899` | maintenance with a stop | `NotStranded` | maintenance writes archive and manifest without a journal |
| `store/contentset.rs:638` | maintenance with two stops | `ContentServed` | completing an old promotion puts back a manifest that maintenance has replaced |
| `store/contentset.rs:832` | `Writers` of two | `ContentServed` | two promotions at once: the second drops what the first published |
| `index/lib.rs:571` | `MaxDamage = 2` | `RecoverySettled` | with both files damaged every recovery fails on the state file |
| `index/lib.rs:579` | `MaxOutages = 1` | `RecordsKept` without `outages = 0` | a scan of an unreachable root is saved before it is rejected |
| `index/state.rs:56` | `Damageable = {"state"}` | `ContinueIsSameScan` without `cursor.write > lost` | with the state lost the epoch restarts and can equal that of an old cursor |
| `index/state.rs:56` | `MaxDamage = MaxStops = 0` | the same | a checkpoint, a decision about the mount point, then a build, a recovery or a decision about the root: the first decision is of another mount identity, so the count of epochs restarts twice and the old cursor is continued |
| `mac/volume.rs:2242` | none | `TracksMounts` without `calm` | a volume renamed and unmounted in one batch stays listed |
| `mac/volume.rs:2481` | none | the same | a drain stopped while polling drops the reports it has taken |
| `mac/volume.rs:2282` | 3 volumes, `MaxChanges = 6` | the same, without renames and stops | a volume takes the path that waiting reports of another one name: both are listed there, a later move of one removes the other's entry of the path index, and a report that it has gone finds nothing |

## 5. Proofs

Every theorem is about `Spec` without fairness and holds for all values of the
constants that satisfy the named assumptions of the module (`QueueAssumption`,
`WorkersAssumption`, `CancellationAssumption`, `RetryAssumption`,
`SchedulerAssumption`, `CapacityAssumption`, `BoundAssumption`,
`PolicyAssumption`, `EngineAssumption`, `ConfigsAssumption`, `FilesAssumption`,
`OriginAssumption`, `ProgressAssumption`, `TrashAssumption`, `NatureAssumption`,
`VersionsAssumption`, `VolumesAssumption`, `RepairAssumption`). These say that the
constants have the types the code gives them, that operations start from whole
trees, and that files and volumes are finitely many; TLC evaluates each of them on
an instance. Bounds such as `MaxTokens`, `MaxCrashes` or `Budget` are arbitrary.

What the code does not guarantee is a hypothesis of the theorem that needs it and
not of the module: `ComparisonTells` (a replay compares lengths only), `OneWriter`,
`OneProcess` and `OneOperator` (no lock is taken on the files), `NamesDiffer`
(metadata is keyed by base name). Each is satisfied by an instance that a run
checks, and the table of section 4 says what happens without it.

| Module | Theorem | Property |
|---|---|---|
| `WorkerPoolProofs` | `PoolInvariant` | its `IInv` |
| | `PoolTypeOK` | `TypeOK` |
| | `NoLostWakeup` | `SleepersHaveAWaker` |
| | `DependencyOrder` | `RunsAfterDependencies` |
| | `VolumesIsolated` | `VolumeIsolation` |
| | `PoolImplementsLifecycle` | `ImplementsLifecycle` (refinement) |
| | `ReportComplete` | `ReportIsComplete` |
| | `NoClassStarves` | `BoundedOvertaking` |
| `CancellationProofs` | `TypeCorrect` | `TypeOK` |
| | `CancelLocality` | `CancelStaysLocal` |
| | `FinalAnswers` | `AnswersAreFinal` |
| | `CancelObserved` | `CancelIsObserved` (action property) |
| | `CancelFanOut` | `CancelFansOut` (action property) |
| `JobsRunAgainProofs` | `TypeCorrect` | `TypeOK` |
| | `RunningWorkIsRecoverable` | `WorkIsRecoverable` |
| | `AttemptsCapped` | `AttemptsAreCapped` |
| | `EndIsFinal` | `JournaledEndIsFinal` (action property) |
| | `IndexingTypes` | `IndexingTypeOK` |
| | `ContentStaysCurrent` | `ContentIsCurrent` |
| `SchedulerProofs` | `HandedOut` | `HandedOutOnce` |
| | `NoneLost` | `NoJobLost` (action property) |
| | `AwaitedStay` | `AwaitedCompletionsStay` (action property) |
| | `LedgerStaysBounded` | `LedgerBounded` (action property) |
| `SessionProofs` | `CacheTypes` | `TypeOK` of `QueryCache` |
| | `Refinement` | `ImplementsLru` (refinement) |
| | `PreviewTypesHold` | `PreviewTypeOK` |
| | `Limits` | `LimitsHold` |
| | `Tracked` | `InflightIsTracked` |
| `FileOperationsProofs` | `TypeCorrect` | `TypeOK` |
| | `EndFinal` | `EndIsFinal` (action property) |
| | `SourceSafe` | `SourceIsSafe`, given `ComparisonTells` |
| | `CompletedTrue` | `CompletedIsDone`, given `ComparisonTells` |
| | `OldTargetSafe` | `OldTargetIsSafe`, given `ComparisonTells` |
| | `TrashTypes` | `TrashTypeOK` |
| | `TrashedCanBeRestored` | `TrashedIsRestorable`, given `OneOperator` and `NamesDiffer` |
| | `EntriesGoAfterItems` | `RemovalAfterDelete` (action property), given the same |
| `DurableFilesProofs` | `IndexTypes` | `TypeOK` of `IndexRecovery` |
| | `ContinuedCursorIsCurrent` | `ContinueIsSameScan` |
| | `RecordsAreKept` | `RecordsKept` (action property) |
| | `ContentTypes` | `ContentTypeOK`, given `OneWriter` |
| | `PublishedContentIsServed` | `ContentServed`, given `OneWriter` |
| | `ProgressTypes` | `ProgressTypeOK`, given `OneProcess` |
| | `UnfinishedCanBeRestored` | `UnfinishedIsRestorable`, given `OneProcess` |
| | `EndedJobsStayOut` | `EndedStaysOut` (action property), given `OneProcess` |
| `EventStreamsProofs` | `VolumesTypes` | `VolumesTypeOK` |
| | `IndexesStayInAgreement` | `IndexesAgree` |
| | `MountsStayTracked` | `TracksMounts` |
| | `RepairTypes` | `RepairTypeOK` |
| | `RepairStaysExact` | `RepairIsExact` |

**Worker pool.** The inductive invariant `IInv` has five parts. `QueueInv`:
pending, active, completed and failed jobs partition the batch, each volume's
count is the number of its active jobs and within the limit, and the
dependencies of active jobs are completed. `LeasesMatch`: the active jobs are
exactly those that some worker holds, each held by one worker; without it
nothing links the queue's counts to the threads. `Reporting`: a worker that
reports has a job. `SleepersHaveAWaker` itself, and `TypeOK`.

The argument for the missing wakeup. A worker goes to sleep when nothing can
be handed out and tasks are pending. If no lease were out, every volume count
would be zero, so no volume is full (limits are at least one); every class has
a slot in the admission order and the search visits every slot
(`AdmissionOrderHasEveryClass`, `EverySlotIsReached`), so every pending task
lacks a dependency; but then, with nothing active, `remove_dependency_blocked`
would have found one (`IdleQueueHandsOut`). So a lease is out. When the last
lease is released everybody is notified.

The refinement maps a job to queued, running, completed or failed by the set
it is in. The step that matters is the removal of a blocked task: it maps to
`GiveUp`, with as witness the failed jobs and the removed one when a dependency
is hopeless, and all failed and pending jobs when nothing is active, each of
which waits for a member of that set or for an id outside the batch.

`ReportIsComplete` needs `ReportInv` besides: every job that left the ledgers
of pending and active jobs has its outcome pushed or is held by exactly one
worker about to push it, and workers leave the loop only when nothing is pending.

**Admission.** `BoundedOvertaking` compares a count with the slots of the other
classes. The invariant is that the last `overtaken[c]` slots behind the cursor
are none of class `c` (`PassedOver`): each lease moves the cursor past the slot
it took and passes no slot of a class with an admissible job. A count above
that would need more consecutive foreign slots than the order has, since the
slots of a class stand together.

**Cancellation.** The lineage of a token is defined without recursion, as the
least set closed under parents. The invariant says that parents are older than
their children and no live child is missing from its parent's links (`Tree`),
that a token which answered true, or on which `cancel()` returned, has its own
flag set (`Latches`), and for each call in progress which tokens it holds and
what it has still to visit (`CallsOK`). The two action properties
follow from a further fact about every step: lineages, set flags and dead
tokens stay (`Grows`), so that a descendant that `cancel()` still owes is on its
worklist, or below an entry of it that is still linked.

**Retriable jobs.** For each place of the loop the invariant says how the
journal of the job ends (`JournalAt`) and how many starts it holds (`StartsAt`):
at most the attempts of this run, and the policy's attempts for each run that
a crash ended.

**Scheduler.** The pruning of a ledger is a loop that rotates the order list.
`PruneParts` is what it comes to, and the theorems use that; `PruneLoop` is the
loop itself, and `MCScheduler` checks that they agree on every list of up to
four entries over three ids, repeated ones included (`PruneIsTheLoop`). The
loop starts from the standard filter of a sequence, so this also compares `Within`,
which gives each entry that is kept its rank among those, with `retain`. `PruneKeeps`
is the lemma behind `AwaitedCompletionsStay`. For `LedgerBounded` the inductive
invariant is that each order lists the ids of its ledger; an id may stand in it
twice, or stand there and be no longer in the ledger, after a drain was stopped
half way. Counting does the rest (`Count`): a prefix of `n` entries has `n` that are
referred to or not, and every count up to the last is reached. So either all entries
not referred to are dropped, or exactly the excess is, and `Retention` are left
(`PruneBounds`).

**Query cache.** `QueueIsComplete` is the strengthening: stamps are older than
the next generation, every cached key's own stamp is still queued, and only
the last insert exceeds the capacity. Therefore the first stamp that is not
stale is that of the least recently used key, which is what the refinement to
`LruCache` has to show of an eviction. That a nonempty set of stamps has a first
one is derived from the well-foundedness of the naturals.

**Previews.** A limit keeps the tasks of a priority that have fewer than n before
them. `RankGrows` and `FirstOnesFit` say of any strict total order on a finite
set that these are at most n and that ranks tell members apart; the first bounds
what is in flight (`ReconciledFits`) and what is admitted (`AdmittedFits`), the
second makes the tokens of new tasks differ (`StartedFacts`). `TogetherFacts`
traces each task of a call to where it comes from: one of a key that is not
desired, one that goes on, or a new one; so keys and tokens stay apart.
`ScheduledFacts` has the argument for `AdmittedIsInflight`: before the task of an
admitted item come only tasks of other admitted items of its priority, and those
are fewer than the limit because the items passed the same limit. The inductive
invariant `PreviewInv` adds to the three properties that tokens in flight were
handed out and that keys and tokens are distinct (`PreviewTypes`); so the end of a
worker removes at most one task, its own or one that is counted as orphaned. A behaviour of `MCSession` is one of each
of its parts (`SessionParts`), which gives `Limits` and `Tracked`.

**Operation engine.** Three layers, each proved with the help of the one before
and with one lemma per action.

* `Shape`: besides the types, an attempt runs only after its started entry, the
  source is the original or what a removal has left of it, and the copy works on
  children the source has, inside a directory. `EndIsFinal` follows, because only
  an operation whose journal ends with Started, Paused or a transient failure is
  taken up again.
* `Safe`: every tree the engine left is made of items it wrote for this source
  or found at this destination (`TreesAreMixed`); the source is the original, or
  it is whole at the target of a move and the engine is in a part that only
  compares or removes (`SourceIsKept`); the copy record says which children are
  missing at the destination (`CopyProgress`); a journaled or pending Completed
  is true (`EndIsDone`). The part that needs thought is a replay that finds its
  own half-finished or foreign files: it completes if each child passes a
  comparison, so `VerifiedIsSame` shows that in a mixed tree only the item itself
  passes.
* `OldIsKept`: for a destination the policy protects, the old tree is in an
  orphaned hidden sibling, or beside the target of a keep-both, or in its place:
  there it is whole, or replaced by the complete new tree, or in the backup, as
  the place of the engine says.

`ComparisonTells` is a hypothesis of the last two layers,
because the code does not guarantee it: recovery compares lengths only, and a
first attempt can turn comparing off. It says that comparing is not off and that
no item of the old destination has the length of the item of that name in the
source, unless they are equal. Without it the properties fail (first row of the
table of section 4). `MCFileOperations` states that its instance satisfies it.

**Trash.** `TrashInv` says of each place of an operation what holds of the item and
of the file: a trash has its entry on disk before the item goes, the buffer that
is being written is what the operation makes of the file as it is now (this is
where one process at a time is needed), and an item is gone before its entry goes
(`OperationAt`). Besides, an item is at home, in the Trash under its own name, or
gone; entries and restores, those in the journal included, lead home.

**Content jobs.** `Settled(d)` says that the files are right about `d`. Between jobs it
holds of every file outside `missed`. `AtSave`, `AtPlan`, `AtExtract` and `AtEnd`
follow it through an attempt: once the records are saved it holds only of what
the delta did not name, and after the compaction what was named is right too
(`Archived`), with the failures the attempt has counted but not yet written. Two
facts carry this over the steps of the environment: what was recorded or scanned
is never newer than the disk (`Lags`), and only files that fail now and then have
quarantine entries (`FailuresAreFlaky`).

**Index files.** As long as states of one mount identity follow each other, every
write of the state takes the next epoch; so a cursor taken since the count last
began anew has the identity of the state and a smaller epoch, unless it was
taken against the last write (`CursorFollows`). A build keeps the state it read,
because nothing else writes meanwhile (`BuildFollows`).

**Content manifest.** The journal of a pending promotion outlives its process, and
other promotions and cleanups may follow before it is completed.
`JournalFits` is why that is harmless: the new archive of the journal holds what
it retires, and the manifest is the one before or after that promotion
(`PublishedSound`); so completing it, at whatever time, loses nothing. After a
damage these are claimed no more (`Undamaged`); after an interrupted maintenance
the manifest may be one the journal does not know, and `ContentServed` says so.

**Progress store.** A job takes an id above all others (`TakesNewId`), writes its
payload before its first row, and owns that row: it stays restorable until the
job reports its own end, once and last (`OwnsId`). Commands aim at other rows
(`AimsAtOthers`), and whatever is written was read since the last write.

**Volumes.** `Agree` is `IndexesAgree` of any state, with types; upsert and removal
keep it case by case (`UpsertAgrees`, `RemovedAgrees`), the loops by induction.

`TracksMounts` speaks of a state with nothing left to drain, so the invariant has
to say what the waiting reports are worth. `Sound`: a listed volume is mounted
there, or a waiting report says that it went. `Complete`: a mounted volume is said
to be there by a waiting report, and not to have gone by a later one, or it is
listed and not said to go. `OwnPaths`: a path is named by the reports of one
volume, and no other is mounted there; without this a report that has gone is
matched with the wrong volume. Applying one report keeps all three for the
reports behind it (`TurnFollows`): a report of a volume that is there resolves to
that volume or to nothing (`ResolvesToItself`). Coalescing keeps them too, because
it keeps every report that a volume went and the last one that it is there
(`Same`, by induction over the batch in `CoalescedSame`). It would not for any
sequence of reports: it needs `Orderly`, that consecutive reports of a volume are
of one path and that two disappearances have an appearance between them, and
`Latest`, from which a new report is seen to be in order. The attempt to prove the
property without the second condition of `calm` led to the last row of the table
in section 4.

**Repair schedule.** The first observed id past a lost one is not the one expected,
so it opens a gap (`LostIsScheduled`). The order by path, priority and reason is
total, so the numbers of jobs before each job are all different and fill
`1..Cardinality(Jobs)` (`SortedIsSorting`). After each turn of the loop every job
so far is covered by one that is kept, none of these is below another, and of one
path the most urgent is kept (`KeptOK`): what covers a path comes before it in the
order.

**Loops.** What a loop over a batch computes is a function of the number of its turns.
Its existence and its values are shown by taking the least number of turns for
which they fail (`LeastNat`, from the well-foundedness of the naturals), which
needs no induction theorem.

**Only model-checked.** Liveness (`CallReturns`, `LoopEnds`,
`BackgroundIsServed`, `RecoverySettled`), since the prover does not handle
fairness. `IndexIsCurrent`: the argument would have to follow renames through a
queue that merges and reorders them. `PruneIsTheLoop`, because it is an induction over the turns of a loop that rotates a list.

## 6. Not modelled

* Labels, summaries, TSV output, error wording, backoff durations: no
  control depends on them, except that a failure message determines its class,
  which is modelled as the class.
* The order of the plan returned by `JobFairnessPlanner`: the scheduler
  model keeps which jobs are handed out and which are held back.
* Torn journal lines and power failure: an append to a journal and the
  replacement of a file by a rename are atomic here. (`ops/journal.rs:126`
  writes an entry and its newline in two calls: a stop between them glues the
  next entry to the line, and then the whole operation journal cannot be read.)
* Batches of operations, which run one after the other; the decisions a user
  takes per conflict; metadata, locks and packages, which can only fail a call.
* Nested directories below the second level; hard links and packages as such.
* The query path of a search session, ranking, document parsers, archive encodings:
  functions of data whose correctness is not one of interleaving or recovery.
* Budgets of an extraction and the quarantine of failed recognitions; inode
  numbers that are used again for another file.
* Foreign-function bridges other than the watcher and the volume stream.
* The disk caches of previews, thumbnails and icons.
* The poisoning of a mutex by a panic inside a critical section: the critical
  sections do not panic in a state that satisfies the invariants (the
  `expect` of `release` is `VolumeIsolation`).
* Every component whose status is `not_modelled` in `PROJECT.json`.

## 7. Plan

1. Done: queue, pool, lifecycle, fairness, scheduler, cancellation, retriable
   jobs; proofs for the pool.
2. Done: operations and Trash, progress store and payload catalog, event queue
   and live index, index files and repair, content manifest, content jobs,
   volumes, query caches and previews; the refinement of `LruCache`.
3. Done: proofs for the pool's reports, admission, tokens, retriable jobs, the
   scheduler's ledgers, the operation engine, the caches with their refinement of
   `LruCache`, and previews.
   Done: proofs for the Trash, content jobs, index files, the content manifest, the
   progress store, volumes and the repair schedule.
4. Further components: the planner and the scheduling decision as operators
   against a reference definition; a proof of `IndexIsCurrent`; the supersession of queries in a session;
   the disk cache of previews; batches of operations with per-target decisions.
