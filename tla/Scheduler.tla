------------------------------ MODULE Scheduler ------------------------------
(***************************************************************************)
(* gfm_jobs::Scheduler (crates/jobs/src/lib.rs): a priority queue of jobs  *)
(* with ledgers of cancelled, completed and failed job ids. It is owned by *)
(* one thread, so an operation is one step; but most operations take a     *)
(* check_control callback that may stop them half way, and promise to      *)
(* leave the scheduler as it was then.                                     *)
(*                                                                         *)
(* The queue is the set of queued ids: BinaryHeap order is computed by     *)
(* Before. An operation that is stopped while it only stages its result    *)
(* changes nothing, so it needs no action; the operations that mutate and  *)
(* can still be stopped afterwards have an Interrupted action.             *)
(***************************************************************************)
EXTENDS Integers, Sequences, FiniteSets, SequencesExt

CONSTANTS
  MaxJobs,      \* bound on the jobs scheduled in a behaviour
  MaxReport,    \* bound on the outcomes in one worker report
  Volumes,      \* VolumeIds
  NoVolume,     \* Job.volume = None
  Shapes,       \* [priority, class, volume] a caller may schedule with
  Retention     \* COMPLETED_DEPENDENCY_RETENTION

ASSUME SchedulerAssumption ==
  /\ MaxJobs \in Nat /\ MaxReport \in Nat
  /\ Retention \in Nat \ {0}
  /\ NoVolume \notin Volumes
  /\ \A s \in Shapes : s.priority \in Nat /\ s.volume \in Volumes \cup {NoVolume}

VARIABLES
  next,             \* AtomicU64: the last id handed out
  job,              \* every job scheduled so far
  queue,            \* ids in the BinaryHeap
  cancelled,        \* ids whose cancellation is requested or reported
  completed, completed_order,
  failed, failed_order,
  tokens,           \* ids whose Cancellation token has been set
  handed            \* history: ids returned to the caller

ledgers == <<completed, completed_order, failed, failed_order>>
vars == <<next, job, queue, cancelled, ledgers, tokens, handed>>

Ids == 1..next

Init ==
  /\ next = 0
  /\ job = <<>>
  /\ queue = {} /\ cancelled = {} /\ tokens = {} /\ handed = {}
  /\ completed = {} /\ completed_order = <<>>
  /\ failed = {} /\ failed_order = <<>>

-----------------------------------------------------------------------------
(* Helpers. *)

\* QueuedJob::cmp: higher priority first, then lower id.
Before(i, j) ==
  \/ job[i].priority > job[j].priority
  \/ job[i].priority = job[j].priority /\ i < j

Dependencies(ids) == UNION {job[j].dependencies : j \in ids}

\* Mutant: the oldest ids go, whether a queued job refers to them or not.
PruneIgnoringQueue(q, ids, order) ==
  LET kept == SelectSeq(order, LAMBDA i : i \in ids)
      extra == IF Len(kept) > Retention THEN Len(kept) - Retention ELSE 0
  IN  [ids |-> ids \ ToSet(SubSeq(kept, 1, extra)),
       order |-> SubSeq(kept, extra + 1, Len(kept))]

\* Mutant: pruning gives up at the first id that is still referred to.
PruneUntilReferenced(q, ids, order) ==
  LET kept == SelectSeq(order, LAMBDA i : i \in ids)
      extra == {n \in 0..Len(kept) :
                  /\ n = 0 \/ n <= Len(kept) - Retention
                  /\ \A k \in 1..n : kept[k] \notin Dependencies(q)}
      n == CHOOSE n \in extra : \A m \in extra : m <= n
  IN  [ids |-> ids \ ToSet(SubSeq(kept, 1, n)),
       order |-> SubSeq(kept, n + 1, Len(kept))]

\* retain: the entries of the order that are in ids, each at its rank among them.
Positions(order, ids, n) == {k \in 1..n : order[k] \in ids}
Within(order, ids) ==
  LET places == Positions(order, ids, Len(order))
      Place(rank) == CHOOSE n \in places : Cardinality(Positions(order, ids, n)) = rank
  IN  [rank \in 1..Cardinality(places) |-> order[Place(rank)]]

Without(order, ids) == Within(order, ToSet(order) \ ids)

\* prune_completed_ledger_parts, turn by turn: the front is dropped, or put to the
\* back when it is referred to, until Retention are left or a whole turn drops nothing.
PruneLoop(referenced, ids, order) ==
  LET loop[o \in Seq(Nat), rotated \in Nat] ==
        IF Len(o) <= Retention \/ rotated >= Len(o) THEN [order |-> o, removed |-> {}]
        ELSE IF Head(o) \in referenced
             THEN loop[Append(Tail(o), Head(o)), rotated + 1]
             ELSE LET rest == loop[Tail(o), 0]
                  IN  [rest EXCEPT !.removed = @ \cup {Head(o)}]
      result == loop[SelectSeq(order, LAMBDA i : i \in ids), 0]
  IN  [ids |-> ids \ result.removed, order |-> result.order]

\* What the loop comes to (MCScheduler compares the two): the excess of ids that are
\* not referred to is dropped, oldest first. The order then starts behind the last one
\* dropped, with the ids that were passed on the way at its end.
PruneParts(referenced, ids, order) ==
  LET kept == Within(order, ids)
      Free(n) == {k \in 1..n : kept[k] \notin referenced}
      dropped == {n \in Free(Len(kept)) : Cardinality(Free(n)) + Retention <= Len(kept)}
      last == Max(dropped \cup {0})
  IN  [ids |-> ids \ {kept[n] : n \in dropped},
       order |-> SubSeq(kept, last + 1, Len(kept)) \o Within(SubSeq(kept, 1, last), referenced)]

\* A queued job refers to its dependencies.
Prune(q, ids, order) == PruneParts(Dependencies(q), ids, order)

\* prune_completed_ledger: both ledgers, against the queue q.
PruneLedgers(q, done, done_order, bad, bad_order) ==
  LET c == Prune(q, done, done_order)
      f == Prune(q, bad, bad_order)
  IN  /\ completed' = c.ids /\ completed_order' = c.order
      /\ failed' = f.ids /\ failed_order' = f.order

-----------------------------------------------------------------------------
(* Scheduling and cancelling. *)

\* schedule_with_options, behind every schedule_* entry point.
Schedule(shape, deps) ==
  /\ next < MaxJobs
  /\ next' = next + 1
  /\ job' = Append(job, [priority |-> shape.priority, class |-> shape.class,
                         volume |-> shape.volume, dependencies |-> deps])
  /\ queue' = queue \cup {next + 1}
  /\ UNCHANGED <<cancelled, ledgers, tokens, handed>>

Cancel(id) ==
  /\ cancelled' = cancelled \cup {id}
  /\ UNCHANGED <<next, job, queue, ledgers, tokens, handed>>

bind_volume(id, v) ==
  /\ id \in queue   \* nothing happens to any other id
  /\ job' = [job EXCEPT ![id].volume = v]
  /\ UNCHANGED <<next, queue, cancelled, ledgers, tokens, handed>>

\* cancel_volume_jobs, restricted to some classes (or payload kinds).
cancel_volume_jobs(v, classes) ==
  LET hit == {j \in queue : job[j].volume = v /\ job[j].class \in classes}
  IN  /\ queue' = queue \ hit
      /\ cancelled' = cancelled \ hit
      /\ tokens' = tokens \cup hit
      /\ UNCHANGED <<next, job, ledgers, handed>>

-----------------------------------------------------------------------------
(* Recording outcomes. *)

\* Mutant: the completion is not entered into the pruning order.
MarkWithoutOrder(id) ==
  /\ cancelled' = cancelled \ {id}
  /\ PruneLedgers(queue, completed \cup {id}, completed_order, failed, failed_order)
  /\ UNCHANGED <<next, job, queue, tokens, handed>>

\* mark_completed. It leaves the failed ledger's entry alone.
mark_completed(id) ==
  /\ cancelled' = cancelled \ {id}
  /\ LET order == IF id \in completed THEN completed_order
                  ELSE Append(completed_order, id)
     IN  PruneLedgers(queue, completed \cup {id}, order, failed, failed_order)
  /\ UNCHANGED <<next, job, queue, tokens, handed>>

\* mark_completed_checked stopped after its mutation: it takes it back.
mark_completed_interrupted(id) ==
  /\ completed_order' = IF id \in completed THEN completed_order
                        ELSE Without(completed_order, {id})
  /\ UNCHANGED <<next, job, queue, cancelled, completed, failed, failed_order,
                 tokens, handed>>

\* apply_worker_report of one outcome per reported job. A report with two
\* outcomes for a job is refused before anything is assigned. Outcomes come
\* sorted by id, so new ledger entries are appended in that order.
apply_worker_report(report) ==
  LET with(s) == {i \in DOMAIN report : report[i] = s}
      done == with("Completed")
      dropped == with("Cancelled")
      bad == with("Failed")
      appended(ids) == Within([i \in Ids |-> i], ids)
  IN  /\ cancelled' = (cancelled \ (done \cup bad)) \cup dropped
      /\ PruneLedgers(queue,
           (completed \ (dropped \cup bad)) \cup done,
           Without(completed_order, dropped \cup bad) \o appended(done \ completed),
           (failed \ (dropped \cup done)) \cup bad,
           Without(failed_order, dropped \cup done) \o appended(bad \ failed))
      /\ UNCHANGED <<next, job, queue, tokens, handed>>

-----------------------------------------------------------------------------
(* Taking jobs out of the queue. *)

\* pop_next: cancelled jobs on the way to the first live one are dropped.
pop_next(id) ==
  /\ id \in queue \ cancelled
  /\ LET skipped == {j \in queue : Before(j, id)}
     IN  /\ skipped \subseteq cancelled
         /\ queue' = queue \ (skipped \cup {id})
         /\ cancelled' = cancelled \ skipped
         /\ tokens' = tokens \cup skipped
  /\ handed' = handed \cup {id}
  /\ UNCHANGED <<next, job, ledgers>>

\* pop_next with only cancelled jobs left: the queue is emptied.
pop_next_none ==
  /\ queue # {} /\ queue \subseteq cancelled
  /\ queue' = {}
  /\ cancelled' = cancelled \ queue
  /\ tokens' = tokens \cup queue
  /\ UNCHANGED <<next, job, ledgers, handed>>

\* stage_ready_drain: a queued job that is completed already is passed over,
\* a cancelled one is cancelled, the others are ready.
StagedCancelled == (queue \ completed) \cap cancelled
StagedReady == (queue \ completed) \ cancelled

drain_ready ==
  /\ queue' = {}
  /\ tokens' = tokens \cup StagedCancelled
  /\ cancelled' = cancelled \ StagedCancelled
  /\ handed' = handed \cup StagedReady
  /\ UNCHANGED <<next, job, ledgers>>

\* JobFairnessPlanner: ready jobs with a dependency not yet completed, neither
\* in the ledger nor among the extra ids that the caller passes (of jobs it was
\* given and has seen complete).
PlanBlocked(extra) ==
  {j \in StagedReady : ~(job[j].dependencies \subseteq completed \cup extra)}

\* The part of drain_fair_ready up to the refilling of the queue.
CommitDrain ==
  /\ tokens' = tokens \cup StagedCancelled
  /\ cancelled' = cancelled \ StagedCancelled
  /\ UNCHANGED <<next, job>>

PruneAfterDrain ==
  PruneLedgers(queue', completed \ cancelled', completed_order,
               failed \ cancelled', failed_order)

\* Mutant: the jobs handed out are put back with the blocked ones.
DrainKeepingAll(extra) ==
  /\ CommitDrain
  /\ queue' = StagedReady
  /\ handed' = handed \cup (StagedReady \ PlanBlocked(extra))
  /\ PruneAfterDrain

\* Mutant: the blocked jobs are not put back.
DrainWithoutRefill(extra) ==
  /\ CommitDrain
  /\ queue' = {}
  /\ handed' = handed \cup (StagedReady \ PlanBlocked(extra))
  /\ PruneAfterDrain

drain_fair_ready(extra) ==
  /\ CommitDrain
  /\ queue' = PlanBlocked(extra)
  /\ handed' = handed \cup (StagedReady \ PlanBlocked(extra))
  /\ PruneAfterDrain

\* drain_fair_ready_checked stopped while it refills the queue, in the order
\* in which the jobs were staged: the plan is discarded and the queue holds
\* only the blocked jobs pushed so far; the ledgers are not pruned.
drain_fair_ready_interrupted(extra) ==
  /\ CommitDrain
  /\ \E stop \in PlanBlocked(extra) :
       queue' = {j \in PlanBlocked(extra) : Before(j, stop)}
  /\ completed' = completed \ cancelled'
  /\ failed' = failed \ cancelled'
  /\ UNCHANGED <<completed_order, failed_order, handed>>

-----------------------------------------------------------------------------
TaskStatus == {"Completed", "Cancelled", "Failed"}

Reports ==
  UNION {[S -> TaskStatus] :
           S \in {T \in SUBSET handed : T # {} /\ Cardinality(T) <= MaxReport}}

Next ==
  \/ \E shape \in Shapes, deps \in SUBSET Ids : Schedule(shape, deps)
  \/ \E id \in Ids \ cancelled : Cancel(id)
  \/ \E id \in queue, v \in Volumes : bind_volume(id, v)
  \/ \E v \in Volumes, classes \in (SUBSET {s.class : s \in Shapes}) \ {{}} :
       cancel_volume_jobs(v, classes)
  \/ \E id \in Ids : mark_completed(id)
  \/ \E id \in Ids : mark_completed_interrupted(id)
  \/ \E report \in Reports : apply_worker_report(report)
  \/ \E id \in Ids : pop_next(id)
  \/ pop_next_none
  \/ drain_ready
  \/ \E extra \in SUBSET handed : drain_fair_ready(extra)
  \/ \E extra \in SUBSET handed : drain_fair_ready_interrupted(extra)

Spec == Init /\ [][Next]_vars

-----------------------------------------------------------------------------
(* Correctness. *)

TypeOK ==
  /\ next \in 0..MaxJobs
  /\ DOMAIN job = Ids
  /\ \A S \in {queue, cancelled, completed, failed, tokens, handed} :
       S \subseteq Ids
  /\ ToSet(completed_order) \subseteq Ids /\ ToSet(failed_order) \subseteq Ids

LeftQueueProperly(j) == j \in handed' \/ j \in tokens' \/ j \in completed

\* No operation loses a queued job: a job leaves the queue only by being
\* returned to the caller, by having its token cancelled or because it was
\* recorded as completed. A fair drain stopped while it refills the queue is
\* the exception: see StoppedDrainLosesNothing.
NoJobLost ==
  [][\/ \A j \in queue \ queue' : LeftQueueProperly(j)
     \/ \E extra \in SUBSET handed : drain_fair_ready_interrupted(extra)]_vars

\* What checked_fair_drain_preserves_queue_when_cancelled_during_planning says
\* of drain_fair_ready_checked: it stops without committing queue changes.
StoppedDrainLosesNothing ==
  [][\A j \in queue \ queue' : LeftQueueProperly(j)]_vars

\* A job is returned to the caller at most once: drains and pops take it out of
\* the queue, and refilling the queue after a fair drain puts none of them back.
HandedOutOnce == queue \cap handed = {}

\* Bounding the ledger never forgets a completion that a queued job waits for:
\* it goes only when the dependency is itself cancelled or reported as failed.
AwaitedCompletionsStay ==
  [][\A d \in completed \cap Dependencies(queue \cap queue') :
       d \in completed' \cup cancelled' \cup failed']_vars

\* Every recorded completion or failure can still be found and dropped by the
\* pruning: none leaks out of the order lists, even after interruptions.
LedgersPrunable ==
  completed \subseteq ToSet(completed_order) /\ failed \subseteq ToSet(failed_order)

\* The ledger is bounded: nothing leaks out of what the pruning can find, and
\* recording completions leaves at most Retention of them, unless all are
\* still waited for.
LedgerBounded ==
  [][/\ LedgersPrunable'
     /\ ~(completed' \subseteq completed) =>
          \/ Len(completed_order') <= Retention
          \/ ToSet(completed_order') \subseteq Dependencies(queue')]_vars

=============================================================================
