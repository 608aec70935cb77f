----------------------------- MODULE WorkerPool -----------------------------
(***************************************************************************)
(* WorkerPool::run_isolated_fair (crates/jobs/src/lib.rs): scoped threads  *)
(* share one IsolatedQueue and a mutex-protected list of outcomes. A       *)
(* worker asks the queue for a lease, checks the job's cancellation token, *)
(* runs the work, releases the lease and pushes the outcome. It sleeps on  *)
(* the queue's condition variable when the queue has nothing to hand out   *)
(* but is not empty, and exits when it is empty.                           *)
(*                                                                         *)
(* One call of next() or release() holds the queue's mutex throughout, so  *)
(* it is one step. Waiting on the condition variable releases the mutex    *)
(* atomically; notify_all moves every sleeper back to contend for it.      *)
(* Condition variables may also wake spuriously.                           *)
(***************************************************************************)
EXTENDS IsolatedQueue

CONSTANTS
  Workers,   \* the threads of the pool
  NoJob      \* a worker that holds no lease

ASSUME WorkersAssumption ==
  /\ Workers # {}
  /\ IsFiniteSet(Workers)
  /\ NoJob \notin Jobs

VARIABLES
  pc,               \* where each worker is
  lease,            \* the job each worker has a lease on or is reporting
  status,           \* the TaskStatus each worker has computed
  outcomes,         \* the TaskOutcomes pushed so far, per job in push order
  cancel_requested, \* jobs whose cancellation token is set
  scope             \* what thread::scope has done: still joining, or returned

workerVars == <<pc, lease, status, outcomes, cancel_requested, scope>>
vars == <<queueVars, workerVars>>

TaskStatus == {"Completed", "Cancelled", "Failed"}
\* A dependency-blocked task is reported as Failed with its own message.
Blocked == "Blocked"

PC == {"next", "waiting", "leased", "working", "finish", "report",
       "exited", "panicked"}

Init ==
  /\ QueueInit
  /\ pc = [w \in Workers |-> "next"]
  /\ lease = [w \in Workers |-> NoJob]
  /\ status = [w \in Workers |-> "Failed"]
  /\ outcomes = [j \in Jobs |-> <<>>]
  /\ cancel_requested = {}
  /\ scope = "joining"

TypeOK ==
  /\ QueueTypeOK
  /\ pc \in [Workers -> PC]
  /\ lease \in [Workers -> Jobs \cup {NoJob}]
  /\ status \in [Workers -> TaskStatus \cup {Blocked}]
  /\ outcomes \in [Jobs -> Seq(TaskStatus \cup {Blocked})]
  /\ cancel_requested \in SUBSET Jobs
  /\ scope \in {"joining", "returned", "panicked"}

-----------------------------------------------------------------------------
(* A worker's steps. *)

\* queue.next() returns a lease.
TakeLease(w) ==
  /\ pc[w] = "next"
  /\ \E j \in pending, offset \in Slots :
       /\ lease_next(j, offset)
       /\ lease' = [lease EXCEPT ![w] = j]
  /\ pc' = [pc EXCEPT ![w] = "leased"]
  /\ UNCHANGED <<status, outcomes, cancel_requested, scope>>

\* Mutant: the blocked task is dropped without an outcome.
DropBlocked(w) ==
  /\ pc[w] = "next"
  /\ \E j \in pending : remove_dependency_blocked(j)
  /\ UNCHANGED <<workerVars>>

\* queue.next() returns a dependency-blocked outcome, pushed in a later step.
TakeBlocked(w) ==
  /\ pc[w] = "next"
  /\ \E j \in pending :
       /\ remove_dependency_blocked(j)
       /\ lease' = [lease EXCEPT ![w] = j]
  /\ pc' = [pc EXCEPT ![w] = "report"]
  /\ status' = [status EXCEPT ![w] = Blocked]
  /\ UNCHANGED <<outcomes, cancel_requested, scope>>

\* queue.next() waits on the condition variable.
Wait(w) ==
  /\ pc[w] = "next"
  /\ NothingToHandOut
  /\ pending # {}
  /\ pc' = [pc EXCEPT ![w] = "waiting"]
  /\ UNCHANGED <<queueVars, lease, status, outcomes, cancel_requested, scope>>

\* A condition variable may return without a notification.
SpuriousWake(w) ==
  /\ pc[w] = "waiting"
  /\ pc' = [pc EXCEPT ![w] = "next"]
  /\ UNCHANGED <<queueVars, lease, status, outcomes, cancel_requested, scope>>

\* Mutant: a worker leaves only once every task has completed.
ExitWhenAllComplete(w) ==
  /\ pc[w] = "next"
  /\ NothingToHandOut
  /\ completed = Jobs
  /\ pc' = [pc EXCEPT ![w] = "exited"]
  /\ UNCHANGED <<queueVars, lease, status, outcomes, cancel_requested, scope>>

\* queue.next() returns None: the worker leaves its loop.
Exit(w) ==
  /\ pc[w] = "next"
  /\ NothingToHandOut
  /\ pending = {}
  /\ pc' = [pc EXCEPT ![w] = "exited"]
  /\ UNCHANGED <<queueVars, lease, status, outcomes, cancel_requested, scope>>

\* cancellation.check(): a cancelled job never starts its work.
CheckCancellation(w) ==
  /\ pc[w] = "leased"
  /\ IF lease[w] \in cancel_requested
     THEN /\ pc' = [pc EXCEPT ![w] = "finish"]
          /\ status' = [status EXCEPT ![w] = "Cancelled"]
     ELSE /\ pc' = [pc EXCEPT ![w] = "working"]
          /\ UNCHANGED status
  /\ UNCHANGED <<queueVars, lease, outcomes, cancel_requested, scope>>

\* The work returns Ok, Err(Cancelled) or another error.
FinishWork(w, s) ==
  /\ pc[w] = "working"
  /\ pc' = [pc EXCEPT ![w] = "finish"]
  /\ status' = [status EXCEPT ![w] = s]
  /\ UNCHANGED <<queueVars, lease, outcomes, cancel_requested, scope>>

\* Mutant: a release that notifies nobody.
NotifyNobody == pc

\* notify_all: every sleeper will contend for the mutex again.
NotifyAll == [w \in Workers |-> IF pc[w] = "waiting" THEN "next" ELSE pc[w]]

\* lease.finish(): the lease is released and all sleepers are notified.
FinishLease(w) ==
  /\ pc[w] = "finish"
  /\ release(lease[w], status[w])
  /\ pc' = [NotifyAll EXCEPT ![w] = "report"]
  /\ UNCHANGED <<lease, status, outcomes, cancel_requested, scope>>

\* The work panics: unwinding drops the lease, which releases it as Failed;
\* the thread ends without pushing an outcome.
PanicInWork(w) ==
  /\ pc[w] = "working"
  /\ release(lease[w], "Failed")
  /\ pc' = [NotifyAll EXCEPT ![w] = "panicked"]
  /\ lease' = [lease EXCEPT ![w] = NoJob]
  /\ UNCHANGED <<status, outcomes, cancel_requested, scope>>

\* The outcome is pushed under the outcome list's own mutex.
PushOutcome(w) ==
  /\ pc[w] = "report"
  /\ outcomes' = [outcomes EXCEPT ![lease[w]] = Append(@, status[w])]
  /\ pc' = [pc EXCEPT ![w] = "next"]
  /\ lease' = [lease EXCEPT ![w] = NoJob]
  /\ UNCHANGED <<queueVars, status, cancel_requested, scope>>

-----------------------------------------------------------------------------
(* The environment and the caller. *)

\* Whoever holds a clone of the job may cancel its token at any time.
Cancel(j) ==
  /\ j \notin cancel_requested
  /\ cancel_requested' = cancel_requested \cup {j}
  /\ UNCHANGED <<queueVars, pc, lease, status, outcomes, scope>>

Stopped(w) == pc[w] \in {"exited", "panicked"}

\* thread::scope joins every thread, then returns or repeats a panic. The
\* outcomes are sorted by id on return: outcomes is kept per job already.
JoinScope ==
  /\ scope = "joining"
  /\ \A w \in Workers : Stopped(w)
  /\ scope' = IF \E w \in Workers : pc[w] = "panicked" THEN "panicked"
              ELSE "returned"
  /\ UNCHANGED <<queueVars, pc, lease, status, outcomes, cancel_requested>>

WorkerStep(w) ==
  \/ TakeLease(w)
  \/ TakeBlocked(w)
  \/ Wait(w)
  \/ Exit(w)
  \/ CheckCancellation(w)
  \/ \E s \in TaskStatus : FinishWork(w, s)
  \/ PanicInWork(w)
  \/ FinishLease(w)
  \/ PushOutcome(w)

Next ==
  \/ \E w \in Workers : WorkerStep(w)
  \/ \E w \in Workers : SpuriousWake(w)
  \/ \E j \in Jobs : Cancel(j)
  \/ JoinScope

\* Threads are scheduled by the OS and work is assumed to return or panic; no
\* spurious wakeup and no cancellation is ever assumed to happen.
Fairness == (\A w \in Workers : WF_vars(WorkerStep(w))) /\ WF_vars(JoinScope)

Spec == Init /\ [][Next]_vars
FairSpec == Spec /\ Fairness

-----------------------------------------------------------------------------
(* Correctness. *)

Holding == {w \in Workers : pc[w] \in {"leased", "working", "finish"}}

\* Lease accounting: the queue's count of active leases on each volume is the
\* number of workers that hold one, on every path by which a lease ends
\* (finish, and the drop during a panic), and it never exceeds the limit.
VolumeIsolation ==
  \A v \in Volumes :
    /\ active_by_volume[v] =
         Cardinality({w \in Holding : job[lease[w]].volume = v})
    /\ active_by_volume[v] <= limit_for(v)

\* No lost wakeup: a worker sleeps only while some lease is still out, so some
\* later release() will notify it.
SleepersHaveAWaker ==
  (\E w \in Workers : pc[w] = "waiting") => Holding # {}

\* Work runs only after every dependency was released as Completed, and a job
\* in progress is never listed as finished.
RunsAfterDependencies ==
  \A w \in Holding :
    /\ job[lease[w]].dependencies \subseteq completed
    /\ lease[w] \notin (completed \cup failed)

\* The state of a job as a user of the pool sees it.
JobState ==
  [j \in Jobs |-> IF j \in pending THEN "queued"
                  ELSE IF j \in active THEN "running"
                  ELSE IF j \in completed THEN "completed"
                  ELSE "failed"]

Lifecycle == INSTANCE JobLifecycle WITH
  Limit <- [v \in Volumes |-> limit_for(v)],
  state <- JobState

\* The pool implements the job lifecycle: whatever the threads do, a job runs
\* once, after its dependencies and within its volume's limit, and a job is
\* reported as dependency-blocked only when nothing could ever complete its
\* dependencies (they failed, are not in the batch, or wait on one another).
ImplementsLifecycle == Lifecycle!Spec

\* When run_isolated_fair returns, its report has exactly one outcome for each
\* submitted task, and it agrees with the queue's own ledgers.
ReportIsComplete ==
  scope = "returned" =>
    \A j \in Jobs :
      /\ Len(outcomes[j]) = 1
      /\ outcomes[j][1] = "Completed" <=> j \in completed
      /\ outcomes[j][1] # "Completed" <=> j \in failed

\* The call returns (or panics): cycles, missing dependencies, cancellations,
\* failures and panics never leave it joining for ever.
CallReturns == <>(scope # "joining")

=============================================================================
