---------------------------- MODULE IsolatedQueue ----------------------------
(***************************************************************************)
(* The volume-isolated admission queue of crates/jobs/src/isolated.rs.     *)
(*                                                                         *)
(* A queue is created with a batch of tasks, a VolumeConcurrencyPolicy and *)
(* a JobFairnessPolicy. It hands out leases: the next task of the class    *)
(* whose turn it is, provided its dependencies have completed and its      *)
(* volume has a free slot. A task whose dependencies can no longer be met  *)
(* is removed and reported as failed. IsolatedTaskQueue and                *)
(* IsolatedRetriableTaskQueue are the same code over two task types; this  *)
(* module is both.                                                         *)
(*                                                                         *)
(* A job is named by its position in the submitted vector: VecDeque        *)
(* removal keeps the relative order, so "first in pending" is "smallest    *)
(* position still pending". Job ids are unique (Scheduler hands them out   *)
(* from one counter), so a dependency on an id of the batch is a           *)
(* dependency on a position; ids outside the batch are in UnknownIds.      *)
(***************************************************************************)
EXTENDS Integers, FiniteSets, Sequences

CONSTANTS
  N,            \* number of tasks in the batch
  UnknownIds,   \* job ids that are not in the batch
  Volumes,      \* VolumeIds
  NoVolume,     \* Job.volume = None
  RawLimit,     \* limit asked for each volume, before the policy clamps it
  RawQuota,     \* quota asked for each class, before the policy clamps it
  JobTables     \* the batches considered: functions from Jobs to JobRecord

Jobs == 1..N

JobClass == {"Foreground", "Visible", "Background", "Maintenance", "Repair"}

JobRecord == [class: JobClass,
              volume: Volumes \cup {NoVolume},
              dependencies: SUBSET (Jobs \cup UnknownIds)]

ASSUME QueueAssumption ==
  /\ N \in Nat \ {0}
  /\ UnknownIds \cap Jobs = {}
  /\ NoVolume \notin Volumes
  /\ RawLimit \in [Volumes -> Nat]
  /\ RawQuota \in [JobClass -> Nat]
  /\ JobTables \subseteq [Jobs -> JobRecord]

-----------------------------------------------------------------------------
(* Policies. Both clamp what they are given to at least one. *)

AtLeastOne(n) == IF n = 0 THEN 1 ELSE n

limit_for(v) == AtLeastOne(RawLimit[v])

quota(c) == AtLeastOne(RawQuota[c])

Repeat(c, n) == [i \in 1..n |-> c]

\* JOB_CLASS_ORDER, each class repeated as often as its quota.
admission_order ==
  Repeat("Foreground", quota("Foreground"))
    \o (Repeat("Visible", quota("Visible"))
    \o (Repeat("Background", quota("Background"))
    \o (Repeat("Maintenance", quota("Maintenance"))
    \o Repeat("Repair", quota("Repair")))))

Slots == 0..(Len(admission_order) - 1)

-----------------------------------------------------------------------------
VARIABLES
  job,                  \* the batch: never changes after Init
  pending,              \* positions not yet leased or removed
  active,               \* leased positions
  active_by_volume,     \* leases per volume (an absent key counts 0)
  completed,            \* positions released as Completed
  failed,               \* positions released as Cancelled or Failed, or blocked
  next_admission_class  \* index into admission_order

queueVars == <<job, pending, active, active_by_volume, completed, failed,
               next_admission_class>>

QueueInit ==
  /\ job \in JobTables
  /\ pending = Jobs
  /\ active = {}
  /\ active_by_volume = [v \in Volumes |-> 0]
  /\ completed = {}
  /\ failed = {}
  /\ next_admission_class = 0

QueueTypeOK ==
  /\ job \in [Jobs -> JobRecord]
  /\ pending \in SUBSET Jobs
  /\ active \in SUBSET Jobs
  /\ active_by_volume \in [Volumes -> Nat]
  /\ completed \in SUBSET Jobs
  /\ failed \in SUBSET Jobs
  /\ next_admission_class \in Slots

-----------------------------------------------------------------------------
(* What next() computes under the queue's mutex. *)

\* Mutant: a dependency counts as met as soon as it has left the queue.
DependenciesNotPending(j) == job[j].dependencies \cap pending = {}

dependencies_completed(j) == job[j].dependencies \subseteq completed

\* Mutant: off by one at the limit.
AdmissibleUpToLimit(j) ==
  \/ job[j].volume = NoVolume
  \/ active_by_volume[job[j].volume] <= limit_for(job[j].volume)

admissible_volume(j) ==
  \/ job[j].volume = NoVolume
  \/ active_by_volume[job[j].volume] < limit_for(job[j].volume)

\* The pending tasks of class c that could be leased now.
AdmissibleOf(c) ==
  {j \in pending : job[j].class = c /\ dependencies_completed(j)
                                    /\ admissible_volume(j)}

\* The class at the slot that is offset places after the cursor.
SlotAt(offset) == (next_admission_class + offset) % Len(admission_order)

ClassAt(offset) == admission_order[SlotAt(offset) + 1]

\* next_admissible() returns Some: job j, found offset places after the cursor.
Admissible(j, offset) ==
  /\ j \in AdmissibleOf(ClassAt(offset))
  /\ \A i \in AdmissibleOf(ClassAt(offset)) : j <= i
  /\ \A earlier \in 0..(offset - 1) : AdmissibleOf(ClassAt(earlier)) = {}

NothingAdmissible == \A offset \in Slots : AdmissibleOf(ClassAt(offset)) = {}

\* Mutant: a dependency that is running is not known to the queue any more.
HopelessWhileRunning(j) ==
  \E d \in job[j].dependencies :
    d \in failed \/ d \notin (pending \cup completed \cup failed)

\* Dependencies that are failed, or that no task of this batch will supply.
HopelessDependency(j) ==
  \E d \in job[j].dependencies :
    d \in failed \/ d \notin (pending \cup active \cup completed \cup failed)

\* The tasks remove_dependency_blocked() chooses its first from: those with a
\* hopeless dependency, else, when nothing runs, those still missing one.
DependencyBlocked ==
  LET hopeless == {j \in pending : HopelessDependency(j)}
  IN  IF hopeless # {} THEN hopeless
      ELSE IF active = {} THEN {j \in pending : ~dependencies_completed(j)}
      ELSE {}

-----------------------------------------------------------------------------
(* The queue's transitions. *)

\* The bookkeeping of a new lease on j.
TakeSlot(j) ==
  /\ pending' = pending \ {j}
  /\ active' = active \cup {j}
  /\ active_by_volume' = IF job[j].volume = NoVolume THEN active_by_volume
                         ELSE [active_by_volume EXCEPT ![job[j].volume] = @ + 1]
  /\ UNCHANGED <<job, completed, failed>>

\* Mutant: the cursor is not moved on.
LeaseWithoutRotation(j, offset) ==
  /\ Admissible(j, offset)
  /\ UNCHANGED next_admission_class
  /\ TakeSlot(j)

\* next() returns TaskLeaseResult::Run with a lease on j.
lease_next(j, offset) ==
  /\ Admissible(j, offset)
  /\ next_admission_class' = (SlotAt(offset) + 1) % Len(admission_order)
  /\ TakeSlot(j)

\* next() returns TaskLeaseResult::Blocked for j. No waiter is notified.
remove_dependency_blocked(j) ==
  /\ NothingAdmissible
  /\ j \in DependencyBlocked
  /\ \A i \in DependencyBlocked : j <= i
  /\ pending' = pending \ {j}
  /\ failed' = failed \cup {j}
  /\ UNCHANGED <<job, active, active_by_volume, completed, next_admission_class>>

\* next() finds nothing to hand out: it returns None, or waits.
NothingToHandOut == NothingAdmissible /\ DependencyBlocked = {}

\* Mutant: a finished lease is given back again when it is dropped.
ReleaseTwice(j, status) ==
  /\ active' = active \ {j}
  /\ completed' = IF status = "Completed" THEN completed \cup {j}
                  ELSE completed \ {j}
  /\ failed' = IF status = "Completed" THEN failed \ {j} ELSE failed \cup {j}
  /\ active_by_volume' = IF job[j].volume = NoVolume THEN active_by_volume
                         ELSE [active_by_volume EXCEPT ![job[j].volume] = @ - 2]
  /\ UNCHANGED <<job, pending, next_admission_class>>

\* release(): the lease on j ends with a status (never Started here).
release(j, status) ==
  /\ active' = active \ {j}
  /\ completed' = IF status = "Completed" THEN completed \cup {j}
                  ELSE completed \ {j}
  /\ failed' = IF status = "Completed" THEN failed \ {j} ELSE failed \cup {j}
  /\ active_by_volume' = IF job[j].volume = NoVolume THEN active_by_volume
                         ELSE [active_by_volume EXCEPT ![job[j].volume] = @ - 1]
  /\ UNCHANGED <<job, pending, next_admission_class>>

=============================================================================
