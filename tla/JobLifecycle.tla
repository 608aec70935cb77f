---------------------------- MODULE JobLifecycle ----------------------------
(***************************************************************************)
(* What running a batch of jobs promises, with no queue, lease, thread or  *)
(* admission order: a job runs once, only when its dependencies have       *)
(* completed and its volume has a free slot; it is given up unrun only     *)
(* when no continuation of the batch could ever run it.                    *)
(***************************************************************************)
EXTENDS Integers, FiniteSets

CONSTANTS
  Jobs,        \* the batch
  Volumes,     \* volumes with a concurrency limit
  Limit,       \* function from Volumes to the limit
  JobTables    \* possible batches: class, volume and dependencies of each job

VARIABLES
  job,         \* the batch's table, constant
  state        \* the state of each job

lifecycleVars == <<job, state>>

In(s) == {j \in Jobs : state[j] = s}

RunningOn(v) == {j \in In("running") : job[j].volume = v}

Init ==
  /\ job \in JobTables
  /\ state = [j \in Jobs |-> "queued"]

Start(j) ==
  /\ state[j] = "queued"
  /\ job[j].dependencies \subseteq In("completed")
  /\ job[j].volume \in Volumes =>
       Cardinality(RunningOn(job[j].volume)) < Limit[job[j].volume]
  /\ state' = [state EXCEPT ![j] = "running"]
  /\ UNCHANGED job

Finish(j, s) ==
  /\ state[j] = "running"
  /\ state' = [state EXCEPT ![j] = s]
  /\ UNCHANGED job

\* S is a set of jobs none of which can ever complete: each has failed, or is
\* queued behind a member of S or behind an id that is not in the batch.
CannotComplete(S) ==
  \A i \in S :
    \/ state[i] = "failed"
    \/ /\ state[i] = "queued"
       /\ \E d \in job[i].dependencies : d \in S \/ d \notin Jobs

Doomed(j) == \E S \in SUBSET Jobs : j \in S /\ CannotComplete(S)

GiveUp(j) ==
  /\ state[j] = "queued"
  /\ Doomed(j)
  /\ state' = [state EXCEPT ![j] = "failed"]
  /\ UNCHANGED job

Next ==
  \E j \in Jobs :
    \/ Start(j)
    \/ \E s \in {"completed", "failed"} : Finish(j, s)
    \/ GiveUp(j)

Spec == Init /\ [][Next]_lifecycleVars

=============================================================================
