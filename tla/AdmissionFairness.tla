-------------------------- MODULE AdmissionFairness --------------------------
(***************************************************************************)
(* The admission order of IsolatedQueue over time. Leases are taken and    *)
(* released in any order by an unbounded pool, so every interleaving of    *)
(* next() and release() that any number of workers can produce is here. A  *)
(* history variable counts how often each class is passed over while one   *)
(* of its jobs could have run.                                             *)
(***************************************************************************)
EXTENDS IsolatedQueue

VARIABLE overtaken   \* leases to other classes since c last ran or could not

fairVars == <<queueVars, overtaken>>

FairInit == QueueInit /\ overtaken = [c \in JobClass |-> 0]

\* The count after a lease to class winner: it restarts for the winner and for
\* a class that had nothing to run.
CountOvertaking(winner) ==
  overtaken' = [c \in JobClass |->
                  IF c = winner \/ AdmissibleOf(c) = {} THEN 0 ELSE overtaken[c] + 1]

Lease ==
  \E j \in pending, offset \in Slots :
    /\ lease_next(j, offset)
    /\ CountOvertaking(job[j].class)

Block ==
  \E j \in pending :
    /\ remove_dependency_blocked(j)
    /\ UNCHANGED overtaken

Release ==
  \E j \in active, s \in {"Completed", "Failed"} :
    /\ release(j, s)
    /\ UNCHANGED overtaken

FairNext == Lease \/ Block \/ Release

AdmissionSpec == FairInit /\ [][FairNext]_fairVars

\* No class starves: while a class has a job that could run, other classes are
\* admitted at most once for each of their own slots in the admission order,
\* wherever the cursor stands and however the volumes fill and drain.
BoundedOvertaking ==
  \A c \in JobClass : overtaken[c] <= Len(admission_order) - quota(c)

=============================================================================
