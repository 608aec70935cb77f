----------------------------- MODULE MCScheduler -----------------------------
(***************************************************************************)
(* Scheduler on three jobs and one volume, with room for one completed job *)
(* in each ledger, so that pruning, rotation and interruption all happen.  *)
(***************************************************************************)
EXTENDS Scheduler

CONSTANTS disk

MCShapes ==
  { [priority |-> 1, class |-> "Background", volume |-> disk],
    [priority |-> 2, class |-> "Visible", volume |-> NoVolume] }

\* The scheduler forgets a job that has left its queue, and job[j] is read by the actions
\* and the properties only for j in the queue: states that agree on the rest are one.
Live == <<next, [j \in queue |-> job[j]], queue, cancelled, ledgers, tokens, handed>>

\* The pruning that the model uses is what the loop of the code computes, for every
\* order of up to four ids, repeated ones included.
ASSUME PruneIsTheLoop ==
  \A referenced, ids \in SUBSET (1..3) : \A order \in UNION {[1..n -> 1..3] : n \in 0..4} :
    PruneParts(referenced, ids, order) = PruneLoop(referenced, ids, order)
=============================================================================
