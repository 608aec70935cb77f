------------------------- MODULE MCSharedByWorkers -------------------------
(***************************************************************************)
(* What the worker threads share: the admission order of the queue, and    *)
(* the cancellation tokens.  The two have no state in common, so a         *)
(* behaviour follows one part.                                             *)
(*   admission  Eight jobs of three classes; two of them share a one-slot  *)
(*              volume and one job depends on another, so that classes     *)
(*              become and stop being admissible while the cursor moves.   *)
(*   tokens     A root, a child and a grandchild (or two children), and    *)
(*              two threads that cancel, check and create while owners     *)
(*              drop tokens.                                               *)
(***************************************************************************)
EXTENDS Cancellation, AdmissionFairness, TLC

CONSTANTS disk, ghost

VARIABLE part   \* the part the behaviour follows

sharedVars == <<vars, fairVars, part>>

Record(c, v, d) == [class |-> c, volume |-> v, dependencies |-> d]

Tables ==
    { [j \in Jobs |->
         CASE j <= 4 -> Record("Foreground", IF j \in shared THEN disk ELSE NoVolume, {})
           [] j \in {5, 6} -> Record("Visible", IF j \in shared THEN disk ELSE NoVolume, {})
           [] j = 7 -> Record("Repair", NoVolume, dep)
           [] OTHER -> Record("Background", NoVolume, {})] :
        shared \in {{}, {1, 2}, {2, 5}, {5, 6}, {1, 5, 6}}, dep \in {{}, {1}, {5}, {ghost}} }

OneSlot == disk :> 1

\* The quotas are the default ones scaled down: foreground work has twice the weight.
Quotas == [c \in JobClass |-> IF c = "Foreground" THEN 2 ELSE 1]

\* The threads run the same code and nothing names one of them.
ThreadSymmetry == Permutations(Threads)

SharedInit ==
    /\ Init /\ FairInit
    /\ \/ part = "admission"
       \/ part = "tokens" /\ job = CHOOSE table \in Tables : TRUE  \* any, it is not looked at

SharedNext ==
    \/ part = "tokens" /\ Next /\ UNCHANGED <<fairVars, part>>
    \/ part = "admission" /\ FairNext /\ UNCHANGED <<vars, part>>

SharedSpec == SharedInit /\ [][SharedNext]_sharedVars
=============================================================================
