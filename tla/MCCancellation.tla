--------------------------- MODULE MCCancellation ---------------------------
(***************************************************************************)
(* Cancellation on a root, a child and a grandchild (or two children), and *)
(* two threads that cancel, check and create while owners drop tokens.     *)
(***************************************************************************)
EXTENDS Cancellation, TLC

\* The threads run the same code and nothing names one of them.
ThreadSymmetry == Permutations(Threads)
=============================================================================
