------------------------- MODULE MCContentIndexing -------------------------
(***************************************************************************)
(* A file that can always be read and one that cannot, two contents and    *)
(* two extractors, and one attempt that is stopped.                        *)
(***************************************************************************)
EXTENDS ContentIndexing

Kinds == {[a |-> "text", b |-> "flaky"]}
=============================================================================
