-------------------------- MODULE MCRetriableJobs --------------------------
(***************************************************************************)
(* RetriableJobs with three attempts of one job and no crash.              *)
(***************************************************************************)
EXTENDS RetriableJobs
=============================================================================
