---------------------------- MODULE MCWorkerPool ----------------------------
(***************************************************************************)
(* WorkerPool on three tasks, two workers and one limited volume. The      *)
(* batches cover every dependency relation with at most one dependency per *)
(* task (chains, cycles, self-dependencies, ids that are not in the batch) *)
(* and one with two, with and without contention for the volume.           *)
(***************************************************************************)
EXTENDS WorkerPool, TLC

CONSTANTS disk, ghost

\* A requested limit or quota of zero is clamped to one by the policies.
MCRawLimit == disk :> 0
MCRawQuota == [c \in JobClass |-> IF c = "Foreground" THEN 2 ELSE 0]

OneDependency == {{}} \cup {{d} : d \in Jobs \cup {ghost}}

Classes == <<"Background", "Foreground", "Background">>

MCJobTables ==
  { [j \in Jobs |-> [class |-> Classes[j], volume |-> vol[j], dependencies |-> dep[j]]] :
      vol \in {<<disk, disk, NoVolume>>, <<disk, disk, disk>>},
      dep \in [Jobs -> OneDependency] \cup {<<{}, {}, {1, 2}>>} }
=============================================================================
