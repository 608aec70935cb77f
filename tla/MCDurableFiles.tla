--------------------------- MODULE MCDurableFiles ---------------------------
(***************************************************************************)
(* The files that outlive a process and are put right after it died: the   *)
(* persistent index of a volume, the manifest of content archives, and the *)
(* progress store with its payload catalog.                                *)
(*                                                                         *)
(* They share no state, so their steps commute and a property of one of    *)
(* them holds in every interleaving iff it holds while the others rest: a  *)
(* behaviour here follows one part.  The index and the manifest have two   *)
(* parts each, which differ in what may go wrong:                          *)
(*   index        a build, a decision or a recovery is stopped, and the    *)
(*                records or the state are damaged                         *)
(*   outage       the root may be out of reach, and one more thing goes    *)
(*                wrong; a damage costs a command                          *)
(*   content      promotions are stopped, and files are damaged            *)
(*   maintenance  segments are compacted as well, and nothing is stopped   *)
(*   jobs         one process after the other runs jobs, and crashes       *)
(***************************************************************************)
EXTENDS IndexRecovery, ContentManifest, JobProgress

VARIABLE part  \* the part the behaviour follows

durableVars == <<vars, contentVars, progressVars, part>>

\* One program works on the files at a time.
ASSUME OneAtATime == OneWriter /\ OneProcess

DurableInit ==
    /\ Init /\ ContentInit /\ ProgressInit
    /\ part \in {"index", "outage", "content", "maintenance", "jobs"}

OfIndex(A) == A /\ UNCHANGED <<contentVars, progressVars, part>>
OfContent(A) == A /\ UNCHANGED <<vars, progressVars, part>>
OfJobs(A) == A /\ UNCHANGED <<vars, contentVars, part>>

Compacting == \E p \in Writers : task'[p].pc = "compacted"

DurableNext ==
    \/ part = "index" /\ OfIndex(Next) /\ outages' = 0
    \/ part = "outage" /\ OfIndex(Next) /\ stops' + damage' <= 1 /\ damage' + commands' <= MaxCommands
    \/ part = "content" /\ OfContent(ContentNext) /\ ~Compacting
    \/ part = "maintenance" /\ OfContent(ContentNext) /\ content_stops' + content_damage' = 0
    \/ part = "jobs" /\ OfJobs(ProgressNext)

\* A running command goes on.  Whether one is run, a recovery too, is up to the user.
DurableFairness ==
    /\ WF_durableVars(part = "index" /\ OfIndex(Advance))
    /\ \A p \in Writers : WF_durableVars(part = "content" /\ OfContent(AdvanceTask(p)))

DurableSpec == DurableInit /\ [][DurableNext]_durableVars /\ DurableFairness

-----------------------------------------------------------------------------
\* Whatever was damaged or interrupted, the files tell so and can be recovered, and a
\* recovery that is run comes to an end, which leaves files that can be read and agree
\* unless it was stopped again: the records and the state of the index
\* (recover_persistent_index), the promotion journal, and the manifest with its archives.
RecoverySettled ==
    /\ [](part \in {"index", "content"} => RecoveryIsOffered /\ ContentRecoveryIsOffered)
    /\ [][part = "index" => IndexIsSettled]_durableVars
    /\ [][part = "content" => \A p \in Writers : ContentIsSettled(p)]_durableVars
    /\ part = "index" /\ job # Idle ~> job = Idle
    /\ \A p \in Writers : part = "content" /\ task[p] # NoTask ~> task[p] = NoTask
=============================================================================
