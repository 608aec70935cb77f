--------------------------- MODULE MCJobsRunAgain ---------------------------
(***************************************************************************)
(* Jobs that are stopped and run again: the loop that retries and journals *)
(* the attempts of any job, and what the attempts of one of them, the      *)
(* background content index, leave in its files.                           *)
(*                                                                         *)
(* The two share no state: the loop sees of an attempt only how it ended,  *)
(* and an attempt begins from the files whatever ended the one before.  A  *)
(* behaviour follows one part.  Jobs share nothing but the journal file,   *)
(* which is read per id: one job, with three attempts and two crashes,     *)
(* shows all there is of the loop.                                         *)
(***************************************************************************)
EXTENDS RetriableJobs, ContentIndexing

VARIABLE part  \* the part the behaviour follows

jobVars == <<vars, contentVars, part>>

\* A file that can always be read beside each kind that cannot.
Kinds == {[a |-> "text", b |-> "flaky"], [a |-> "large", b |-> "screenshot"],
          [a |-> "text", b |-> "scan"]}

JobsInit ==
    /\ Init /\ IndexingInit
    /\ \/ part = "documents"
       \/ part = "loop" /\ nature = CHOOSE kinds \in Kinds : TRUE  \* any, it is not looked at

OfLoop(A) == A /\ UNCHANGED <<contentVars, part>>
OfDocuments(A) == A /\ UNCHANGED <<vars, part>>

JobsNext ==
    \/ part = "loop" /\ OfLoop(Next)
    \/ part = "documents" /\ OfDocuments(IndexingNext)

\* Workers keep running and work returns; nobody has to cancel or to crash.
JobsFairness == \A i \in Ids : WF_jobVars(part = "loop" /\ OfLoop(Step(i)))

JobsSpec == JobsInit /\ [][JobsNext]_jobVars /\ JobsFairness

-----------------------------------------------------------------------------
\* Every job ends: retries do not go on for ever, whatever fails (RetriableJobs).
LoopEnds == part = "loop" => JobsEnd
=============================================================================
