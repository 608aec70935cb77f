---------------------------- MODULE RetriableJobs ----------------------------
(***************************************************************************)
(* execute_retriable_task and JobJournal (crates/jobs/src/lib.rs), with    *)
(* the retry policy of retry.rs: workers run jobs in capped attempts and   *)
(* write each attempt's start and end to a journal file that survives a    *)
(* crash; after a crash the jobs that recoverable() lists are run again.   *)
(*                                                                         *)
(* A worker has one job at a time (WorkerPool), so a job is its worker.    *)
(* The journal is read per job id only, so it is kept as one sequence of   *)
(* entries per job. An append either adds its line or fails: one flush of  *)
(* one short line. A failure message counts only by its FailureClass.      *)
(***************************************************************************)
EXTENDS Integers, Sequences, FiniteSets, SequencesExt

CONSTANTS
  Ids,           \* job ids
  RawAttempts,   \* RetryPolicy.max_attempts
  MaxCrashes     \* bound on the crashes in a behaviour

ASSUME RetryAssumption == RawAttempts \in Nat /\ MaxCrashes \in Nat

\* policy.max_attempts.max(1)
attempts == IF RawAttempts = 0 THEN 1 ELSE RawAttempts

FailureClass == {"Transient", "Permission", "MissingFile", "CorruptFile",
                 "OfflineVolume", "Permanent"}

retryable(class) == class \in {"Transient", "OfflineVolume"}

\* Statuses of a journal entry. A failed one carries its class.
Failed(class) == <<"Failed", class>>
Failures == {Failed(c) : c \in FailureClass}
Started == <<"Started">>
Completed == <<"Completed">>
Cancelled == <<"Cancelled">>
TaskStatus == {Started, Completed, Cancelled} \cup Failures

VARIABLES
  journal,       \* per job: the entries <<attempt, status>> in the file
  pc,            \* where the worker of each job is
  attempt,       \* the attempt number of the running loop
  final_status,  \* its current final status
  cancelled,     \* jobs whose cancellation token is set
  crashes        \* crashes so far

vars == <<journal, pc, attempt, final_status, cancelled, crashes>>

PC == {"new", "top", "append_started", "work", "append_finished", "after_failure",
       "backoff", "append_cancelled", "done", "stopped"}

Init ==
  /\ journal = [i \in Ids |-> <<>>]
  /\ pc = [i \in Ids |-> "new"]
  /\ attempt = [i \in Ids |-> 1]
  /\ final_status = [i \in Ids |-> Failed("Permanent")]   \* "task did not run"
  /\ cancelled = {}
  /\ crashes = 0

-----------------------------------------------------------------------------
(* JobJournal::recoverable *)

LastStatus(i) == Last(journal[i])[2]

\* JobRecoveryState.attempts: the largest attempt number of any run.
JournaledAttempts(i) ==
  CHOOSE n \in {journal[i][k][1] : k \in 1..Len(journal[i])} :
    \A k \in 1..Len(journal[i]) : journal[i][k][1] <= n

Interrupted(i) == journal[i] # <<>> /\ LastStatus(i) = Started

\* Mutant: any failure is recovered, whatever its class.
AnyFailure(i) ==
  /\ journal[i] # <<>>
  /\ LastStatus(i) \in Failures
  /\ JournaledAttempts(i) < attempts

RetryableFailure(i) ==
  /\ journal[i] # <<>>
  /\ \E c \in FailureClass : LastStatus(i) = Failed(c) /\ retryable(c)
  /\ JournaledAttempts(i) < attempts

recoverable == {i \in Ids : Interrupted(i) \/ RetryableFailure(i)}

-----------------------------------------------------------------------------
(* execute_retriable_task *)

Goto(i, label) == pc' = [pc EXCEPT ![i] = label]

Finish(i, status) ==
  /\ final_status' = [final_status EXCEPT ![i] = status]
  /\ Goto(i, "done")

Journal(i, status) ==
  journal' = [journal EXCEPT ![i] = Append(@, <<attempt[i], status>>)]

\* A first run, or a run after a restart of a job recoverable() lists. The
\* attempts are counted from one again.
Run(i) ==
  /\ \/ pc[i] = "new"
     \/ pc[i] = "stopped" /\ i \in recoverable
  /\ Goto(i, "top")
  /\ attempt' = [attempt EXCEPT ![i] = 1]
  /\ final_status' = [final_status EXCEPT ![i] = Failed("Permanent")]
  /\ UNCHANGED <<journal, cancelled, crashes>>

\* The check at the top of the loop: a cancelled job returns at once.
TopOfLoop(i) ==
  /\ pc[i] = "top"
  /\ IF i \in cancelled THEN Finish(i, Cancelled)
     ELSE Goto(i, "append_started") /\ UNCHANGED final_status
  /\ UNCHANGED <<journal, attempt, cancelled, crashes>>

\* Mutant: the work starts before anything is in the journal.
StartUnjournaled(i) ==
  /\ pc[i] = "append_started"
  /\ i \notin cancelled
  /\ Goto(i, "work")
  /\ UNCHANGED <<journal, attempt, final_status, cancelled, crashes>>

\* The Started entry is appended under the control of the token; cancellation
\* or an I/O error ends the loop.
AppendStarted(i) ==
  /\ pc[i] = "append_started"
  /\ i \notin cancelled
  /\ Journal(i, Started)
  /\ Goto(i, "work")
  /\ UNCHANGED <<attempt, final_status, cancelled, crashes>>

AppendStartedFails(i, status) ==
  /\ pc[i] = "append_started"
  /\ status = Cancelled => i \in cancelled
  /\ Finish(i, status)
  /\ UNCHANGED <<journal, attempt, cancelled, crashes>>

Work(i, status) ==
  /\ pc[i] = "work"
  /\ final_status' = [final_status EXCEPT ![i] = status]
  /\ Goto(i, "append_finished")
  /\ UNCHANGED <<journal, attempt, cancelled, crashes>>

\* The attempt's own status is journaled; only a failure goes on.
AppendFinished(i) ==
  /\ pc[i] = "append_finished"
  /\ Journal(i, final_status[i])
  /\ Goto(i, IF final_status[i] \in Failures THEN "after_failure" ELSE "done")
  /\ UNCHANGED <<attempt, final_status, cancelled, crashes>>

\* An append that fails replaces the status of the attempt by its own error.
AppendFails(i, error) ==
  /\ pc[i] \in {"append_finished", "append_cancelled"}
  /\ Finish(i, error)
  /\ UNCHANGED <<journal, attempt, cancelled, crashes>>

\* After a failure: cancelled meanwhile, or not to be retried, or backed off.
Retried(i) == retryable(final_status[i][2]) /\ attempt[i] < attempts

AfterFailure(i) ==
  /\ pc[i] = "after_failure"
  /\ Goto(i, IF i \in cancelled THEN "append_cancelled"
             ELSE IF Retried(i) THEN "backoff" ELSE "done")
  /\ UNCHANGED <<journal, attempt, final_status, cancelled, crashes>>

\* Mutant: a cancelled backoff goes on sleeping.
BackoffGoesOn(i) ==
  /\ pc[i] = "backoff"
  /\ i \in cancelled
  /\ UNCHANGED vars

\* sleep_retry_backoff_cancellable checks the token every few milliseconds
\* and once more when the delay is over.
BackoffCancelled(i) ==
  /\ pc[i] = "backoff"
  /\ i \in cancelled
  /\ Goto(i, "append_cancelled")
  /\ UNCHANGED <<journal, attempt, final_status, cancelled, crashes>>

\* Mutant: the attempts are not counted.
BackoffUncounted(i) ==
  /\ pc[i] = "backoff"
  /\ i \notin cancelled
  /\ Goto(i, "top")
  /\ UNCHANGED <<journal, attempt, final_status, cancelled, crashes>>

BackoffElapsed(i) ==
  /\ pc[i] = "backoff"
  /\ i \notin cancelled
  /\ Goto(i, "top")
  /\ attempt' = [attempt EXCEPT ![i] = @ + 1]
  /\ UNCHANGED <<journal, final_status, cancelled, crashes>>

AppendCancelled(i) ==
  /\ pc[i] = "append_cancelled"
  /\ Journal(i, Cancelled)
  /\ Finish(i, Cancelled)
  /\ UNCHANGED <<attempt, cancelled, crashes>>

-----------------------------------------------------------------------------
Cancel(i) ==
  /\ i \notin cancelled
  /\ cancelled' = cancelled \cup {i}
  /\ UNCHANGED <<journal, pc, attempt, final_status, crashes>>

\* The process dies or exits, or the work's panic unwinds through the run:
\* everything but the journal is lost, the tokens too. A job that is not in the journal may be submitted again.
Crash ==
  /\ crashes < MaxCrashes
  /\ crashes' = crashes + 1
  /\ pc' = [i \in Ids |-> IF journal[i] = <<>> THEN "new" ELSE "stopped"]
  /\ attempt' = [i \in Ids |-> 1]
  /\ final_status' = [i \in Ids |-> Failed("Permanent")]
  /\ cancelled' = {}
  /\ UNCHANGED journal

Step(i) ==
  \/ Run(i)
  \/ TopOfLoop(i)
  \/ AppendStarted(i)
  \/ \E status \in {Cancelled} \cup Failures : AppendStartedFails(i, status)
  \/ \E status \in TaskStatus \ {Started} : Work(i, status)
  \/ AppendFinished(i)
  \/ \E error \in Failures : AppendFails(i, error)
  \/ AfterFailure(i)
  \/ BackoffCancelled(i)
  \/ BackoffElapsed(i)
  \/ AppendCancelled(i)

Next == (\E i \in Ids : Step(i) \/ Cancel(i)) \/ Crash

\* Workers keep running and work returns; nobody has to cancel or to crash.
Fairness == \A i \in Ids : WF_vars(Step(i))

Spec == Init /\ [][Next]_vars
FairSpec == Spec /\ Fairness

-----------------------------------------------------------------------------
(* Correctness. *)

TypeOK ==
  /\ journal \in [Ids -> Seq((1..attempts) \X TaskStatus)]
  /\ pc \in [Ids -> PC]
  /\ attempt \in [Ids -> 1..attempts]
  /\ final_status \in [Ids -> TaskStatus \ {Started}]
  /\ cancelled \in SUBSET Ids
  /\ crashes \in 0..MaxCrashes

\* Write-ahead: while an attempt's work runs, and until its end is on disk, a
\* crash would find the job recoverable. No interrupted work is forgotten.
WorkIsRecoverable ==
  \A i \in Ids : pc[i] \in {"work", "append_finished"} => i \in recoverable

Unretryable == {Failed(c) : c \in {d \in FailureClass : ~retryable(d)}}

\* Once a job's completion, cancellation or unretryable failure is in the
\* journal it is never worked on again, in this run or after any crash; a
\* failure may at most be followed by the cancellation that came with it.
JournaledEndIsFinal ==
  [][\A i \in Ids :
       (journal[i] # <<>> /\ journal'[i] # journal[i]) =>
          \/ LastStatus(i) \notin {Completed, Cancelled} \cup Unretryable
          \/ LastStatus(i) \in Unretryable /\ LastStatus(i)' = Cancelled]_vars

\* Retries are capped: a run starts at most as many attempts as the policy
\* allows, and only a crash allows another run.
AttemptsAreCapped ==
  \A i \in Ids :
    Cardinality({k \in 1..Len(journal[i]) : journal[i][k][2] = Started})
      <= attempts * (crashes + 1)

\* Every job ends: retries do not go on for ever, whatever fails.
JobsEnd == \A i \in Ids : (pc[i] = "top") ~> (pc[i] \in {"done", "stopped", "new"})

\* retriable_worker_stops_retry_backoff_when_cancelled asserts that the journal
\* of a job cancelled between attempts ends with Cancelled.
CancelIsJournaled ==
  \A i \in Ids :
    (pc[i] = "done" /\ final_status[i] = Cancelled /\ journal[i] # <<>>) =>
      LastStatus(i) = Cancelled

=============================================================================
