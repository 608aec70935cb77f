------------------------- MODULE JobsRunAgainProofs -------------------------
(***************************************************************************)
(* Jobs that are stopped and run again.                                    *)
(*                                                                         *)
(* The retry loop and its journal, for any jobs, any number of attempts    *)
(* and any number of crashes: the inductive invariant IInv relates the     *)
(* place of each worker in the loop to the last entry of its job's         *)
(* journal, and counts the attempts the journal shows against the crashes. *)
(*                                                                         *)
(* The content index, for any files, versions and extractors and any       *)
(* number of stops: the inductive invariant IndexingInv says, for each     *)
(* place an attempt may be stopped at, which files the archive is right    *)
(* about.                                                                  *)
(***************************************************************************)
EXTENDS RetriableJobs, ContentIndexing, FiniteSetTheorems, TLAPS

-----------------------------------------------------------------------------
(* The retry loop: the inductive invariant *)

Entries == (1..attempts) \X TaskStatus

\* The statuses after which a job is not worked on again.
Ended == {Completed, Cancelled} \cup Unretryable

\* What the journal of a job ends with, at each place of its worker.
JournalAt(i) ==
  /\ pc[i] = "new" => journal[i] = <<>>
  /\ pc[i] \in {"top", "append_started"} => journal[i] = <<>> \/ LastStatus(i) \notin Ended
  /\ pc[i] \in {"work", "append_finished"} => journal[i] # <<>> /\ LastStatus(i) = Started
  /\ pc[i] \in {"after_failure", "append_cancelled"} =>
       journal[i] # <<>> /\ LastStatus(i) \in Failures
  /\ pc[i] = "after_failure" => LastStatus(i) = final_status[i]
  /\ pc[i] = "backoff" =>
       /\ journal[i] # <<>> /\ LastStatus(i) \in Failures \ Unretryable
       /\ attempt[i] < attempts

\* The entries of a journal that start an attempt.
StartedAt(s) == {k \in 1..Len(s) : s[k][2] = Started}
Starts(i) == Cardinality(StartedAt(journal[i]))

\* Attempts of earlier runs, at most one run for each crash.
Earlier == attempts * crashes

\* How many attempts the journal shows, at each place of the worker.
StartsAt(i) ==
  /\ pc[i] \in {"new", "stopped"} => Starts(i) <= Earlier
  /\ pc[i] \in {"top", "append_started"} => Starts(i) <= Earlier + attempt[i] - 1
  /\ pc[i] \in PC \ {"new", "stopped", "top", "append_started", "done"} =>
       Starts(i) <= Earlier + attempt[i]
  /\ pc[i] = "done" => Starts(i) <= Earlier + attempts

IInv ==
  /\ TypeOK
  /\ \A i \in Ids : JournalAt(i)
  /\ \A i \in Ids : StartsAt(i)

-----------------------------------------------------------------------------
(* Operators. *)

\* A job has at least one attempt.
LEMMA AttemptsPositive == attempts \in Nat /\ attempts >= 1
BY RetryAssumption DEF attempts

\* The journaled statuses are distinct.
LEMMA Statuses ==
  /\ Started \notin Ended /\ Started \notin Failures
  /\ Started # Cancelled /\ Started # Completed /\ Cancelled # Completed
  /\ Cancelled \notin Failures /\ Completed \notin Failures
  /\ Unretryable \subseteq Failures
  /\ Failures \cap Ended = Unretryable
  /\ \A c \in FailureClass : Failed(c) \in Failures /\ Failed(c)[2] = c
                          /\ (retryable(c) => Failed(c) \notin Unretryable)
BY DEF Started, Ended, Failures, Failed, Completed, Cancelled, Unretryable, FailureClass, retryable

\* A journal line that is appended becomes the last one.
LEMMA AppendedIsLast ==
  ASSUME NEW s \in Seq(Entries), NEW e \in Entries
  PROVE  /\ Append(s, e) \in Seq(Entries) /\ Append(s, e) # <<>>
         /\ Last(Append(s, e)) = e /\ Append(s, e) # s
<1>1. Len(Append(s, e)) = Len(s) + 1 /\ Len(s) \in Nat
  OBVIOUS
<1>2. Append(s, e) # s
  BY <1>1
<1>3. QED
  BY <1>2 DEF Last

\* It is counted exactly when it starts an attempt.
LEMMA StartsOfAppend ==
  ASSUME NEW s \in Seq(Entries), NEW e \in Entries
  PROVE  /\ Cardinality(StartedAt(s)) \in Nat
         /\ e[2] # Started => StartedAt(Append(s, e)) = StartedAt(s)
         /\ e[2] = Started =>
              Cardinality(StartedAt(Append(s, e))) = Cardinality(StartedAt(s)) + 1
<1>1. /\ Len(s) \in Nat /\ Len(Append(s, e)) = Len(s) + 1
      /\ \A k \in 1..Len(s) : Append(s, e)[k] = s[k]
      /\ Append(s, e)[Len(s) + 1] = e
  OBVIOUS
<1>2. IsFiniteSet(StartedAt(s)) /\ Cardinality(StartedAt(s)) \in Nat
  <2>1. IsFiniteSet(1..Len(s)) /\ StartedAt(s) \subseteq 1..Len(s)
    BY <1>1, FS_Interval DEF StartedAt
  <2>2. QED
    BY <2>1, FS_Subset, FS_CardinalityType
<1>3. e[2] # Started => StartedAt(Append(s, e)) = StartedAt(s)
  BY <1>1 DEF StartedAt
<1>4. ASSUME e[2] = Started
      PROVE  Cardinality(StartedAt(Append(s, e))) = Cardinality(StartedAt(s)) + 1
  <2>1. /\ StartedAt(Append(s, e)) = StartedAt(s) \cup {Len(s) + 1}
        /\ Len(s) + 1 \notin StartedAt(s)
    BY <1>1, <1>4 DEF StartedAt
  <2>2. QED
    BY <1>2, <2>1, FS_AddElement
<1>5. QED
  BY <1>2, <1>3, <1>4

\* The counts are numbers, and a further crash allows a further run.
LEMMA CountsOfStarts ==
  ASSUME TypeOK
  PROVE  /\ \A i \in Ids : Starts(i) \in Nat
         /\ Earlier \in Nat
         /\ attempts * (crashes + 1) = Earlier + attempts
<1>1. attempts \in Nat /\ crashes \in Nat
  BY AttemptsPositive, RetryAssumption DEF TypeOK
<1>2. Earlier \in Nat /\ attempts * (crashes + 1) = Earlier + attempts
  BY <1>1 DEF Earlier
<1>3. ASSUME NEW i \in Ids
      PROVE  Starts(i) \in Nat
  <2>1. journal[i] \in Seq(Entries)
    BY DEF TypeOK, Entries
  <2>2. IsFiniteSet(StartedAt(journal[i]))
    <3>1. IsFiniteSet(1..Len(journal[i])) /\ StartedAt(journal[i]) \subseteq 1..Len(journal[i])
      BY <2>1, FS_Interval DEF StartedAt
    <3>2. QED
      BY <3>1, FS_Subset
  <2>3. QED
    BY <2>2, FS_CardinalityType DEF Starts
<1>4. QED
  BY <1>2, <1>3

-----------------------------------------------------------------------------
(* The steps of one job. *)

\* A step of one job leaves the others' places, journals and counts alone.
Others(i) ==
  /\ crashes' = crashes
  /\ \A j \in Ids \ {i} :
       /\ journal'[j] = journal[j] /\ pc'[j] = pc[j]
       /\ attempt'[j] = attempt[j] /\ final_status'[j] = final_status[j]

\* A step for one job need only be shown to keep the invariant of that job.
LEMMA OneJob ==
  ASSUME IInv, NEW i \in Ids, Others(i), TypeOK', JournalAt(i)', StartsAt(i)'
  PROVE  IInv'
<1>1. ASSUME NEW j \in Ids, j # i
      PROVE  JournalAt(j)' /\ StartsAt(j)'
  <2>1. /\ journal'[j] = journal[j] /\ pc'[j] = pc[j]
        /\ attempt'[j] = attempt[j] /\ final_status'[j] = final_status[j]
        /\ crashes' = crashes
    BY <1>1 DEF Others
  <2>2. JournalAt(j) /\ StartsAt(j)
    BY DEF IInv
  <2>3. JournalAt(j)'
    BY <2>1, <2>2 DEF JournalAt, LastStatus
  <2>4. StartsAt(j)'
    BY <2>1, <2>2 DEF StartsAt, Starts, Earlier
  <2>5. QED
    BY <2>3, <2>4
<1>2. QED
  BY <1>1 DEF IInv

\* Steps that append nothing: the place of the worker moves as the loop does.
LEMMA RunInv ==
  ASSUME IInv, NEW i \in Ids, Run(i)
  PROVE  IInv'
<1>1. TypeOK'
  BY AttemptsPositive, Statuses DEF IInv, TypeOK, Run, Goto, PC, TaskStatus, FailureClass
<1>2. /\ pc'[i] = "top" /\ attempt'[i] = 1 /\ journal' = journal /\ crashes' = crashes
      /\ Others(i)
  BY DEF IInv, TypeOK, Run, Goto, Others
<1>3. JournalAt(i)'
  <2>1. CASE pc[i] = "new"
    BY <1>2, <2>1 DEF IInv, JournalAt
  <2>2. CASE i \in recoverable
    <3>1. LastStatus(i) \notin Ended
      BY <2>2, Statuses DEF recoverable, Interrupted, RetryableFailure
    <3>2. LastStatus(i)' = LastStatus(i)
      BY <1>2 DEF LastStatus
    <3>3. QED
      BY <1>2, <3>1, <3>2 DEF JournalAt
  <2>3. QED
    BY <2>1, <2>2 DEF Run
<1>4. StartsAt(i)'
  <2>1. Starts(i) <= Earlier
    BY DEF Run, IInv, StartsAt
  <2>2. Starts(i)' = Starts(i) /\ Earlier' = Earlier
    BY <1>2 DEF Starts, Earlier
  <2>3. Starts(i) \in Nat /\ Earlier \in Nat
    BY CountsOfStarts DEF IInv
  <2>4. QED
    BY <1>2, <2>1, <2>2, <2>3 DEF StartsAt
<1>5. QED
  BY <1>1, <1>2, <1>3, <1>4, OneJob

\* The steps of the loop that leave the journal alone.
QuietStep(i) ==
  \/ TopOfLoop(i)
  \/ \E status \in {Cancelled} \cup Failures : AppendStartedFails(i, status)
  \/ \E status \in TaskStatus \ {Started} : Work(i, status)
  \/ \E error \in Failures : AppendFails(i, error)
  \/ AfterFailure(i)
  \/ BackoffCancelled(i)
  \/ BackoffElapsed(i)

\* A step of a job that leaves the journal alone keeps the types.
LEMMA QuietTypes ==
  ASSUME IInv, NEW i \in Ids, QuietStep(i)
  PROVE  TypeOK' /\ Others(i) /\ journal' = journal /\ pc' \in [Ids -> PC]
<1> USE AttemptsPositive
<1>0. TypeOK /\ JournalAt(i) /\ Failures \subseteq TaskStatus \ {Started}
      /\ Cancelled \in TaskStatus \ {Started}
  <2>1. TypeOK /\ JournalAt(i)
    BY DEF IInv
  <2>2. Failures \subseteq TaskStatus \ {Started} /\ Cancelled \in TaskStatus \ {Started}
    BY Statuses DEF TaskStatus
  <2>3. QED
    BY <2>1, <2>2
<1>1. CASE TopOfLoop(i)
  BY <1>0, <1>1 DEF TypeOK, TopOfLoop, Goto, Finish, PC, Others
<1>2. CASE \E status \in {Cancelled} \cup Failures : AppendStartedFails(i, status)
  BY <1>0, <1>2 DEF TypeOK, AppendStartedFails, Goto, Finish, PC, Others
<1>3. CASE \E status \in TaskStatus \ {Started} : Work(i, status)
  BY <1>0, <1>3 DEF TypeOK, Work, Goto, PC, Others
<1>4. CASE \E error \in Failures : AppendFails(i, error)
  BY <1>0, <1>4 DEF TypeOK, AppendFails, Goto, Finish, PC, Others
<1>5. CASE AfterFailure(i)
  BY <1>0, <1>5 DEF TypeOK, AfterFailure, Goto, PC, Others
<1>6. CASE BackoffCancelled(i)
  BY <1>0, <1>6 DEF TypeOK, BackoffCancelled, Goto, PC, Others
<1>7. CASE BackoffElapsed(i)
  BY <1>0, <1>7 DEF TypeOK, BackoffElapsed, Goto, PC, Others, JournalAt
<1>8. QED
  BY <1>1, <1>2, <1>3, <1>4, <1>5, <1>6, <1>7 DEF QuietStep

\* They move the worker to a place that expects what the journal ends with.
LEMMA QuietInv ==
  ASSUME IInv, NEW i \in Ids, QuietStep(i)
  PROVE  IInv'
<1>0. TypeOK /\ JournalAt(i) /\ StartsAt(i)
  BY DEF IInv
<1>1. TypeOK' /\ Others(i) /\ journal' = journal /\ crashes' = crashes
  BY QuietTypes DEF Others
<1>2. LastStatus(i)' = LastStatus(i) /\ journal'[i] = journal[i]
  BY <1>1 DEF LastStatus
<1>3. JournalAt(i)'
  <2>1. CASE TopOfLoop(i)
    BY <1>0, <1>2, <2>1 DEF TypeOK, JournalAt, TopOfLoop, Goto, Finish
  <2>2. CASE \E status \in {Cancelled} \cup Failures : AppendStartedFails(i, status)
    BY <1>0, <1>2, <2>2 DEF TypeOK, JournalAt, AppendStartedFails, Goto, Finish
  <2>3. CASE \E status \in TaskStatus \ {Started} : Work(i, status)
    BY <1>0, <1>2, <2>3 DEF TypeOK, JournalAt, Work, Goto
  <2>4. CASE \E error \in Failures : AppendFails(i, error)
    BY <1>0, <1>2, <2>4 DEF TypeOK, JournalAt, AppendFails, Goto, Finish
  <2>5. CASE AfterFailure(i)
    <3>1. LastStatus(i) = final_status[i] /\ LastStatus(i) \in Failures /\ journal[i] # <<>>
      BY <1>0, <2>5 DEF JournalAt, AfterFailure
    <3>2. Retried(i) => LastStatus(i) \notin Unretryable
      BY <3>1, Statuses DEF Retried, Failures
    <3>3. /\ pc'[i] \in {"append_cancelled", "backoff", "done"} /\ attempt' = attempt
          /\ pc'[i] = "backoff" => Retried(i)
      BY <1>0, <2>5 DEF TypeOK, AfterFailure, Goto
    <3>4. QED
      BY <1>2, <3>1, <3>2, <3>3 DEF JournalAt, Retried
  <2>6. CASE BackoffCancelled(i)
    BY <1>0, <1>2, <2>6 DEF TypeOK, JournalAt, BackoffCancelled, Goto
  <2>7. CASE BackoffElapsed(i)
    <3>1. LastStatus(i) \notin Ended
      BY <1>0, <2>7, Statuses DEF JournalAt, BackoffElapsed
    <3>2. QED
      BY <1>0, <1>2, <2>7, <3>1 DEF TypeOK, JournalAt, BackoffElapsed, Goto
  <2>8. QED
    BY <2>1, <2>2, <2>3, <2>4, <2>5, <2>6, <2>7 DEF QuietStep
<1>4. StartsAt(i)'
  <2>0. /\ Starts(i)' = Starts(i) /\ Earlier' = Earlier /\ Starts(i) \in Nat /\ Earlier \in Nat
        /\ attempts \in Nat /\ attempt[i] \in 1..attempts
    BY <1>0, <1>1, CountsOfStarts, AttemptsPositive DEF Starts, Earlier, TypeOK
  <2>1. CASE TopOfLoop(i)
    BY <1>0, <2>0, <2>1 DEF TypeOK, StartsAt, TopOfLoop, Goto, Finish, PC
  <2>2. CASE \E status \in {Cancelled} \cup Failures : AppendStartedFails(i, status)
    BY <1>0, <2>0, <2>2 DEF TypeOK, StartsAt, AppendStartedFails, Goto, Finish, PC
  <2>3. CASE \E status \in TaskStatus \ {Started} : Work(i, status)
    BY <1>0, <2>0, <2>3 DEF TypeOK, StartsAt, Work, Goto, PC
  <2>4. CASE \E error \in Failures : AppendFails(i, error)
    BY <1>0, <2>0, <2>4 DEF TypeOK, StartsAt, AppendFails, Goto, Finish, PC
  <2>5. CASE AfterFailure(i)
    BY <1>0, <2>0, <2>5 DEF TypeOK, StartsAt, AfterFailure, Goto, PC
  <2>6. CASE BackoffCancelled(i)
    BY <1>0, <2>0, <2>6 DEF TypeOK, StartsAt, BackoffCancelled, Goto, PC
  <2>7. CASE BackoffElapsed(i)
    BY <1>0, <2>0, <2>7 DEF TypeOK, StartsAt, BackoffElapsed, Goto, PC
  <2>8. QED
    BY <2>1, <2>2, <2>3, <2>4, <2>5, <2>6, <2>7 DEF QuietStep
<1>5. QED
  BY <1>1, <1>3, <1>4, OneJob

\* What an appended entry does to the journal and to the counts.
LEMMA JournalFacts ==
  ASSUME IInv, NEW i \in Ids, NEW status \in TaskStatus, Journal(i, status), crashes' = crashes
  PROVE  /\ journal' \in [Ids -> Seq(Entries)]
         /\ \A j \in Ids \ {i} : journal'[j] = journal[j]
         /\ journal'[i] # <<>> /\ journal'[i] # journal[i]
         /\ LastStatus(i)' = status
         /\ Starts(i)' = IF status = Started THEN Starts(i) + 1 ELSE Starts(i)
         /\ Earlier' = Earlier
<1> DEFINE e == <<attempt[i], status>>
<1>1. journal[i] \in Seq(Entries) /\ e \in Entries /\ e[2] = status
  BY DEF IInv, TypeOK, Entries
<1>2. /\ journal'[i] = Append(journal[i], e)
      /\ journal' = [journal EXCEPT ![i] = Append(journal[i], e)]
  BY DEF Journal, IInv, TypeOK
<1>3. /\ Append(journal[i], e) \in Seq(Entries) /\ Last(Append(journal[i], e)) = e
      /\ Append(journal[i], e) # <<>> /\ Append(journal[i], e) # journal[i]
  BY <1>1, AppendedIsLast
<1>4. LastStatus(i)' = status
  BY <1>1, <1>2, <1>3 DEF LastStatus
<1>5. Starts(i)' = IF status = Started THEN Starts(i) + 1 ELSE Starts(i)
  <2>1. /\ e[2] # Started => StartedAt(Append(journal[i], e)) = StartedAt(journal[i])
        /\ e[2] = Started => Cardinality(StartedAt(Append(journal[i], e)))
                               = Cardinality(StartedAt(journal[i])) + 1
    BY <1>1, StartsOfAppend
  <2>2. QED
    BY <1>1, <1>2, <2>1 DEF Starts
<1>6. journal'[i] # <<>> /\ journal'[i] # journal[i]
  BY <1>2, <1>3
<1>7. journal' \in [Ids -> Seq(Entries)] /\ \A j \in Ids \ {i} : journal'[j] = journal[j]
  BY <1>2, <1>3 DEF IInv, TypeOK, Entries
<1>8. Earlier' = Earlier
  BY DEF Earlier
<1>9. QED
  BY <1>4, <1>5, <1>6, <1>7, <1>8

\* The start of an attempt is on disk before its work begins.
LEMMA AppendStartedInv ==
  ASSUME IInv, NEW i \in Ids, AppendStarted(i)
  PROVE  IInv'
<1>1. Started \in TaskStatus /\ Journal(i, Started) /\ crashes' = crashes
  BY DEF AppendStarted, TaskStatus
<1>2. /\ journal' \in [Ids -> Seq(Entries)]
      /\ \A j \in Ids \ {i} : journal'[j] = journal[j]
      /\ journal'[i] # <<>> /\ LastStatus(i)' = Started
      /\ Starts(i)' = Starts(i) + 1 /\ Earlier' = Earlier
  BY <1>1, JournalFacts
<1>3. pc'[i] = "work" /\ attempt' = attempt /\ Others(i) /\ pc' \in [Ids -> PC]
  BY <1>2 DEF IInv, TypeOK, AppendStarted, Goto, Others, PC
<1>4. TypeOK'
  BY <1>2, <1>3 DEF IInv, TypeOK, AppendStarted, Entries
<1>5. JournalAt(i)'
  BY <1>2, <1>3 DEF JournalAt
<1>6. StartsAt(i)'
  <2>1. Starts(i) <= Earlier + attempt[i] - 1
    BY DEF IInv, StartsAt, AppendStarted
  <2>2. Starts(i) \in Nat /\ Earlier \in Nat /\ attempt[i] \in Nat
    BY CountsOfStarts, AttemptsPositive DEF IInv, TypeOK
  <2>3. QED
    BY <1>2, <1>3, <2>1, <2>2 DEF StartsAt
<1>7. QED
  BY <1>3, <1>4, <1>5, <1>6, OneJob

\* The end of an attempt.
LEMMA AppendFinishedInv ==
  ASSUME IInv, NEW i \in Ids, AppendFinished(i)
  PROVE  IInv'
<1> DEFINE status == final_status[i]
<1>1. status \in TaskStatus /\ status # Started /\ Journal(i, status) /\ crashes' = crashes
  BY DEF AppendFinished, IInv, TypeOK
<1>2. /\ journal' \in [Ids -> Seq(Entries)]
      /\ \A j \in Ids \ {i} : journal'[j] = journal[j]
      /\ journal'[i] # <<>> /\ LastStatus(i)' = status
      /\ Starts(i)' = Starts(i) /\ Earlier' = Earlier
  BY <1>1, JournalFacts
<1>3. /\ pc'[i] \in {"after_failure", "done"}
      /\ pc'[i] = "after_failure" => status \in Failures
      /\ attempt' = attempt /\ final_status' = final_status
      /\ Others(i) /\ pc' \in [Ids -> PC]
  BY <1>2 DEF IInv, TypeOK, AppendFinished, Goto, Others, PC
<1>4. TypeOK'
  BY <1>2, <1>3 DEF IInv, TypeOK, AppendFinished, Entries
<1>5. JournalAt(i)'
  BY <1>2, <1>3 DEF JournalAt
<1>6. StartsAt(i)'
  <2>1. Starts(i) <= Earlier + attempt[i]
    BY DEF IInv, StartsAt, AppendFinished, PC
  <2>2. /\ Starts(i) \in Nat /\ Earlier \in Nat
        /\ attempt[i] \in Nat /\ attempts \in Nat /\ attempt[i] <= attempts
    BY CountsOfStarts, AttemptsPositive DEF IInv, TypeOK
  <2>3. QED
    BY <1>2, <1>3, <2>1, <2>2 DEF StartsAt
<1>7. QED
  BY <1>3, <1>4, <1>5, <1>6, OneJob

\* The cancellation that came between two attempts.
LEMMA AppendCancelledInv ==
  ASSUME IInv, NEW i \in Ids, AppendCancelled(i)
  PROVE  IInv'
<1>1. /\ Cancelled \in TaskStatus /\ Cancelled # Started /\ Journal(i, Cancelled)
      /\ crashes' = crashes
  BY Statuses DEF AppendCancelled, TaskStatus
<1>2. /\ journal' \in [Ids -> Seq(Entries)]
      /\ \A j \in Ids \ {i} : journal'[j] = journal[j]
      /\ Starts(i)' = Starts(i) /\ Earlier' = Earlier
  BY <1>1, JournalFacts
<1>3. /\ pc'[i] = "done" /\ attempt' = attempt /\ Others(i) /\ pc' \in [Ids -> PC]
      /\ final_status' = [final_status EXCEPT ![i] = Cancelled]
  BY <1>2 DEF IInv, TypeOK, AppendCancelled, Goto, Finish, Others, PC
<1>4. TypeOK'
  BY <1>1, <1>2, <1>3 DEF IInv, TypeOK, AppendCancelled, Entries
<1>5. JournalAt(i)'
  BY <1>3 DEF JournalAt
<1>6. StartsAt(i)'
  <2>1. Starts(i) <= Earlier + attempt[i]
    BY DEF IInv, StartsAt, AppendCancelled, PC
  <2>2. /\ Starts(i) \in Nat /\ Earlier \in Nat
        /\ attempt[i] \in Nat /\ attempts \in Nat /\ attempt[i] <= attempts
    BY CountsOfStarts, AttemptsPositive DEF IInv, TypeOK
  <2>3. QED
    BY <1>2, <1>3, <2>1, <2>2 DEF StartsAt
<1>7. QED
  BY <1>3, <1>4, <1>5, <1>6, OneJob

\* Wherever a worker is, its run has started at most the policy's attempts.
LEMMA StartsCapped ==
  ASSUME IInv, NEW i \in Ids
  PROVE  Starts(i) <= Earlier + attempts
<1>1. /\ Starts(i) \in Nat /\ Earlier \in Nat
      /\ attempt[i] \in Nat /\ attempts \in Nat /\ attempt[i] <= attempts
  BY CountsOfStarts, AttemptsPositive DEF IInv, TypeOK
<1>2. pc[i] \in PC /\ StartsAt(i)
  BY DEF IInv, TypeOK
<1>3. CASE pc[i] \in {"new", "stopped", "done"}
  BY <1>1, <1>2, <1>3 DEF StartsAt
<1>4. CASE pc[i] \in {"top", "append_started"}
  BY <1>1, <1>2, <1>4 DEF StartsAt
<1>5. CASE pc[i] \in PC \ {"new", "stopped", "top", "append_started", "done"}
  BY <1>1, <1>2, <1>5 DEF StartsAt
<1>6. QED
  BY <1>2, <1>3, <1>4, <1>5

\* A crash keeps the journal, and allows one more run of every job.
LEMMA CrashInv ==
  ASSUME IInv, Crash
  PROVE  IInv'
<1>1. /\ crashes' = crashes + 1 /\ crashes' \in 0..MaxCrashes /\ journal' = journal
      /\ \A i \in Ids : pc'[i] = IF journal[i] = <<>> THEN "new" ELSE "stopped"
  BY RetryAssumption DEF Crash, IInv, TypeOK
<1>2. TypeOK'
  <2>1. Failed("Permanent") \in TaskStatus \ {Started}
    BY Statuses DEF TaskStatus, FailureClass
  <2>2. QED
    BY <1>1, <2>1, AttemptsPositive DEF Crash, IInv, TypeOK, PC
<1>3. \A i \in Ids : JournalAt(i)'
  BY <1>1 DEF JournalAt
<1>4. ASSUME NEW i \in Ids
      PROVE  StartsAt(i)'
  <2>1. Starts(i)' = Starts(i) /\ Earlier' = Earlier + attempts
    BY <1>1, CountsOfStarts DEF Starts, Earlier, IInv
  <2>2. Starts(i) <= Earlier + attempts
    BY StartsCapped
  <2>3. QED
    BY <1>1, <2>1, <2>2 DEF StartsAt
<1>5. QED
  BY <1>2, <1>3, <1>4 DEF IInv

-----------------------------------------------------------------------------
(* The theorems. *)

\* The inductive invariant holds before anything is submitted.
LEMMA InitInv == Init => IInv
<1> SUFFICES ASSUME Init
             PROVE  IInv
  OBVIOUS
<1>1. TypeOK
  <2>1. Failed("Permanent") \in TaskStatus \ {Started} /\ <<>> \in Seq(Entries)
    BY Statuses DEF TaskStatus, FailureClass
  <2>2. QED
    BY <2>1, AttemptsPositive, RetryAssumption DEF Init, TypeOK, PC, Entries
<1>2. \A i \in Ids : JournalAt(i)
  BY DEF Init, JournalAt
<1>3. ASSUME NEW i \in Ids
      PROVE  StartsAt(i)
  <2>1. StartedAt(<<>>) = {}
    BY DEF StartedAt
  <2>2. Starts(i) = 0
    BY <2>1, FS_EmptySet DEF Init, Starts
  <2>3. QED
    BY <1>1, <2>2, CountsOfStarts DEF Init, StartsAt
<1>4. QED
  BY <1>1, <1>2, <1>3 DEF IInv

\* Every step keeps the inductive invariant.
LEMMA NextInv == IInv /\ [Next]_vars => IInv'
<1> SUFFICES ASSUME IInv, [Next]_vars
             PROVE  IInv'
  OBVIOUS
<1>1. ASSUME NEW i \in Ids, Step(i)
      PROVE  IInv'
  BY <1>1, RunInv, QuietInv, AppendStartedInv, AppendFinishedInv, AppendCancelledInv
  DEF Step, QuietStep
<1>2. ASSUME UNCHANGED <<journal, pc, attempt, final_status, crashes>>,
             cancelled' \in SUBSET Ids
      PROVE  IInv'
  BY <1>2 DEF IInv, TypeOK, JournalAt, LastStatus, StartsAt, Starts, Earlier
<1>3. ASSUME NEW i \in Ids, Cancel(i)
      PROVE  IInv'
  BY <1>2, <1>3 DEF Cancel, IInv, TypeOK
<1>4. CASE Crash
  BY <1>4, CrashInv
<1>5. CASE UNCHANGED vars
  BY <1>2, <1>5 DEF vars, IInv, TypeOK
<1>6. QED
  BY <1>1, <1>3, <1>4, <1>5 DEF Next

\* The place of each worker agrees with its job's journal in every behaviour.
THEOREM Invariance == Spec => []IInv
BY InitInv, NextInv, PTL DEF Spec

\* The loop's state and the journal keep their types: in particular no attempt
\* is numbered above the policy's maximum.
THEOREM TypeCorrect == Spec => []TypeOK
<1>1. IInv => TypeOK
  BY DEF IInv
<1>2. QED
  BY <1>1, Invariance, PTL

\* Write-ahead: work that runs, or whose end is not on disk yet, is found
\* recoverable after a crash at any point.
THEOREM RunningWorkIsRecoverable == Spec => []WorkIsRecoverable
<1>1. IInv => WorkIsRecoverable
  BY DEF IInv, JournalAt, WorkIsRecoverable, recoverable, Interrupted
<1>2. QED
  BY <1>1, Invariance, PTL

\* However runs fail, are cancelled and crash, a job starts at most the
\* policy's attempts once, and once more for each crash.
THEOREM AttemptsCapped == Spec => []AttemptsAreCapped
<1>1. IInv => AttemptsAreCapped
  <2> SUFFICES ASSUME IInv, NEW i \in Ids
               PROVE  Starts(i) <= attempts * (crashes + 1)
    BY DEF AttemptsAreCapped, Starts, StartedAt
  <2>1. Starts(i) <= Earlier + attempts
    BY StartsCapped
  <2>2. QED
    BY <2>1, CountsOfStarts DEF IInv
<1>2. QED
  BY <1>1, Invariance, PTL

\* A job whose end is in the journal is not worked on again, in this run or
\* after any crash.
THEOREM EndIsFinal == Spec => JournaledEndIsFinal
<1> DEFINE Final ==
      \A i \in Ids :
        (journal[i] # <<>> /\ journal'[i] # journal[i]) =>
          \/ LastStatus(i) \notin {Completed, Cancelled} \cup Unretryable
          \/ LastStatus(i) \in Unretryable /\ LastStatus(i)' = Cancelled
<1>1. IInv /\ [Next]_vars => [Final]_vars
  <2> SUFFICES ASSUME IInv, Next, NEW i \in Ids, journal[i] # <<>>, journal'[i] # journal[i]
               PROVE  \/ LastStatus(i) \notin Ended
                      \/ LastStatus(i) \in Unretryable /\ LastStatus(i)' = Cancelled
    BY DEF Ended
  <2>1. AppendStarted(i) \/ AppendFinished(i) \/ AppendCancelled(i)
    <3>1. ASSUME NEW j \in Ids, Step(j) \/ Cancel(j)
          PROVE  j = i /\ (AppendStarted(i) \/ AppendFinished(i) \/ AppendCancelled(i))
      BY <3>1 DEF IInv, TypeOK, Step, Cancel, Run, TopOfLoop, AppendStarted, AppendStartedFails,
         Work, AppendFinished, AppendFails, AfterFailure, BackoffCancelled, BackoffElapsed,
         AppendCancelled, Journal
    <3>2. ~Crash
      BY DEF Crash
    <3>3. QED
      BY <3>1, <3>2 DEF Next
  <2>2. CASE AppendStarted(i)
    BY <2>2 DEF IInv, JournalAt, AppendStarted
  <2>3. CASE AppendFinished(i)
    BY <2>3, Statuses DEF IInv, JournalAt, AppendFinished
  <2>4. CASE AppendCancelled(i)
    <3>1. LastStatus(i) \in Failures
      BY <2>4 DEF IInv, JournalAt, AppendCancelled
    <3>2. LastStatus(i)' = Cancelled
      BY <2>4, JournalFacts DEF AppendCancelled, TaskStatus
    <3>3. QED
      BY <3>1, <3>2, Statuses
  <2>5. QED
    BY <2>1, <2>2, <2>3, <2>4
<1>2. QED
  BY <1>1, Invariance, PTL DEF JournaledEndIsFinal, Spec

-----------------------------------------------------------------------------
(* The content index: the inductive invariant *)

AtMostOne(S) == \A x, y \in S : x = y

\* Records and scans lag behind the disk, which never goes back.
Lags ==
  /\ \A d \in Documents : records[d] <= disk[d] /\ job.snapshot[d] <= disk[d]
  /\ \A c \in ocr_queue \cup job.candidates : c[2] <= disk[c[1]]
  /\ \A r \in recognized : r.candidate[2] <= r.text /\ r.text <= disk[r.candidate[1]]

\* An image is recognized once.
RecognizedOnce == \A r, q \in recognized : r.candidate = q.candidate => r = q

\* What the archive holds is in the records, unless it was deleted.
TextsAreRecorded ==
  \A d \in Documents : archive[d] # {} => compacted /\ (d \in Present(records) \/ disk[d] = Deleted)

\* Only a file that cannot always be parsed has failures.
FailuresAreFlaky ==
  \A d \in Documents : \A text \in Texts :
    quarantine[<<d, text>>] > 0 \/ job.failures[<<d, text>>] > 0 => nature[d] = "flaky"

NoTwoTexts == \A d \in Documents : nature[d] # "flaky" => AtMostOne(archive[d])

\* The files are right about d, if it is as recorded.
Settled(d) ==
  /\ d \notin Present(records) => archive[d] = {}
  /\ d \in Present(records) /\ disk[d] = records[d] => versions[d] \in Extractors /\ Right(d)

\* What an attempt found changed.
SeenByDelta == Selected(job.snapshot, job.previous, job.entries)
                 \cup Tombstones(job.snapshot, job.previous, job.entries)

\* An attempt has scanned the tree and read what it compares with.
AtSave ==
  At("save") =>
    /\ job.previous = IF compacted THEN records ELSE Nothing
    /\ job.entries = versions
    /\ \A d \in Documents \ missed : Settled(d)
    /\ \A d \in Present(job.snapshot) : archive[d] # {} => d \in Present(records)
    /\ \A d \in Present(records) \ Present(job.snapshot) : disk[d] = Deleted

\* It has saved the records: what did not change is right still.
AtPlan ==
  At("plan") =>
    /\ records = job.snapshot
    /\ job.entries = versions
    /\ \A d \in Documents \ (missed \cup SeenByDelta) : Settled(d)
    /\ \A d \in Present(job.snapshot) : archive[d] # {} => d \in Present(job.previous)

\* The plan: what is read was scanned, and what is read without a tombstone is not in the
\* archive, or failed before.
PlanOK ==
  /\ records = job.snapshot
  /\ job.selected \subseteq Present(job.snapshot)
  /\ job.retried \subseteq Present(job.snapshot) \ (job.selected \cup job.tombstones)
  /\ job.tombstones \cap Present(job.snapshot) \subseteq job.selected
  /\ job.todo \subseteq job.selected \cup job.retried
  /\ \A d \in job.retried : nature[d] = "flaky"
  /\ \A d \in Present(job.snapshot) \ job.selected : versions[d] \in {0, extractor}
  /\ \A d \in Documents : job.texts[d] # {} => d \in job.selected \cup job.retried

\* The text of a file as the attempt saw it.
TextNow(d) == <<job.snapshot[d], extractor>>

\* Extraction: what is not read yet has no text and its old failures, and what is read has
\* what it should, unless it has changed since.
AtExtract ==
  At("extract") =>
    /\ PlanOK
    /\ \A d \in Documents \ (missed \cup job.selected \cup job.tombstones) : Settled(d)
    /\ \A d \in job.selected \ job.tombstones : archive[d] = {}
    /\ \A d \in Documents \ ((job.selected \cup job.retried) \ job.todo) :
         /\ job.texts[d] = {}
         /\ \A text \in Texts : job.failures[<<d, text>>] = quarantine[<<d, text>>]
    /\ \A d \in (job.selected \cup job.retried) \ job.todo :
         disk[d] = job.snapshot[d] => Suits(d, TextNow(d), job.texts[d], job.failures)
    /\ \A d \in Documents : AtMostOne(job.texts[d])

\* The new archive is right about what the attempt saw.
Archived(d) ==
  /\ d \notin Present(job.snapshot) => archive[d] = {}
  /\ d \in Present(job.snapshot) /\ disk[d] = job.snapshot[d] =>
       Suits(d, TextNow(d), archive[d], job.failures)

AtEnd ==
  job.at \in {"publish", "versions", "quarantine"} =>
    /\ PlanOK
    /\ \A d \in Documents \ (missed \cup job.selected \cup job.tombstones \cup job.retried) :
         Settled(d) /\ \A text \in Texts : job.failures[<<d, text>>] = quarantine[<<d, text>>]
    /\ \A d \in job.selected \cup job.tombstones \cup (job.retried \ missed) : Archived(d)
    /\ At("quarantine") => \A d \in Present(job.snapshot) : versions[d] = extractor

AtIdle == job = Idle => \A d \in Documents \ missed : Settled(d)

IndexingInv ==
  /\ IndexingTypeOK
  /\ Lags
  /\ RecognizedOnce
  /\ TextsAreRecorded
  /\ FailuresAreFlaky
  /\ NoTwoTexts
  /\ At("idle") => job = Idle
  /\ AtIdle /\ AtSave /\ AtPlan /\ AtExtract /\ AtEnd

-----------------------------------------------------------------------------
(* Types *)

\* No attempt is an attempt, and nothing has been read.
LEMMA IdleTypes == Idle \in Attempts /\ Idle.at = "idle"
<1>1. Nothing \in Scans /\ Nothing \in Stamps /\ NoTexts \in [Documents -> SUBSET Texts]
      /\ NoFailures \in Counts
  BY VersionsAssumption DEF Nothing, Nowhere, Scans, Stamps, NoTexts, NoFailures, Counts
<1>2. QED
  BY <1>1 DEF Idle, Attempts, Places

\* A scan sees the files that are there.
LEMMA ScannedTypes ==
  ASSUME disk \in [Documents -> 0..Deleted]
  PROVE  /\ Scanned \in Scans
         /\ \A d \in Documents : d \in Present(disk) <=> disk[d] \in 1..MaxVersion
         /\ \A d \in Documents : d \in Present(disk) => Scanned[d] = disk[d]
         /\ \A d \in Documents : d \notin Present(disk) => Scanned[d] = 0
         /\ \A d \in Documents : d \in Present(Scanned) <=> d \in Present(disk)
         /\ \A d \in Documents : d \notin Present(disk) => disk[d] = 0 \/ disk[d] = Deleted
BY VersionsAssumption DEF Scanned, Scans, Present, Versions, Deleted, Nowhere

\* An attempt goes on with the plan it has.
SamePlan(w, j) ==
  /\ w.at = j.at /\ w.snapshot = j.snapshot /\ w.previous = j.previous /\ w.entries = j.entries
  /\ w.tombstones = j.tombstones /\ w.selected = j.selected /\ w.retried = j.retried

\* The texts an attempt reads are texts, and its failures are counted.
LEMMA ReportTypes ==
  ASSUME IndexingTypeOK, NEW j \in Attempts, NEW d \in Present(disk), NEW outcome
  PROVE  LET r == record_report(j, d, outcome) IN
         outcome \in {"Extracted", "Skipped", "Quarantined"} =>
           /\ r \in Attempts
           /\ SamePlan(r, j) /\ r.todo = j.todo /\ r.candidates = j.candidates
<1>1. d \in Documents /\ disk[d] \in Versions
  BY DEF Present
<1>2. Key(d) \in Documents \X Texts /\ Key(d)[2] \in Texts
  BY <1>1 DEF Key, Texts, IndexingTypeOK
<1>3. j.texts \in [Documents -> SUBSET Texts] /\ j.failures \in Counts
  BY DEF Attempts
<1>4. [j.texts EXCEPT ![d] = {Key(d)[2]}] \in [Documents -> SUBSET Texts]
  BY <1>1, <1>2, <1>3
<1>5. [j.failures EXCEPT ![Key(d)] = 0] \in Counts /\ [j.failures EXCEPT ![Key(d)] = @ + 1] \in Counts
  BY <1>2, <1>3 DEF Counts
<1>6. CASE outcome = "Extracted"
  <2>1. record_report(j, d, outcome) =
          [j EXCEPT !.texts = [j.texts EXCEPT ![d] = {Key(d)[2]}],
                    !.failures = [j.failures EXCEPT ![Key(d)] = 0]]
    BY <1>6 DEF record_report
  <2>2. QED
    BY <2>1, <1>4, <1>5, <1>6 DEF Attempts, SamePlan
<1>7. CASE outcome = "Skipped"
  <2>1. record_report(j, d, outcome) = [j EXCEPT !.failures = [j.failures EXCEPT ![Key(d)] = 0]]
    BY <1>7 DEF record_report
  <2>2. QED
    BY <2>1, <1>5, <1>7 DEF Attempts, SamePlan
<1>8. CASE outcome = "Quarantined"
  <2>1. record_report(j, d, outcome) = [j EXCEPT !.failures = [j.failures EXCEPT ![Key(d)] = @ + 1]]
    BY <1>8 DEF record_report
  <2>2. QED
    BY <2>1, <1>5, <1>8 DEF Attempts, SamePlan
<1>9. QED
  BY <1>6, <1>7, <1>8

-----------------------------------------------------------------------------
(* Extraction *)

\* An image has the text recognized for it, if there is one, and is queued otherwise; a
\* text recognized for the version on the disk was read from that version.
LEMMA CandidateEffect ==
  ASSUME IndexingInv, NEW j \in Attempts, NEW d \in Documents, NEW v \in Versions,
         v <= disk[d], j.texts[d] = {}
  PROVE  LET w == WithCandidate(j, <<d, v>>) IN
         /\ w \in Attempts
         /\ SamePlan(w, j) /\ w.todo = j.todo /\ w.failures = j.failures
         /\ \A e \in Documents \ {d} : w.texts[e] = j.texts[e]
         /\ AtMostOne(w.texts[d])
         /\ disk[d] = v => w.texts[d] \subseteq {<<v, extractor>>}
         /\ w.candidates \subseteq j.candidates \cup {<<d, v>>}
<1> DEFINE c == <<d, v>>
           w == WithCandidate(j, c)
           known == {r \in recognized : r.candidate = c}
<1>1. c \in Candidates /\ c[1] = d /\ c[2] = v
  BY DEF Candidates
<1>2. j.texts \in [Documents -> SUBSET Texts] /\ j.candidates \in SUBSET Candidates
  BY DEF Attempts
<1>3. CASE known = {}
  <2>1. w = [j EXCEPT !.candidates = j.candidates \cup {c}]
    BY <1>3 DEF WithCandidate
  <2>2. w \in Attempts /\ SamePlan(w, j) /\ w.todo = j.todo /\ w.failures = j.failures
    BY <2>1, <1>1, <1>2 DEF Attempts, SamePlan
  <2>3. w.texts = j.texts /\ w.candidates = j.candidates \cup {c}
    BY <2>1 DEF Attempts
  <2>4. AtMostOne(w.texts[d]) /\ w.texts[d] = {}
    BY <2>3 DEF AtMostOne
  <2>5. QED
    BY <2>2, <2>3, <2>4
<1>4. CASE known # {}
  <2> DEFINE texts == {<<r.text, extractor>> : r \in known}
  <2>1. w = [j EXCEPT !.texts = [j.texts EXCEPT ![d] = texts]]
    BY <1>1, <1>4 DEF WithCandidate
  <2>2. \A r \in known : r.text \in Versions /\ v <= r.text /\ r.text <= disk[d]
    BY <1>1 DEF IndexingInv, IndexingTypeOK, Lags
  <2>3. \A r, q \in known : r = q
    BY DEF IndexingInv, RecognizedOnce
  <2>4. extractor \in Extractors
    BY DEF IndexingInv, IndexingTypeOK
  <2>5. texts \subseteq Texts
    BY <2>2, <2>4 DEF Texts
  <2>6. AtMostOne(texts)
    BY <2>3 DEF AtMostOne
  <2>7. disk[d] = v => texts \subseteq {<<v, extractor>>}
    BY <2>2, VersionsAssumption DEF Versions
  <2> HIDE DEF texts
  <2>8. [j.texts EXCEPT ![d] = texts] \in [Documents -> SUBSET Texts]
    BY <2>5, <1>2
  <2>9. w.texts[d] = texts /\ w.candidates = j.candidates
        /\ \A e \in Documents \ {d} : w.texts[e] = j.texts[e]
    BY <2>1, <1>2 DEF Attempts
  <2>10. w \in Attempts /\ SamePlan(w, j) /\ w.todo = j.todo /\ w.failures = j.failures
    BY <2>1, <2>8 DEF Attempts, SamePlan
  <2>11. QED
    BY <2>6, <2>7, <2>9, <2>10
<1>5. QED
  BY <1>3, <1>4

\* What the reading of one file does: the others keep what they have, and it has what it
\* should, unless it has changed since the scan.
ReadOne(d) ==
  /\ job' \in Attempts
  /\ SamePlan(job', job) /\ job'.todo = job.todo \ {d}
  /\ \A e \in Documents \ {d} : job'.texts[e] = job.texts[e]
  /\ \A e \in Documents \ {d} : \A t \in Texts : job'.failures[<<e, t>>] = job.failures[<<e, t>>]
  /\ AtMostOne(job'.texts[d])
  /\ disk[d] = job.snapshot[d] => Suits(d, TextNow(d), job'.texts[d], job'.failures)
  /\ \A t \in Texts : job'.failures[<<d, t>>] > 0 => nature[d] = "flaky"
  /\ \A c \in job'.candidates : c \in job.candidates \/ (c[1] = d /\ c[2] <= disk[d])

\* Extract reads one file of the plan.
LEMMA ExtractReadsOne ==
  ASSUME IndexingInv, NEW d \in Documents, Extract(d)
  PROVE  At("extract") /\ d \in job.todo /\ ReadOne(d)
<1> DEFINE rest == [job EXCEPT !.todo = @ \ {d}]
<1>1. At("extract") /\ d \in job.todo /\ job \in Attempts
  BY DEF Extract, IndexingInv, IndexingTypeOK
<1> SUFFICES ReadOne(d)
  BY <1>1
<1>2. /\ rest \in Attempts
      /\ rest.texts = job.texts /\ rest.failures = job.failures /\ rest.candidates = job.candidates
      /\ rest.todo = job.todo \ {d} /\ SamePlan(rest, job)
  BY <1>1 DEF Attempts, SamePlan
<1> HIDE DEF rest
<1>3. /\ job.texts[d] = {}
      /\ d \in Present(job.snapshot)
  BY <1>1 DEF IndexingInv, AtExtract, PlanOK
<1>4. job.snapshot[d] \in Versions /\ job.snapshot[d] <= disk[d]
  BY <1>3 DEF Present, IndexingInv, Lags
<1>5. \A e \in Documents : \A t \in Texts : job.failures[<<e, t>>] > 0 => nature[e] = "flaky"
  BY DEF IndexingInv, FailuresAreFlaky
<1>6. nature[d] \in {"text", "large", "flaky", "scan", "screenshot"}
  BY NatureAssumption DEF IndexingInv, IndexingTypeOK
<1>7. job.failures \in Counts /\ job.texts \in [Documents -> SUBSET Texts]
  BY <1>1 DEF Attempts
<1>8. ASSUME NEW v \in Versions, v <= disk[d], job' = WithCandidate(rest, <<d, v>>),
             disk[d] = job.snapshot[d] => v = disk[d],
             nature[d] \in {"scan", "screenshot"}
      PROVE  ReadOne(d)
  <2>1. /\ job' \in Attempts
        /\ SamePlan(job', rest) /\ job'.todo = rest.todo /\ job'.failures = rest.failures
        /\ \A e \in Documents \ {d} : job'.texts[e] = rest.texts[e]
        /\ AtMostOne(job'.texts[d])
        /\ disk[d] = v => job'.texts[d] \subseteq {<<v, extractor>>}
        /\ job'.candidates \subseteq rest.candidates \cup {<<d, v>>}
    BY <1>2, <1>3, <1>8, CandidateEffect
  <2>2. job'.failures = job.failures
    BY <2>1, <1>2
  <2>3. SamePlan(job', job) /\ job'.todo = job.todo \ {d}
    BY <2>1, <1>2 DEF SamePlan
  <2>4. disk[d] = job.snapshot[d] => Suits(d, TextNow(d), job'.texts[d], job'.failures)
    BY <2>1, <1>8 DEF Suits, TextNow
  <2>5. \A c \in job'.candidates : c \in job.candidates \/ (c[1] = d /\ c[2] <= disk[d])
    BY <2>1, <1>2, <1>8
  <2>6. QED
    BY <2>1, <2>2, <2>3, <2>4, <2>5, <1>2, <1>5 DEF ReadOne
<1>9. CASE nature[d] = "screenshot" /\ job' = WithCandidate(rest, <<d, job.snapshot[d]>>)
  BY <1>4, <1>8, <1>9
<1>10. ASSUME nature[d] # "screenshot", d \in Present(disk)
       PROVE  /\ disk[d] \in Versions
              /\ Key(d) = <<d, <<disk[d], extractor>>>> /\ Key(d)[2] \in Texts
              /\ Key(d) \in Documents \X Texts
              /\ disk[d] = job.snapshot[d] => Key(d) = <<d, TextNow(d)>>
  <2>1. disk[d] \in Versions
    BY <1>10 DEF Present
  <2>2. QED
    BY <2>1 DEF Key, Texts, TextNow, IndexingInv, IndexingTypeOK
<1>11. CASE nature[d] # "screenshot" /\ d \in Present(disk) /\ Blocked(d) /\ job' = rest
  <2>1. job.failures[Key(d)] >= 2
    BY <1>11 DEF Blocked, failure_threshold
  <2>2. nature[d] = "flaky"
    BY <2>1, <1>5, <1>7, <1>10, <1>11 DEF Counts
  <2>3. disk[d] = job.snapshot[d] => Suits(d, TextNow(d), {}, job.failures)
    BY <2>1, <2>2, <1>7, <1>10, <1>11 DEF Suits, Counts
  <2>4. AtMostOne(job'.texts[d])
    BY <1>2, <1>3, <1>11 DEF AtMostOne
  <2>5. QED
    BY <2>2, <2>3, <2>4, <1>2, <1>3, <1>11 DEF ReadOne
<1>12. CASE nature[d] # "screenshot" /\ d \in Present(disk) /\ ~Blocked(d)
            /\ \E outcome \in Outcomes(d) : job' = record_report(rest, d, outcome)
  <2>1. PICK outcome \in Outcomes(d) : job' = record_report(rest, d, outcome)
    BY <1>12
  <2>2. CASE outcome = "ImageOnly"
    <3>1. nature[d] = "scan"
      BY <2>2, <1>6, <1>12 DEF Outcomes
    <3>2. job' = WithCandidate(rest, <<d, disk[d]>>)
      BY <2>1, <2>2 DEF record_report
    <3>3. disk[d] <= disk[d]
      BY <1>10, <1>12, VersionsAssumption DEF Versions
    <3>4. QED
      BY <3>1, <3>2, <3>3, <1>8, <1>10, <1>12
  <2>3. CASE outcome \in {"Extracted", "Skipped", "Quarantined"}
    <3>1. /\ job' \in Attempts
          /\ SamePlan(job', rest) /\ job'.todo = rest.todo /\ job'.candidates = rest.candidates
      <4>1. IndexingTypeOK /\ rest \in Attempts /\ d \in Present(disk)
        BY <1>2, <1>12 DEF IndexingInv
      <4>2. QED
        BY <2>1, <2>3, <4>1, ReportTypes
    <3>2. job'.candidates = job.candidates
      BY <3>1, <1>2
    <3>3. SamePlan(job', job) /\ job'.todo = job.todo \ {d}
      BY <3>1, <1>2 DEF SamePlan
    <3>4. /\ outcome = "Extracted" => /\ job'.texts = [job.texts EXCEPT ![d] = {Key(d)[2]}]
                                      /\ job'.failures = [job.failures EXCEPT ![Key(d)] = 0]
          /\ outcome = "Skipped" => /\ job'.texts = job.texts
                                    /\ job'.failures = [job.failures EXCEPT ![Key(d)] = 0]
          /\ outcome = "Quarantined" => /\ job'.texts = job.texts
                                        /\ job'.failures = [job.failures EXCEPT ![Key(d)] = @ + 1]
      BY <2>1, <2>3, <1>2 DEF record_report, Attempts
    <3>5. \A e \in Documents \ {d} : job'.texts[e] = job.texts[e]
      BY <2>3, <3>4, <1>7
    <3>6. \A e \in Documents \ {d} : \A t \in Texts : job'.failures[<<e, t>>] = job.failures[<<e, t>>]
      BY <2>3, <3>4, <1>7, <1>10, <1>12 DEF Counts
    <3>7. AtMostOne(job'.texts[d])
      BY <2>3, <3>4, <1>3, <1>7 DEF AtMostOne
    <3>8. outcome = "Quarantined" => nature[d] = "flaky"
      BY <1>6, <1>12 DEF Outcomes
    <3>9. \A t \in Texts : job'.failures[<<d, t>>] > 0 => nature[d] = "flaky"
      BY <2>3, <3>4, <3>8, <1>5, <1>7, <1>10, <1>12 DEF Counts
    <3>10. outcome = "Extracted" => job'.texts[d] = {Key(d)[2]}
      BY <3>4, <1>7
    <3>11. outcome = "Quarantined" => job'.texts[d] = {} /\ job'.failures[Key(d)] > 0
      BY <3>4, <1>3, <1>7, <1>10, <1>12 DEF Counts
    <3>12. outcome = "Skipped" => job'.texts[d] = {} /\ nature[d] = "large"
      BY <3>4, <1>3, <1>6, <1>12 DEF Outcomes
    <3>13. disk[d] = job.snapshot[d] => Suits(d, TextNow(d), job'.texts[d], job'.failures)
      <4> SUFFICES ASSUME disk[d] = job.snapshot[d]
                   PROVE  Suits(d, TextNow(d), job'.texts[d], job'.failures)
        OBVIOUS
      <4>1. Key(d) = <<d, TextNow(d)>> /\ Key(d)[2] = TextNow(d)
        BY <1>10, <1>12 DEF Key, TextNow
      <4>2. QED
        BY <2>3, <3>8, <3>10, <3>11, <3>12, <4>1 DEF Suits
    <3>14. QED
      BY <3>1, <3>2, <3>3, <3>5, <3>6, <3>7, <3>9, <3>13 DEF ReadOne
  <2>4. outcome \in {"Extracted", "Skipped", "Quarantined", "ImageOnly"}
    BY <1>6, <1>12 DEF Outcomes
  <2>5. QED
    BY <2>2, <2>3, <2>4
<1>13. QED
  BY <1>9, <1>11, <1>12 DEF Extract, rest

-----------------------------------------------------------------------------
(* The invariant holds at first and is kept by every step *)

\* What the place of an attempt says of the files, and of the attempt.
AtPlace == (At("idle") => job = Idle) /\ AtIdle /\ AtSave /\ AtPlan /\ AtExtract /\ AtEnd

\* At first nothing is there.
LEMMA IndexingInitInv == IndexingInit => IndexingInv
<1> SUFFICES ASSUME IndexingInit PROVE IndexingInv
  OBVIOUS
<1>1. Idle \in Attempts /\ Idle.at = "idle"
  BY IdleTypes
<1>2. Nothing \in Scans /\ Nothing \in Stamps /\ NoTexts \in [Documents -> SUBSET Texts]
      /\ NoFailures \in Counts /\ Nothing \in [Documents -> 0..Deleted]
  BY VersionsAssumption DEF Nothing, Nowhere, Scans, Stamps, NoTexts, NoFailures, Counts, Deleted
<1>3. IndexingTypeOK
  <2>1. 1 \in Extractors /\ 0 \in 0..MaxStops
    BY VersionsAssumption DEF Extractors
  <2>2. QED
    BY <1>1, <1>2, <2>1 DEF IndexingInit, IndexingTypeOK
<1>4. Idle.snapshot = Nothing /\ Idle.candidates = {} /\ Idle.failures = NoFailures
  BY DEF Idle
<1>5. Lags /\ RecognizedOnce
  BY <1>4 DEF IndexingInit, Lags, RecognizedOnce, Nothing, Nowhere
<1>6. TextsAreRecorded /\ NoTwoTexts
  BY DEF IndexingInit, TextsAreRecorded, NoTwoTexts, NoTexts, AtMostOne
<1>7. \A d \in Documents, text \in Texts : NoFailures[<<d, text>>] = 0
  BY DEF NoFailures
<1>8. FailuresAreFlaky
  BY <1>4, <1>7 DEF IndexingInit, FailuresAreFlaky
<1>9. \A d \in Documents : Settled(d)
  <2>1. \A d \in Documents : archive[d] = {} /\ d \notin Present(records)
    BY VersionsAssumption DEF IndexingInit, NoTexts, Present, Nothing, Nowhere, Versions
  <2>2. QED
    BY <2>1 DEF Settled
<1>10. job = Idle /\ job.at = "idle"
  BY <1>1 DEF IndexingInit
<1>11. AtIdle /\ AtSave /\ AtPlan /\ AtExtract /\ AtEnd
  BY <1>9, <1>10 DEF AtIdle, AtSave, AtPlan, AtExtract, AtEnd, At
<1>12. QED
  BY <1>3, <1>5, <1>6, <1>8, <1>10, <1>11 DEF IndexingInv

\* The queue and the cache of the recognizer say nothing of the archive.
LEMMA PlaceIsKept ==
  ASSUME IndexingInv,
         UNCHANGED <<nature, disk, extractor, records, compacted, archive, versions, quarantine,
                     job, missed>>
  PROVE  TextsAreRecorded' /\ FailuresAreFlaky' /\ NoTwoTexts' /\ AtPlace'
<1> USE DEF IndexingInv
<1>1. TextsAreRecorded' /\ FailuresAreFlaky' /\ NoTwoTexts'
  BY DEF TextsAreRecorded, FailuresAreFlaky, NoTwoTexts
<1>2. AtIdle' /\ AtSave'
  BY DEF AtIdle, AtSave, Settled, Right, Suits, At
<1>3. AtPlan'
  BY DEF AtPlan, Settled, Right, Suits, At, SeenByDelta, Selected, Tombstones, Changed, New, Gone,
         content_record_signature
<1>4. AtExtract'
  BY DEF AtExtract, PlanOK, TextNow, Settled, Right, Suits, At
<1>5. AtEnd'
  BY DEF AtEnd, PlanOK, TextNow, Archived, Settled, Right, Suits, At
<1>6. QED
  BY <1>1, <1>2, <1>3, <1>4, <1>5 DEF At, AtPlace

\* A step that changes nothing keeps it.
LEMMA IndexingStutters == IndexingInv /\ UNCHANGED contentVars => IndexingInv'
<1> SUFFICES ASSUME IndexingInv, UNCHANGED contentVars PROVE IndexingInv'
  OBVIOUS
<1> USE DEF contentVars
<1>1. IndexingTypeOK' /\ Lags' /\ RecognizedOnce'
  BY DEF IndexingInv, IndexingTypeOK, Lags, RecognizedOnce
<1>2. TextsAreRecorded' /\ FailuresAreFlaky' /\ NoTwoTexts' /\ AtPlace'
  BY PlaceIsKept
<1>3. QED
  BY <1>1, <1>2 DEF IndexingInv, AtPlace

\* The types, one by one.
LEMMA TypesOfFiles ==
  ASSUME IndexingTypeOK
  PROVE  /\ \A d \in Documents : disk[d] \in Nat /\ disk[d] <= Deleted
         /\ \A d \in Documents : records[d] \in Nat /\ records[d] <= MaxVersion
         /\ \A d \in Documents : job.snapshot[d] \in Nat /\ job.snapshot[d] <= MaxVersion
         /\ \A d \in Documents : d \in Present(disk) <=> disk[d] >= 1 /\ disk[d] <= MaxVersion
         /\ \A d \in Documents : d \in Present(records) <=> records[d] >= 1
         /\ \A d \in Documents : d \in Present(job.snapshot) <=> job.snapshot[d] >= 1
         /\ Deleted = MaxVersion + 1 /\ MaxVersion \in Nat
<1>1. job.snapshot \in Scans
  BY DEF IndexingTypeOK, Attempts
<1>2. QED
  BY <1>1, VersionsAssumption DEF IndexingTypeOK, Scans, Present, Versions, Deleted

\* A file that is as it was seen before was not touched since.
LEMMA DiskGrows ==
  ASSUME IndexingInv, disk' \in [Documents -> 0..Deleted],
         \A d \in Documents : disk[d] <= disk'[d],
         UNCHANGED <<nature, extractor, records, compacted, archive, versions, quarantine,
                     ocr_queue, recognized, job, stops, completed, missed>>
  PROVE  IndexingInv'
<1> USE DEF IndexingInv
<1>1. IndexingTypeOK'
  BY DEF IndexingTypeOK
<1>2. /\ \A d \in Documents : disk[d] \in Nat /\ disk'[d] \in Nat /\ disk'[d] <= Deleted
      /\ \A d \in Documents : records[d] \in Nat /\ job.snapshot[d] \in Nat
      /\ Deleted \in Nat
  BY TypesOfFiles, VersionsAssumption DEF Deleted
<1>3. \A d \in Documents : /\ disk'[d] = records[d] => disk[d] = records[d]
                           /\ disk'[d] = job.snapshot[d] => disk[d] = job.snapshot[d]
                           /\ disk[d] = Deleted => disk'[d] = Deleted
  BY <1>2 DEF Lags
<1>4. Lags'
  <2>1. \A d \in Documents : records[d] <= disk'[d] /\ job.snapshot[d] <= disk'[d]
    BY <1>2 DEF Lags
  <2>2. \A c \in Candidates : c[1] \in Documents /\ c[2] \in Nat
    BY VersionsAssumption DEF Candidates, Versions
  <2>3. ocr_queue \subseteq Candidates /\ job.candidates \subseteq Candidates
        /\ recognized \subseteq [candidate : Candidates, text : Versions]
    BY DEF IndexingTypeOK, Attempts
  <2>4. \A c \in ocr_queue \cup job.candidates : c[2] <= disk'[c[1]]
    BY <2>2, <2>3, <1>2 DEF Lags
  <2>5. \A r \in recognized : r.candidate[2] <= r.text /\ r.text <= disk'[r.candidate[1]]
    <3> SUFFICES ASSUME NEW r \in recognized
                 PROVE  r.candidate[2] <= r.text /\ r.text <= disk'[r.candidate[1]]
      OBVIOUS
    <3>1. r.candidate \in Candidates /\ r.text \in Nat
      BY <2>3, VersionsAssumption DEF Versions
    <3>2. r.candidate[2] <= r.text /\ r.text <= disk[r.candidate[1]]
      BY DEF Lags
    <3>3. QED
      BY <3>1, <3>2, <2>2, <1>2
  <2>6. QED
    BY <2>1, <2>4, <2>5 DEF Lags
<1>5. RecognizedOnce' /\ TextsAreRecorded' /\ FailuresAreFlaky' /\ NoTwoTexts'
  BY <1>3 DEF RecognizedOnce, TextsAreRecorded, FailuresAreFlaky, NoTwoTexts
<1>6. \A d \in Documents : Right(d)' <=> Right(d)
  BY DEF Right, Suits
<1>7. \A d \in Documents : Settled(d) => Settled(d)'
  BY <1>3, <1>6 DEF Settled
<1>8. AtIdle' /\ AtSave'
  <2>1. AtIdle'
    BY <1>7 DEF AtIdle
  <2>2. ASSUME At("save")
        PROVE  /\ \A d \in Documents \ missed : Settled(d)'
               /\ \A d \in Present(records) \ Present(job.snapshot) : disk'[d] = Deleted
    BY <2>2, <1>3, <1>7 DEF AtSave, Present
  <2>3. AtSave'
    BY <2>2 DEF AtSave, At
  <2>4. QED
    BY <2>1, <2>3
<1>9. SeenByDelta' = SeenByDelta
  BY DEF SeenByDelta, Selected, Tombstones, Changed, New, Gone, content_record_signature
<1>10. AtPlan'
  BY <1>7, <1>9 DEF AtPlan, At
<1>11. PlanOK' <=> PlanOK
  BY DEF PlanOK
<1>12. \A d \in Documents : \A texts, failures :
         Suits(d, TextNow(d), texts, failures)' <=> Suits(d, TextNow(d), texts, failures)
  BY DEF Suits, TextNow
<1>13. AtExtract'
  <2>1. ASSUME At("extract")
        PROVE  /\ \A d \in Documents \ (missed \cup job.selected \cup job.tombstones) : Settled(d)'
               /\ \A d \in (job.selected \cup job.retried) \ job.todo :
                    disk'[d] = job.snapshot[d] => Suits(d, TextNow(d), job.texts[d], job.failures)'
    <3>1. job.selected \cup job.retried \subseteq Documents
      BY DEF IndexingTypeOK, Attempts
    <3>2. QED
      BY <2>1, <3>1, <1>3, <1>7, <1>12 DEF AtExtract
  <2>2. QED
    BY <2>1, <1>11 DEF AtExtract, At
<1>14. \A d \in Documents : Archived(d) => Archived(d)'
  BY <1>3, <1>12 DEF Archived
<1>15. AtEnd'
  <2>1. ASSUME job.at \in {"publish", "versions", "quarantine"}
        PROVE  /\ \A d \in Documents \ (missed \cup job.selected \cup job.tombstones \cup job.retried) :
                    Settled(d)'
               /\ \A d \in job.selected \cup job.tombstones \cup (job.retried \ missed) : Archived(d)'
    <3>1. job.selected \cup job.tombstones \cup job.retried \subseteq Documents
      BY DEF IndexingTypeOK, Attempts
    <3>2. QED
      BY <2>1, <3>1, <1>7, <1>14 DEF AtEnd
  <2>2. QED
    BY <2>1, <1>11 DEF AtEnd, At
<1>16. QED
  BY <1>1, <1>4, <1>5, <1>8, <1>10, <1>13, <1>15 DEF At

\* Files are written and deleted, whatever runs.
LEMMA TreeKeeps ==
  ASSUME IndexingInv, NEW d \in Documents, Write(d) \/ Delete(d)
  PROVE  IndexingInv'
<1>1. disk \in [Documents -> 0..Deleted] /\ disk[d] \in Nat
  BY TypesOfFiles DEF IndexingInv, IndexingTypeOK
<1>2. UNCHANGED <<nature, extractor, records, compacted, archive, versions, quarantine,
                  ocr_queue, recognized, job, stops, completed, missed>>
  BY DEF Write, Delete, Files, Program, History
<1>3. disk' \in [Documents -> 0..Deleted] /\ \A e \in Documents : disk[e] <= disk'[e]
  BY <1>1, VersionsAssumption DEF Write, Delete, Present, Versions, Deleted
<1>4. QED
  BY <1>2, <1>3, DiskGrows

\* A new extractor: what was read before is told by the version that read it.
LEMMA UpgradeKeeps ==
  ASSUME IndexingInv, Upgrade
  PROVE  IndexingInv'
<1>1. job = Idle /\ job.at = "idle" /\ job' = job
  BY IdleTypes DEF Upgrade
<1>2. UNCHANGED <<nature, disk, records, compacted, archive, versions, quarantine,
                  ocr_queue, recognized, job, stops, completed, missed>>
  BY DEF Upgrade, Files, History
<1>3. extractor' \in Extractors
  BY VersionsAssumption DEF Upgrade, IndexingInv, IndexingTypeOK, Extractors
<1>4. IndexingTypeOK'
  BY <1>2, <1>3 DEF IndexingInv, IndexingTypeOK
<1>5. Lags' /\ RecognizedOnce' /\ TextsAreRecorded' /\ FailuresAreFlaky' /\ NoTwoTexts'
  BY <1>2 DEF IndexingInv, Lags, RecognizedOnce, TextsAreRecorded, FailuresAreFlaky, NoTwoTexts
<1>6. AtIdle'
  BY <1>2 DEF IndexingInv, AtIdle, Settled, Right, Suits
<1>7. AtSave' /\ AtPlan' /\ AtExtract' /\ AtEnd'
  BY <1>1 DEF AtSave, AtPlan, AtExtract, AtEnd, At
<1>8. QED
  BY <1>1, <1>4, <1>5, <1>6, <1>7 DEF IndexingInv

\* The recognizer reads each queued image once, and as it is then.
LEMMA RecognizeQueueKeeps ==
  ASSUME IndexingInv, RecognizeQueue
  PROVE  IndexingInv'
<1>1. PICK done \in SUBSET {c \in ocr_queue : c[1] \in Present(disk)} :
        /\ \A c \in done : ~\E r \in recognized : r.candidate = c
        /\ recognized' = recognized \cup {[candidate |-> c, text |-> disk[c[1]]] : c \in done}
  BY DEF RecognizeQueue
<1>2. UNCHANGED <<nature, disk, extractor, records, compacted, archive, versions, quarantine,
                  ocr_queue, job, stops, completed, missed>>
  BY DEF RecognizeQueue, Files, Program, History
<1>3. \A c \in done : /\ c \in Candidates /\ disk[c[1]] \in Versions
                      /\ c[2] <= disk[c[1]] /\ disk[c[1]] <= disk[c[1]]
  <2> SUFFICES ASSUME NEW c \in done
               PROVE  /\ c \in Candidates /\ disk[c[1]] \in Versions
                      /\ c[2] <= disk[c[1]] /\ disk[c[1]] <= disk[c[1]]
    OBVIOUS
  <2>1. c \in Candidates /\ disk[c[1]] \in Versions /\ c[2] <= disk[c[1]]
    BY DEF IndexingInv, IndexingTypeOK, Present, Lags
  <2>2. QED
    BY <2>1, VersionsAssumption DEF Versions
<1>4. \A r \in recognized' :
        \/ r \in recognized
        \/ /\ r.candidate \in done
           /\ r = [candidate |-> r.candidate, text |-> disk[r.candidate[1]]]
  <2> SUFFICES ASSUME NEW r \in recognized', r \notin recognized
               PROVE  /\ r.candidate \in done
                      /\ r = [candidate |-> r.candidate, text |-> disk[r.candidate[1]]]
    OBVIOUS
  <2>1. PICK c \in done : r = [candidate |-> c, text |-> disk[c[1]]]
    BY <1>1
  <2>2. r.candidate = c
    BY <2>1
  <2>3. QED
    BY <2>1, <2>2
<1>5. recognized' \subseteq [candidate : Candidates, text : Versions]
  BY <1>3, <1>4 DEF IndexingInv, IndexingTypeOK
<1>6. IndexingTypeOK'
  BY <1>2, <1>5 DEF IndexingInv, IndexingTypeOK
<1>7. Lags'
  <2>1. \A r \in recognized' : r.candidate[2] <= r.text /\ r.text <= disk[r.candidate[1]]
    <3> SUFFICES ASSUME NEW r \in recognized'
                 PROVE  r.candidate[2] <= r.text /\ r.text <= disk[r.candidate[1]]
      OBVIOUS
    <3>1. CASE r \in recognized
      BY <3>1 DEF IndexingInv, Lags
    <3>2. CASE r.candidate \in done /\ r = [candidate |-> r.candidate, text |-> disk[r.candidate[1]]]
      <4>1. r.text = disk[r.candidate[1]]
        BY <3>2
      <4>2. QED
        BY <3>2, <4>1, <1>3
    <3>3. QED
      BY <3>1, <3>2, <1>4
  <2>2. QED
    BY <2>1, <1>2 DEF IndexingInv, Lags
<1>8. RecognizedOnce'
  <2> SUFFICES ASSUME NEW r \in recognized', NEW q \in recognized', r.candidate = q.candidate
               PROVE  r = q
    BY DEF RecognizedOnce
  <2>1. CASE r.candidate \in done
    BY <2>1, <1>1, <1>4
  <2>2. CASE r.candidate \notin done
    BY <2>2, <1>4 DEF IndexingInv, RecognizedOnce
  <2>3. QED
    BY <2>1, <2>2
<1>9. TextsAreRecorded' /\ FailuresAreFlaky' /\ NoTwoTexts' /\ AtPlace'
  BY <1>2, PlaceIsKept
<1>10. QED
  BY <1>6, <1>7, <1>8, <1>9 DEF IndexingInv, AtPlace

\* An attempt begins: what is scanned and in the archive is in the records, and what is
\* recorded and not scanned was deleted.
LEMMA BeginKeeps ==
  ASSUME IndexingInv, Begin
  PROVE  IndexingInv'
<1>1. job = Idle /\ job.at = "idle" /\ Idle \in Attempts /\ IndexingTypeOK
  BY IdleTypes DEF Begin, IndexingInv
<1>2. UNCHANGED <<nature, disk, extractor, records, compacted, archive, versions, quarantine,
                  ocr_queue, recognized, stops, missed>> /\ completed' = FALSE
  BY DEF Begin, Files, Program
<1>3. disk \in [Documents -> 0..Deleted] /\ records \in Scans /\ versions \in Stamps
  BY <1>1 DEF IndexingTypeOK
<1>4. Scanned \in Scans /\ Nothing \in Scans
  BY <1>3, ScannedTypes, VersionsAssumption DEF Nothing, Nowhere, Scans
<1> DEFINE previous == IF compacted THEN records ELSE Nothing
<1>5. job' = [Idle EXCEPT !.at = "save", !.snapshot = Scanned, !.previous = previous,
                          !.entries = versions]
  BY DEF Begin
<1>6. previous \in Scans
  BY <1>3, <1>4
<1>7. /\ job' \in Attempts /\ job'.at = "save" /\ job'.snapshot = Scanned
      /\ job'.previous = previous /\ job'.entries = versions
      /\ job'.candidates = {} /\ job'.failures = NoFailures
  <2> HIDE DEF previous
  <2>1. QED
    BY <1>1, <1>3, <1>4, <1>5, <1>6 DEF Idle, Attempts, Places
<1>8. IndexingTypeOK'
  BY <1>1, <1>2, <1>7 DEF IndexingTypeOK
<1>9. \A d \in Documents : Scanned[d] <= disk[d]
  BY <1>1, <1>3, ScannedTypes, TypesOfFiles
<1>10. Lags' /\ RecognizedOnce'
  BY <1>2, <1>7, <1>9 DEF IndexingInv, Lags, RecognizedOnce
<1>11. TextsAreRecorded' /\ NoTwoTexts'
  BY <1>2 DEF IndexingInv, TextsAreRecorded, NoTwoTexts
<1>12. FailuresAreFlaky'
  <2>1. \A d \in Documents, text \in Texts : NoFailures[<<d, text>>] = 0
    BY DEF NoFailures
  <2>2. QED
    BY <1>2, <1>7, <2>1 DEF IndexingInv, FailuresAreFlaky
<1>13. \A d \in Documents \ missed : Settled(d)'
  <2>1. \A d \in Documents : Settled(d)' <=> Settled(d)
    BY <1>2 DEF Settled, Right, Suits
  <2>2. QED
    BY <1>1, <2>1 DEF IndexingInv, AtIdle
<1>14. \A d \in Present(Scanned) : archive[d] # {} => d \in Present(records)
  <2> SUFFICES ASSUME NEW d \in Documents, d \in Present(Scanned), archive[d] # {}
               PROVE  d \in Present(records)
    BY DEF Present
  <2>1. disk[d] # Deleted
    BY <1>1, <1>3, ScannedTypes, TypesOfFiles
  <2>2. QED
    BY <2>1 DEF IndexingInv, TextsAreRecorded
<1>15. \A d \in Present(records) \ Present(Scanned) : disk[d] = Deleted
  <2> SUFFICES ASSUME NEW d \in Documents, d \in Present(records), d \notin Present(Scanned)
               PROVE  disk[d] = Deleted
    BY DEF Present
  <2>1. records[d] <= disk[d]
    BY DEF IndexingInv, Lags
  <2>2. QED
    BY <2>1, <1>1, <1>3, ScannedTypes, TypesOfFiles
<1>16. AtSave'
  BY <1>2, <1>7, <1>13, <1>14, <1>15 DEF AtSave
<1>17. AtIdle' /\ AtPlan' /\ AtExtract' /\ AtEnd' /\ ~At("idle")'
  BY <1>1, <1>7 DEF AtIdle, AtPlan, AtExtract, AtEnd, At
<1>18. QED
  BY <1>8, <1>10, <1>11, <1>12, <1>16, <1>17 DEF IndexingInv

\* The records are replaced: what did not change has the same record.
LEMMA SaveRecordsKeeps ==
  ASSUME IndexingInv, SaveRecords
  PROVE  IndexingInv'
<1>1. job.at = "save" /\ job \in Attempts /\ IndexingTypeOK /\ records' = job.snapshot
  BY DEF SaveRecords, At, IndexingInv, IndexingTypeOK
<1>2. UNCHANGED <<nature, disk, extractor, compacted, archive, versions, quarantine,
                  ocr_queue, recognized, stops, completed, missed>>
  BY DEF SaveRecords, Program, History
<1>3. /\ job' \in Attempts /\ job'.at = "plan" /\ job'.snapshot = job.snapshot
      /\ job'.previous = job.previous /\ job'.entries = job.entries
      /\ job'.candidates = job.candidates /\ job'.failures = job.failures
  BY <1>1 DEF SaveRecords, Attempts, Places
<1>4. job.snapshot \in Scans
  BY <1>1 DEF Attempts
<1>5. IndexingTypeOK'
  BY <1>1, <1>2, <1>3, <1>4 DEF IndexingTypeOK
<1>6. Lags' /\ RecognizedOnce'
  BY <1>1, <1>2, <1>3 DEF IndexingInv, Lags, RecognizedOnce
<1>7. FailuresAreFlaky' /\ NoTwoTexts'
  BY <1>2, <1>3 DEF IndexingInv, FailuresAreFlaky, NoTwoTexts
<1>8. /\ job.previous = IF compacted THEN records ELSE Nothing
      /\ job.entries = versions
      /\ \A d \in Documents \ missed : Settled(d)
      /\ \A d \in Present(job.snapshot) : archive[d] # {} => d \in Present(records)
      /\ \A d \in Present(records) \ Present(job.snapshot) : disk[d] = Deleted
  BY <1>1 DEF IndexingInv, AtSave, At
<1>9. \A d \in Documents : archive[d] # {} => compacted /\ (d \in Present(records) \/ disk[d] = Deleted)
  BY DEF IndexingInv, TextsAreRecorded
<1>10. TextsAreRecorded'
  BY <1>1, <1>2, <1>8, <1>9 DEF TextsAreRecorded
<1>11. \A d \in Present(job.snapshot) : archive[d] # {} => d \in Present(job.previous)
  BY <1>8, <1>9 DEF Present
<1>12. SeenByDelta' = SeenByDelta
  BY <1>2, <1>3 DEF SeenByDelta, Selected, Tombstones, Changed, New, Gone, content_record_signature
<1>13. ASSUME NEW d \in Documents, d \notin missed, d \notin SeenByDelta
       PROVE  Settled(d)'
  <2>1. Settled(d)
    BY <1>8, <1>13
  <2>2. CASE d \in Present(job.snapshot)
    <3>1. d \in Present(job.previous)
          /\ content_record_signature(job.snapshot, Nothing, d)
               = content_record_signature(job.previous, job.entries, d)
      BY <2>2, <1>13 DEF SeenByDelta, Selected, Changed, New
    <3>2. job.snapshot[d] = job.previous[d]
      BY <3>1 DEF content_record_signature
    <3>3. job.previous = records
      BY <3>1, <1>8, VersionsAssumption DEF Present, Nothing, Nowhere, Versions
    <3>4. records'[d] = records[d] /\ d \in Present(records) /\ d \in Present(records)'
      BY <2>2, <3>1, <3>2, <3>3, <1>1
    <3>5. Right(d)' <=> Right(d)
      BY <3>4, <1>2 DEF Right, Suits
    <3>6. QED
      BY <2>1, <3>4, <3>5, <1>2 DEF Settled
  <2>3. CASE d \notin Present(job.snapshot)
    <3>1. d \notin Present(job.previous)
      BY <2>3, <1>13 DEF SeenByDelta, Tombstones, Gone
    <3>2. archive[d] = {}
      BY <2>1, <3>1, <1>8, <1>9 DEF Settled
    <3>3. d \notin Present(records)'
      BY <2>3, <1>1
    <3>4. QED
      BY <3>2, <3>3, <1>2 DEF Settled
  <2>4. QED
    BY <2>2, <2>3
<1>14. AtPlan'
  BY <1>1, <1>2, <1>3, <1>8, <1>11, <1>12, <1>13 DEF AtPlan
<1>15. AtIdle' /\ AtSave' /\ AtExtract' /\ AtEnd' /\ ~At("idle")'
  BY <1>3, IdleTypes DEF AtIdle, AtSave, AtExtract, AtEnd, At
<1>16. QED
  BY <1>5, <1>6, <1>7, <1>10, <1>14, <1>15 DEF IndexingInv

\* The plan: a file that is read and not in the records of the job before is not in the
\* archive, and one that is read again failed before.
LEMMA PlanKeeps ==
  ASSUME IndexingInv, Plan
  PROVE  IndexingInv'
<1> DEFINE selected == Selected(job.snapshot, job.previous, job.entries)
           tombstones == Tombstones(job.snapshot, job.previous, job.entries)
           retried == retry_quarantine_entries(Unchanged)
<1>1. job.at = "plan" /\ job \in Attempts /\ IndexingTypeOK /\ Unchanged \subseteq Present(disk)
  BY DEF Plan, At, IndexingInv, IndexingTypeOK
<1>2. UNCHANGED <<nature, disk, extractor, records, compacted, archive, versions, quarantine,
                  ocr_queue, recognized, stops, completed, missed>>
  BY DEF Plan, Files, Program, History
<1>3. selected \subseteq Documents /\ tombstones \subseteq Documents /\ retried \subseteq Documents
  BY DEF Selected, Tombstones, Changed, New, Gone, retry_quarantine_entries, Unchanged, Present
<1>4. job.snapshot \in Scans /\ quarantine \in Counts
  BY <1>1 DEF IndexingTypeOK, Attempts
<1>5. job' = [Idle EXCEPT !.at = "extract", !.snapshot = job.snapshot, !.tombstones = tombstones,
                          !.selected = selected, !.retried = retried,
                          !.todo = selected \cup retried, !.failures = quarantine]
  BY DEF Plan
<1>6. /\ job' \in Attempts /\ job'.at = "extract" /\ job'.snapshot = job.snapshot
      /\ job'.tombstones = tombstones /\ job'.selected = selected /\ job'.retried = retried
      /\ job'.todo = selected \cup retried /\ job'.failures = quarantine
      /\ job'.texts = NoTexts /\ job'.candidates = {}
  <2> HIDE DEF selected, tombstones, retried
  <2>1. Idle \in Attempts
    BY IdleTypes
  <2>2. QED
    BY <2>1, <1>3, <1>4, <1>5 DEF Idle, Attempts, Places
<1>7. /\ records = job.snapshot
      /\ job.entries = versions
      /\ \A d \in Documents \ (missed \cup selected \cup tombstones) : Settled(d)
      /\ \A d \in Present(job.snapshot) : archive[d] # {} => d \in Present(job.previous)
  BY <1>1 DEF IndexingInv, AtPlan, At, SeenByDelta
<1>8. IndexingTypeOK'
  BY <1>1, <1>2, <1>6 DEF IndexingTypeOK
<1>9. Lags' /\ RecognizedOnce'
  BY <1>2, <1>6 DEF IndexingInv, Lags, RecognizedOnce
<1>10. TextsAreRecorded' /\ FailuresAreFlaky' /\ NoTwoTexts'
  BY <1>2, <1>6 DEF IndexingInv, TextsAreRecorded, FailuresAreFlaky, NoTwoTexts
<1>11. /\ selected \subseteq Present(job.snapshot)
       /\ retried \subseteq Present(job.snapshot) \ (selected \cup tombstones)
       /\ tombstones \cap Present(job.snapshot) \subseteq selected
       /\ selected \ tombstones \subseteq Present(job.snapshot) \ Present(job.previous)
  BY DEF Selected, Tombstones, Changed, New, Gone, retry_quarantine_entries, Unchanged
<1>12. \A d \in retried : nature[d] = "flaky"
  <2> SUFFICES ASSUME NEW d \in Documents, d \in retried PROVE nature[d] = "flaky"
    BY <1>3
  <2>1. d \in Present(disk) /\ quarantine[Key(d)] > 0
    BY <1>1 DEF retry_quarantine_entries
  <2>2. <<disk[d], extractor>> \in Texts
    BY <2>1, <1>1 DEF Present, Texts, IndexingTypeOK
  <2>3. QED
    BY <2>1, <2>2 DEF Key, IndexingInv, FailuresAreFlaky
<1>13. \A d \in Present(job.snapshot) \ selected : versions[d] \in {0, extractor}
  <2> SUFFICES ASSUME NEW d \in Documents, d \in Present(job.snapshot), d \notin selected
               PROVE  versions[d] \in {0, extractor}
    BY DEF Present
  <2>1. content_record_signature(job.snapshot, Nothing, d)
          = content_record_signature(job.previous, job.entries, d)
    BY DEF Selected, Changed, New
  <2>2. Nothing[d] = 0
    BY DEF Nothing, Nowhere
  <2>3. QED
    BY <2>1, <2>2, <1>7 DEF content_record_signature
<1>14. \A d \in Documents : NoTexts[d] = {} /\ AtMostOne(NoTexts[d])
  BY DEF NoTexts, AtMostOne
<1>15. \A d \in Documents : Settled(d)' <=> Settled(d)
  BY <1>2 DEF Settled, Right, Suits
<1>16. \A d \in selected \ tombstones : archive[d] = {}
  BY <1>7, <1>11
<1> HIDE DEF selected, tombstones, retried
<1>17. PlanOK'
  BY <1>2, <1>6, <1>7, <1>11, <1>12, <1>13, <1>14 DEF PlanOK
<1>18. AtExtract'
  <2>1. \A d \in Documents \ (missed \cup selected \cup tombstones) : Settled(d)'
    BY <1>7, <1>15
  <2>2. QED
    BY <1>2, <1>6, <1>14, <1>16, <1>17, <2>1 DEF AtExtract
<1>19. AtIdle' /\ AtSave' /\ AtPlan' /\ AtEnd' /\ ~At("idle")'
  BY <1>6, IdleTypes DEF AtIdle, AtSave, AtPlan, AtEnd, At
<1>20. QED
  BY <1>8, <1>9, <1>10, <1>18, <1>19 DEF IndexingInv

\* One file is read.
LEMMA ExtractKeeps ==
  ASSUME IndexingInv, NEW d \in Documents, Extract(d)
  PROVE  IndexingInv'
<1>1. job.at = "extract" /\ d \in job.todo /\ ReadOne(d) /\ job \in Attempts /\ IndexingTypeOK
  BY ExtractReadsOne DEF At, IndexingInv, IndexingTypeOK
<1>2. UNCHANGED <<nature, disk, extractor, records, compacted, archive, versions, quarantine,
                  ocr_queue, recognized, stops, completed, missed>>
  BY DEF Extract, Files, Program, History
<1>3. /\ job' \in Attempts /\ job'.at = "extract" /\ job'.snapshot = job.snapshot
      /\ job'.tombstones = job.tombstones /\ job'.selected = job.selected
      /\ job'.retried = job.retried /\ job'.todo = job.todo \ {d}
  BY <1>1 DEF ReadOne, SamePlan
<1>4. IndexingTypeOK'
  BY <1>1, <1>2, <1>3 DEF IndexingTypeOK
<1>5. Lags' /\ RecognizedOnce'
  <2>1. \A c \in job'.candidates : c[2] <= disk[c[1]]
    BY <1>1 DEF ReadOne, IndexingInv, Lags
  <2>2. QED
    BY <2>1, <1>2, <1>3 DEF IndexingInv, Lags, RecognizedOnce
<1>6. TextsAreRecorded' /\ NoTwoTexts'
  BY <1>2 DEF IndexingInv, TextsAreRecorded, NoTwoTexts
<1>7. FailuresAreFlaky'
  <2>1. \A e \in Documents : \A t \in Texts : job'.failures[<<e, t>>] > 0 => nature[e] = "flaky"
    BY <1>1 DEF ReadOne, IndexingInv, FailuresAreFlaky
  <2>2. QED
    BY <2>1, <1>2 DEF IndexingInv, FailuresAreFlaky
<1>8. /\ PlanOK
      /\ \A e \in Documents \ (missed \cup job.selected \cup job.tombstones) : Settled(e)
      /\ \A e \in job.selected \ job.tombstones : archive[e] = {}
      /\ \A e \in Documents \ ((job.selected \cup job.retried) \ job.todo) :
           /\ job.texts[e] = {}
           /\ \A t \in Texts : job.failures[<<e, t>>] = quarantine[<<e, t>>]
      /\ \A e \in (job.selected \cup job.retried) \ job.todo :
           disk[e] = job.snapshot[e] => Suits(e, TextNow(e), job.texts[e], job.failures)
      /\ \A e \in Documents : AtMostOne(job.texts[e])
  BY <1>1 DEF IndexingInv, AtExtract, At
<1>9. d \in job.selected \cup job.retried /\ job.selected \cup job.retried \subseteq Documents
  BY <1>1, <1>8 DEF PlanOK, Attempts
<1>10. PlanOK'
  <2>1. \A e \in Documents : job'.texts[e] # {} => e \in job.selected \cup job.retried
    BY <1>1, <1>8, <1>9 DEF PlanOK, ReadOne
  <2>2. QED
    BY <2>1, <1>2, <1>3, <1>8 DEF PlanOK
<1>11. \A e \in Documents : Settled(e)' <=> Settled(e)
  BY <1>2 DEF Settled, Right, Suits
<1>12. \A e \in Documents : AtMostOne(job'.texts[e])
  BY <1>1, <1>8 DEF ReadOne
<1>13. ASSUME NEW e \in Documents, e \notin (job.selected \cup job.retried) \ (job.todo \ {d})
       PROVE  /\ job'.texts[e] = {}
              /\ \A t \in Texts : job'.failures[<<e, t>>] = quarantine[<<e, t>>]
  <2>1. e # d /\ e \notin (job.selected \cup job.retried) \ job.todo
    BY <1>9, <1>13
  <2>2. QED
    BY <2>1, <1>1, <1>8 DEF ReadOne
<1>14. ASSUME NEW e \in Documents, e \in (job.selected \cup job.retried) \ (job.todo \ {d}),
              disk[e] = job.snapshot[e]
       PROVE  Suits(e, TextNow(e), job.texts[e], job.failures)'
  <2>1. CASE e = d
    <3>1. Suits(d, TextNow(d), job'.texts[d], job'.failures)
      BY <2>1, <1>1, <1>14 DEF ReadOne
    <3>2. QED
      BY <2>1, <3>1, <1>2, <1>3 DEF Suits, TextNow
  <2>2. CASE e # d
    <3>1. Suits(e, TextNow(e), job.texts[e], job.failures)
      BY <2>2, <1>8, <1>14
    <3>2. job'.texts[e] = job.texts[e] /\ \A t \in Texts : job'.failures[<<e, t>>] = job.failures[<<e, t>>]
      BY <2>2, <1>1 DEF ReadOne
    <3>3. TextNow(e)' = TextNow(e)
      BY <1>2, <1>3 DEF TextNow
    <3>4. TextNow(e) \in Texts
      <4>1. e \in Present(job.snapshot)
        BY <1>8, <1>14 DEF PlanOK
      <4>2. QED
        BY <4>1, <1>1 DEF Present, TextNow, Texts, IndexingTypeOK
    <3>5. QED
      BY <3>1, <3>2, <3>3, <3>4, <1>2 DEF Suits
  <2>3. QED
    BY <2>1, <2>2
<1>15. AtExtract'
  <2>1. \A e \in Documents \ (missed \cup job.selected \cup job.tombstones) : Settled(e)'
    BY <1>8, <1>11
  <2>2. \A e \in (job.selected \cup job.retried) \ (job.todo \ {d}) :
          disk[e] = job.snapshot[e] => Suits(e, TextNow(e), job.texts[e], job.failures)'
    BY <1>9, <1>14
  <2>3. QED
    BY <2>1, <2>2, <1>2, <1>3, <1>8, <1>10, <1>12, <1>13 DEF AtExtract
<1>16. AtIdle' /\ AtSave' /\ AtPlan' /\ AtEnd' /\ ~At("idle")'
  BY <1>3, IdleTypes DEF AtIdle, AtSave, AtPlan, AtEnd, At
<1>17. QED
  BY <1>4, <1>5, <1>6, <1>7, <1>15, <1>16 DEF IndexingInv

\* The archive is rewritten.  A file that is read again keeps the text it has, which is
\* the text that was read.
LEMMA CompactKeeps ==
  ASSUME IndexingInv, Compact
  PROVE  IndexingInv'
<1>1. job.at = "extract" /\ job.todo = {} /\ job \in Attempts /\ IndexingTypeOK
  BY DEF Compact, At, IndexingInv, IndexingTypeOK
<1>2. UNCHANGED <<nature, disk, extractor, records, versions, quarantine,
                  ocr_queue, recognized, stops, completed, missed>> /\ compacted' = TRUE
  BY DEF Compact, Program, History
<1>3. /\ job' \in Attempts /\ job'.at = "publish" /\ job'.snapshot = job.snapshot
      /\ job'.tombstones = job.tombstones /\ job'.selected = job.selected
      /\ job'.retried = job.retried /\ job'.todo = job.todo /\ job'.texts = job.texts
      /\ job'.failures = job.failures /\ job'.candidates = job.candidates
  BY <1>1 DEF Compact, Attempts, Places
<1>4. job.texts \in [Documents -> SUBSET Texts] /\ archive \in [Documents -> SUBSET Texts]
  BY <1>1 DEF Attempts, IndexingTypeOK
<1>5. \A d \in Documents :
        archive'[d] = (IF d \in job.tombstones THEN {} ELSE archive[d]) \cup job.texts[d]
  BY DEF Compact
<1>6. archive' \in [Documents -> SUBSET Texts]
  BY <1>4 DEF Compact
<1>7. IndexingTypeOK'
  BY <1>1, <1>2, <1>3, <1>6 DEF IndexingTypeOK
<1>8. Lags' /\ RecognizedOnce' /\ FailuresAreFlaky'
  BY <1>2, <1>3 DEF IndexingInv, Lags, RecognizedOnce, FailuresAreFlaky
<1>9. /\ PlanOK
      /\ \A d \in Documents \ (missed \cup job.selected \cup job.tombstones) : Settled(d)
      /\ \A d \in job.selected \ job.tombstones : archive[d] = {}
      /\ \A d \in Documents \ (job.selected \cup job.retried) :
           /\ job.texts[d] = {}
           /\ \A text \in Texts : job.failures[<<d, text>>] = quarantine[<<d, text>>]
      /\ \A d \in job.selected \cup job.retried :
           disk[d] = job.snapshot[d] => Suits(d, TextNow(d), job.texts[d], job.failures)
      /\ \A d \in Documents : AtMostOne(job.texts[d])
  BY <1>1 DEF IndexingInv, AtExtract, At
<1>10. /\ records = job.snapshot
       /\ job.selected \subseteq Present(job.snapshot)
       /\ job.retried \subseteq Present(job.snapshot) \ (job.selected \cup job.tombstones)
       /\ job.tombstones \cap Present(job.snapshot) \subseteq job.selected
       /\ \A d \in job.retried : nature[d] = "flaky"
       /\ \A d \in Present(job.snapshot) \ job.selected : versions[d] \in {0, extractor}
       /\ \A d \in Documents : job.texts[d] # {} => d \in job.selected \cup job.retried
       /\ Present(job.snapshot) \subseteq Documents
  BY <1>9 DEF PlanOK, Present
<1>11. PlanOK'
  BY <1>2, <1>3, <1>9 DEF PlanOK
<1>12. TextsAreRecorded'
  <2> SUFFICES ASSUME NEW d \in Documents, archive'[d] # {}
               PROVE  d \in Present(records) \/ disk[d] = Deleted
    BY <1>2 DEF TextsAreRecorded
  <2>1. CASE job.texts[d] # {}
    BY <2>1, <1>10
  <2>2. CASE job.texts[d] = {}
    BY <2>2, <1>5 DEF IndexingInv, TextsAreRecorded
  <2>3. QED
    BY <2>1, <2>2
<1>13. \A d \in job.selected : archive'[d] = job.texts[d]
  <2> SUFFICES ASSUME NEW d \in Documents, d \in job.selected PROVE archive'[d] = job.texts[d]
    BY <1>10
  <2>1. CASE d \in job.tombstones
    BY <2>1, <1>5
  <2>2. CASE d \notin job.tombstones
    <3>1. archive[d] = {}
      BY <2>2, <1>9
    <3>2. QED
      BY <2>2, <3>1, <1>5
  <2>3. QED
    BY <2>1, <2>2
<1>14. \A d \in Documents \ (job.selected \cup job.retried \cup job.tombstones) :
         archive'[d] = archive[d]
  BY <1>5, <1>9
<1>15. \A d \in job.tombstones \ job.selected : d \in Documents => archive'[d] = {}
  BY <1>5, <1>9, <1>10
<1>16. NoTwoTexts'
  <2> SUFFICES ASSUME NEW d \in Documents, nature[d] # "flaky"
               PROVE  AtMostOne(archive'[d])
    BY <1>2 DEF NoTwoTexts, AtMostOne
  <2>1. CASE d \in job.selected
    BY <2>1, <1>9, <1>13
  <2>2. CASE d \in job.tombstones \ job.selected
    BY <2>2, <1>15 DEF AtMostOne
  <2>3. CASE d \notin job.selected \cup job.tombstones
    BY <2>3, <1>10, <1>14 DEF IndexingInv, NoTwoTexts
  <2>4. QED
    BY <2>1, <2>2, <2>3
<1>17. ASSUME NEW d \in Documents \ (missed \cup job.selected \cup job.tombstones \cup job.retried)
       PROVE  /\ Settled(d)'
              /\ \A text \in Texts : job'.failures[<<d, text>>] = quarantine'[<<d, text>>]
  <2>1. Settled(d) /\ archive'[d] = archive[d]
    BY <1>9, <1>14
  <2>2. Settled(d)'
    BY <2>1, <1>2 DEF Settled, Right, Suits
  <2>3. QED
    BY <2>2, <1>2, <1>3, <1>9
<1>18. ASSUME NEW d \in Documents, d \in job.selected \cup job.retried, disk[d] = job.snapshot[d],
              Suits(d, TextNow(d), archive'[d], job.failures)
       PROVE  Suits(d, TextNow(d), archive[d], job.failures)'
  BY <1>18, <1>2, <1>3 DEF Suits, TextNow
<1>19. \A d \in job.selected : Archived(d)'
  <2> SUFFICES ASSUME NEW d \in Documents, d \in job.selected PROVE Archived(d)'
    BY <1>10
  <2>1. disk[d] = job.snapshot[d] => Suits(d, TextNow(d), archive'[d], job.failures)
    BY <1>9, <1>13
  <2>2. d \in Present(job.snapshot)
    BY <1>10
  <2>3. QED
    BY <2>1, <2>2, <1>2, <1>3, <1>18 DEF Archived
<1>20. \A d \in job.tombstones \ job.selected : Archived(d)'
  <2> SUFFICES ASSUME NEW d \in Documents, d \in job.tombstones \ job.selected PROVE Archived(d)'
    BY <1>1 DEF Attempts
  <2>1. d \notin Present(job.snapshot) /\ archive'[d] = {}
    BY <1>10, <1>15
  <2>2. QED
    BY <2>1, <1>3 DEF Archived
<1>21. \A d \in job.retried \ missed : Archived(d)'
  <2> SUFFICES ASSUME NEW d \in Documents, d \in job.retried, d \notin missed PROVE Archived(d)'
    BY <1>10
  <2>1. d \in Present(job.snapshot) /\ d \notin job.selected \cup job.tombstones /\ nature[d] = "flaky"
    BY <1>10
  <2>2. ASSUME disk[d] = job.snapshot[d]
        PROVE  Suits(d, TextNow(d), archive'[d], job.failures)
    <3>1. versions[d] \in Extractors /\ Right(d)
      BY <2>1, <2>2, <1>9, <1>10 DEF Settled
    <3>2. versions[d] = extractor
      BY <2>1, <3>1, <1>10, VersionsAssumption DEF Extractors
    <3>3. archive[d] = {TextNow(d)} \/ archive[d] = {}
      BY <2>1, <3>1, <3>2, <1>10 DEF Right, Suits, TextNow
    <3>4. job.texts[d] = {TextNow(d)} \/ (job.texts[d] = {} /\ job.failures[<<d, TextNow(d)>>] > 0)
      BY <2>1, <2>2, <1>9 DEF Suits
    <3>5. archive'[d] = archive[d] \cup job.texts[d]
      BY <2>1, <1>5
    <3>6. archive'[d] = {TextNow(d)} \/ (archive'[d] = {} /\ job.failures[<<d, TextNow(d)>>] > 0)
      BY <3>3, <3>4, <3>5
    <3>7. QED
      BY <2>1, <3>6 DEF Suits
  <2>3. QED
    BY <2>1, <2>2, <1>2, <1>3, <1>18 DEF Archived
<1>22. AtEnd'
  BY <1>2, <1>3, <1>11, <1>17, <1>19, <1>20, <1>21 DEF AtEnd, At
<1>23. AtIdle' /\ AtSave' /\ AtPlan' /\ AtExtract' /\ ~At("idle")'
  BY <1>3, IdleTypes DEF AtIdle, AtSave, AtPlan, AtExtract, At
<1>24. QED
  BY <1>7, <1>8, <1>12, <1>16, <1>22, <1>23 DEF IndexingInv

\* The images that are left are queued.
LEMMA PublishCandidatesKeeps ==
  ASSUME IndexingInv, PublishCandidates
  PROVE  IndexingInv'
<1>1. job.at = "publish" /\ job \in Attempts /\ IndexingTypeOK /\ ocr_queue' = job.candidates
  BY DEF PublishCandidates, At, IndexingInv, IndexingTypeOK
<1>2. UNCHANGED <<nature, disk, extractor, records, compacted, archive, versions, quarantine,
                  recognized, stops, completed, missed>>
  BY DEF PublishCandidates, Program, History
<1>3. /\ job' \in Attempts /\ job'.at = "versions" /\ job'.snapshot = job.snapshot
      /\ job'.tombstones = job.tombstones /\ job'.selected = job.selected
      /\ job'.retried = job.retried /\ job'.todo = job.todo /\ job'.texts = job.texts
      /\ job'.failures = job.failures /\ job'.candidates = job.candidates
  BY <1>1 DEF PublishCandidates, Attempts, Places
<1>4. job.candidates \subseteq Candidates
  BY <1>1 DEF Attempts
<1>5. IndexingTypeOK'
  BY <1>1, <1>2, <1>3, <1>4 DEF IndexingTypeOK
<1>6. Lags' /\ RecognizedOnce' /\ FailuresAreFlaky' /\ TextsAreRecorded' /\ NoTwoTexts'
  BY <1>1, <1>2, <1>3 DEF IndexingInv, Lags, RecognizedOnce, FailuresAreFlaky, TextsAreRecorded,
                          NoTwoTexts
<1>7. \A d \in Documents : (Settled(d)' <=> Settled(d)) /\ (Archived(d)' <=> Archived(d))
  BY <1>2, <1>3 DEF Settled, Right, Suits, Archived, TextNow
<1>8. PlanOK' <=> PlanOK
  BY <1>2, <1>3 DEF PlanOK
<1>9. job.selected \cup job.tombstones \cup job.retried \subseteq Documents
  BY <1>1 DEF Attempts
<1>10. AtEnd'
  <2>1. /\ \A d \in Documents \ (missed \cup job.selected \cup job.tombstones \cup job.retried) :
             Settled(d)' /\ \A text \in Texts : job.failures[<<d, text>>] = quarantine[<<d, text>>]
        /\ \A d \in job.selected \cup job.tombstones \cup (job.retried \ missed) : Archived(d)'
        /\ PlanOK'
    BY <1>1, <1>7, <1>8, <1>9 DEF IndexingInv, AtEnd
  <2>2. QED
    BY <2>1, <1>2, <1>3 DEF AtEnd, At
<1>11. AtIdle' /\ AtSave' /\ AtPlan' /\ AtExtract' /\ ~At("idle")'
  BY <1>3, IdleTypes DEF AtIdle, AtSave, AtPlan, AtExtract, At
<1>12. QED
  BY <1>5, <1>6, <1>10, <1>11 DEF IndexingInv

\* Every file that was scanned now counts as read by the extractor that runs, which those
\* that did not change were already.
LEMMA WriteVersionsKeeps ==
  ASSUME IndexingInv, WriteVersions
  PROVE  IndexingInv'
<1>1. job.at = "versions" /\ job \in Attempts /\ IndexingTypeOK
  BY DEF WriteVersions, At, IndexingInv, IndexingTypeOK
<1>2. UNCHANGED <<nature, disk, extractor, records, compacted, archive, quarantine,
                  ocr_queue, recognized, stops, completed, missed>>
  BY DEF WriteVersions, Program, History
<1>3. /\ job' \in Attempts /\ job'.at = "quarantine" /\ job'.snapshot = job.snapshot
      /\ job'.tombstones = job.tombstones /\ job'.selected = job.selected
      /\ job'.retried = job.retried /\ job'.todo = job.todo /\ job'.texts = job.texts
      /\ job'.failures = job.failures /\ job'.candidates = job.candidates
  BY <1>1 DEF WriteVersions, Attempts, Places
<1>4. \A d \in Documents : d \in Present(job.snapshot) => versions'[d] = extractor
  BY DEF WriteVersions
<1>5. versions' \in Stamps
  BY <1>1, VersionsAssumption DEF WriteVersions, IndexingTypeOK, Stamps, Extractors
<1>6. IndexingTypeOK'
  BY <1>1, <1>2, <1>3, <1>5 DEF IndexingTypeOK
<1>7. Lags' /\ RecognizedOnce' /\ FailuresAreFlaky' /\ TextsAreRecorded' /\ NoTwoTexts'
  BY <1>1, <1>2, <1>3 DEF IndexingInv, Lags, RecognizedOnce, FailuresAreFlaky, TextsAreRecorded,
                          NoTwoTexts
<1>8. /\ PlanOK
      /\ \A d \in Documents \ (missed \cup job.selected \cup job.tombstones \cup job.retried) :
           Settled(d) /\ \A text \in Texts : job.failures[<<d, text>>] = quarantine[<<d, text>>]
      /\ \A d \in job.selected \cup job.tombstones \cup (job.retried \ missed) : Archived(d)
  BY <1>1 DEF IndexingInv, AtEnd
<1>9. /\ records = job.snapshot
      /\ \A d \in Present(job.snapshot) \ job.selected : versions[d] \in {0, extractor}
      /\ Present(job.snapshot) \subseteq Documents
  BY <1>8 DEF PlanOK, Present
<1>10. PlanOK'
  BY <1>2, <1>3, <1>4, <1>8, <1>9 DEF PlanOK
<1>11. \A d \in Documents : Archived(d)' <=> Archived(d)
  BY <1>2, <1>3 DEF Archived, TextNow, Suits
<1>12. ASSUME NEW d \in Documents \ (missed \cup job.selected \cup job.tombstones \cup job.retried)
       PROVE  Settled(d)'
  <2>1. Settled(d)
    BY <1>8
  <2>2. CASE d \in Present(records) /\ disk[d] = records[d]
    <3>1. versions[d] \in Extractors /\ Right(d) /\ versions[d] \in {0, extractor}
      BY <2>1, <2>2, <1>9 DEF Settled
    <3>2. versions'[d] = versions[d]
      BY <2>2, <3>1, <1>4, <1>9, VersionsAssumption DEF Extractors
    <3>3. QED
      BY <2>2, <3>1, <3>2, <1>2 DEF Settled, Right, Suits
  <2>3. CASE ~(d \in Present(records) /\ disk[d] = records[d])
    BY <2>1, <2>3, <1>2 DEF Settled
  <2>4. QED
    BY <2>2, <2>3
<1>13. job.selected \cup job.tombstones \cup job.retried \subseteq Documents
  BY <1>1 DEF Attempts
<1>14. \A d \in job.selected \cup job.tombstones \cup (job.retried \ missed) : Archived(d)'
  BY <1>8, <1>11, <1>13
<1>15. AtEnd'
  BY <1>2, <1>3, <1>4, <1>8, <1>9, <1>10, <1>12, <1>14 DEF AtEnd, At
<1>16. AtIdle' /\ AtSave' /\ AtPlan' /\ AtExtract' /\ ~At("idle")'
  BY <1>3, IdleTypes DEF AtIdle, AtSave, AtPlan, AtExtract, At
<1>17. QED
  BY <1>6, <1>7, <1>15, <1>16 DEF IndexingInv

\* An attempt is over, and nobody holds anything of it.
LEMMA OverKeeps ==
  ASSUME IndexingInv, job' = Idle, quarantine' \in Counts, missed' \subseteq Documents,
         stops' \in 0..MaxStops, completed' \in BOOLEAN,
         \A d \in Documents, text \in Texts : quarantine'[<<d, text>>] > 0 => nature[d] = "flaky",
         \A d \in Documents \ missed' : Settled(d)',
         UNCHANGED <<nature, disk, extractor, records, compacted, archive, versions,
                     ocr_queue, recognized>>
  PROVE  IndexingInv'
<1>1. job' \in Attempts /\ job'.at = "idle"
  BY IdleTypes
<1>2. job'.snapshot = Nothing /\ job'.candidates = {} /\ job'.failures = NoFailures
  BY DEF Idle
<1>3. IndexingTypeOK'
  BY <1>1 DEF IndexingInv, IndexingTypeOK
<1>4. Lags' /\ RecognizedOnce'
  <2>1. \A d \in Documents : job'.snapshot[d] <= disk[d]
    BY <1>2, TypesOfFiles DEF Nothing, Nowhere, IndexingInv
  <2>2. QED
    BY <2>1, <1>2 DEF IndexingInv, Lags, RecognizedOnce
<1>5. TextsAreRecorded' /\ NoTwoTexts'
  BY DEF IndexingInv, TextsAreRecorded, NoTwoTexts
<1>6. FailuresAreFlaky'
  <2>1. \A d \in Documents, text \in Texts : NoFailures[<<d, text>>] = 0
    BY DEF NoFailures
  <2>2. QED
    BY <1>2, <2>1 DEF FailuresAreFlaky
<1>7. AtIdle' /\ AtSave' /\ AtPlan' /\ AtExtract' /\ AtEnd'
  BY <1>1 DEF AtIdle, AtSave, AtPlan, AtExtract, AtEnd, At
<1>8. QED
  BY <1>3, <1>4, <1>5, <1>6, <1>7 DEF IndexingInv

\* The attempt completes: what it read, and what it left alone, is right.
LEMMA WriteQuarantineKeeps ==
  ASSUME IndexingInv, WriteQuarantine
  PROVE  IndexingInv'
<1>1. job.at = "quarantine" /\ job \in Attempts /\ IndexingTypeOK
  BY DEF WriteQuarantine, At, IndexingInv, IndexingTypeOK
<1>2. /\ quarantine' = job.failures /\ job' = Idle /\ completed' = TRUE
      /\ missed' = missed \ (job.selected \cup job.tombstones)
      /\ UNCHANGED <<nature, disk, extractor, records, compacted, archive, versions,
                     ocr_queue, recognized, stops>>
  BY DEF WriteQuarantine, Program
<1>3. quarantine' \in Counts /\ missed' \subseteq Documents /\ stops' \in 0..MaxStops
  BY <1>1, <1>2 DEF IndexingTypeOK, Attempts
<1>4. \A d \in Documents, text \in Texts : quarantine'[<<d, text>>] > 0 => nature[d] = "flaky"
  BY <1>2 DEF IndexingInv, FailuresAreFlaky
<1>5. /\ PlanOK
      /\ \A d \in Documents \ (missed \cup job.selected \cup job.tombstones \cup job.retried) :
           Settled(d) /\ \A text \in Texts : job.failures[<<d, text>>] = quarantine[<<d, text>>]
      /\ \A d \in job.selected \cup job.tombstones \cup (job.retried \ missed) : Archived(d)
      /\ \A d \in Present(job.snapshot) : versions[d] = extractor
  BY <1>1 DEF IndexingInv, AtEnd, At
<1>6. records = job.snapshot /\ extractor \in Extractors
  BY <1>1, <1>5 DEF PlanOK, IndexingTypeOK
<1>7. ASSUME NEW d \in Documents, d \notin missed'
      PROVE  Settled(d)'
  <2>1. CASE d \in job.selected \cup job.tombstones \cup job.retried
    <3>1. Archived(d)
      BY <2>1, <1>2, <1>5, <1>7
    <3>2. CASE d \in Present(records) /\ disk[d] = records[d]
      <4>1. versions[d] = extractor /\ Suits(d, TextNow(d), archive[d], job.failures)
        BY <3>1, <3>2, <1>5, <1>6 DEF Archived
      <4>2. TextNow(d) = <<records[d], versions[d]>>
        BY <4>1, <1>6 DEF TextNow
      <4>3. Right(d)'
        BY <3>2, <4>1, <4>2, <1>2 DEF Right, Suits
      <4>4. QED
        BY <3>2, <4>1, <4>3, <1>2, <1>6 DEF Settled
    <3>3. CASE ~(d \in Present(records) /\ disk[d] = records[d])
      BY <3>1, <3>3, <1>2, <1>6 DEF Settled, Archived
    <3>4. QED
      BY <3>2, <3>3
  <2>2. CASE d \notin job.selected \cup job.tombstones \cup job.retried
    <3>1. Settled(d) /\ \A text \in Texts : quarantine'[<<d, text>>] = quarantine[<<d, text>>]
      BY <2>2, <1>2, <1>5, <1>7
    <3>2. CASE d \in Present(records) /\ disk[d] = records[d]
      <4>1. versions[d] \in Extractors /\ Right(d)
        BY <3>1, <3>2 DEF Settled
      <4>2. <<records[d], versions[d]>> \in Texts
        BY <3>2, <4>1 DEF Present, Texts
      <4>3. Right(d)'
        BY <3>1, <3>2, <4>1, <4>2, <1>2 DEF Right, Suits
      <4>4. QED
        BY <3>2, <4>1, <4>3, <1>2 DEF Settled
    <3>3. CASE ~(d \in Present(records) /\ disk[d] = records[d])
      BY <3>1, <3>3, <1>2 DEF Settled
    <3>4. QED
      BY <3>2, <3>3
  <2>3. QED
    BY <2>1, <2>2
<1>8. QED
  BY <1>2, <1>3, <1>4, <1>7, OverKeeps

\* The attempt is stopped: what it had seen of changes is missed, and the rest is right.
LEMMA FailKeeps ==
  ASSUME IndexingInv, Fail, ~At("idle"), stops' \in 0..MaxStops
  PROVE  IndexingInv'
<1>1. job \in Attempts /\ IndexingTypeOK /\ job.at \in Places /\ job.at # "idle"
  BY DEF At, IndexingInv, IndexingTypeOK, Attempts
<1>2. /\ job' = Idle /\ missed' = missed \cup SeenOfChanges
      /\ UNCHANGED <<nature, disk, extractor, records, compacted, archive, versions, quarantine,
                     ocr_queue, recognized, completed>>
  BY DEF Fail, Files, Program
<1>3. quarantine' \in Counts /\ completed' \in BOOLEAN
  BY <1>1, <1>2 DEF IndexingTypeOK
<1>4. \A d \in Documents, text \in Texts : quarantine'[<<d, text>>] > 0 => nature[d] = "flaky"
  BY <1>2 DEF IndexingInv, FailuresAreFlaky
<1>5. missed' \subseteq Documents
  <2>1. Selected(job.snapshot, job.previous, job.entries) \subseteq Documents
        /\ Tombstones(job.snapshot, job.previous, job.entries) \subseteq Documents
    BY DEF Selected, Tombstones, Changed, New, Gone, Present
  <2>2. job.selected \cup job.retried \cup job.tombstones \subseteq Documents /\ missed \subseteq Documents
    BY <1>1 DEF Attempts, IndexingTypeOK
  <2>3. QED
    BY <2>1, <2>2, <1>2 DEF SeenOfChanges
<1>6. \A d \in Documents : Settled(d)' <=> Settled(d)
  BY <1>2 DEF Settled, Right, Suits
<1>7. \A d \in Documents \ missed' : Settled(d)
  <2>1. CASE job.at = "save"
    BY <2>1, <1>2 DEF IndexingInv, AtSave, At
  <2>2. CASE job.at = "plan"
    <3>1. missed' = missed \cup SeenByDelta
      BY <2>2, <1>2 DEF SeenOfChanges, SeenByDelta, At
    <3>2. QED
      BY <2>2, <3>1 DEF IndexingInv, AtPlan, At
  <2>3. CASE job.at \in {"extract", "publish", "versions", "quarantine"}
    <3>1. missed' = missed \cup (job.selected \cup job.retried \cup job.tombstones)
      BY <2>3, <1>2 DEF SeenOfChanges, At
    <3>2. QED
      BY <2>3, <3>1 DEF IndexingInv, AtExtract, AtEnd, At
  <2>4. QED
    BY <2>1, <2>2, <2>3, <1>1 DEF Places
<1>8. \A d \in Documents \ missed' : Settled(d)'
  BY <1>6, <1>7
<1>9. QED
  BY <1>2, <1>3, <1>4, <1>5, <1>8, OverKeeps

-----------------------------------------------------------------------------
(* The theorems *)

\* Every step keeps the invariant.
LEMMA IndexingStep == IndexingInv /\ [IndexingNext]_contentVars => IndexingInv'
<1> SUFFICES ASSUME IndexingInv, [IndexingNext]_contentVars PROVE IndexingInv'
  OBVIOUS
<1>1. ASSUME NEW d \in Documents, Write(d) \/ Delete(d) PROVE IndexingInv'
  BY <1>1, TreeKeeps
<1>2. CASE Upgrade
  BY <1>2, UpgradeKeeps
<1>3. CASE RecognizeQueue
  BY <1>3, RecognizeQueueKeeps
<1>4. CASE Begin
  BY <1>4, BeginKeeps
<1>5. CASE SaveRecords
  BY <1>5, SaveRecordsKeeps
<1>6. CASE Plan
  BY <1>6, PlanKeeps
<1>7. ASSUME NEW d \in Documents, Extract(d) PROVE IndexingInv'
  BY <1>7, ExtractKeeps
<1>8. CASE Compact
  BY <1>8, CompactKeeps
<1>9. CASE PublishCandidates
  BY <1>9, PublishCandidatesKeeps
<1>10. CASE WriteVersions
  BY <1>10, WriteVersionsKeeps
<1>11. CASE WriteQuarantine
  BY <1>11, WriteQuarantineKeeps
<1>12. CASE FileGone
  <2>1. Fail /\ ~At("idle") /\ stops' \in 0..MaxStops
    BY <1>12 DEF FileGone, At, IndexingInv, IndexingTypeOK
  <2>2. QED
    BY <2>1, FailKeeps
<1>13. CASE Stop
  <2>1. Fail /\ ~At("idle")
    BY <1>13 DEF Stop, IndexingInv
  <2>2. stops' \in 0..MaxStops
    BY <1>13, VersionsAssumption DEF Stop, IndexingInv, IndexingTypeOK
  <2>3. QED
    BY <2>1, <2>2, FailKeeps
<1>14. CASE UNCHANGED contentVars
  BY <1>14, IndexingStutters
<1>15. QED
  BY <1>1, <1>2, <1>3, <1>4, <1>5, <1>6, <1>7, <1>8, <1>9, <1>10, <1>11, <1>12, <1>13, <1>14
     DEF IndexingNext

\* The files of the content index and the attempt that rewrites them have their types.
THEOREM IndexingTypes == IndexingSpec => []IndexingTypeOK
<1>1. IndexingInit => IndexingInv
  BY IndexingInitInv
<1>2. IndexingInv /\ [IndexingNext]_contentVars => IndexingInv'
  BY IndexingStep
<1>3. IndexingInv => IndexingTypeOK
  BY DEF IndexingInv
<1>4. QED
  BY <1>1, <1>2, <1>3, PTL DEF IndexingSpec

\* The invariant says what there is to be shown.
LEMMA InvIsCurrent == IndexingInv => ContentIsCurrent
<1> SUFFICES ASSUME IndexingInv PROVE ContentIsCurrent
  OBVIOUS
<1>1. OneVersion
  <2> SUFFICES ASSUME NEW d \in Documents, nature[d] # "flaky" PROVE Cardinality(archive[d]) <= 1
    BY DEF OneVersion
  <2>1. AtMostOne(archive[d])
    BY DEF IndexingInv, NoTwoTexts
  <2>2. CASE archive[d] = {}
    BY <2>2, FS_EmptySet
  <2>3. CASE archive[d] # {}
    <3>1. PICK text : archive[d] = {text}
      BY <2>1, <2>3 DEF AtMostOne
    <3>2. Cardinality({text}) = 1
      BY FS_Singleton
    <3>3. QED
      BY <3>1, <3>2
  <2>4. QED
    BY <2>2, <2>3
<1>2. ArchiveIsCurrent
  <2> SUFFICES ASSUME job = Idle, NEW d \in Documents, d \notin missed, records[d] = Scanned[d]
               PROVE  Right(d)
    BY DEF ArchiveIsCurrent
  <2>1. Settled(d)
    BY DEF IndexingInv, AtIdle
  <2>2. CASE d \in Present(records)
    <3>1. disk[d] = records[d]
      <4>1. disk \in [Documents -> 0..Deleted] /\ IndexingTypeOK
        BY DEF IndexingInv, IndexingTypeOK
      <4>2. records[d] >= 1
        BY <2>2, <4>1, TypesOfFiles
      <4>3. d \in Present(disk) => Scanned[d] = disk[d]
        BY <4>1, ScannedTypes
      <4>4. d \notin Present(disk) => Scanned[d] = 0
        BY <4>1, ScannedTypes
      <4>5. QED
        BY <4>2, <4>3, <4>4
    <3>2. QED
      BY <2>1, <2>2, <3>1 DEF Settled
  <2>3. CASE d \notin Present(records)
    BY <2>1, <2>3 DEF Settled, Right
  <2>4. QED
    BY <2>2, <2>3
<1>3. QED
  BY <1>1, <1>2 DEF ContentIsCurrent

\* The archive holds one text of a file, and between jobs it is the text of the file as it
\* is recorded, unless an attempt was stopped over it: for any files, versions, extractors
\* and stops.
THEOREM ContentStaysCurrent == IndexingSpec => []ContentIsCurrent
<1>1. IndexingInit => IndexingInv
  BY IndexingInitInv
<1>2. IndexingInv /\ [IndexingNext]_contentVars => IndexingInv'
  BY IndexingStep
<1>3. IndexingInv => ContentIsCurrent
  BY InvIsCurrent
<1>4. QED
  BY <1>1, <1>2, <1>3, PTL DEF IndexingSpec
=============================================================================
