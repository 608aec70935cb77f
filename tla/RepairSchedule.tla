---------------------------- MODULE RepairSchedule ----------------------------
(***************************************************************************)
(* Which subtrees must be scanned again after the event stream of a volume *)
(* was resumed: the whole volume when the cursor cannot be continued or    *)
(* when event ids are missing, and every root the stream reported dropped  *)
(* (crates/index/src/repair.rs; the resume plan is cursor.rs).             *)
(*                                                                         *)
(* The stream numbers its events.  It may lose one, deliver one again, or  *)
(* say that a subtree was dropped.  The schedule is a function of what was *)
(* observed since the cursor; the machine only produces the observations.  *)
(* A path is the sequence of its components below the volume's root.       *)
(***************************************************************************)
EXTENDS Naturals, FiniteSets, Sequences, SequencesExt

CONSTANTS
    DropPaths,  \* the paths that may be reported as dropped
    MaxEvents,  \* events of the volume
    MaxSeen,    \* events observed since a cursor
    MaxDrops    \* dropped roots since a cursor

ASSUME RepairAssumption ==
    DropPaths \subseteq Seq(Nat) /\ MaxEvents \in Nat /\ MaxSeen \in Nat /\ MaxDrops \in Nat

VARIABLES
    sent,       \* the id of the last event of the volume
    lost,       \* the ids that were not delivered
    seen,       \* the ids observed since the cursor, in the order of their arrival
    dropped,    \* the subtrees reported as dropped since the cursor
    last,       \* the cursor's last event id
    clean       \* whether the cursor can be continued

repairVars == <<sent, lost, seen, dropped, last, clean>>

Root == <<>>
Job(path, reason, priority) == [path |-> path, reason |-> reason, priority |-> priority]

\* priority: a volume that must be rescanned comes before a gap or a dropped subtree.
High == 1
Critical == 2

\* FseventsResumePlan::evaluate.  Zero stands for no id to start from.
FromEventId == IF clean THEN last + 1 ELSE 0

\* Mutant: the next id is only expected after an id that was expected.
ExpectedStrictly(i) ==
    IF i = 1 THEN FromEventId ELSE IF FromEventId = 0 THEN 0 ELSE FromEventId + i - 1

\* The id that evaluate expects when the i-th observed id arrives.
Expected(i) == IF i = 1 THEN FromEventId ELSE seen[i - 1] + 1

Gaps == {i \in DOMAIN seen : Expected(i) # 0 /\ seen[i] > Expected(i)}

Jobs ==
    (IF clean THEN {} ELSE {Job(Root, 0, Critical)})
    \cup {Job(Root, seen[i], High) : i \in Gaps}
    \cup {Job(p, 0, High) : p \in dropped}

\* The order of paths: at the first component in which they differ, the smaller one
\* or the one that has ended is first, so that a parent comes before its children.
PathLess(p, q) ==
    \E i \in 1..Len(q) :
        /\ i <= Len(p) + 1
        /\ \A k \in 1..(i - 1) : p[k] = q[k]
        /\ i <= Len(p) => p[i] < q[i]

\* By path, then the more urgent, then by reason.
JobBefore(a, b) ==
    \/ PathLess(a.path, b.path)
    \/ a.path = b.path /\ a.priority > b.priority
    \/ a.path = b.path /\ a.priority = b.priority /\ a.reason < b.reason

\* The jobs in this order: so many come before the one at each place.
Before(job) == Cardinality({j \in Jobs : JobBefore(j, job)})
SortedJobs == [i \in 1..Cardinality(Jobs) |-> CHOOSE job \in Jobs : Before(job) = i - 1]

\* Mutant: only a job for the very same path is left out.
CoalesceSamePath(kept, job) ==
    IF \E k \in kept : k.path = job.path THEN kept ELSE kept \cup {job}

\* A job below one that is kept is left out; those below it make room for it.
CoalesceJob(kept, job) ==
    IF \E k \in kept : IsPrefix(k.path, job.path) THEN kept
    ELSE {k \in kept : ~IsPrefix(job.path, k.path)} \cup {job}

\* The jobs that are kept after each job.  They stay in the order of the jobs.
Kept ==
    LET kept[i \in 0..Cardinality(Jobs)] ==
            IF i = 0 THEN {} ELSE CoalesceJob(kept[i - 1], SortedJobs[i])
    IN  kept

coalesce_jobs == Kept[Cardinality(Jobs)]

-----------------------------------------------------------------------------
RepairInit ==
    /\ sent = 0 /\ lost = {} /\ seen = <<>> /\ dropped = {}
    /\ last = 0 /\ clean = TRUE

DeliverNext ==
    /\ sent < MaxEvents /\ Len(seen) < MaxSeen
    /\ sent' = sent + 1
    /\ seen' = Append(seen, sent + 1)
    /\ UNCHANGED <<lost, dropped, last, clean>>

Lose ==
    /\ sent < MaxEvents
    /\ sent' = sent + 1
    /\ lost' = lost \cup {sent + 1}
    /\ UNCHANGED <<seen, dropped, last, clean>>

\* An event arrives late or once more.
Redeliver(id) ==
    /\ Len(seen) < MaxSeen
    /\ seen' = Append(seen, id)
    /\ lost' = lost \ {id}
    /\ UNCHANGED <<sent, dropped, last, clean>>

Drop(p) ==
    /\ Cardinality(dropped) < MaxDrops
    /\ dropped' = dropped \cup {p}
    /\ UNCHANGED <<sent, lost, seen, last, clean>>

\* The cursor moves to the highest id observed; one that must be repaired is not continued.
Checkpoint(health) ==
    /\ seen # <<>>
    /\ last' = CHOOSE id \in ToSet(seen) : \A other \in ToSet(seen) : other <= id
    /\ clean' = health
    /\ seen' = <<>> /\ dropped' = {}
    /\ UNCHANGED <<sent, lost>>

RepairNext ==
    \/ DeliverNext \/ Lose
    \/ \E id \in 1..sent : Redeliver(id)
    \/ \E p \in DropPaths : Drop(p)
    \/ \E health \in BOOLEAN : Checkpoint(health)

RepairSpec == RepairInit /\ [][RepairNext]_repairVars

-----------------------------------------------------------------------------
IsCovered(p) == \E j \in coalesce_jobs : IsPrefix(j.path, p)

\* Well-formed observations.
RepairTypeOK ==
    /\ sent \in 0..MaxEvents /\ last \in 0..sent /\ clean \in BOOLEAN
    /\ lost \subseteq 1..sent /\ dropped \subseteq DropPaths
    /\ seen \in Seq(1..sent) /\ Len(seen) <= MaxSeen

\* An event the stream has lost since the cursor, and that a later one has overtaken,
\* is repaired: the schedule scans the whole volume, however the others arrived.
LostIsRepaired ==
    \A id \in lost : id > last /\ (\E i \in DOMAIN seen : seen[i] > id) => IsCovered(Root)

\* Coalescing keeps what matters: every subtree that needs a scan gets one, no
\* subtree is scanned twice, and of the jobs for one path the most urgent is kept.
CoalescedIsExact ==
    /\ \A j \in Jobs : IsCovered(j.path)
    /\ \A a, b \in coalesce_jobs : IsPrefix(a.path, b.path) => a = b
    /\ \A s \in coalesce_jobs, j \in Jobs : j.path = s.path => j.priority <= s.priority

\* What the stream lost is scanned again, and coalescing leaves out no subtree and
\* scans none twice (evaluate_checked, coalesce_jobs_checked).
RepairIsExact == LostIsRepaired /\ CoalescedIsExact
=============================================================================
