-------------------------- MODULE WorkerPoolProofs --------------------------
(***************************************************************************)
(* The queue, the worker pool and the fairness of admission, for every     *)
(* batch of tasks, every set of workers, every volume limit and every      *)
(* quota.                                                                  *)
(*                                                                         *)
(* Queue: what the admission order contains, what an exhausted search for  *)
(* an admissible job implies, and that leases and releases keep the        *)
(* per-volume counts equal to the number of active jobs.                   *)
(*                                                                         *)
(* Pool: the inductive invariant adds that leases and active jobs          *)
(* correspond one to one, and that nobody sleeps while no lease is out.    *)
(*                                                                         *)
(* Fairness: while class c has a job that could run, the cursor of the     *)
(* admission order never passes a slot of c, so the slots it has passed    *)
(* since c was first overtaken are all of other classes: as many as c was  *)
(* overtaken, at least. The slots of c are consecutive, which leaves at    *)
(* most Len(admission_order) - quota(c) of them.                           *)
(***************************************************************************)
EXTENDS WorkerPool, AdmissionFairness, FiniteSetTheorems, TLAPS

-----------------------------------------------------------------------------
(* Policies. *)

\* The policies clamp every limit and every quota to at least one.
LEMMA PolicyType ==
  /\ \A v \in Volumes : limit_for(v) \in Nat \ {0}
  /\ \A c \in JobClass : quota(c) \in Nat \ {0}
BY QueueAssumption DEF limit_for, quota, AtLeastOne

\* A class repeated n times is a sequence of that class only.
LEMMA RepeatType ==
  ASSUME NEW c \in JobClass, NEW n \in Nat
  PROVE  /\ Repeat(c, n) \in Seq(JobClass)
         /\ Len(Repeat(c, n)) = n
         /\ \A i \in 1..n : Repeat(c, n)[i] = c
BY DEF Repeat

\* An element occurs in a sequence.
Occurs(x, s) == \E i \in 1..Len(s) : s[i] = x

\* Prepending the slots of a class to a sequence adds that class and keeps
\* every class that was there.
LEMMA PrependSlots ==
  ASSUME NEW c \in JobClass, NEW n \in Nat \ {0}, NEW t \in Seq(JobClass)
  PROVE  /\ Repeat(c, n) \o t \in Seq(JobClass)
         /\ Occurs(c, Repeat(c, n) \o t)
         /\ \A d \in JobClass : Occurs(d, t) => Occurs(d, Repeat(c, n) \o t)
<1> DEFINE r == Repeat(c, n)
<1>1. r \in Seq(JobClass) /\ Len(r) = n /\ \A i \in 1..n : r[i] = c
  BY RepeatType
<1> HIDE DEF r
<1>2. /\ r \o t \in Seq(JobClass)
      /\ Len(r \o t) = Len(r) + Len(t)
      /\ \A i \in 1..Len(r) : (r \o t)[i] = r[i]
      /\ \A i \in 1..Len(t) : (r \o t)[Len(r) + i] = t[i]
  BY <1>1
<1>3. Occurs(c, r \o t)
  <2>1. 1 \in 1..Len(r \o t) /\ (r \o t)[1] = c
    BY <1>1, <1>2
  <2>2. QED
    BY <2>1 DEF Occurs
<1>4. ASSUME NEW d \in JobClass, Occurs(d, t)
      PROVE  Occurs(d, r \o t)
  <2>1. PICK i \in 1..Len(t) : t[i] = d
    BY <1>4 DEF Occurs
  <2>2. Len(r) + i \in 1..Len(r \o t) /\ (r \o t)[Len(r) + i] = d
    BY <1>1, <1>2, <2>1
  <2>3. QED
    BY <2>2 DEF Occurs
<1>5. QED
  BY <1>2, <1>3, <1>4 DEF r

\* Whatever the quotas, the admission order has a slot for every class.
LEMMA AdmissionOrderHasEveryClass ==
  /\ admission_order \in Seq(JobClass)
  /\ Len(admission_order) \in Nat \ {0}
  /\ \A c \in JobClass : Occurs(c, admission_order)
<1> DEFINE r5 == Repeat("Repair", quota("Repair"))
           s4 == Repeat("Maintenance", quota("Maintenance")) \o r5
           s3 == Repeat("Background", quota("Background")) \o s4
           s2 == Repeat("Visible", quota("Visible")) \o s3
           s1 == Repeat("Foreground", quota("Foreground")) \o s2
<1>1. \A c \in JobClass : quota(c) \in Nat \ {0}
  BY PolicyType
<1>2. /\ "Foreground" \in JobClass /\ "Visible" \in JobClass /\ "Background" \in JobClass
      /\ "Maintenance" \in JobClass /\ "Repair" \in JobClass
  BY DEF JobClass
<1>5. r5 \in Seq(JobClass) /\ Occurs("Repair", r5)
  <2>1. /\ r5 \in Seq(JobClass) /\ Len(r5) = quota("Repair")
        /\ \A i \in 1..quota("Repair") : r5[i] = "Repair"
    BY <1>1, <1>2, RepeatType
  <2>2. QED
    BY <2>1, <1>1, <1>2 DEF Occurs
<1> HIDE DEF r5
<1>6. /\ s4 \in Seq(JobClass) /\ Occurs("Maintenance", s4)
      /\ \A d \in JobClass : Occurs(d, r5) => Occurs(d, s4)
  BY <1>1, <1>2, <1>5, PrependSlots
<1> HIDE DEF s4
<1>7. /\ s3 \in Seq(JobClass) /\ Occurs("Background", s3)
      /\ \A d \in JobClass : Occurs(d, s4) => Occurs(d, s3)
  BY <1>1, <1>2, <1>6, PrependSlots
<1> HIDE DEF s3
<1>8. /\ s2 \in Seq(JobClass) /\ Occurs("Visible", s2)
      /\ \A d \in JobClass : Occurs(d, s3) => Occurs(d, s2)
  BY <1>1, <1>2, <1>7, PrependSlots
<1> HIDE DEF s2
<1>9. /\ s1 \in Seq(JobClass) /\ Occurs("Foreground", s1)
      /\ \A d \in JobClass : Occurs(d, s2) => Occurs(d, s1)
  BY <1>1, <1>2, <1>8, PrependSlots
<1>10. admission_order = s1
  BY DEF admission_order, s1, s2, s3, s4, r5
<1> HIDE DEF s1
<1>11. \A c \in JobClass : Occurs(c, s1)
  BY <1>2, <1>5, <1>6, <1>7, <1>8, <1>9 DEF JobClass
<1>12. Len(s1) \in Nat \ {0}
  BY <1>9 DEF Occurs
<1>13. QED
  BY <1>9, <1>10, <1>11, <1>12

-----------------------------------------------------------------------------
(* The search for an admissible job. *)

\* Every slot of the admission order is some offset away from the cursor.
LEMMA EverySlotIsReached ==
  ASSUME NEW L \in Nat \ {0}, NEW cursor \in 0..(L - 1), NEW k \in 0..(L - 1)
  PROVE  \E offset \in 0..(L - 1) : (cursor + offset) % L = k
<1>1. CASE cursor <= k
  <2>1. k - cursor \in 0..(L - 1) /\ cursor + (k - cursor) = k
    BY <1>1
  <2>2. k % L = k
    OBVIOUS
  <2>3. QED
    BY <2>1, <2>2
<1>2. CASE k < cursor
  <2>1. k + L - cursor \in 0..(L - 1) /\ cursor + (k + L - cursor) = k + L
    BY <1>2
  <2>2. (k + L) % L = k
    BY SMTT(30)
  <2>3. QED
    BY <2>1, <2>2
<1>3. QED
  BY <1>1, <1>2

\* When next_admissible() finds nothing, no class has an admissible job: the
\* search does not miss a class, wherever the cursor stands.
LEMMA ExhaustedSearch ==
  ASSUME next_admission_class \in Slots, NothingAdmissible
  PROVE  \A c \in JobClass : AdmissibleOf(c) = {}
<1> SUFFICES ASSUME NEW c \in JobClass
             PROVE  AdmissibleOf(c) = {}
  OBVIOUS
<1> DEFINE L == Len(admission_order)
<1>1. L \in Nat \ {0}
  BY AdmissionOrderHasEveryClass
<1>2. PICK i \in 1..L : admission_order[i] = c
  BY AdmissionOrderHasEveryClass DEF Occurs
<1>3. i - 1 \in 0..(L - 1) /\ next_admission_class \in 0..(L - 1)
  BY <1>1, <1>2 DEF Slots
<1>4. PICK offset \in 0..(L - 1) : (next_admission_class + offset) % L = i - 1
  BY <1>1, <1>3, EverySlotIsReached
<1>5. ClassAt(offset) = c
  BY <1>1, <1>2, <1>4 DEF ClassAt, SlotAt
<1>6. offset \in Slots
  BY <1>4 DEF Slots
<1>7. QED
  BY <1>5, <1>6 DEF NothingAdmissible

-----------------------------------------------------------------------------
(* The queue's own invariant. *)

ActiveOn(v) == {j \in active : job[j].volume = v}

\* Every job is in exactly one of the four ledgers.
Partition ==
  /\ pending \cup active \cup completed \cup failed = Jobs
  /\ pending \cap (active \cup completed \cup failed) = {}
  /\ active \cap (completed \cup failed) = {}
  /\ completed \cap failed = {}

\* The count kept per volume is the number of active jobs on it.
CountsAreExact ==
  \A v \in Volumes : /\ active_by_volume[v] = Cardinality(ActiveOn(v))
                     /\ active_by_volume[v] <= limit_for(v)

\* Whatever has been leased had all its dependencies completed.
DependenciesFirst ==
  \A j \in active \cup completed : job[j].dependencies \subseteq completed

QueueInv == QueueTypeOK /\ Partition /\ CountsAreExact /\ DependenciesFirst

\* A new queue satisfies the invariant.
LEMMA QueueInitInv == QueueInit => QueueInv
<1> SUFFICES ASSUME QueueInit
             PROVE  QueueInv
  OBVIOUS
<1> USE DEF QueueInit
<1>1. QueueTypeOK
  <2>1. 0 \in Slots
    BY AdmissionOrderHasEveryClass DEF Slots
  <2>2. QED
    BY <2>1, QueueAssumption DEF QueueTypeOK
<1>2. Partition
  BY DEF Partition
<1>3. CountsAreExact
  <2> SUFFICES ASSUME NEW v \in Volumes
               PROVE  /\ active_by_volume[v] = Cardinality(ActiveOn(v))
                      /\ active_by_volume[v] <= limit_for(v)
    BY DEF CountsAreExact
  <2>1. ActiveOn(v) = {}
    BY DEF ActiveOn
  <2>2. Cardinality(ActiveOn(v)) = 0
    BY <2>1, FS_EmptySet
  <2>3. QED
    BY <2>2, PolicyType
<1>4. DependenciesFirst
  BY DEF DependenciesFirst
<1>5. QED
  BY <1>1, <1>2, <1>3, <1>4 DEF QueueInv

\* The jobs of a batch, and so any set of them, are finitely many.
LEMMA JobsFinite ==
  /\ IsFiniteSet(Jobs)
  /\ \A S \in SUBSET Jobs : IsFiniteSet(S)
<1>1. IsFiniteSet(Jobs)
  BY FS_Interval, QueueAssumption DEF Jobs
<1>2. QED
  BY <1>1, FS_Subset

\* The slot after any slot, modulo the length, is a slot.
LEMMA NextSlot ==
  ASSUME NEW offset \in Slots, next_admission_class \in Slots
  PROVE  /\ SlotAt(offset) \in Slots
         /\ (SlotAt(offset) + 1) % Len(admission_order) \in Slots
<1> DEFINE L == Len(admission_order)
<1>1. L \in Nat \ {0}
  BY AdmissionOrderHasEveryClass
<1> HIDE DEF L
<1>2. \A n \in Nat : n % L \in 0..(L - 1)
  BY <1>1
<1>3. Slots = 0..(L - 1)
  BY DEF Slots, L
<1>4. SlotAt(offset) = (next_admission_class + offset) % L
  BY DEF SlotAt, L
<1>5. SlotAt(offset) \in 0..(L - 1)
  <2>1. next_admission_class + offset \in Nat
    BY <1>1, <1>3
  <2>2. QED
    BY <1>2, <1>4, <2>1
<1>6. (SlotAt(offset) + 1) % L \in 0..(L - 1)
  BY <1>1, <1>2, <1>5
<1>7. QED
  BY <1>3, <1>5, <1>6 DEF L

\* Leasing a job keeps the invariant: in particular the volume's count grows
\* by one, from below its limit.
LEMMA LeaseKeepsInv ==
  ASSUME QueueInv, NEW j \in pending, NEW offset \in Slots, lease_next(j, offset)
  PROVE  QueueInv'
<1> USE DEF lease_next, TakeSlot
<1>1. /\ j \in Jobs /\ j \notin active /\ j \notin completed /\ j \notin failed
      /\ dependencies_completed(j) /\ admissible_volume(j)
  BY DEF QueueInv, QueueTypeOK, Partition, Admissible, AdmissibleOf
<1>2. job[j].volume \in Volumes \cup {NoVolume}
  BY <1>1 DEF QueueInv, QueueTypeOK, JobRecord
<1>3. QueueTypeOK'
  <2>1. (SlotAt(offset) + 1) % Len(admission_order) \in Slots
    BY NextSlot DEF QueueInv, QueueTypeOK
  <2>2. Slots' = Slots
    BY DEF Slots, admission_order, quota
  <2>3. active_by_volume' \in [Volumes -> Nat]
    BY <1>2 DEF QueueInv, QueueTypeOK
  <2>4. QED
    BY <1>1, <2>1, <2>2, <2>3 DEF QueueInv, QueueTypeOK
<1>4. Partition'
  BY <1>1 DEF QueueInv, Partition
<1>5. CountsAreExact'
  <2> SUFFICES ASSUME NEW v \in Volumes
               PROVE  /\ active_by_volume'[v] = Cardinality(ActiveOn(v)')
                      /\ active_by_volume'[v] <= limit_for(v)
    BY DEF CountsAreExact, limit_for
  <2>1. IsFiniteSet(ActiveOn(v)) /\ j \notin ActiveOn(v)
    BY <1>1, JobsFinite DEF ActiveOn, QueueInv, QueueTypeOK
  <2>2. /\ active_by_volume[v] = Cardinality(ActiveOn(v))
        /\ active_by_volume[v] <= limit_for(v)
    BY DEF QueueInv, CountsAreExact
  <2>3. active_by_volume \in [Volumes -> Nat] /\ limit_for(v) \in Nat
    BY PolicyType DEF QueueInv, QueueTypeOK
  <2>4. CASE job[j].volume = v
    <3>1. ActiveOn(v)' = ActiveOn(v) \cup {j}
      BY <2>4 DEF ActiveOn
    <3>2. Cardinality(ActiveOn(v)') = Cardinality(ActiveOn(v)) + 1
      BY <2>1, <3>1, FS_AddElement
    <3>3. v # NoVolume
      BY QueueAssumption
    <3>4. active_by_volume'[v] = active_by_volume[v] + 1
      BY <2>3, <2>4, <3>3
    <3>5. active_by_volume[v] < limit_for(v)
      BY <1>1, <2>4, <3>3 DEF admissible_volume
    <3>6. QED
      BY <2>2, <2>3, <3>2, <3>4, <3>5
  <2>5. CASE job[j].volume # v
    <3>1. ActiveOn(v)' = ActiveOn(v)
      BY <2>5 DEF ActiveOn
    <3>2. active_by_volume'[v] = active_by_volume[v]
      BY <1>2, <2>3, <2>5
    <3>3. QED
      BY <2>2, <3>1, <3>2
  <2>6. QED
    BY <2>4, <2>5
<1>6. DependenciesFirst'
  BY <1>1 DEF QueueInv, DependenciesFirst, dependencies_completed
<1>7. QED
  BY <1>3, <1>4, <1>5, <1>6 DEF QueueInv

\* Removing a dependency-blocked job keeps the invariant.
LEMMA BlockKeepsInv ==
  ASSUME QueueInv, NEW j \in pending, remove_dependency_blocked(j)
  PROVE  QueueInv'
<1> USE DEF remove_dependency_blocked
<1>1. j \in Jobs
  BY DEF QueueInv, QueueTypeOK
<1>2. QueueTypeOK'
  <2>1. Slots' = Slots
    BY DEF Slots, admission_order, quota
  <2>2. QED
    BY <1>1, <2>1 DEF QueueInv, QueueTypeOK
<1>3. Partition'
  BY DEF QueueInv, Partition
<1>4. CountsAreExact'
  BY DEF QueueInv, CountsAreExact, ActiveOn, limit_for
<1>5. DependenciesFirst'
  BY DEF QueueInv, DependenciesFirst
<1>6. QED
  BY <1>2, <1>3, <1>4, <1>5 DEF QueueInv

\* Releasing an active job, with any status, keeps the invariant: the
\* volume's count never goes below zero, and no completed dependency is lost.
LEMMA ReleaseKeepsInv ==
  ASSUME QueueInv, NEW j \in active, NEW s, release(j, s)
  PROVE  QueueInv'
<1> USE DEF release
<1>1. j \in Jobs /\ j \notin pending /\ j \notin completed /\ j \notin failed
  BY DEF QueueInv, QueueTypeOK, Partition
<1>2. job[j].volume \in Volumes \cup {NoVolume}
  BY <1>1 DEF QueueInv, QueueTypeOK, JobRecord
<1>3. ASSUME NEW v \in Volumes
      PROVE  /\ active_by_volume'[v] = Cardinality(ActiveOn(v)')
             /\ active_by_volume'[v] <= limit_for(v)
             /\ active_by_volume'[v] \in Nat
  <2>1. IsFiniteSet(ActiveOn(v))
    BY JobsFinite DEF ActiveOn, QueueInv, QueueTypeOK
  <2>2. /\ active_by_volume[v] = Cardinality(ActiveOn(v))
        /\ active_by_volume[v] <= limit_for(v)
    BY DEF QueueInv, CountsAreExact
  <2>3. active_by_volume \in [Volumes -> Nat] /\ limit_for(v) \in Nat
    BY PolicyType DEF QueueInv, QueueTypeOK
  <2>4. CASE job[j].volume = v
    <3>1. ActiveOn(v)' = ActiveOn(v) \ {j} /\ j \in ActiveOn(v)
      BY <2>4 DEF ActiveOn
    <3>2. /\ Cardinality(ActiveOn(v)') = Cardinality(ActiveOn(v)) - 1
          /\ IsFiniteSet(ActiveOn(v)')
      BY <2>1, <3>1, FS_RemoveElement
    <3>3. v # NoVolume
      BY QueueAssumption
    <3>4. active_by_volume'[v] = active_by_volume[v] - 1
      BY <2>3, <2>4, <3>3
    <3>5. Cardinality(ActiveOn(v)') \in Nat
      BY <3>2, FS_CardinalityType
    <3>6. QED
      BY <2>2, <2>3, <3>2, <3>4, <3>5
  <2>5. CASE job[j].volume # v
    <3>1. ActiveOn(v)' = ActiveOn(v)
      BY <2>5 DEF ActiveOn
    <3>2. active_by_volume'[v] = active_by_volume[v]
      BY <1>2, <2>3, <2>5
    <3>3. QED
      BY <2>2, <2>3, <3>1, <3>2
  <2>6. QED
    BY <2>4, <2>5
<1>4. QueueTypeOK'
  <2>1. Slots' = Slots
    BY DEF Slots, admission_order, quota
  <2>2. active_by_volume' \in [Volumes -> Int]
    BY <1>2 DEF QueueInv, QueueTypeOK
  <2>3. active_by_volume' \in [Volumes -> Nat]
    BY <1>3, <2>2
  <2>4. QED
    BY <1>1, <2>1, <2>3 DEF QueueInv, QueueTypeOK
<1>5. Partition'
  BY <1>1 DEF QueueInv, Partition
<1>6. CountsAreExact'
  BY <1>3 DEF CountsAreExact, limit_for
<1>7. DependenciesFirst'
  BY <1>1 DEF QueueInv, DependenciesFirst
<1>8. QED
  BY <1>4, <1>5, <1>6, <1>7 DEF QueueInv

-----------------------------------------------------------------------------
(* What an idle queue implies. *)

\* With no lease out, every volume has a free slot.
LEMMA IdleVolumesAreFree ==
  ASSUME QueueInv, active = {}
  PROVE  \A j \in Jobs : admissible_volume(j)
<1> SUFFICES ASSUME NEW j \in Jobs, job[j].volume # NoVolume
             PROVE  active_by_volume[job[j].volume] < limit_for(job[j].volume)
  BY DEF admissible_volume
<1> DEFINE v == job[j].volume
<1>1. v \in Volumes
  BY DEF QueueInv, QueueTypeOK, JobRecord
<1>2. ActiveOn(v) = {}
  BY DEF ActiveOn
<1>3. active_by_volume[v] = 0
  BY <1>1, <1>2, FS_EmptySet DEF QueueInv, CountsAreExact
<1>4. QED
  BY <1>1, <1>3, PolicyType

\* With no lease out and nothing admissible, every pending job misses a
\* dependency.
LEMMA IdlePendingAreBlocked ==
  ASSUME QueueInv, active = {}, NothingAdmissible
  PROVE  \A j \in pending : ~dependencies_completed(j)
<1> SUFFICES ASSUME NEW j \in pending, dependencies_completed(j)
             PROVE  FALSE
  OBVIOUS
<1>1. j \in Jobs /\ job[j].class \in JobClass
  BY DEF QueueInv, QueueTypeOK, JobRecord
<1>2. admissible_volume(j)
  BY <1>1, IdleVolumesAreFree
<1>3. j \in AdmissibleOf(job[j].class)
  BY <1>2 DEF AdmissibleOf
<1>4. QED
  BY <1>1, <1>3, ExhaustedSearch DEF QueueInv, QueueTypeOK

\* An idle queue always makes progress: with no lease out, next() hands
\* something out until nothing is pending.
LEMMA IdleQueueHandsOut ==
  ASSUME QueueInv, active = {}, NothingToHandOut
  PROVE  pending = {}
<1>1. \A j \in pending : ~dependencies_completed(j)
  BY IdlePendingAreBlocked DEF NothingToHandOut
<1>2. QED
  BY <1>1 DEF NothingToHandOut, DependencyBlocked

-----------------------------------------------------------------------------
(* The worker pool. *)

\* Active jobs and the leases held by workers correspond one to one.
LeasesMatch ==
  /\ \A w \in Holding : lease[w] \in active
  /\ \A j \in active : \E w \in Holding : lease[w] = j
  /\ \A w, x \in Holding : lease[w] = lease[x] => w = x

\* A worker about to report has a job to report on.
Reporting == \A w \in Workers : pc[w] = "report" => lease[w] \in Jobs

IInv ==
  /\ TypeOK
  /\ QueueInv
  /\ LeasesMatch
  /\ Reporting
  /\ SleepersHaveAWaker

\* A fresh pool satisfies the invariant.
LEMMA InitInv == Init => IInv
<1> SUFFICES ASSUME Init
             PROVE  IInv
  OBVIOUS
<1>1. QueueInv
  BY QueueInitInv DEF Init
<1>2. Holding = {} /\ active = {}
  BY DEF Init, QueueInit, Holding
<1>3. TypeOK
  <2>1. outcomes \in [Jobs -> Seq(TaskStatus \cup {Blocked})]
    BY DEF Init
  <2>2. QED
    BY <1>1, <2>1 DEF QueueInv, Init, TypeOK, PC, TaskStatus
<1>4. LeasesMatch
  BY <1>2 DEF LeasesMatch
<1>5. Reporting /\ SleepersHaveAWaker
  BY DEF Init, Reporting, SleepersHaveAWaker
<1>6. QED
  BY <1>1, <1>3, <1>4, <1>5 DEF IInv

-----------------------------------------------------------------------------
(* One lemma per action. *)

\* Taking a lease pairs the new active job with the worker.
LEMMA TakeLeaseInv ==
  ASSUME IInv, NEW w \in Workers, TakeLease(w)
  PROVE  IInv'
<1>1. PICK j \in pending, offset \in Slots :
        lease_next(j, offset) /\ lease' = [lease EXCEPT ![w] = j]
  BY DEF TakeLease
<1>2. QueueInv'
  BY <1>1, LeaseKeepsInv DEF IInv
<1>3. /\ j \in Jobs /\ j \notin active /\ active' = active \cup {j}
      /\ w \notin Holding /\ Holding' = Holding \cup {w}
  BY <1>1 DEF IInv, TypeOK, QueueInv, QueueTypeOK, Partition, TakeLease, lease_next, TakeSlot, Holding
<1>4. TypeOK'
  BY <1>1, <1>2, <1>3 DEF IInv, TypeOK, QueueInv, TakeLease, PC
<1>5. LeasesMatch'
  <2>1. lease'[w] = j /\ \A x \in Workers \ {w} : lease'[x] = lease[x]
    BY <1>1 DEF IInv, TypeOK
  <2>2. Holding \subseteq Workers
    BY DEF Holding
  <2>3. QED
    BY <1>3, <2>1, <2>2 DEF IInv, LeasesMatch
<1>6. Reporting'
  BY <1>1, <1>3 DEF IInv, TypeOK, Reporting, TakeLease
<1>7. SleepersHaveAWaker'
  BY <1>3 DEF SleepersHaveAWaker
<1>8. QED
  BY <1>2, <1>4, <1>5, <1>6, <1>7 DEF IInv

\* Taking a blocked job leaves the leases alone.
LEMMA TakeBlockedInv ==
  ASSUME IInv, NEW w \in Workers, TakeBlocked(w)
  PROVE  IInv'
<1>1. PICK j \in pending :
        remove_dependency_blocked(j) /\ lease' = [lease EXCEPT ![w] = j]
  BY DEF TakeBlocked
<1>2. QueueInv'
  BY <1>1, BlockKeepsInv DEF IInv
<1>3. j \in Jobs /\ active' = active /\ w \notin Holding /\ Holding' = Holding
  BY <1>1 DEF IInv, TypeOK, QueueInv, QueueTypeOK, TakeBlocked,
              remove_dependency_blocked, Holding
<1>4. TypeOK'
  BY <1>1, <1>2, <1>3 DEF IInv, TypeOK, QueueInv, TakeBlocked, PC
<1>5. LeasesMatch'
  BY <1>1, <1>3 DEF IInv, TypeOK, LeasesMatch, Holding
<1>6. Reporting'
  BY <1>1, <1>3 DEF IInv, TypeOK, Reporting, TakeBlocked
<1>7. SleepersHaveAWaker'
  BY <1>3 DEF IInv, TypeOK, SleepersHaveAWaker, TakeBlocked
<1>8. QED
  BY <1>2, <1>4, <1>5, <1>6, <1>7 DEF IInv

\* A worker goes to sleep only while some lease is out: an idle queue with
\* pending jobs always has something to hand out.
LEMMA WaitInv ==
  ASSUME IInv, NEW w \in Workers, Wait(w)
  PROVE  IInv'
<1> USE DEF Wait
<1>1. UNCHANGED queueVars
  OBVIOUS
<1>2. QueueInv' /\ active' = active
  BY <1>1 DEF IInv, queueVars, QueueInv, QueueTypeOK, Partition, CountsAreExact,
              ActiveOn, DependenciesFirst, Slots, admission_order, quota, limit_for
<1>3. Holding' = Holding
  BY DEF IInv, TypeOK, Holding
<1>4. TypeOK'
  BY <1>2 DEF IInv, TypeOK, QueueInv, PC
<1>5. LeasesMatch' /\ Reporting'
  BY <1>2, <1>3 DEF IInv, TypeOK, LeasesMatch, Reporting
<1>6. active # {}
  BY IdleQueueHandsOut DEF IInv
<1>7. SleepersHaveAWaker'
  BY <1>3, <1>6 DEF IInv, LeasesMatch, SleepersHaveAWaker
<1>8. QED
  BY <1>2, <1>4, <1>5, <1>7 DEF IInv

\* A worker's step that leaves the queue and all leases alone, and puts
\* nobody to sleep, keeps the invariant.
LEMMA LocalStepInv ==
  ASSUME IInv, UNCHANGED <<queueVars, lease>>, TypeOK',
         Holding' = Holding,
         \A w \in Workers : pc'[w] \in {"waiting", "report"} => pc[w] = pc'[w]
  PROVE  IInv'
<1>1. QueueInv' /\ active' = active
  BY DEF IInv, queueVars, QueueInv, QueueTypeOK, Partition, CountsAreExact,
         ActiveOn, DependenciesFirst, Slots, admission_order, quota, limit_for
<1>2. LeasesMatch' /\ Reporting' /\ SleepersHaveAWaker'
  BY <1>1 DEF IInv, LeasesMatch, Reporting, SleepersHaveAWaker
<1>3. QED
  BY <1>1, <1>2 DEF IInv

\* Ending a lease, by finish() or by the drop of a panicking worker: the job
\* leaves active with its lease, and every sleeper is woken.
LEMMA EndLeaseInv ==
  ASSUME IInv, NEW w \in Holding, NEW s, release(lease[w], s), TypeOK',
         \A x \in Workers \ {w} : lease'[x] = lease[x] /\ pc'[x] = NotifyAll[x],
         \/ pc'[w] = "report" /\ lease'[w] = lease[w]
         \/ pc'[w] = "panicked"
  PROVE  IInv'
<1>1. w \in Workers /\ lease[w] \in active /\ lease[w] \in Jobs
  BY DEF Holding, IInv, LeasesMatch, QueueInv, QueueTypeOK
<1>2. QueueInv' /\ active' = active \ {lease[w]}
  BY <1>1, ReleaseKeepsInv DEF IInv, release
<1>3. Holding' = Holding \ {w}
  BY <1>1 DEF Holding, NotifyAll
<1>4. LeasesMatch'
  <2>1. Holding \subseteq Workers
    BY DEF Holding
  <2>2. QED
    BY <1>1, <1>2, <1>3, <2>1 DEF IInv, LeasesMatch
<1>5. Reporting'
  BY <1>1 DEF IInv, Reporting, NotifyAll
<1>6. SleepersHaveAWaker'
  BY <1>1 DEF SleepersHaveAWaker, NotifyAll
<1>7. QED
  BY <1>2, <1>4, <1>5, <1>6 DEF IInv

\* Every step of the pool keeps the invariant.
LEMMA StepInv == IInv /\ [Next]_vars => IInv'
<1> SUFFICES ASSUME IInv, [Next]_vars
             PROVE  IInv'
  OBVIOUS
<1>1. ASSUME NEW w \in Workers, TakeLease(w) PROVE IInv'
  BY <1>1, TakeLeaseInv
<1>2. ASSUME NEW w \in Workers, TakeBlocked(w) PROVE IInv'
  BY <1>2, TakeBlockedInv
<1>3. ASSUME NEW w \in Workers, Wait(w) PROVE IInv'
  BY <1>3, WaitInv
<1>4. ASSUME NEW w \in Workers, Exit(w) \/ SpuriousWake(w) \/ CheckCancellation(w)
      PROVE  IInv'
  <2>1. UNCHANGED <<queueVars, lease>>
    BY <1>4 DEF Exit, SpuriousWake, CheckCancellation
  <2>2. TypeOK'
    BY <1>4 DEF Exit, SpuriousWake, CheckCancellation, IInv, TypeOK, QueueTypeOK,
                queueVars, Slots, admission_order, quota, PC, TaskStatus
  <2>3. Holding' = Holding
    BY <1>4 DEF Exit, SpuriousWake, CheckCancellation, IInv, TypeOK, Holding
  <2>4. \A x \in Workers : pc'[x] \in {"waiting", "report"} => pc[x] = pc'[x]
    BY <1>4 DEF Exit, SpuriousWake, CheckCancellation, IInv, TypeOK
  <2>5. QED
    BY <2>1, <2>2, <2>3, <2>4, LocalStepInv
<1>5. ASSUME NEW w \in Workers, NEW s \in TaskStatus, FinishWork(w, s) PROVE IInv'
  <2>1. UNCHANGED <<queueVars, lease>>
    BY <1>5 DEF FinishWork
  <2>2. TypeOK'
    BY <1>5 DEF FinishWork, IInv, TypeOK, QueueTypeOK,
                queueVars, Slots, admission_order, quota, PC
  <2>3. Holding' = Holding
    BY <1>5 DEF FinishWork, IInv, TypeOK, Holding
  <2>4. \A x \in Workers : pc'[x] \in {"waiting", "report"} => pc[x] = pc'[x]
    BY <1>5 DEF FinishWork, IInv, TypeOK
  <2>5. QED
    BY <2>1, <2>2, <2>3, <2>4, LocalStepInv
<1>6. ASSUME NEW w \in Workers, FinishLease(w) PROVE IInv'
  <2>1. w \in Holding /\ release(lease[w], status[w])
    BY <1>6 DEF FinishLease, Holding
  <2>2. QueueTypeOK'
    BY <2>1, ReleaseKeepsInv DEF IInv, LeasesMatch, QueueInv
  <2>3. pc' \in [Workers -> PC]
    BY <1>6 DEF FinishLease, NotifyAll, IInv, TypeOK, PC
  <2>4. TypeOK'
    BY <1>6, <2>2, <2>3 DEF FinishLease, IInv, TypeOK
  <2>5. /\ \A x \in Workers \ {w} : lease'[x] = lease[x] /\ pc'[x] = NotifyAll[x]
        /\ pc'[w] = "report" /\ lease'[w] = lease[w]
    BY <1>6 DEF FinishLease, NotifyAll
  <2>6. QED
    BY <2>1, <2>4, <2>5, EndLeaseInv
<1>7. ASSUME NEW w \in Workers, PanicInWork(w) PROVE IInv'
  <2>1. w \in Holding /\ release(lease[w], "Failed")
    BY <1>7 DEF PanicInWork, Holding
  <2>2. QueueTypeOK'
    BY <2>1, ReleaseKeepsInv DEF IInv, LeasesMatch, QueueInv
  <2>3. pc' \in [Workers -> PC]
    BY <1>7 DEF PanicInWork, NotifyAll, IInv, TypeOK, PC
  <2>4. TypeOK'
    BY <1>7, <2>2, <2>3 DEF PanicInWork, IInv, TypeOK
  <2>5. /\ \A x \in Workers \ {w} : lease'[x] = lease[x] /\ pc'[x] = NotifyAll[x]
        /\ pc'[w] = "panicked"
    BY <1>7 DEF PanicInWork, NotifyAll, IInv, TypeOK
  <2>6. QED
    BY <2>1, <2>4, <2>5, EndLeaseInv
<1>8. ASSUME NEW w \in Workers, PushOutcome(w) PROVE IInv'
  <2>1. /\ lease[w] \in Jobs /\ w \notin Holding
        /\ UNCHANGED queueVars /\ lease' = [lease EXCEPT ![w] = NoJob]
        /\ pc' = [pc EXCEPT ![w] = "next"]
    BY <1>8 DEF PushOutcome, IInv, Reporting, Holding
  <2>2. outcomes' \in [Jobs -> Seq(TaskStatus \cup {Blocked})]
    <3>1. /\ outcomes[lease[w]] \in Seq(TaskStatus \cup {Blocked})
          /\ status[w] \in TaskStatus \cup {Blocked}
      BY <2>1 DEF IInv, TypeOK
    <3>2. Append(outcomes[lease[w]], status[w]) \in Seq(TaskStatus \cup {Blocked})
      BY <3>1
    <3>3. QED
      BY <1>8, <2>1, <3>2 DEF PushOutcome, IInv, TypeOK
  <2>3. QueueInv' /\ active' = active
    BY <2>1 DEF IInv, queueVars, QueueInv, QueueTypeOK, Partition, CountsAreExact,
              ActiveOn, DependenciesFirst, Slots, admission_order, quota, limit_for
  <2>4. TypeOK'
    BY <1>8, <2>1, <2>2, <2>3 DEF PushOutcome, QueueInv, IInv, TypeOK, PC
  <2>5. Holding' = Holding
    BY <2>1 DEF IInv, TypeOK, Holding
  <2>6. LeasesMatch'
    BY <2>1, <2>3, <2>5 DEF IInv, TypeOK, LeasesMatch, Holding
  <2>7. Reporting' /\ SleepersHaveAWaker'
    BY <2>1, <2>5 DEF IInv, TypeOK, Reporting, SleepersHaveAWaker
  <2>8. QED
    BY <2>3, <2>4, <2>6, <2>7 DEF IInv
<1>9. ASSUME (\E j \in Jobs : Cancel(j)) \/ JoinScope \/ UNCHANGED vars PROVE IInv'
  <2>1. UNCHANGED <<queueVars, lease, pc>>
    BY <1>9 DEF Cancel, JoinScope, vars, workerVars
  <2>2. TypeOK'
    BY <1>9 DEF Cancel, JoinScope, IInv, TypeOK, QueueTypeOK,
                vars, workerVars, queueVars, Slots, admission_order, quota, PC
  <2>3. Holding' = Holding
    BY <2>1 DEF Holding
  <2>4. QED
    BY <2>1, <2>2, <2>3, LocalStepInv
<1>10. QED
  BY <1>1, <1>2, <1>3, <1>4, <1>5, <1>6, <1>7, <1>8, <1>9 DEF Next, WorkerStep

\* The inductive invariant holds in every reachable state of the pool.
THEOREM PoolInvariant == Spec => []IInv
BY InitInv, StepInv, PTL DEF Spec

\* Type correctness of the pool.
THEOREM PoolTypeOK == Spec => []TypeOK
<1>1. IInv => TypeOK
  BY DEF IInv
<1>2. QED
  BY <1>1, PoolInvariant, PTL

\* No lost wakeup: in run_isolated_fair a worker sleeps on the condition
\* variable only while another worker holds a lease whose release notifies it.
THEOREM NoLostWakeup == Spec => []SleepersHaveAWaker
<1>1. IInv => SleepersHaveAWaker
  BY DEF IInv
<1>2. QED
  BY <1>1, PoolInvariant, PTL

\* Work only ever runs after all of its dependencies have completed.
THEOREM DependencyOrder == Spec => []RunsAfterDependencies
<1>1. IInv => RunsAfterDependencies
  BY DEF IInv, LeasesMatch, QueueInv, Partition, DependenciesFirst, RunsAfterDependencies
<1>2. QED
  BY <1>1, PoolInvariant, PTL

-----------------------------------------------------------------------------
(* Volume isolation. *)

HoldingOn(v) == {w \in Holding : job[lease[w]].volume = v}

\* The workers that hold a lease on a volume and the active jobs on it are
\* equally many: leases are one to one.
LEMMA HoldersAreActiveJobs ==
  ASSUME IInv, NEW v \in Volumes
  PROVE  Cardinality(HoldingOn(v)) = Cardinality(ActiveOn(v))
<1> DEFINE f == [w \in HoldingOn(v) |-> lease[w]]
<1>1. f \in Bijection(HoldingOn(v), ActiveOn(v))
  <2>1. f \in [HoldingOn(v) -> ActiveOn(v)]
    BY DEF IInv, LeasesMatch, HoldingOn, ActiveOn
  <2>2. \A a, b \in HoldingOn(v) : f[a] = f[b] => a = b
    BY DEF IInv, LeasesMatch, HoldingOn
  <2>3. \A j \in ActiveOn(v) : \E w \in HoldingOn(v) : f[w] = j
    BY DEF IInv, LeasesMatch, HoldingOn, ActiveOn
  <2>4. QED
    BY <2>1, <2>2, <2>3 DEF Bijection, Injection, Surjection, IsInjective
<1>2. ExistsBijection(HoldingOn(v), ActiveOn(v))
  BY <1>1 DEF ExistsBijection
<1>3. IsFiniteSet(HoldingOn(v))
  BY WorkersAssumption, FS_Subset DEF HoldingOn, Holding
<1>4. QED
  BY <1>2, <1>3, FS_Bijection

\* The per-volume counters are exactly the leases held, and no volume ever has
\* more leases out than its limit.
THEOREM VolumesIsolated == Spec => []VolumeIsolation
<1>1. IInv => VolumeIsolation
  <2> SUFFICES ASSUME IInv, NEW v \in Volumes
               PROVE  /\ active_by_volume[v] = Cardinality(HoldingOn(v))
                      /\ active_by_volume[v] <= limit_for(v)
    BY DEF VolumeIsolation, HoldingOn
  <2>1. QED
    BY HoldersAreActiveJobs DEF IInv, QueueInv, CountsAreExact
<1>2. QED
  BY <1>1, PoolInvariant, PTL

-----------------------------------------------------------------------------
(* The pool implements the job lifecycle. *)

\* The ledgers of the queue and the states of JobLifecycle say the same.
LEMMA JobStates ==
  ASSUME QueueInv, NEW j \in Jobs
  PROVE  /\ JobState[j] = "queued" <=> j \in pending
         /\ JobState[j] = "running" <=> j \in active
         /\ JobState[j] = "completed" <=> j \in completed
         /\ JobState[j] = "failed" <=> j \in failed
BY DEF QueueInv, QueueTypeOK, Partition, JobState

\* The sets of jobs in each state are the queue's ledgers.
LEMMA LedgersAreStates ==
  ASSUME QueueInv
  PROVE  /\ Lifecycle!In("running") = active
         /\ Lifecycle!In("completed") = completed
         /\ \A v : Lifecycle!RunningOn(v) = ActiveOn(v)
<1>1. Lifecycle!In("running") = active /\ Lifecycle!In("completed") = completed
  BY JobStates DEF Lifecycle!In, QueueInv, QueueTypeOK
<1>2. QED
  BY <1>1 DEF Lifecycle!RunningOn, ActiveOn

\* A lease is a start of the abstract job.
LEMMA LeaseIsStart ==
  ASSUME QueueInv, QueueInv', NEW j \in pending, NEW offset \in Slots,
         lease_next(j, offset)
  PROVE  Lifecycle!Start(j)
<1>1. /\ j \in Jobs /\ dependencies_completed(j) /\ admissible_volume(j)
      /\ pending' = pending \ {j} /\ active' = active \cup {j}
      /\ completed' = completed /\ failed' = failed /\ job' = job
  BY DEF QueueInv, QueueTypeOK, lease_next, TakeSlot, Admissible, AdmissibleOf
<1>2. JobState[j] = "queued"
  BY <1>1, JobStates
<1>3. job[j].dependencies \subseteq Lifecycle!In("completed")
  BY <1>1, LedgersAreStates DEF dependencies_completed
<1>4. ASSUME job[j].volume \in Volumes
      PROVE  Cardinality(Lifecycle!RunningOn(job[j].volume))
               < [v \in Volumes |-> limit_for(v)][job[j].volume]
  <2>1. job[j].volume # NoVolume
    BY <1>4, QueueAssumption
  <2>2. active_by_volume[job[j].volume] < limit_for(job[j].volume)
    BY <1>1, <2>1 DEF admissible_volume
  <2>3. Cardinality(Lifecycle!RunningOn(job[j].volume)) = active_by_volume[job[j].volume]
    BY <1>4, LedgersAreStates DEF QueueInv, CountsAreExact
  <2>4. QED
    BY <1>4, <2>2, <2>3
<1>5. JobState' = [JobState EXCEPT ![j] = "running"]
  <2>1. ASSUME NEW i \in Jobs
        PROVE  JobState'[i] = IF i = j THEN "running" ELSE JobState[i]
    BY <1>1 DEF JobState
  <2>2. /\ JobState = [i \in Jobs |-> JobState[i]]
        /\ JobState' = [i \in Jobs |-> JobState'[i]]
    BY DEF JobState
  <2>3. QED
    BY <1>1, <2>1, <2>2
<1>6. job[j].volume \in Volumes =>
        Cardinality(Lifecycle!RunningOn(job[j].volume))
          < [v \in Volumes |-> limit_for(v)][job[j].volume]
  BY <1>4
<1>7. \A S : Lifecycle!Cardinality(S) = Cardinality(S)
  BY DEF Cardinality, Lifecycle!Cardinality
<1>8. QED
  BY <1>1, <1>2, <1>3, <1>5, <1>6, <1>7 DEF Lifecycle!Start

\* A job removed as dependency-blocked is doomed. Either one of its
\* dependencies has failed or is unknown; or nothing runs and nothing can be
\* admitted, and then all pending jobs wait on one another.
LEMMA BlockedIsDoomed ==
  ASSUME QueueInv, NEW j \in pending, remove_dependency_blocked(j)
  PROVE  Lifecycle!Doomed(j)
<1>1. j \in Jobs /\ pending \subseteq Jobs /\ failed \subseteq Jobs
  BY DEF QueueInv, QueueTypeOK
<1>2. CASE HopelessDependency(j)
  <2> DEFINE S == failed \cup {j}
  <2>1. PICK d \in job[j].dependencies :
          d \in failed \/ d \notin (pending \cup active \cup completed \cup failed)
    BY <1>2 DEF HopelessDependency
  <2>2. d \in failed \/ d \notin Jobs
    BY <2>1 DEF QueueInv, Partition
  <2>3. Lifecycle!CannotComplete(S)
    BY <1>1, <2>2, JobStates DEF Lifecycle!CannotComplete
  <2>4. S \in SUBSET Jobs /\ j \in S
    BY <1>1
  <2>5. QED
    BY <2>3, <2>4 DEF Lifecycle!Doomed
<1>3. CASE ~HopelessDependency(j)
  <2>1. /\ active = {} /\ NothingAdmissible
        /\ \A i \in pending : ~HopelessDependency(i)
    BY <1>3 DEF remove_dependency_blocked, DependencyBlocked
  <2>2. \A i \in pending : ~dependencies_completed(i)
    BY <2>1, IdlePendingAreBlocked
  <2>3. \A i \in pending : \E d \in job[i].dependencies : d \in pending
    BY <2>1, <2>2 DEF HopelessDependency, dependencies_completed
  <2>4. Lifecycle!CannotComplete(pending)
    BY <1>1, <2>3, JobStates DEF Lifecycle!CannotComplete
  <2>5. QED
    BY <1>1, <2>4 DEF Lifecycle!Doomed
<1>4. QED
  BY <1>2, <1>3

\* Removing a dependency-blocked job gives the abstract job up.
LEMMA BlockIsGiveUp ==
  ASSUME QueueInv, NEW j \in pending, remove_dependency_blocked(j)
  PROVE  Lifecycle!GiveUp(j)
<1>1. /\ j \in Jobs /\ pending' = pending \ {j} /\ failed' = failed \cup {j}
      /\ active' = active /\ completed' = completed /\ job' = job
  BY DEF QueueInv, QueueTypeOK, remove_dependency_blocked
<1>2. JobState[j] = "queued"
  BY <1>1, JobStates
<1>3. JobState' = [JobState EXCEPT ![j] = "failed"]
  BY <1>1 DEF JobState, QueueInv, Partition
<1>4. QED
  BY <1>1, <1>2, <1>3, BlockedIsDoomed DEF Lifecycle!GiveUp

\* Releasing a lease finishes the abstract job.
LEMMA ReleaseIsFinish ==
  ASSUME QueueInv, NEW j \in active, NEW s, release(j, s)
  PROVE  \E r \in {"completed", "failed"} : Lifecycle!Finish(j, r)
<1>1. /\ j \in Jobs /\ j \notin pending /\ j \notin completed /\ j \notin failed
      /\ active' = active \ {j} /\ pending' = pending /\ job' = job
      /\ completed' = IF s = "Completed" THEN completed \cup {j} ELSE completed \ {j}
  BY DEF QueueInv, QueueTypeOK, Partition, release
<1>2. JobState[j] = "running"
  BY <1>1, JobStates
<1> DEFINE r == IF s = "Completed" THEN "completed" ELSE "failed"
<1>3. JobState' = [JobState EXCEPT ![j] = r]
  <2>1. ASSUME NEW i \in Jobs
        PROVE  JobState'[i] = IF i = j THEN r ELSE JobState[i]
    BY <1>1 DEF JobState
  <2>2. /\ JobState = [i \in Jobs |-> JobState[i]]
        /\ JobState' = [i \in Jobs |-> JobState'[i]]
    BY DEF JobState
  <2>3. QED
    BY <1>1, <2>1, <2>2
<1>4. Lifecycle!Finish(j, r)
  BY <1>1, <1>2, <1>3 DEF Lifecycle!Finish
<1>5. QED
  BY <1>4

\* Every step of the pool is a step of the lifecycle or changes no job.
LEMMA StepRefines ==
  IInv /\ [Next]_vars => [Lifecycle!Next]_(Lifecycle!lifecycleVars)
<1> SUFFICES ASSUME IInv, [Next]_vars
             PROVE  Lifecycle!Next \/ UNCHANGED Lifecycle!lifecycleVars
  OBVIOUS
<1>1. ASSUME NEW w \in Workers, TakeLease(w) PROVE Lifecycle!Next
  <2>1. PICK j \in pending, offset \in Slots : lease_next(j, offset)
    BY <1>1 DEF TakeLease
  <2>2. j \in Jobs
    BY DEF IInv, QueueInv, QueueTypeOK
  <2>3. QueueInv'
    BY <2>1, LeaseKeepsInv DEF IInv
  <2>4. Lifecycle!Start(j)
    BY <2>1, <2>3, LeaseIsStart DEF IInv
  <2>5. QED
    BY <2>2, <2>4 DEF Lifecycle!Next
<1>2. ASSUME NEW w \in Workers, TakeBlocked(w) PROVE Lifecycle!Next
  <2>1. PICK j \in pending : remove_dependency_blocked(j)
    BY <1>2 DEF TakeBlocked
  <2>2. j \in Jobs /\ Lifecycle!GiveUp(j)
    BY <2>1, BlockIsGiveUp DEF IInv, QueueInv, QueueTypeOK
  <2>3. QED
    BY <2>2 DEF Lifecycle!Next
<1>3. ASSUME NEW w \in Workers, FinishLease(w) \/ PanicInWork(w) PROVE Lifecycle!Next
  <2>1. /\ lease[w] \in active /\ lease[w] \in Jobs
        /\ \E s \in {status[w], "Failed"} : release(lease[w], s)
    BY <1>3 DEF FinishLease, PanicInWork, Holding, IInv, LeasesMatch, QueueInv, QueueTypeOK
  <2>2. \E r \in {"completed", "failed"} : Lifecycle!Finish(lease[w], r)
    BY <2>1, ReleaseIsFinish DEF IInv
  <2>3. QED
    BY <2>1, <2>2 DEF Lifecycle!Next
<1>4. ASSUME UNCHANGED queueVars PROVE UNCHANGED Lifecycle!lifecycleVars
  BY <1>4 DEF queueVars, Lifecycle!lifecycleVars, JobState
<1>5. QED
  BY <1>1, <1>2, <1>3, <1>4 DEF Next, WorkerStep, vars, Wait, SpuriousWake, Exit,
     CheckCancellation, FinishWork, PushOutcome, Cancel, JoinScope

\* The worker pool implements JobLifecycle: each job runs at most once, after
\* its dependencies and within its volume's limit, and is given up only when
\* no continuation of the batch could complete its dependencies.
THEOREM PoolImplementsLifecycle == Spec => ImplementsLifecycle
<1>1. Init => Lifecycle!Init
  BY DEF Init, QueueInit, Lifecycle!Init, JobState
<1>2. QED
  BY <1>1, StepRefines, PoolInvariant, PTL DEF Spec, ImplementsLifecycle, Lifecycle!Spec

-----------------------------------------------------------------------------
(* The report. *)

Done == completed \cup failed
Reporters == {w \in Workers : pc[w] = "report"}

Agrees(j, s) == (s = "Completed") <=> j \in completed

\* A job has at most one outcome, and only once it has ended that way.
OutcomesOK ==
  \A j \in Jobs :
    \/ outcomes[j] = <<>>
    \/ j \in Done /\ \E s \in TaskStatus \cup {Blocked} : outcomes[j] = <<s>> /\ Agrees(j, s)

\* A worker about to report is alone with an ended job that has no outcome yet.
ReportersOK ==
  \A w \in Reporters :
    /\ lease[w] \in Done /\ outcomes[lease[w]] = <<>> /\ Agrees(lease[w], status[w])
    /\ \A x \in Reporters : lease[x] = lease[w] => x = w

\* The outcome of an ended job is pushed or on its way, unless a worker panicked.
Accounted ==
  \A j \in Done :
    \/ outcomes[j] # <<>>
    \/ \E w \in Reporters : lease[w] = j
    \/ \E w \in Workers : pc[w] = "panicked"

\* A worker leaves only an empty queue, and the call returns after all have left.
Drained ==
  /\ (\E w \in Workers : pc[w] = "exited") => pending = {}
  /\ scope = "returned" => \A w \in Workers : pc[w] = "exited"

ReportInv == OutcomesOK /\ ReportersOK /\ Accounted /\ Drained

\* No report is due before a job is submitted.
LEMMA ReportInit == Init => ReportInv
BY DEF Init, QueueInit, ReportInv, OutcomesOK, ReportersOK, Reporters, Accounted, Drained, Done

\* Steps that end no job and push nothing.
LEMMA ReportFrame ==
  ASSUME IInv, ReportInv, UNCHANGED <<completed, failed, outcomes>>,
         Reporters' = Reporters,
         \A w \in Reporters : lease'[w] = lease[w] /\ status'[w] = status[w],
         \A w \in Workers : pc'[w] = "panicked" <=> pc[w] = "panicked",
         Drained'
  PROVE  ReportInv'
<1>1. Done' = Done /\ \A j, s : Agrees(j, s)' <=> Agrees(j, s)
  BY DEF Done, Agrees
<1>2. OutcomesOK'
  BY <1>1 DEF ReportInv, OutcomesOK
<1>3. ReportersOK'
  BY <1>1 DEF ReportInv, ReportersOK, Agrees
<1>4. Accounted'
  BY <1>1 DEF ReportInv, Accounted
<1>5. QED
  BY <1>2, <1>3, <1>4 DEF ReportInv

\* A job that ends, with a worker that reports it or that panics.
LEMMA ReportEnd ==
  ASSUME IInv, ReportInv, NEW w \in Workers, NEW j \in Jobs, j \notin Done,
         pc[w] \notin {"report", "panicked"},
         UNCHANGED outcomes,
         Done' = Done \cup {j},
         \A i \in Jobs : i # j => (i \in completed' <=> i \in completed),
         \A x \in Workers : x # w =>
           /\ pc'[x] = "report" <=> pc[x] = "report"
           /\ pc'[x] = "panicked" <=> pc[x] = "panicked"
           /\ lease'[x] = lease[x] /\ status'[x] = status[x],
         \/ pc'[w] = "panicked"
         \/ pc'[w] = "report" /\ lease'[w] = j /\ Agrees(j, status[w])',
         Done \subseteq Jobs, Drained'
  PROVE  ReportInv'
<1>1. \A i \in Done : \A s : i # j /\ (Agrees(i, s)' <=> Agrees(i, s))
  BY DEF Agrees
<1>2. outcomes[j] = <<>> /\ outcomes'[j] = <<>>
  BY DEF ReportInv, OutcomesOK
<1>3. OutcomesOK'
  BY <1>1, <1>2 DEF ReportInv, OutcomesOK
<1>4. \A x \in Reporters : x # w /\ x \in Reporters' /\ lease'[x] = lease[x]
                        /\ status'[x] = status[x] /\ lease[x] \in Done
  BY DEF ReportInv, ReportersOK, Reporters
<1>5. \A x \in Reporters' : x \in Reporters \/ (x = w /\ pc'[w] = "report")
  BY DEF Reporters
<1>6. ReportersOK'
  <2> SUFFICES ASSUME NEW x \in Reporters'
               PROVE  /\ lease'[x] \in Done' /\ outcomes'[lease'[x]] = <<>>
                      /\ Agrees(lease[x], status[x])'
                      /\ \A y \in Reporters' : lease'[y] = lease'[x] => y = x
    BY DEF ReportersOK
  <2>1. CASE x \in Reporters
    BY <1>1, <1>4, <1>5, <2>1 DEF ReportInv, ReportersOK, Agrees
  <2>2. CASE x = w /\ pc'[w] = "report"
    BY <1>2, <1>4, <1>5, <2>2
  <2>3. QED
    BY <1>5, <2>1, <2>2
<1>7. Accounted'
  <2>1. ASSUME NEW i \in Done
        PROVE  \/ outcomes'[i] # <<>>
               \/ \E x \in Reporters' : lease'[x] = i
               \/ \E x \in Workers : pc'[x] = "panicked"
    BY <1>4 DEF ReportInv, Accounted
  <2>2. \/ \E x \in Reporters' : lease'[x] = j
        \/ \E x \in Workers : pc'[x] = "panicked"
    BY DEF Reporters
  <2>3. QED
    BY <2>1, <2>2 DEF Accounted
<1>8. QED
  BY <1>3, <1>6, <1>7 DEF ReportInv

\* Pushing the outcome of an ended job.
LEMMA ReportPush ==
  ASSUME IInv, ReportInv, NEW w \in Workers, PushOutcome(w)
  PROVE  ReportInv'
<1> DEFINE j == lease[w]
<1>1. /\ w \in Reporters /\ j \in Done /\ j \in Jobs /\ outcomes[j] = <<>>
      /\ Agrees(j, status[w]) /\ status[w] \in TaskStatus \cup {Blocked}
      /\ \A x \in Reporters : lease[x] = j => x = w
  BY DEF PushOutcome, Reporters, ReportInv, ReportersOK, IInv, Reporting, TypeOK
<1>2. outcomes'[j] = <<status[w]>> /\ \A i \in Jobs : i # j => outcomes'[i] = outcomes[i]
  <2>1. Append(outcomes[j], status[w]) = <<status[w]>>
    BY <1>1
  <2>2. QED
    BY <1>1, <2>1 DEF PushOutcome, IInv, TypeOK
<1>3. /\ completed' = completed /\ Done' = Done /\ scope' = scope /\ pending' = pending
      /\ status' = status /\ Done \subseteq Jobs
  BY DEF PushOutcome, queueVars, Done, IInv, TypeOK, QueueTypeOK
<1>4. /\ Reporters' = Reporters \ {w} /\ \A x \in Reporters' : lease'[x] = lease[x]
      /\ \A x \in Workers : pc'[x] = "panicked" <=> pc[x] = "panicked"
      /\ \A x \in Workers : pc'[x] = "exited" <=> pc[x] = "exited"
  BY DEF PushOutcome, Reporters, IInv, TypeOK
<1>5. \A i, s : Agrees(i, s)' <=> Agrees(i, s)
  BY <1>3 DEF Agrees
<1>6. OutcomesOK'
  <2> SUFFICES ASSUME NEW i \in Jobs
               PROVE  \/ outcomes'[i] = <<>>
                      \/ i \in Done /\ \E s \in TaskStatus \cup {Blocked} :
                                          outcomes'[i] = <<s>> /\ Agrees(i, s)
    BY <1>3, <1>5 DEF OutcomesOK, Agrees
  <2>1. CASE i = j
    BY <1>1, <1>2, <2>1
  <2>2. CASE i # j
    BY <1>2, <2>2 DEF ReportInv, OutcomesOK
  <2>3. QED
    BY <2>1, <2>2
<1>7. ReportersOK'
  <2> SUFFICES ASSUME NEW x \in Reporters'
               PROVE  /\ lease[x] \in Done /\ outcomes'[lease[x]] = <<>>
                      /\ Agrees(lease[x], status[x])
                      /\ \A y \in Reporters' : lease[y] = lease[x] => y = x
    BY <1>3, <1>4, <1>5 DEF ReportersOK, Agrees
  <2>1. x \in Reporters /\ x # w /\ lease[x] # j
    BY <1>1, <1>4
  <2>2. QED
    BY <1>2, <1>3, <1>4, <2>1 DEF ReportInv, ReportersOK
<1>8. Accounted'
  <2> SUFFICES ASSUME NEW i \in Done
               PROVE  \/ outcomes'[i] # <<>>
                      \/ \E x \in Reporters' : lease'[x] = i
                      \/ \E x \in Workers : pc'[x] = "panicked"
    BY <1>3 DEF Accounted
  <2>1. CASE i = j
    <3>1. Len(<<status[w]>>) = 1 /\ Len(<<>>) = 0
      OBVIOUS
    <3>2. outcomes'[i] = <<status[w]>>
      BY <1>2, <2>1
    <3>3. outcomes'[i] # <<>>
      BY <3>1, <3>2
    <3>4. QED
      BY <3>3
  <2>2. CASE i # j
    BY <1>2, <1>3, <1>4, <2>2 DEF ReportInv, Accounted
  <2>3. QED
    BY <2>1, <2>2
<1>9. Drained'
  BY <1>3, <1>4 DEF ReportInv, Drained
<1>10. QED
  BY <1>6, <1>7, <1>8, <1>9 DEF ReportInv

\* Every step of the pool keeps the account of the outcomes.
LEMMA ReportStep == IInv /\ ReportInv /\ [Next]_vars => ReportInv'
<1> SUFFICES ASSUME IInv, ReportInv, [Next]_vars
             PROVE  ReportInv'
  OBVIOUS
<1>0. pending \subseteq Jobs /\ active \subseteq Jobs /\ Done \subseteq Jobs
      /\ pending \cap Done = {} /\ active \cap Done = {} /\ completed \cap failed = {}
  BY DEF IInv, QueueInv, QueueTypeOK, Partition, Done
<1>1. ASSUME NEW w \in Workers, TakeLease(w) PROVE ReportInv'
  <2>1. /\ UNCHANGED <<completed, failed, outcomes, scope, status>> /\ pending' \subseteq pending
        /\ pc' = [pc EXCEPT ![w] = "leased"] /\ pc[w] = "next"
        /\ \A x \in Workers : x # w => lease'[x] = lease[x]
    BY <1>1 DEF TakeLease, lease_next, TakeSlot, IInv, TypeOK
  <2>2. Reporters' = Reporters /\ w \notin Reporters
    BY <2>1 DEF Reporters, IInv, TypeOK
  <2>3. Drained'
    BY <2>1 DEF ReportInv, Drained, IInv, TypeOK
  <2>4. QED
    BY <2>1, <2>2, <2>3, ReportFrame DEF Reporters, IInv, TypeOK
<1>2. ASSUME NEW w \in Workers, TakeBlocked(w) PROVE ReportInv'
  <2>1. PICK j \in pending : remove_dependency_blocked(j) /\ lease' = [lease EXCEPT ![w] = j]
    BY <1>2 DEF TakeBlocked
  <2>2. /\ pending' = pending \ {j} /\ failed' = failed \cup {j} /\ completed' = completed
        /\ Done' = Done \cup {j}
    BY <2>1 DEF remove_dependency_blocked, Done
  <2>3. /\ pc[w] = "next" /\ pc' = [pc EXCEPT ![w] = "report"]
        /\ status' = [status EXCEPT ![w] = Blocked] /\ UNCHANGED <<outcomes, scope>>
    BY <1>2 DEF TakeBlocked
  <2>4. pc'[w] = "report" /\ lease'[w] = j /\ status'[w] = Blocked
    BY <2>1, <2>3 DEF IInv, TypeOK
  <2>5. Agrees(j, status[w])'
    BY <1>0, <2>2, <2>4 DEF Agrees, Blocked, Done
  <2>6. Drained'
    BY <2>2, <2>3 DEF ReportInv, Drained, IInv, TypeOK
  <2>7. \A x \in Workers : x # w =>
           pc'[x] = pc[x] /\ lease'[x] = lease[x] /\ status'[x] = status[x]
    BY <2>1, <2>3 DEF IInv, TypeOK
  <2>8. j \in Jobs /\ j \notin Done
    BY <1>0
  <2>9. QED
    BY <1>0, <2>2, <2>3, <2>4, <2>5, <2>6, <2>7, <2>8, ReportEnd
<1>3. ASSUME NEW w \in Workers, Exit(w) PROVE ReportInv'
  <2>1. /\ UNCHANGED <<completed, failed, outcomes, scope, status, lease, pending>>
        /\ pc' = [pc EXCEPT ![w] = "exited"] /\ pc[w] = "next" /\ pending = {}
    BY <1>3 DEF Exit, queueVars
  <2>2. Reporters' = Reporters
    BY <2>1 DEF Reporters, IInv, TypeOK
  <2>3. Drained'
    BY <2>1 DEF ReportInv, Drained, IInv, TypeOK
  <2>4. QED
    BY <2>1, <2>2, <2>3, ReportFrame DEF IInv, TypeOK
<1>4. ASSUME NEW w \in Workers,
             Wait(w) \/ SpuriousWake(w) \/ CheckCancellation(w) \/ \E s \in TaskStatus : FinishWork(w, s)
      PROVE  ReportInv'
  <2>1. UNCHANGED <<completed, failed, outcomes, scope, lease, pending>>
    BY <1>4 DEF Wait, SpuriousWake, CheckCancellation, FinishWork, queueVars
  <2>2. /\ pc[w] \in {"next", "waiting", "leased", "working"}
        /\ pc'[w] \in {"next", "waiting", "finish", "working"}
        /\ \A x \in Workers : x # w => pc'[x] = pc[x] /\ status'[x] = status[x]
    BY <1>4 DEF Wait, SpuriousWake, CheckCancellation, FinishWork, IInv, TypeOK
  <2>3. Reporters' = Reporters /\ w \notin Reporters
    BY <2>2 DEF Reporters
  <2>4. Drained'
    BY <2>1, <2>2 DEF ReportInv, Drained
  <2>5. QED
    BY <2>1, <2>2, <2>3, <2>4, ReportFrame DEF Reporters
<1>5. ASSUME NEW w \in Workers, NEW s, release(lease[w], s), w \in Holding,
             UNCHANGED <<outcomes, status, scope>>,
             \A x \in Workers \ {w} : lease'[x] = lease[x] /\ pc'[x] = NotifyAll[x],
             \/ pc'[w] = "panicked"
             \/ pc'[w] = "report" /\ lease'[w] = lease[w] /\ status[w] = s
      PROVE  ReportInv'
  <2> DEFINE j == lease[w]
  <2>1. j \in active /\ j \in Jobs /\ j \notin Done /\ j \notin completed
    BY <1>0, <1>5 DEF IInv, LeasesMatch, Done
  <2>2. /\ Done' = Done \cup {j} /\ pending' = pending
        /\ \A i \in Jobs : i # j => (i \in completed' <=> i \in completed)
        /\ j \in completed' <=> s = "Completed"
    BY <1>5, <2>1 DEF release, Done
  <2>3. \A x \in Workers : x # w =>
           /\ pc'[x] = "report" <=> pc[x] = "report"
           /\ pc'[x] = "panicked" <=> pc[x] = "panicked"
           /\ pc'[x] = "exited" <=> pc[x] = "exited"
           /\ lease'[x] = lease[x] /\ status'[x] = status[x]
    BY <1>5 DEF NotifyAll
  <2>4. pc[w] \in {"leased", "working", "finish"}
    BY <1>5 DEF Holding
  <2>5. Drained'
    BY <1>5, <2>2, <2>3, <2>4 DEF ReportInv, Drained
  <2>6. pc'[w] = "report" => lease'[w] = j /\ Agrees(j, status[w])'
    BY <1>5, <2>2 DEF Agrees
  <2>7. QED
    BY <1>0, <1>5, <2>1, <2>2, <2>3, <2>4, <2>5, <2>6, ReportEnd
<1>6. ASSUME NEW w \in Workers, FinishLease(w) PROVE ReportInv'
  <2>1. w \in Holding /\ release(lease[w], status[w]) /\ UNCHANGED <<outcomes, status, scope>>
    BY <1>6 DEF FinishLease, Holding
  <2>2. /\ \A x \in Workers \ {w} : lease'[x] = lease[x] /\ pc'[x] = NotifyAll[x]
        /\ pc'[w] = "report" /\ lease'[w] = lease[w]
    BY <1>6 DEF FinishLease, NotifyAll
  <2>3. QED
    BY <1>5, <2>1, <2>2
<1>7. ASSUME NEW w \in Workers, PanicInWork(w) PROVE ReportInv'
  <2>1. w \in Holding /\ release(lease[w], "Failed") /\ UNCHANGED <<outcomes, status, scope>>
    BY <1>7 DEF PanicInWork, Holding
  <2>2. /\ \A x \in Workers \ {w} : lease'[x] = lease[x] /\ pc'[x] = NotifyAll[x]
        /\ pc'[w] = "panicked"
    BY <1>7 DEF PanicInWork, NotifyAll, IInv, TypeOK
  <2>3. QED
    BY <1>5, <2>1, <2>2
<1>8. ASSUME NEW w \in Workers, PushOutcome(w) PROVE ReportInv'
  BY <1>8, ReportPush
<1>9. CASE JoinScope
  <2>1. UNCHANGED <<completed, failed, outcomes, pending, lease, status, pc>>
    BY <1>9 DEF JoinScope, queueVars
  <2>2. Reporters' = Reporters
    BY <2>1 DEF Reporters
  <2>3. Drained'
    BY <1>9, <2>1 DEF JoinScope, ReportInv, Drained, Stopped
  <2>4. QED
    BY <2>1, <2>2, <2>3, ReportFrame
<1>10. ASSUME (\E j \in Jobs : Cancel(j)) \/ UNCHANGED vars PROVE ReportInv'
  <2>1. UNCHANGED <<completed, failed, outcomes, pending, lease, status, pc, scope>>
    BY <1>10 DEF Cancel, vars, workerVars, queueVars
  <2>2. Reporters' = Reporters /\ Drained'
    BY <2>1 DEF Reporters, ReportInv, Drained
  <2>3. QED
    BY <2>1, <2>2, ReportFrame
<1>11. QED
  BY <1>1, <1>2, <1>3, <1>4, <1>6, <1>7, <1>8, <1>9, <1>10 DEF Next, WorkerStep

\* When run_isolated_fair returns, its report has exactly one outcome for each
\* submitted task, in agreement with the queue's ledgers.
THEOREM ReportComplete == Spec => []ReportIsComplete
<1>1. IInv /\ ReportInv => ReportIsComplete
  <2> SUFFICES ASSUME IInv, ReportInv, scope = "returned", NEW j \in Jobs
               PROVE  /\ Len(outcomes[j]) = 1
                      /\ outcomes[j][1] = "Completed" <=> j \in completed
                      /\ outcomes[j][1] # "Completed" <=> j \in failed
    BY DEF ReportIsComplete
  <2>1. pending = {} /\ \A w \in Workers : pc[w] = "exited"
    BY WorkersAssumption DEF ReportInv, Drained
  <2>2. active = {}
    BY <2>1 DEF IInv, LeasesMatch, Holding
  <2>3. j \in Done /\ (j \in failed <=> j \notin completed)
    BY <2>1, <2>2 DEF IInv, QueueInv, Partition, Done
  <2>4. outcomes[j] # <<>>
    BY <2>1, <2>3 DEF ReportInv, Accounted, Reporters
  <2>5. PICK s \in TaskStatus \cup {Blocked} : outcomes[j] = <<s>> /\ Agrees(j, s)
    BY <2>4 DEF ReportInv, OutcomesOK
  <2>6. Len(outcomes[j]) = 1 /\ outcomes[j][1] = s
    BY <2>5
  <2>7. QED
    BY <2>3, <2>5, <2>6 DEF Agrees
<1>2. Spec => []ReportInv
  BY ReportInit, ReportStep, PoolInvariant, PTL DEF Spec
<1>3. QED
  BY <1>1, <1>2, PoolInvariant, PTL

-----------------------------------------------------------------------------
(* The fairness of admission. *)

OrderLength == Len(admission_order)

\* Slot x is k places behind the cursor.
Behind(x, k) ==
  x = next_admission_class - k \/ x = next_admission_class - k + OrderLength

\* The slots just behind the cursor, one for each time c was overtaken, are
\* not slots of c.
PassedOver(c) ==
  \A k \in 1..overtaken[c] : \A x \in Slots : Behind(x, k) => admission_order[x + 1] # c

FairInv ==
  /\ QueueInv
  /\ overtaken \in [JobClass -> Nat]
  /\ \A c \in JobClass : PassedOver(c)

-----------------------------------------------------------------------------
(* The admission order. *)

\* n consecutive slots of class c.
Consecutive(c, n, s) ==
  \E a \in Nat : a + n <= Len(s) /\ \A i \in 1..n : s[a + i] = c

\* Prepending the slots of a class makes a block and keeps the others.
LEMMA PrependBlock ==
  ASSUME NEW c \in JobClass, NEW n \in Nat \ {0}, NEW t \in Seq(JobClass)
  PROVE  /\ Repeat(c, n) \o t \in Seq(JobClass)
         /\ Consecutive(c, n, Repeat(c, n) \o t)
         /\ \A d \in JobClass : \A m \in Nat : Consecutive(d, m, t) => Consecutive(d, m, Repeat(c, n) \o t)
<1> DEFINE r == Repeat(c, n)
<1>1. r \in Seq(JobClass) /\ Len(r) = n /\ \A i \in 1..n : r[i] = c
  BY RepeatType
<1> HIDE DEF r
<1>2. /\ r \o t \in Seq(JobClass)
      /\ Len(r \o t) = Len(r) + Len(t) /\ Len(t) \in Nat
      /\ \A i \in 1..Len(r) : (r \o t)[i] = r[i]
      /\ \A i \in 1..Len(t) : (r \o t)[Len(r) + i] = t[i]
  BY <1>1
<1>3. Consecutive(c, n, r \o t)
  <2>1. 0 + n <= Len(r \o t) /\ \A i \in 1..n : (r \o t)[0 + i] = c
    BY <1>1, <1>2
  <2>2. QED
    BY <2>1 DEF Consecutive
<1>4. ASSUME NEW d \in JobClass, NEW m \in Nat, Consecutive(d, m, t)
      PROVE  Consecutive(d, m, r \o t)
  <2>1. PICK a \in Nat : a + m <= Len(t) /\ \A i \in 1..m : t[a + i] = d
    BY <1>4 DEF Consecutive
  <2>2. n + a \in Nat /\ (n + a) + m <= Len(r \o t)
    BY <1>1, <1>2, <2>1
  <2>3. ASSUME NEW i \in 1..m
        PROVE  (r \o t)[(n + a) + i] = d
    <3>1. a + i \in 1..Len(t) /\ Len(r) + (a + i) = (n + a) + i
      BY <1>1, <1>2, <2>1
    <3>2. (r \o t)[Len(r) + (a + i)] = t[a + i]
      BY <1>2, <3>1
    <3>3. QED
      BY <2>1, <3>1, <3>2
  <2>4. QED
    BY <2>2, <2>3 DEF Consecutive
<1>5. QED
  BY <1>2, <1>3, <1>4 DEF r

\* The admission order has quota(c) consecutive slots for each class c.
LEMMA ClassesHaveBlocks == \A c \in JobClass : Consecutive(c, quota(c), admission_order)
<1> DEFINE r5 == Repeat("Repair", quota("Repair"))
           s4 == Repeat("Maintenance", quota("Maintenance")) \o r5
           s3 == Repeat("Background", quota("Background")) \o s4
           s2 == Repeat("Visible", quota("Visible")) \o s3
           s1 == Repeat("Foreground", quota("Foreground")) \o s2
<1>1. \A c \in JobClass : quota(c) \in Nat \ {0}
  BY PolicyType
<1>2. /\ "Foreground" \in JobClass /\ "Visible" \in JobClass /\ "Background" \in JobClass
      /\ "Maintenance" \in JobClass /\ "Repair" \in JobClass
  BY DEF JobClass
<1>5. r5 \in Seq(JobClass) /\ Consecutive("Repair", quota("Repair"), r5)
  <2>1. /\ r5 \in Seq(JobClass) /\ Len(r5) = quota("Repair")
        /\ \A i \in 1..quota("Repair") : r5[i] = "Repair"
    BY <1>1, <1>2, RepeatType
  <2>2. 0 + quota("Repair") <= Len(r5) /\ \A i \in 1..quota("Repair") : r5[0 + i] = "Repair"
    BY <1>1, <1>2, <2>1
  <2>3. QED
    BY <2>1, <2>2 DEF Consecutive
<1> HIDE DEF r5
<1>6. /\ s4 \in Seq(JobClass) /\ Consecutive("Maintenance", quota("Maintenance"), s4)
      /\ \A d \in JobClass : \A m \in Nat : Consecutive(d, m, r5) => Consecutive(d, m, s4)
  BY <1>1, <1>2, <1>5, PrependBlock
<1> HIDE DEF s4
<1>7. /\ s3 \in Seq(JobClass) /\ Consecutive("Background", quota("Background"), s3)
      /\ \A d \in JobClass : \A m \in Nat : Consecutive(d, m, s4) => Consecutive(d, m, s3)
  BY <1>1, <1>2, <1>6, PrependBlock
<1> HIDE DEF s3
<1>8. /\ s2 \in Seq(JobClass) /\ Consecutive("Visible", quota("Visible"), s2)
      /\ \A d \in JobClass : \A m \in Nat : Consecutive(d, m, s3) => Consecutive(d, m, s2)
  BY <1>1, <1>2, <1>7, PrependBlock
<1> HIDE DEF s2
<1>9. /\ s1 \in Seq(JobClass) /\ Consecutive("Foreground", quota("Foreground"), s1)
      /\ \A d \in JobClass : \A m \in Nat : Consecutive(d, m, s2) => Consecutive(d, m, s1)
  BY <1>1, <1>2, <1>8, PrependBlock
<1>10. admission_order = s1
  BY DEF admission_order, s1, s2, s3, s4, r5
<1> HIDE DEF s1
<1>11. \A c \in JobClass : quota(c) \in Nat
  BY <1>1
<1>12. /\ Consecutive("Foreground", quota("Foreground"), s1) /\ Consecutive("Visible", quota("Visible"), s1)
       /\ Consecutive("Background", quota("Background"), s1)
       /\ Consecutive("Maintenance", quota("Maintenance"), s1) /\ Consecutive("Repair", quota("Repair"), s1)
  BY <1>2, <1>5, <1>6, <1>7, <1>8, <1>9, <1>11
<1>13. QED
  BY <1>10, <1>12 DEF JobClass

-----------------------------------------------------------------------------
(* Positions in a cycle. *)

\* A number below twice the length, modulo the length.
LEMMA Wrapped ==
  ASSUME NEW n \in Nat \ {0}, NEW x \in 0..(2 * n - 1)
  PROVE  x % n = IF x < n THEN x ELSE x - n
<1>1. CASE x < n
  BY <1>1
<1>2. CASE x >= n
  <2>1. x - n \in 0..(n - 1) /\ x = (x - n) + n
    BY <1>2
  <2>2. \A y \in 0..(n - 1) : (y + n) % n = y
    BY SMTT(30)
  <2>3. QED
    BY <1>2, <2>1, <2>2
<1>3. QED
  BY <1>1, <1>2

\* Slots that avoid n consecutive places leave at most OrderLength - n of them.
LEMMA AvoidedBlock ==
  ASSUME NEW c \in JobClass, NEW m \in Nat, NEW n \in Nat \ {0},
         next_admission_class \in Slots, OrderLength \in Nat \ {0},
         Consecutive(c, n, admission_order),
         \A k \in 1..m : \A x \in Slots : Behind(x, k) => admission_order[x + 1] # c
  PROVE  m <= OrderLength - n
<1> DEFINE p == next_admission_class
<1>1. PICK a \in Nat : a + n <= OrderLength /\ \A i \in 1..n : admission_order[a + i] = c
  BY DEF Consecutive, OrderLength
<1>2. Slots = 0..(OrderLength - 1) /\ p \in 0..(OrderLength - 1)
  BY DEF Slots, OrderLength
<1> HIDE DEF OrderLength
<1>3. ASSUME m > OrderLength - n
      PROVE  FALSE
  \* The slot of c that is the first to be met going back from the cursor.
  <2> DEFINE x == IF p > a /\ p <= a + n THEN p - 1 ELSE a + n - 1
             k == IF p > a /\ p <= a + n THEN 1
                  ELSE IF p > a THEN p - (a + n - 1) ELSE p - (a + n - 1) + OrderLength
  <2>1. x \in 0..(OrderLength - 1) /\ k \in 1..m /\ (x = p - k \/ x = p - k + OrderLength)
    BY <1>1, <1>2, <1>3
  <2>2. x + 1 - a \in 1..n /\ a + (x + 1 - a) = x + 1
    BY <1>1, <1>2
  <2>3. admission_order[x + 1] = c
    BY <1>1, <2>2
  <2>4. QED
    BY <1>2, <2>1, <2>3 DEF Behind
<1>4. QED
  BY <1>1, <1>3

-----------------------------------------------------------------------------
(* The steps. *)

\* A lease to another class passes no slot of a class that could run.
LEMMA LeaseInv ==
  ASSUME FairInv, Lease
  PROVE  FairInv'
<1>1. PICK j \in pending, offset \in Slots :
        lease_next(j, offset) /\ CountOvertaking(job[j].class)
  BY DEF Lease
<1>2. QueueInv'
  BY <1>1, LeaseKeepsInv DEF FairInv
<1>3. OrderLength \in Nat \ {0}
  BY AdmissionOrderHasEveryClass DEF OrderLength
<1>4. /\ Slots = 0..(OrderLength - 1) /\ next_admission_class \in 0..(OrderLength - 1) /\ offset \in 0..(OrderLength - 1)
      /\ OrderLength' = OrderLength /\ Slots' = Slots
  BY DEF Slots, OrderLength, FairInv, QueueInv, QueueTypeOK, admission_order, quota
<1>5. \A e \in 0..offset :
        SlotAt(e) = IF next_admission_class + e < OrderLength THEN next_admission_class + e
                    ELSE next_admission_class + e - OrderLength
  <2>1. \A e \in 0..offset : SlotAt(e) = (next_admission_class + e) % OrderLength
    BY DEF SlotAt, OrderLength
  <2> HIDE DEF OrderLength
  <2>2. \A e \in 0..offset : next_admission_class + e \in 0..(2 * OrderLength - 1)
    BY <1>3, <1>4
  <2>3. \A x \in 0..(2 * OrderLength - 1) : x % OrderLength = IF x < OrderLength THEN x ELSE x - OrderLength
    BY <1>3, Wrapped
  <2>4. ASSUME NEW e \in 0..offset
        PROVE  SlotAt(e) = IF next_admission_class + e < OrderLength THEN next_admission_class + e
                           ELSE next_admission_class + e - OrderLength
    <3> DEFINE y == next_admission_class + e
    <3>1. y \in 0..(2 * OrderLength - 1) /\ SlotAt(e) = y % OrderLength
      BY <2>1, <2>2
    <3> HIDE DEF y
    <3>2. SlotAt(e) = IF y < OrderLength THEN y ELSE y - OrderLength
      BY <2>3, <3>1
    <3>3. QED
      BY <1>3, <1>4, <3>2 DEF y
  <2>5. QED
    BY <2>4
<1>6. next_admission_class' = (SlotAt(offset) + 1) % OrderLength
  BY <1>1 DEF lease_next, OrderLength
<1> HIDE DEF OrderLength
<1>7. \/ next_admission_class' = next_admission_class + offset + 1
      \/ next_admission_class' = next_admission_class + offset + 1 - OrderLength
  <2>1. SlotAt(offset) \in 0..(OrderLength - 1)
    BY <1>3, <1>4, <1>5
  <2>2. SlotAt(offset) + 1 \in 0..(2 * OrderLength - 1)
    BY <1>3, <2>1
  <2>3. next_admission_class' = IF SlotAt(offset) + 1 < OrderLength THEN SlotAt(offset) + 1
                                ELSE SlotAt(offset) + 1 - OrderLength
    <3> DEFINE y == SlotAt(offset) + 1
    <3>1. y \in 0..(2 * OrderLength - 1) /\ next_admission_class' = y % OrderLength
      BY <1>6, <2>2
    <3> HIDE DEF y
    <3>2. y % OrderLength = IF y < OrderLength THEN y ELSE y - OrderLength
      BY <1>3, <3>1, Wrapped
    <3>3. QED
      BY <1>3, <2>1, <3>1, <3>2 DEF y
  <2>4. offset \in 0..offset
    BY <1>3, <1>4
  <2>5. QED
    BY <1>3, <1>4, <1>5, <2>1, <2>3, <2>4
<1>8. overtaken' \in [JobClass -> Nat]
  BY <1>1 DEF CountOvertaking, FairInv
<1>9. ASSUME NEW c \in JobClass
      PROVE  PassedOver(c)'
  <2>1. CASE c = job[j].class \/ AdmissibleOf(c) = {}
    <3>1. overtaken'[c] = 0
      BY <1>1, <2>1 DEF CountOvertaking
    <3>2. QED
      BY <3>1 DEF PassedOver
  <2>2. CASE c # job[j].class /\ AdmissibleOf(c) # {}
    <3>1. overtaken'[c] = overtaken[c] + 1 /\ overtaken[c] \in Nat
      BY <1>1, <2>2 DEF CountOvertaking, FairInv
    <3>2. \A e \in 0..offset : admission_order[SlotAt(e) + 1] # c
      <4> SUFFICES ASSUME NEW e \in 0..offset
                   PROVE  ClassAt(e) # c
        BY DEF ClassAt
      <4>1. CASE e = offset
        BY <1>1, <2>2, <4>1 DEF lease_next, Admissible, AdmissibleOf
      <4>2. CASE e # offset
        <5>1. e \in 0..(offset - 1)
          BY <1>3, <1>4, <4>2
        <5>2. QED
          BY <1>1, <2>2, <5>1 DEF lease_next, Admissible
      <4>3. QED
        BY <4>1, <4>2
    <3>3. ASSUME NEW k \in 1..(overtaken[c] + 1), NEW x \in Slots,
                 x = next_admission_class' - k \/ x = next_admission_class' - k + OrderLength
          PROVE  admission_order[x + 1] # c
      <4>1. CASE k <= offset + 1
        <5>1. offset + 1 - k \in 0..offset
          BY <1>3, <1>4, <3>1, <4>1
        <5>2. x = SlotAt(offset + 1 - k)
          BY <1>3, <1>4, <1>5, <1>7, <3>1, <3>3, <5>1
        <5>3. QED
          BY <3>2, <5>1, <5>2
      <4>2. CASE k > offset + 1
        <5>1. k - offset - 1 \in 1..overtaken[c]
          BY <1>3, <1>4, <3>1, <4>2
        <5>2. \/ x = next_admission_class - (k - offset - 1)
              \/ x = next_admission_class - (k - offset - 1) + OrderLength
          BY <1>3, <1>4, <1>7, <3>1, <3>3, <5>1
        <5>3. QED
          BY <5>1, <5>2 DEF FairInv, PassedOver, Behind
      <4>3. QED
        BY <1>3, <1>4, <3>1, <4>1, <4>2
    <3>4. admission_order' = admission_order
      BY DEF admission_order, quota
    <3>5. QED
      BY <1>4, <3>1, <3>3, <3>4 DEF PassedOver, Behind
  <2>3. QED
    BY <2>1, <2>2
<1>10. QED
  BY <1>2, <1>8, <1>9 DEF FairInv

\* Removing a blocked job and releasing a lease move neither the cursor nor the counts.
LEMMA FairNextInv == FairInv /\ [FairNext]_fairVars => FairInv'
<1> SUFFICES ASSUME FairInv, [FairNext]_fairVars
             PROVE  FairInv'
  OBVIOUS
<1>1. ASSUME QueueInv', UNCHANGED <<next_admission_class, overtaken>>
      PROVE  FairInv'
  BY <1>1 DEF FairInv, PassedOver, Behind, OrderLength, Slots, admission_order, quota
<1>2. CASE Lease
  BY <1>2, LeaseInv
<1>3. CASE Block
  <2>1. PICK j \in pending : remove_dependency_blocked(j) /\ UNCHANGED overtaken
    BY <1>3 DEF Block
  <2>2. QED
    BY <1>1, <2>1, BlockKeepsInv DEF FairInv, remove_dependency_blocked
<1>4. CASE Release
  <2>1. PICK j \in active, s \in {"Completed", "Failed"} : release(j, s) /\ UNCHANGED overtaken
    BY <1>4 DEF Release
  <2>2. QED
    BY <1>1, <2>1, ReleaseKeepsInv DEF FairInv, release
<1>5. CASE UNCHANGED fairVars
  <2>1. QueueInv'
    BY <1>5 DEF fairVars, queueVars, FairInv, QueueInv, QueueTypeOK, Partition, CountsAreExact,
                ActiveOn, DependenciesFirst, Slots, admission_order, quota, limit_for
  <2>2. QED
    BY <1>1, <1>5, <2>1 DEF fairVars, queueVars
<1>6. QED
  BY <1>2, <1>3, <1>4, <1>5 DEF FairNext

\* A fresh queue has passed nobody over.
LEMMA FairInitInv == FairInit => FairInv
<1> SUFFICES ASSUME FairInit
             PROVE  FairInv
  OBVIOUS
<1>1. QueueInv
  BY QueueInitInv DEF FairInit
<1>2. overtaken \in [JobClass -> Nat] /\ \A c \in JobClass : overtaken[c] = 0
  BY DEF FairInit
<1>3. \A c \in JobClass : PassedOver(c)
  BY <1>2 DEF PassedOver
<1>4. QED
  BY <1>1, <1>2, <1>3 DEF FairInv

-----------------------------------------------------------------------------
(* The theorems. *)

\* The slots behind the cursor account for every overtaking.
THEOREM FairInvariance == AdmissionSpec => []FairInv
BY FairInitInv, FairNextInv, PTL DEF AdmissionSpec

\* No class starves: while a class has a job that could run, the queue leases
\* at most once for each slot of the other classes before it leases one of it.
THEOREM NoClassStarves == AdmissionSpec => []BoundedOvertaking
<1>1. FairInv => BoundedOvertaking
  <2> SUFFICES ASSUME FairInv, NEW c \in JobClass
               PROVE  overtaken[c] <= OrderLength - quota(c)
    BY DEF BoundedOvertaking, OrderLength
  <2>1. /\ quota(c) \in Nat \ {0} /\ overtaken[c] \in Nat /\ OrderLength \in Nat \ {0}
        /\ next_admission_class \in Slots
    BY PolicyType, AdmissionOrderHasEveryClass DEF FairInv, QueueInv, QueueTypeOK, OrderLength
  <2>2. \A k \in 1..overtaken[c] : \A x \in Slots : Behind(x, k) => admission_order[x + 1] # c
    BY DEF FairInv, PassedOver
  <2>3. QED
    BY <2>1, <2>2, ClassesHaveBlocks, AvoidedBlock
<1>2. QED
  BY <1>1, FairInvariance, PTL
=============================================================================
