--------------------------- MODULE SchedulerProofs ---------------------------
(***************************************************************************)
(* Proofs about Scheduler, for any number of jobs, any shapes, volumes and *)
(* any retention of the ledgers: a job is handed out once, no operation    *)
(* that runs to its end loses a queued job, bounding the ledgers never     *)
(* forgets a completion that a queued job waits for, and it does bound     *)
(* them.                                                                   *)
(*                                                                         *)
(* That ids are given out in increasing order makes the first one          *)
(* inductive: a job that is scheduled has an id above all those handed out. *)
(* The last one rests on counting: how many of the first n entries of an   *)
(* order are in a set, for each n (Count).                                 *)
(***************************************************************************)
EXTENDS Scheduler, FiniteSetTheorems, WellFoundedInduction, NaturalsInduction, SequenceTheorems,
        TLAPS

IInv ==
  /\ next \in Nat
  /\ queue \subseteq Ids /\ handed \subseteq Ids
  /\ HandedOutOnce

\* Pruning drops no id that a job of the queue q refers to, and adds none.
LEMMA PruneKeeps ==
  ASSUME NEW q, NEW ids, NEW order, NEW id \in ids, id \in Dependencies(q)
  PROVE  id \in Prune(q, ids, order).ids
<1> DEFINE kept == Within(order, ids)
           Free(n) == {k \in 1..n : kept[k] \notin Dependencies(q)}
           dropped == {n \in Free(Len(kept)) : Cardinality(Free(n)) + Retention <= Len(kept)}
<1>1. Prune(q, ids, order).ids = ids \ {kept[n] : n \in dropped}
  BY DEF Prune, PruneParts
<1>2. \A n \in dropped : kept[n] \notin Dependencies(q)
  OBVIOUS
<1>3. QED
  BY <1>1, <1>2

\* The ledgers after a pruning against q hold what they held of q's dependencies.
LEMMA LedgersKeep ==
  ASSUME NEW q, NEW done, NEW done_order, NEW bad, NEW bad_order,
         PruneLedgers(q, done, done_order, bad, bad_order),
         NEW d, d \in Dependencies(q)
  PROVE  (d \in done => d \in completed') /\ (d \in bad => d \in failed')
  BY PruneKeeps DEF PruneLedgers

\* An idle scheduler satisfies the inductive invariant.
LEMMA InitIInv == Init => IInv
  BY DEF Init, IInv, Ids, HandedOutOnce

\* Every step keeps the inductive invariant.
LEMMA NextIInv == IInv /\ [Next]_vars => IInv'
<1> SUFFICES ASSUME IInv, [Next]_vars PROVE IInv'
  OBVIOUS
<1> USE DEF IInv, HandedOutOnce, Ids
<1>1. ASSUME NEW shape, NEW deps, Schedule(shape, deps) PROVE IInv'
  BY <1>1 DEF Schedule
<1>2. ASSUME UNCHANGED <<next, handed>>, queue' \subseteq queue PROVE IInv'
  BY <1>2
<1>3. ASSUME UNCHANGED next, handed' \subseteq handed \cup queue,
             queue' \subseteq queue, queue' \cap (handed' \ handed) = {}
      PROVE  IInv'
  BY <1>3
<1>4. ASSUME \/ \E id \in Ids \ cancelled : Cancel(id)
             \/ \E id \in queue, v \in Volumes : bind_volume(id, v)
             \/ \E v \in Volumes, classes \in (SUBSET {s.class : s \in Shapes}) \ {{}} :
                  cancel_volume_jobs(v, classes)
             \/ \E id \in Ids : mark_completed(id) \/ mark_completed_interrupted(id)
             \/ \E report \in Reports : apply_worker_report(report)
             \/ pop_next_none
             \/ UNCHANGED vars
      PROVE  IInv'
  <2>1. UNCHANGED <<next, handed>> /\ queue' \subseteq queue
    BY <1>4 DEF Cancel, bind_volume, cancel_volume_jobs, mark_completed,
                mark_completed_interrupted, apply_worker_report, pop_next_none, vars
  <2>2. QED
    BY <1>2, <2>1
<1>5. ASSUME NEW id \in Ids, pop_next(id) PROVE IInv'
  BY <1>3, <1>5 DEF pop_next
<1>6. CASE drain_ready
  BY <1>3, <1>6 DEF drain_ready, StagedReady
<1>7. ASSUME NEW extra, drain_fair_ready(extra) PROVE IInv'
  BY <1>3, <1>7 DEF drain_fair_ready, CommitDrain, PlanBlocked, StagedReady
<1>8. ASSUME NEW extra, drain_fair_ready_interrupted(extra) PROVE IInv'
  BY <1>2, <1>8 DEF drain_fair_ready_interrupted, CommitDrain, PlanBlocked, StagedReady
<1>9. QED
  BY <1>1, <1>4, <1>5, <1>6, <1>7, <1>8 DEF Next

\* The inductive invariant of the scheduler.
THEOREM Invariance == Spec => []IInv
  BY InitIInv, NextIInv, PTL DEF Spec

\* Drains and pops hand a job out at most once: none is put back into the queue.
THEOREM HandedOut == Spec => []HandedOutOnce
  BY Invariance, PTL DEF IInv

\* No step loses a queued job, but for a fair drain that is stopped while it refills
\* the queue.
LEMMA StepLosesNone ==
  ASSUME [Next]_vars
  PROVE  \/ \A j \in queue \ queue' : LeftQueueProperly(j)
         \/ \E extra \in SUBSET handed : drain_fair_ready_interrupted(extra)
<1> USE DEF LeftQueueProperly
<1>1. ASSUME \/ \E shape \in Shapes, deps \in SUBSET Ids : Schedule(shape, deps)
             \/ \E id \in Ids \ cancelled : Cancel(id)
             \/ \E id \in queue, v \in Volumes : bind_volume(id, v)
             \/ \E id \in Ids : mark_completed(id) \/ mark_completed_interrupted(id)
             \/ \E report \in Reports : apply_worker_report(report)
             \/ UNCHANGED vars
      PROVE  queue \subseteq queue'
  BY <1>1 DEF Schedule, Cancel, bind_volume, mark_completed, mark_completed_interrupted,
              apply_worker_report, vars
<1>2. ASSUME NEW v, NEW classes, cancel_volume_jobs(v, classes)
      PROVE  \A j \in queue \ queue' : LeftQueueProperly(j)
  BY <1>2 DEF cancel_volume_jobs
<1>3. ASSUME NEW id, pop_next(id) PROVE \A j \in queue \ queue' : LeftQueueProperly(j)
  BY <1>3 DEF pop_next
<1>4. CASE pop_next_none
  BY <1>4 DEF pop_next_none
<1>5. queue \subseteq completed \cup StagedCancelled \cup StagedReady
  BY DEF StagedCancelled, StagedReady
<1>6. CASE drain_ready
  BY <1>5, <1>6 DEF drain_ready
<1>7. ASSUME NEW extra, drain_fair_ready(extra)
      PROVE  \A j \in queue \ queue' : LeftQueueProperly(j)
  BY <1>5, <1>7 DEF drain_fair_ready, CommitDrain
<1>8. QED
  BY <1>1, <1>2, <1>3, <1>4, <1>6, <1>7 DEF Next

\* A job leaves the queue only by being returned to the caller, by having its token
\* cancelled or because it was recorded as completed.
THEOREM NoneLost == Spec => NoJobLost
  BY StepLosesNone, PTL DEF Spec, NoJobLost

\* A step keeps every completion that a job of the queue waits for, unless it records
\* the dependency as cancelled or failed.
LEMMA StepKeepsAwaited ==
  ASSUME [Next]_vars, NEW d \in completed \cap Dependencies(queue \cap queue')
  PROVE  d \in completed' \cup cancelled' \cup failed'
<1>0. d \in completed /\ d \in Dependencies(queue) /\ d \in Dependencies(queue')
  BY DEF Dependencies
<1>1. ASSUME \/ \E shape \in Shapes, deps \in SUBSET Ids : Schedule(shape, deps)
             \/ \E id \in Ids \ cancelled : Cancel(id)
             \/ \E id \in queue, v \in Volumes : bind_volume(id, v)
             \/ \E v \in Volumes, classes \in (SUBSET {s.class : s \in Shapes}) \ {{}} :
                  cancel_volume_jobs(v, classes)
             \/ \E id \in Ids : mark_completed_interrupted(id)
             \/ \E id \in Ids : pop_next(id)
             \/ pop_next_none \/ drain_ready \/ UNCHANGED vars
      PROVE  completed' = completed
  BY <1>1 DEF Schedule, Cancel, bind_volume, cancel_volume_jobs, mark_completed_interrupted,
              pop_next, pop_next_none, drain_ready, ledgers, vars
<1>2. ASSUME NEW id \in Ids, mark_completed(id) PROVE d \in completed'
  <2>1. PICK order :
           PruneLedgers(queue, completed \cup {id}, order, failed, failed_order)
    BY <1>2 DEF mark_completed
  <2>2. QED
    BY <1>0, <2>1, LedgersKeep
<1>3. ASSUME NEW report \in Reports, apply_worker_report(report)
      PROVE  d \in completed' \cup cancelled' \cup failed'
  <2> DEFINE with(s) == {i \in DOMAIN report : report[i] = s}
             done == with("Completed")
             dropped == with("Cancelled")
             bad == with("Failed")
  <2>1. PICK done_order, bad_order :
           PruneLedgers(queue, (completed \ (dropped \cup bad)) \cup done, done_order,
                        (failed \ (dropped \cup done)) \cup bad, bad_order)
    BY <1>3 DEF apply_worker_report
  <2>2. cancelled' = (cancelled \ (done \cup bad)) \cup dropped
    BY <1>3 DEF apply_worker_report
  <2>3. CASE d \in dropped
    BY <2>2, <2>3
  <2>4. CASE d \in bad
    BY <1>0, <2>1, <2>4, LedgersKeep
  <2>5. CASE d \notin dropped /\ d \notin bad
    <3>1. d \in (completed \ (dropped \cup bad)) \cup done
      BY <1>0, <2>5
    <3>2. QED
      BY <1>0, <2>1, <3>1, LedgersKeep
  <2>6. QED
    BY <2>3, <2>4, <2>5
<1>4. ASSUME NEW extra, drain_fair_ready(extra) PROVE d \in completed' \cup cancelled'
  <2>1. PruneLedgers(queue', completed \ cancelled', completed_order,
                     failed \ cancelled', failed_order)
    BY <1>4 DEF drain_fair_ready, PruneAfterDrain
  <2>2. QED
    BY <1>0, <2>1, LedgersKeep
<1>5. ASSUME NEW extra, drain_fair_ready_interrupted(extra) PROVE d \in completed' \cup cancelled'
  BY <1>0, <1>5 DEF drain_fair_ready_interrupted
<1>6. QED
  BY <1>0, <1>1, <1>2, <1>3, <1>4, <1>5 DEF Next

\* Bounding the ledgers never forgets a completion that a queued job waits for, also
\* when the order was turned by earlier prunings or left stale by a stopped drain.
THEOREM AwaitedStay == Spec => AwaitedCompletionsStay
<1>1. [Next]_vars => \A d \in completed \cap Dependencies(queue \cap queue') :
                       d \in completed' \cup cancelled' \cup failed'
  BY StepKeepsAwaited
<1>2. QED
  BY <1>1, PTL DEF Spec, AwaitedCompletionsStay
-----------------------------------------------------------------------------
(* Counting the entries of an order that are in a set *)

Smaller == {pair \in Nat \X Nat : pair[1] < pair[2]}

\* A set of numbers has a least one.
LEMMA LeastNat ==
  ASSUME NEW T, T \subseteq Nat, T # {}
  PROVE  \E n \in T : \A m \in T : n <= m
<1>1. IsWellFoundedOn(Smaller, Nat)
  BY NatLessThanWellFounded DEF Smaller, OpToRel
<1>2. PICK n \in T : \A m \in T : ~(<<m, n>> \in Smaller)
  BY <1>1, WFMin
<1>3. ASSUME NEW m \in T PROVE n <= m
  <2>1. m \in Nat /\ n \in Nat /\ ~(m < n)
    BY <1>2 DEF Smaller
  <2>2. QED
    BY <2>1
<1>4. QED
  BY <1>3

\* How many of the first n entries are in ids.
Count(order, ids, n) == Cardinality(Positions(order, ids, n))

\* The positions are finitely many, at most n.
LEMMA CountType ==
  ASSUME NEW order, NEW ids, NEW n \in Nat
  PROVE  /\ IsFiniteSet(Positions(order, ids, n))
         /\ Count(order, ids, n) \in 0..n
<1>1. IsFiniteSet(1..n) /\ Cardinality(1..n) = n
  BY FS_Interval
<1>2. Positions(order, ids, n) \subseteq 1..n
  BY DEF Positions
<1>3. IsFiniteSet(Positions(order, ids, n)) /\ Cardinality(Positions(order, ids, n)) <= n
  BY <1>1, <1>2, FS_Subset
<1>4. Cardinality(Positions(order, ids, n)) \in Nat
  BY <1>3, FS_CardinalityType
<1>5. QED
  BY <1>3, <1>4 DEF Count

\* One entry further there is one more, or as many.
LEMMA CountStep ==
  ASSUME NEW order, NEW ids, NEW n \in Nat
  PROVE  Count(order, ids, n + 1) =
           Count(order, ids, n) + (IF order[n + 1] \in ids THEN 1 ELSE 0)
<1>1. IsFiniteSet(Positions(order, ids, n)) /\ Count(order, ids, n) \in Nat
  BY CountType
<1>2. CASE order[n + 1] \in ids
  <2>1. Positions(order, ids, n + 1) = Positions(order, ids, n) \cup {n + 1}
    BY <1>2 DEF Positions
  <2>2. n + 1 \notin Positions(order, ids, n)
    BY DEF Positions
  <2>3. Cardinality(Positions(order, ids, n) \cup {n + 1}) = Cardinality(Positions(order, ids, n)) + 1
    BY <1>1, <2>2, FS_AddElement
  <2>4. QED
    BY <1>2, <2>1, <2>3 DEF Count
<1>3. CASE order[n + 1] \notin ids
  <2>1. Positions(order, ids, n + 1) = Positions(order, ids, n)
    BY <1>3 DEF Positions
  <2>2. QED
    BY <1>1, <1>3, <2>1 DEF Count
<1>4. QED
  BY <1>2, <1>3

\* The count grows with n, and grows at an entry that is in ids.
LEMMA CountGrows ==
  ASSUME NEW order, NEW ids, NEW m \in Nat, NEW n \in Nat
  PROVE  /\ m <= n => Count(order, ids, m) <= Count(order, ids, n)
         /\ m < n /\ order[n] \in ids => Count(order, ids, m) < Count(order, ids, n)
<1>1. ASSUME NEW k \in Nat, m <= k PROVE Count(order, ids, m) <= Count(order, ids, k)
  <2>1. Positions(order, ids, m) \subseteq Positions(order, ids, k)
    BY <1>1 DEF Positions
  <2>2. IsFiniteSet(Positions(order, ids, k)) /\ Positions(order, ids, m) \in SUBSET Positions(order, ids, k)
    BY <2>1, CountType
  <2>3. Cardinality(Positions(order, ids, m)) <= Cardinality(Positions(order, ids, k))
    BY <2>2, FS_Subset
  <2>4. QED
    BY <2>3 DEF Count
<1>2. ASSUME m < n, order[n] \in ids PROVE Count(order, ids, m) < Count(order, ids, n)
  <2>1. n - 1 \in Nat /\ m <= n - 1 /\ (n - 1) + 1 = n
    BY <1>2
  <2>2. Count(order, ids, n) = Count(order, ids, n - 1) + 1
    BY <1>2, <2>1, CountStep
  <2>3. Count(order, ids, m) <= Count(order, ids, n - 1)
    BY <1>1, <2>1
  <2>4. Count(order, ids, m) \in Nat /\ Count(order, ids, n - 1) \in Nat
    BY <2>1, CountType
  <2>5. QED
    BY <2>2, <2>3, <2>4
<1>3. QED
  BY <1>1, <1>2

\* Every count up to the last is reached, at an entry that is in ids.
LEMMA CountReaches ==
  ASSUME NEW order, NEW ids, NEW N \in Nat, NEW k \in 1..Count(order, ids, N)
  PROVE  \E n \in Positions(order, ids, N) : Count(order, ids, n) = k
<1> DEFINE T == {n \in 0..N : Count(order, ids, n) >= k}
<1>0. k \in Nat /\ k >= 1 /\ N \in T
  BY CountType
<1>01. T \subseteq Nat /\ T # {}
  BY <1>0
<1>1. PICK n \in T : \A m \in T : n <= m
  <2> HIDE DEF T
  <2>1. QED
    BY <1>01, LeastNat
<1>2. n # 0
  BY <1>0, CountType
<1>3. n - 1 \in Nat /\ n - 1 \in 0..N /\ n - 1 \notin T /\ (n - 1) + 1 = n
  BY <1>1, <1>2
<1>4. Count(order, ids, n - 1) < k /\ Count(order, ids, n) >= k
  BY <1>0, <1>1, <1>3, CountType
<1>5. Count(order, ids, n) = Count(order, ids, n - 1) + (IF order[n] \in ids THEN 1 ELSE 0)
  BY <1>3, CountStep
<1>6. Count(order, ids, n - 1) \in Nat
  BY <1>3, CountType
<1>7. order[n] \in ids /\ Count(order, ids, n) = k
  BY <1>0, <1>4, <1>5, <1>6
<1>8. n \in Positions(order, ids, N)
  BY <1>1, <1>2, <1>7 DEF Positions
<1>9. QED
  BY <1>7, <1>8

\* The first n entries are in ids or not.
LEMMA CountRest ==
  ASSUME NEW order, NEW ids, NEW others, NEW n \in Nat,
         \A k \in 1..n : (order[k] \in ids) <=> ~(order[k] \in others)
  PROVE  Count(order, ids, n) + Count(order, others, n) = n
<1> DEFINE I == Positions(order, ids, n)
           O == Positions(order, others, n)
<1>1. I \cup O = 1..n /\ I \cap O = {}
  BY DEF Positions
<1>2. IsFiniteSet(I) /\ IsFiniteSet(O) /\ Cardinality(I) \in Nat /\ Cardinality(O) \in Nat
  BY CountType DEF Count
<1>3. Cardinality(1..n) = n
  BY FS_Interval
<1> HIDE DEF I, O
<1>4. Cardinality(I \cup O) = Cardinality(I) + Cardinality(O) - Cardinality(I \cap O)
  BY <1>2, FS_Union
<1>5. Cardinality(I) + Cardinality(O) = n
  <2>1. Cardinality(I \cap O) = 0
    BY <1>1, FS_EmptySet
  <2>2. Cardinality(I \cup O) = n
    BY <1>1, <1>3
  <2>3. QED
    BY <1>2, <1>4, <2>1, <2>2
<1>6. QED
  BY <1>5 DEF I, O, Count

-----------------------------------------------------------------------------
(* retain *)

\* What retain leaves: the entries that are in ids, and as many as were counted.
LEMMA WithinIs ==
  ASSUME NEW S, NEW order \in Seq(S), NEW ids
  PROVE  /\ Within(order, ids) \in Seq(S)
         /\ Len(Within(order, ids)) = Count(order, ids, Len(order))
         /\ ToSet(Within(order, ids)) = ToSet(order) \cap ids
<1> DEFINE places == Positions(order, ids, Len(order))
           Place(rank) == CHOOSE n \in places : Cardinality(Positions(order, ids, n)) = rank
           total == Count(order, ids, Len(order))
           kept == Within(order, ids)
<1>0. Len(order) \in Nat /\ total \in Nat
  BY CountType
<1>1. kept = [rank \in 1..total |-> order[Place(rank)]]
  BY DEF Within, Count
<1>2. ASSUME NEW rank \in 1..total
      PROVE  Place(rank) \in places /\ Count(order, ids, Place(rank)) = rank
  <2>1. \E n \in places : Cardinality(Positions(order, ids, n)) = rank
    BY <1>0, CountReaches DEF Count
  <2>2. QED
    BY <2>1 DEF Count
<1> HIDE DEF Place
<1>3. \A n \in places : n \in 1..Len(order) /\ order[n] \in ids /\ order[n] \in S
  BY DEF Positions
<1>4. ASSUME NEW n \in places
      PROVE  /\ Count(order, ids, n) \in 1..total
             /\ Place(Count(order, ids, n)) = n
  <2>1. n \in 1..Len(order) /\ order[n] \in ids
    BY <1>3
  <2>2. Count(order, ids, 0) < Count(order, ids, n) /\ Count(order, ids, n) <= total
    BY <1>0, <2>1, CountGrows
  <2>3. Count(order, ids, n) \in Nat /\ Count(order, ids, 0) \in Nat
    BY <2>1, CountType
  <2>4. Count(order, ids, n) \in 1..total
    BY <1>0, <2>2, <2>3
  <2> DEFINE m == Place(Count(order, ids, n))
  <2>5. m \in places /\ Count(order, ids, m) = Count(order, ids, n)
    BY <1>2, <2>4
  <2> HIDE DEF m
  <2>6. m \in 1..Len(order) /\ order[m] \in ids
    BY <1>3, <2>5
  <2>7. ~(m < n) /\ ~(n < m)
    BY <1>0, <2>1, <2>3, <2>5, <2>6, CountGrows
  <2>8. m = n
    BY <2>1, <2>6, <2>7
  <2>9. QED
    BY <2>4, <2>8 DEF m
<1> HIDE DEF places
<1>5. \A rank \in 1..total : kept[rank] \in S /\ kept[rank] \in ids /\ kept[rank] \in ToSet(order)
  <2> SUFFICES ASSUME NEW rank \in 1..total
               PROVE  kept[rank] \in S /\ kept[rank] \in ids /\ kept[rank] \in ToSet(order)
    OBVIOUS
  <2>1. kept[rank] = order[Place(rank)] /\ Place(rank) \in places
    BY <1>1, <1>2
  <2>2. QED
    BY <1>3, <2>1 DEF ToSet
<1>6. kept \in Seq(S) /\ Len(kept) = total /\ DOMAIN kept = 1..total
  BY <1>0, <1>1, <1>5
<1>7. ASSUME NEW x \in ToSet(order), x \in ids PROVE x \in ToSet(kept)
  <2>1. PICK n \in 1..Len(order) : order[n] = x
    BY DEF ToSet
  <2>2. n \in places
    BY <1>7, <2>1 DEF Positions, places
  <2>3. kept[Count(order, ids, n)] = x
    BY <1>1, <1>4, <2>1, <2>2
  <2>4. QED
    BY <1>4, <1>6, <2>2, <2>3 DEF ToSet
<1>8. ToSet(kept) \subseteq ToSet(order) \cap ids
  BY <1>5, <1>6 DEF ToSet
<1>9. QED
  BY <1>6, <1>7, <1>8

\* Pruning keeps what it does not drop in the order, adds nothing, and leaves no more
\* than Retention entries unless all that are left are referred to.
LEMMA PruneBounds ==
  ASSUME NEW S, NEW order \in Seq(S), NEW ids, ids \subseteq ToSet(order), NEW referenced,
         NEW p, p = PruneParts(referenced, ids, order)
  PROVE  /\ p.ids \subseteq ids
         /\ p.order \in Seq(S)
         /\ p.ids \subseteq ToSet(p.order)
         /\ Len(p.order) <= Retention \/ ToSet(p.order) \subseteq referenced
<1> DEFINE kept == Within(order, ids)
           L == Len(kept)
           Free(n) == {k \in 1..n : kept[k] \notin referenced}
           dropped == {n \in Free(L) : Cardinality(Free(n)) + Retention <= L}
           last == Max(dropped \cup {0})
           front == SubSeq(kept, 1, last)
           back == SubSeq(kept, last + 1, L)
           passed == Within(front, referenced)
           others == ToSet(kept) \ referenced
<1>1. p.ids = ids \ {kept[n] : n \in dropped} /\ p.order = back \o passed
  BY DEF PruneParts
<1>2. kept \in Seq(S) /\ ToSet(kept) = ids
  <2>1. Within(order, ids) \in Seq(S) /\ ToSet(Within(order, ids)) = ToSet(order) \cap ids
    BY WithinIs
  <2>2. QED
    BY <2>1
<1>3. L \in Nat /\ DOMAIN kept = 1..L /\ Retention \in Nat /\ Retention >= 1
  BY <1>2, SchedulerAssumption
<1> HIDE DEF kept
<1>4. \A k \in 1..L : (kept[k] \in others) <=> (kept[k] \notin referenced)
  BY <1>3 DEF ToSet
<1> HIDE DEF others
<1>41. \A n \in 0..L : Count(kept, others, n) \in Nat
  BY <1>3, CountType
<1>42. \A n \in 0..L : Cardinality(Free(n)) = Count(kept, others, n)
  <2> SUFFICES ASSUME NEW n \in 0..L PROVE Cardinality(Free(n)) = Count(kept, others, n)
    OBVIOUS
  <2>1. Free(n) = Positions(kept, others, n)
    BY <1>3, <1>4 DEF Positions
  <2>2. QED
    BY <2>1 DEF Count
<1>43. Free(L) = {n \in 1..L : kept[n] \notin referenced} /\ \A n \in 1..L : n \in 0..L
  BY <1>3
<1> HIDE DEF Free
<1>5. \A n : n \in dropped <=> /\ n \in 1..L /\ kept[n] \notin referenced
                               /\ Count(kept, others, n) + Retention <= L
  BY <1>42, <1>43
<1> HIDE DEF dropped
<1>6. last \in dropped \cup {0} /\ \A n \in dropped : n <= last
  <2> DEFINE D == dropped \cup {0}
             U == {L - n : n \in D}
  <2>1. D \subseteq 0..L
    BY <1>3, <1>5
  <2>2. U \subseteq Nat /\ U # {}
    BY <1>3, <2>1
  <2> HIDE DEF U
  <2>3. PICK u \in U : \A v \in U : u <= v
    BY <2>2, LeastNat
  <2>4. PICK n \in D : u = L - n
    BY DEF U
  <2>5. ASSUME NEW m \in D PROVE n >= m
    <3>1. L - m \in U /\ m \in 0..L /\ n \in 0..L
      BY <2>1 DEF U
    <3>2. QED
      BY <1>3, <2>3, <2>4, <3>1
  <2>6. last \in D /\ \A m \in D : last >= m
    BY <2>4, <2>5 DEF Max
  <2>7. QED
    BY <1>3, <2>1, <2>6
<1> HIDE DEF last
<1>7. last \in 0..L /\ (last = 0 \/ Count(kept, others, last) + Retention <= L)
  <2>1. CASE last = 0
    BY <1>3, <2>1
  <2>2. CASE last \in dropped
    BY <1>3, <1>5, <2>2
  <2>3. QED
    BY <1>6, <2>1, <2>2
<1>8. front \in Seq(S) /\ Len(front) = last /\ \A k \in 1..last : front[k] = kept[k]
  BY <1>2, <1>3, <1>7
<1>9. back \in Seq(S) /\ Len(back) = L - last /\ \A k \in 1..(L - last) : back[k] = kept[last + k]
  <2>1. back \in Seq(S) /\ Len(back) = L - last
    <3>1. last + 1 \in Int /\ L \in Int /\ \A i \in (last + 1)..L : kept[i] \in S
      BY <1>2, <1>3, <1>7
    <3> HIDE DEF L
    <3>2. back \in Seq(S) /\ Len(back) = IF last + 1 <= L THEN L - (last + 1) + 1 ELSE 0
      BY <3>1, SubSeqProperties
    <3>3. QED
      BY <1>3, <1>7, <3>2
  <2>2. ASSUME NEW k \in 1..(L - last) PROVE back[k] = kept[last + k]
    <3>1. back[k] = kept[(last + 1) + k - 1] /\ (last + 1) + k - 1 = last + k
      BY <1>2, <1>3, <1>7
    <3>2. QED
      BY <3>1
  <2>3. QED
    BY <2>1, <2>2
<1> HIDE DEF front, back
<1>10. /\ passed \in Seq(S)
       /\ Len(passed) = Count(front, referenced, last)
       /\ ToSet(passed) = ToSet(front) \cap referenced
  BY <1>8, WithinIs
<1> HIDE DEF passed
<1>11. /\ back \o passed \in Seq(S)
       /\ Len(back \o passed) = Len(back) + Len(passed)
       /\ ToSet(back \o passed) = ToSet(back) \cup ToSet(passed)
  <2>1. back \o passed \in Seq(S) /\ Len(back \o passed) = Len(back) + Len(passed)
    BY <1>9, <1>10
  <2>2. Len(back) \in Nat /\ Len(passed) \in Nat
    BY <1>9, <1>10
  <2>3. \A k \in 1..Len(back) : (back \o passed)[k] = back[k]
    BY <1>9, <1>10
  <2>4. \A k \in 1..Len(passed) : (back \o passed)[Len(back) + k] = passed[k]
    BY <1>9, <1>10
  <2>5. \A k \in 1..(Len(back) + Len(passed)) :
           k \in 1..Len(back) \/ \E m \in 1..Len(passed) : k = Len(back) + m
    <3> SUFFICES ASSUME NEW k \in 1..(Len(back) + Len(passed)), k \notin 1..Len(back)
                 PROVE  \E m \in 1..Len(passed) : k = Len(back) + m
      OBVIOUS
    <3>1. k - Len(back) \in 1..Len(passed) /\ k = Len(back) + (k - Len(back))
      BY <2>2
    <3>2. QED
      BY <3>1
  <2>6. /\ DOMAIN back = 1..Len(back) /\ DOMAIN passed = 1..Len(passed)
        /\ DOMAIN (back \o passed) = 1..(Len(back) + Len(passed))
    BY <1>9, <1>10, <2>1
  <2>7. ToSet(back \o passed) \subseteq ToSet(back) \cup ToSet(passed)
    <3> SUFFICES ASSUME NEW k \in 1..(Len(back) + Len(passed))
                 PROVE  (back \o passed)[k] \in ToSet(back) \cup ToSet(passed)
      BY <2>6 DEF ToSet
    <3>1. CASE k \in 1..Len(back)
      BY <2>3, <2>6, <3>1 DEF ToSet
    <3>2. CASE \E m \in 1..Len(passed) : k = Len(back) + m
      BY <2>4, <2>6, <3>2 DEF ToSet
    <3>3. QED
      BY <2>5, <3>1, <3>2
  <2>8. /\ \A k \in 1..Len(back) : k \in 1..(Len(back) + Len(passed))
        /\ \A k \in 1..Len(passed) : Len(back) + k \in 1..(Len(back) + Len(passed))
    BY <2>2
  <2>9. ToSet(back) \subseteq ToSet(back \o passed) /\ ToSet(passed) \subseteq ToSet(back \o passed)
    BY <2>3, <2>4, <2>6, <2>8 DEF ToSet
  <2>10. QED
    BY <2>1, <2>7, <2>9
<1>12. p.ids \subseteq ToSet(p.order)
  <2> SUFFICES ASSUME NEW id \in ids, id \notin {kept[n] : n \in dropped}
               PROVE  id \in ToSet(back) \cup ToSet(passed)
    BY <1>1, <1>11
  <2>1. PICK n \in 1..L : kept[n] = id
    BY <1>2, <1>3 DEF ToSet
  <2>2. CASE n > last
    <3>1. n - last \in 1..(L - last) /\ last + (n - last) = n
      BY <1>3, <1>7, <2>2
    <3>2. back[n - last] = id
      BY <1>9, <2>1, <3>1
    <3>3. DOMAIN back = 1..(L - last)
      BY <1>9
    <3>4. QED
      BY <3>1, <3>2, <3>3 DEF ToSet
  <2>3. CASE n <= last
    <3>1. n \notin dropped
      BY <2>1
    <3>2. last \in dropped /\ Count(kept, others, last) + Retention <= L
      BY <1>5, <1>6, <1>7, <2>3
    <3>3. Count(kept, others, n) <= Count(kept, others, last)
      BY <1>3, <1>7, <2>3, CountGrows
    <3>4. Count(kept, others, n) \in Nat /\ Count(kept, others, last) \in Nat
      BY <1>3, <1>41, <1>7
    <3>5. Count(kept, others, n) + Retention <= L
      BY <1>3, <3>2, <3>3, <3>4
    <3>6. id \in referenced
      BY <1>5, <2>1, <3>1, <3>5
    <3>7. id \in ToSet(front)
      <4>1. n \in 1..last /\ front[n] = id /\ DOMAIN front = 1..last
        BY <1>7, <1>8, <2>1, <2>3
      <4>2. QED
        BY <4>1 DEF ToSet
    <3>8. QED
      BY <1>10, <3>6, <3>7
  <2>4. QED
    BY <1>3, <1>7, <2>2, <2>3
<1>13. Len(p.order) = L - Count(kept, others, last)
  <2>1. Positions(front, referenced, last) = Positions(kept, referenced, last)
    BY <1>8 DEF Positions
  <2>2. \A k \in 1..last : (kept[k] \in referenced) <=> ~(kept[k] \in others)
    BY <1>3, <1>4, <1>7
  <2>3. Count(kept, referenced, last) + Count(kept, others, last) = last
    BY <1>7, <2>2, CountRest
  <2>4. Count(kept, referenced, last) \in Nat /\ Count(kept, others, last) \in Nat
    BY <1>7, CountType
  <2>5. Len(passed) = Count(kept, referenced, last)
    BY <1>10, <2>1 DEF Count
  <2>6. QED
    BY <1>1, <1>3, <1>7, <1>9, <1>11, <2>3, <2>4, <2>5
<1>14. CASE Count(kept, others, L) + Retention <= L
  <2>1. ASSUME NEW n \in 1..L, kept[n] \notin referenced PROVE n \in dropped
    <3>1. Count(kept, others, n) <= Count(kept, others, L)
      BY <1>3, CountGrows
    <3>2. Count(kept, others, n) \in Nat /\ Count(kept, others, L) \in Nat
      BY <1>3, <1>41
    <3>3. QED
      BY <1>3, <1>5, <1>14, <2>1, <3>1, <3>2
  <2>2. ASSUME NEW k \in 1..(L - last) PROVE back[k] \in referenced
    <3>1. last + k \in 1..L /\ last + k > last
      BY <1>3, <1>7
    <3>2. last + k \notin dropped
      BY <1>6, <1>7, <3>1
    <3>3. QED
      BY <1>9, <2>1, <3>1, <3>2
  <2>3. DOMAIN back = 1..(L - last)
    BY <1>9
  <2>4. ToSet(back) \subseteq referenced
    BY <2>2, <2>3 DEF ToSet
  <2>5. QED
    BY <1>1, <1>2, <1>10, <1>11, <1>12, <2>4
<1>15. CASE ~(Count(kept, others, L) + Retention <= L)
  <2>1. Count(kept, others, L) \in Nat /\ Count(kept, others, last) \in Nat
    BY <1>3, <1>41, <1>7
  <2>2. Len(p.order) <= Retention
    <3>1. CASE L <= Retention
      BY <1>3, <1>13, <2>1, <3>1
    <3>2. CASE L > Retention
      <4>1. L - Retention \in 1..Count(kept, others, L)
        BY <1>3, <1>15, <2>1, <3>2
      <4>2. PICK n \in Positions(kept, others, L) : Count(kept, others, n) = L - Retention
        BY <1>3, <4>1, CountReaches
      <4>3. n \in 1..L /\ kept[n] \notin referenced
        BY <1>4, <4>2 DEF Positions
      <4>4. n \in dropped
        BY <1>3, <1>5, <4>2, <4>3
      <4>5. Count(kept, others, n) <= Count(kept, others, last)
        BY <1>3, <1>6, <1>7, <4>3, <4>4, CountGrows
      <4>6. QED
        BY <1>3, <1>13, <2>1, <4>2, <4>5
    <3>3. QED
      BY <1>3, <3>1, <3>2
  <2>3. QED
    BY <1>1, <1>11, <1>12, <2>2
<1>16. QED
  BY <1>14, <1>15

-----------------------------------------------------------------------------
(* The ledgers *)

\* An order lists the ids of its ledger.
Lists(order, ids) == order \in Seq(Nat) /\ ids \subseteq ToSet(order)

\* The completed ledger is within its bound, or a job of q waits for each of its entries.
BoundedBy(q) ==
  Len(completed_order') <= Retention \/ ToSet(completed_order') \subseteq Dependencies(q)

\* Pruning the ledgers against q keeps all that is left in the orders, and bounds the
\* completed one.
LEMMA LedgersBounded ==
  ASSUME NEW q, NEW done, NEW done_order, NEW bad, NEW bad_order,
         Lists(done_order, done), Lists(bad_order, bad),
         PruneLedgers(q, done, done_order, bad, bad_order)
  PROVE  /\ Lists(completed_order, completed)' /\ Lists(failed_order, failed)'
         /\ completed' \subseteq done
         /\ BoundedBy(q)
<1> DEFINE c == PruneParts(Dependencies(q), done, done_order)
           f == PruneParts(Dependencies(q), bad, bad_order)
<1>1. /\ completed' = c.ids /\ completed_order' = c.order
      /\ failed' = f.ids /\ failed_order' = f.order
  BY DEF PruneLedgers, Prune
<1>2. /\ done_order \in Seq(Nat) /\ done \subseteq ToSet(done_order)
      /\ bad_order \in Seq(Nat) /\ bad \subseteq ToSet(bad_order)
  BY DEF Lists
<1> HIDE DEF c, f
<1>3. /\ c.ids \subseteq done /\ c.order \in Seq(Nat) /\ c.ids \subseteq ToSet(c.order)
      /\ Len(c.order) <= Retention \/ ToSet(c.order) \subseteq Dependencies(q)
  BY <1>2, PruneBounds DEF c
<1>4. f.order \in Seq(Nat) /\ f.ids \subseteq ToSet(f.order)
  BY <1>2, PruneBounds DEF f
<1>5. QED
  BY <1>1, <1>3, <1>4 DEF Lists, BoundedBy

\* Retaining and then appending loses no entry.
LEMMA ListedTogether ==
  ASSUME NEW S, NEW s \in Seq(S), NEW t \in Seq(S)
  PROVE  /\ s \o t \in Seq(S)
         /\ ToSet(s) \subseteq ToSet(s \o t) /\ ToSet(t) \subseteq ToSet(s \o t)
<1>1. s \o t \in Seq(S) /\ Len(s \o t) = Len(s) + Len(t) /\ Len(s) \in Nat /\ Len(t) \in Nat
  OBVIOUS
<1>2. DOMAIN s = 1..Len(s) /\ DOMAIN t = 1..Len(t) /\ DOMAIN (s \o t) = 1..(Len(s) + Len(t))
  BY <1>1
<1>3. \A k \in 1..Len(s) : k \in 1..(Len(s) + Len(t)) /\ (s \o t)[k] = s[k]
  BY <1>1
<1>4. \A k \in 1..Len(t) : Len(s) + k \in 1..(Len(s) + Len(t)) /\ (s \o t)[Len(s) + k] = t[k]
  BY <1>1
<1>5. QED
  BY <1>1, <1>2, <1>3, <1>4 DEF ToSet

\* The entries of the ledgers are numbers, and stand in the orders.
LedgerInv ==
  /\ next \in Nat
  /\ Lists(completed_order, completed) /\ Lists(failed_order, failed)

\* Every step keeps the entries in the orders, and one that adds a completion bounds them.
LEMMA LedgerStep ==
  ASSUME LedgerInv, IInv, [Next]_vars
  PROVE  LedgerInv' /\ (completed' \subseteq completed \/ BoundedBy(queue'))
<1> DEFINE Goal == LedgerInv' /\ (completed' \subseteq completed \/ BoundedBy(queue'))
<1>01. Lists(completed_order, completed) /\ Lists(failed_order, failed)
  BY DEF LedgerInv
<1>0. next' \in Nat /\ Ids \subseteq Nat
  BY NextIInv DEF IInv, Ids
<1>1. ASSUME \/ \E shape \in Shapes, deps \in SUBSET Ids : Schedule(shape, deps)
             \/ \E id \in Ids \ cancelled : Cancel(id)
             \/ \E id \in queue, v \in Volumes : bind_volume(id, v)
             \/ \E v \in Volumes, classes \in (SUBSET {s.class : s \in Shapes}) \ {{}} :
                  cancel_volume_jobs(v, classes)
             \/ \E id \in Ids : pop_next(id)
             \/ pop_next_none \/ drain_ready \/ UNCHANGED vars
      PROVE  Goal
  <2>1. UNCHANGED ledgers
    BY <1>1 DEF Schedule, Cancel, bind_volume, cancel_volume_jobs, pop_next, pop_next_none,
                drain_ready, vars
  <2>2. QED
    BY <1>0, <2>1 DEF LedgerInv, ledgers, Lists
<1>2. ASSUME NEW id \in Ids, mark_completed(id) PROVE Goal
  <2> DEFINE order == IF id \in completed THEN completed_order ELSE Append(completed_order, id)
  <2>1. PruneLedgers(queue, completed \cup {id}, order, failed, failed_order)
        /\ UNCHANGED <<queue, job>>
    BY <1>2 DEF mark_completed
  <2>2. Lists(order, completed \cup {id})
    <3>1. CASE id \in completed
      <4>1. completed \cup {id} = completed
        BY <3>1
      <4>2. QED
        BY <1>01, <3>1, <4>1
    <3>2. CASE id \notin completed
      <4> DEFINE n == Len(completed_order)
      <4>1. /\ order \in Seq(Nat) /\ DOMAIN order = 1..(n + 1) /\ n \in Nat
            /\ order[n + 1] = id /\ \A k \in 1..n : order[k] = completed_order[k]
        BY <1>0, <1>01, <3>2 DEF Lists
      <4>2. DOMAIN completed_order = 1..n /\ \A k \in 1..n : k \in 1..(n + 1)
        BY <1>01, <4>1 DEF Lists
      <4> HIDE DEF order
      <4>3. ToSet(completed_order) \subseteq ToSet(order) /\ id \in ToSet(order)
        BY <4>1, <4>2 DEF ToSet
      <4>4. QED
        BY <1>01, <4>1, <4>3 DEF Lists
    <3>3. QED
      BY <3>1, <3>2
  <2> HIDE DEF order
  <2>3. Dependencies(queue') = Dependencies(queue)
    BY <2>1 DEF Dependencies
  <2>4. LedgerInv' /\ BoundedBy(queue)
    BY <1>0, <1>01, <2>1, <2>2, LedgersBounded DEF LedgerInv
  <2>5. QED
    BY <2>3, <2>4 DEF BoundedBy
<1>3. ASSUME NEW id \in Ids, mark_completed_interrupted(id) PROVE Goal
  <2>1. /\ UNCHANGED <<completed, failed, failed_order>>
        /\ \/ completed_order' = completed_order
           \/ id \notin completed /\ completed_order' = Without(completed_order, {id})
    BY <1>3 DEF mark_completed_interrupted
  <2>2. ASSUME id \notin completed, completed_order' = Without(completed_order, {id})
        PROVE  completed_order' \in Seq(Nat) /\ completed \subseteq ToSet(completed_order')
    <3> DEFINE ids == ToSet(completed_order) \ {id}
    <3>1. completed_order \in Seq(Nat) /\ completed \subseteq ids
      BY <1>01, <2>2 DEF Lists
    <3>2. completed_order' = Within(completed_order, ids) /\ ids \subseteq ToSet(completed_order)
      BY <2>2 DEF Without
    <3> HIDE DEF ids
    <3>3. Within(completed_order, ids) \in Seq(Nat)
          /\ ToSet(Within(completed_order, ids)) = ToSet(completed_order) \cap ids
      BY <3>1, WithinIs
    <3>4. QED
      BY <3>1, <3>2, <3>3
  <2>3. completed_order' \in Seq(Nat) /\ completed \subseteq ToSet(completed_order')
    BY <1>01, <2>1, <2>2 DEF Lists
  <2>4. QED
    BY <1>0, <1>01, <2>1, <2>3 DEF LedgerInv, Lists
<1>4. ASSUME NEW report \in Reports, apply_worker_report(report) PROVE Goal
  <2> DEFINE with(s) == {i \in DOMAIN report : report[i] = s}
             done == with("Completed")
             dropped == with("Cancelled")
             bad == with("Failed")
             all == [i \in Ids |-> i]
             Listed(order, out, new) == Without(order, out) \o Within(all, new)
             done_ids == (completed \ (dropped \cup bad)) \cup done
             bad_ids == (failed \ (dropped \cup done)) \cup bad
             done_order == Listed(completed_order, dropped \cup bad, done \ completed)
             bad_order == Listed(failed_order, dropped \cup done, bad \ failed)
  <2>1. PruneLedgers(queue, done_ids, done_order, bad_ids, bad_order) /\ UNCHANGED <<queue, job>>
    BY <1>4 DEF apply_worker_report
  <2>2. done \subseteq Ids /\ bad \subseteq Ids
    BY DEF Reports, IInv
  <2>3. done \cap dropped = {} /\ done \cap bad = {} /\ bad \cap dropped = {}
    OBVIOUS
  <2> HIDE DEF with
  <2>4. all \in Seq(Nat) /\ ToSet(all) = Ids
    BY <1>0 DEF LedgerInv, Ids, ToSet
  <2> HIDE DEF all
  <2>5. ASSUME NEW order, NEW ids, Lists(order, ids), NEW out,
               NEW new, new \subseteq Ids, new \cap out = {}
        PROVE  Lists(Listed(order, out, new \ ids), (ids \ out) \cup new)
    <3> DEFINE s == Without(order, out)
               t == Within(all, new \ ids)
    <3>0. order \in Seq(Nat) /\ ids \subseteq ToSet(order)
      BY <2>5 DEF Lists
    <3>1. s \in Seq(Nat) /\ ToSet(s) = ToSet(order) \cap (ToSet(order) \ out)
      BY <3>0, WithinIs DEF Without
    <3>2. t \in Seq(Nat) /\ ToSet(t) = Ids \cap (new \ ids)
      BY <2>4, WithinIs
    <3> HIDE DEF s, t
    <3>3. s \o t \in Seq(Nat) /\ ToSet(s) \subseteq ToSet(s \o t) /\ ToSet(t) \subseteq ToSet(s \o t)
      BY <3>1, <3>2, ListedTogether
    <3>4. (ids \ out) \cup new \subseteq ToSet(s) \cup ToSet(t)
      BY <2>5, <3>0, <3>1, <3>2
    <3>5. QED
      BY <3>3, <3>4 DEF s, t, Lists
  <2>6. Lists(done_order, done_ids)
    <3>1. done \cap (dropped \cup bad) = {}
      BY <2>3
    <3> HIDE DEF Listed
    <3>2. QED
      BY <1>01, <2>2, <2>5, <3>1
  <2>7. Lists(bad_order, bad_ids)
    <3>1. bad \cap (dropped \cup done) = {}
      BY <2>3
    <3> HIDE DEF Listed
    <3>2. QED
      BY <1>01, <2>2, <2>5, <3>1
  <2> HIDE DEF done_order, bad_order, done_ids, bad_ids
  <2>8. Dependencies(queue') = Dependencies(queue)
    BY <2>1 DEF Dependencies
  <2>9. LedgerInv' /\ BoundedBy(queue)
    BY <1>0, <2>1, <2>6, <2>7, LedgersBounded DEF LedgerInv
  <2>10. QED
    BY <2>8, <2>9 DEF BoundedBy
<1>5. ASSUME NEW extra, drain_fair_ready(extra) PROVE Goal
  <2> DEFINE done == completed \ cancelled'
             bad == failed \ cancelled'
  <2>1. PruneLedgers(queue', done, completed_order, bad, failed_order)
    BY <1>5 DEF drain_fair_ready, PruneAfterDrain
  <2>2. Lists(completed_order, done) /\ Lists(failed_order, bad) /\ done \subseteq completed
    BY <1>01 DEF Lists
  <2> HIDE DEF done, bad
  <2>3. LedgerInv' /\ completed' \subseteq done
    BY <1>0, <2>1, <2>2, LedgersBounded DEF LedgerInv
  <2>4. QED
    BY <2>2, <2>3
<1>6. ASSUME NEW extra, drain_fair_ready_interrupted(extra) PROVE Goal
  <2>1. /\ UNCHANGED <<completed_order, failed_order>>
        /\ completed' \subseteq completed /\ failed' \subseteq failed
    BY <1>6 DEF drain_fair_ready_interrupted
  <2>2. QED
    BY <1>0, <1>01, <2>1 DEF LedgerInv, Lists
<1>7. QED
  BY <1>1, <1>2, <1>3, <1>4, <1>5, <1>6 DEF Next

\* Nothing leaks out of what the pruning of the ledgers can find, even when recordings and
\* drains are stopped half way, and a step that records a completion leaves at most
\* Retention of them, unless queued jobs wait for all that are left.
THEOREM LedgerStaysBounded == Spec => LedgerBounded
<1>1. Init => LedgerInv
  BY DEF Init, LedgerInv, Lists, ToSet
<1>2. LedgerInv /\ IInv /\ [Next]_vars => LedgerInv'
  BY LedgerStep
<1>3. Spec => []LedgerInv
  BY <1>1, <1>2, Invariance, PTL DEF Spec
<1>4. LedgerInv /\ IInv /\ [Next]_vars =>
        /\ LedgersPrunable'
        /\ ~(completed' \subseteq completed) =>
             \/ Len(completed_order') <= Retention
             \/ ToSet(completed_order') \subseteq Dependencies(queue')
  BY LedgerStep DEF LedgerInv, Lists, LedgersPrunable, BoundedBy
<1>5. QED
  BY <1>3, <1>4, Invariance, PTL DEF Spec, LedgerBounded

=============================================================================
