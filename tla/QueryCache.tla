------------------------------ MODULE QueryCache ------------------------------
(***************************************************************************)
(* The caches of a content query session (crates/index/src/session.rs:     *)
(* ContentPostingCache, ContentRecordCache and ContentResultCache are the  *)
(* same code over other keys).  A use of a key stamps it with a new        *)
(* generation and pushes the stamp to a queue; the stamps that a key no    *)
(* longer carries stay in the queue until eviction pops them or the queue  *)
(* is compacted.  A cache is only used under its mutex, so a call is one   *)
(* step, except that the eviction loop is shown turn by turn.              *)
(*                                                                         *)
(* Stamps are pushed with increasing generations, so the queue is the set  *)
(* of its stamps and its front is the least of them.  Generations are u64  *)
(* in the code and do not wrap around here.                                *)
(***************************************************************************)
EXTENDS Naturals, FiniteSets

CONSTANTS
    Keys,           \* terms, record ids or queries
    Capacity,       \* the capacity of the cache
    MaxGeneration   \* bound on the uses of the cache

ASSUME CapacityAssumption == Capacity \in Nat
ASSUME BoundAssumption == MaxGeneration \in Nat

VARIABLES
    cached,      \* the keys of values
    generation,  \* the generation each cached key carries
    order,       \* the stamps <<generation, key>> in the queue
    next,        \* next_generation
    evicting     \* whether insert is in evict_over_capacity

vars == <<cached, generation, order, next, evicting>>

\* compact_stale_order_if_needed keeps the queue no longer than this.
MaxOrder == IF 4 * Capacity > Capacity + 1 THEN 4 * Capacity ELSE Capacity + 1

Live(stamps, keys, gen) == {stamp \in stamps : stamp[2] \in keys /\ gen[stamp[2]] = stamp[1]}

\* Mutant: stale stamps are never dropped.
NotCompacted(stamps, keys, gen) == stamps

\* The queue made anew from the keys and their generations.
Compacted(stamps, keys, gen) ==
    IF Cardinality(stamps) > MaxOrder THEN {<<gen[k], k>> : k \in keys} ELSE stamps

Front(stamp) == stamp \in order /\ \A other \in order : stamp[1] <= other[1]

-----------------------------------------------------------------------------
Init ==
    /\ cached = {} /\ generation = [k \in {} |-> 0]
    /\ order = {} /\ next = 0 /\ evicting = FALSE

\* A use of the cache, and the generation it takes.
Use == ~evicting /\ next < MaxGeneration /\ next' = next + 1

Stamped(k) == [key \in cached \cup {k} |-> IF key = k THEN next ELSE generation[key]]

GetHit(k) ==
    /\ Use /\ k \in cached
    /\ generation' = Stamped(k)
    /\ order' = Compacted(order \cup {<<next, k>>}, cached, Stamped(k))
    /\ UNCHANGED <<cached, evicting>>

\* A miss takes a generation all the same.
GetMiss(k) ==
    /\ Use /\ k \notin cached
    /\ UNCHANGED <<cached, generation, order, evicting>>

Insert(k) ==
    /\ Use /\ Capacity > 0
    /\ cached' = cached \cup {k}
    /\ generation' = Stamped(k)
    /\ order' = order \cup {<<next, k>>}
    /\ evicting' = TRUE

\* Mutant: a popped stamp takes its key along, stale or not.
PopStamp(stamp) ==
    /\ evicting /\ Cardinality(cached) > Capacity
    /\ Front(stamp)
    /\ order' = order \ {stamp}
    /\ cached' = cached \ {stamp[2]}
    /\ generation' = [k \in cached' |-> generation[k]]
    /\ UNCHANGED <<next, evicting>>

\* A turn of the loop: the front is popped; its key goes if it carries that stamp.
EvictFront(stamp) ==
    /\ evicting /\ Cardinality(cached) > Capacity
    /\ Front(stamp)
    /\ order' = order \ {stamp}
    /\ cached' = IF stamp \in Live(order, cached, generation) THEN cached \ {stamp[2]} ELSE cached
    /\ generation' = [k \in cached' |-> generation[k]]
    /\ UNCHANGED <<next, evicting>>

\* The loop ends within capacity, or when nothing is left to pop.
EvictDone ==
    /\ evicting
    /\ Cardinality(cached) <= Capacity \/ order = {}
    /\ order' = Compacted(order, cached, generation)
    /\ evicting' = FALSE
    /\ UNCHANGED <<cached, generation, next>>

\* An invalidation clears the result cache.
Clear ==
    /\ ~evicting
    /\ cached' = {} /\ generation' = [k \in {} |-> 0] /\ order' = {}
    /\ UNCHANGED <<next, evicting>>

Next ==
    \/ \E k \in Keys : GetHit(k) \/ GetMiss(k) \/ Insert(k)
    \/ \E stamp \in order : EvictFront(stamp)
    \/ EvictDone \/ Clear

Spec == Init /\ [][Next]_vars

-----------------------------------------------------------------------------
\* Every cached key carries a generation already taken; the queue holds such stamps.
TypeOK ==
    /\ cached \subseteq Keys /\ IsFiniteSet(cached)
    /\ generation \in [cached -> Nat]
    /\ order \subseteq Nat \X Keys /\ IsFiniteSet(order)
    /\ next \in Nat /\ evicting \in BOOLEAN

\* The cache keeps its budget: between calls at most Capacity keys, and at most
\* MaxOrder stamps however often keys are used again.
BudgetKept == ~evicting => Cardinality(cached) <= Capacity /\ Cardinality(order) <= MaxOrder

\* What makes eviction work: generations are fresh and tell keys apart, the stamp of
\* every cached key is still in the queue, and only the last insert exceeds Capacity.
QueueIsComplete ==
    /\ \A stamp \in order : stamp[1] < next
    /\ \A s, t \in order : s[1] = t[1] => s = t
    /\ \A k \in cached : <<generation[k], k>> \in order
    /\ Cardinality(cached) <= Capacity + 1

\* A key that is about to be evicted is no longer offered.
Kept ==
    IF Cardinality(cached) > Capacity
    THEN {k \in cached : \E other \in cached : generation[other] < generation[k]}
    ELSE cached

\* <<a, b>> : a was used less recently than b.
Recency == {pair \in Kept \X Kept : generation[pair[1]] < generation[pair[2]]}

\* The generations implement recency: to its caller the cache is LruCache, whatever
\* stale stamps the queue holds.
Lru == INSTANCE LruCache WITH
    cached <- Kept, before <- Recency
ImplementsLru == Lru!Spec
=============================================================================
