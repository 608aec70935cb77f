---------------------------- MODULE SessionProofs ----------------------------
(***************************************************************************)
(* Proofs about what a browsing session holds in memory: the caches of a   *)
(* content query (QueryCache) and the previews in flight                   *)
(* (PreviewScheduler), and then of both together (MCSession).              *)
(*                                                                         *)
(* Caches, for every set of keys and every capacity. The inductive         *)
(* invariant says what lets a queue with stale stamps stand for an order   *)
(* of use: stamps are fresh and tell keys apart, and the stamp that a      *)
(* cached key carries is always in the queue.  Eviction then never runs    *)
(* out of stamps before it is within capacity, rebuilding the queue only   *)
(* drops stale stamps, and the front, when its key still carries it, is    *)
(* the key that was not used for the longest time.                         *)
(*                                                                         *)
(* Previews, for every set of items and all limits. A selection that keeps *)
(* the tasks with fewer than n before them keeps at most n, if the order   *)
(* is total on them; so both the desired tasks and the tasks in flight are *)
(* within the limits, and the former, which come first, all fit.           *)
(***************************************************************************)
EXTENDS MCSession, FiniteSetTheorems, WellFoundedInduction, TLAPS

CacheInv == TypeOK /\ QueueIsComplete /\ BudgetKept

\* A nonempty set of naturals has a least element.
LEMMA LeastNatural ==
  ASSUME NEW S \in SUBSET Nat, S # {}
  PROVE  \E n \in S : \A m \in S : n <= m
<1> DEFINE R == {ss \in Nat \X Nat : ss[1] < ss[2]}
<1>1. IsWellFoundedOn(R, Nat)
  BY NatLessThanWellFounded, Zenon DEF OpToRel
<1>2. \E n \in S : \A m \in S : ~(<<m, n>> \in R)
  <2> HIDE DEF R
  <2> QED
    BY <1>1, WFMin
<1>3. PICK n \in S : \A m \in S : ~(<<m, n>> \in R)
  BY <1>2
<1>4. ASSUME NEW m \in S PROVE n <= m
  <2>1. m \in Nat /\ n \in Nat
    OBVIOUS
  <2>2. m < n => <<m, n>> \in R
    BY <2>1
  <2>3. QED
    BY <1>3, <2>1, <2>2
<1>5. QED
  BY <1>4

\* Rebuilding the queue drops stale stamps only, and leaves no more than MaxOrder.
LEMMA CompactedFacts ==
  ASSUME NEW stamps, NEW keys \in SUBSET Keys, NEW gen \in [keys -> Nat],
         IsFiniteSet(stamps), IsFiniteSet(keys), Cardinality(keys) <= Capacity,
         \A k \in keys : <<gen[k], k>> \in stamps
  PROVE  /\ Compacted(stamps, keys, gen) \subseteq stamps
         /\ \A k \in keys : <<gen[k], k>> \in Compacted(stamps, keys, gen)
         /\ IsFiniteSet(Compacted(stamps, keys, gen))
         /\ Cardinality(Compacted(stamps, keys, gen)) <= MaxOrder
<1> DEFINE rebuilt == {<<gen[k], k>> : k \in keys}
           f == [k \in keys |-> <<gen[k], k>>]
<1>1. IsFiniteSet(rebuilt) /\ Cardinality(rebuilt) <= Cardinality(keys)
  <2>1. f \in Surjection(keys, rebuilt)
    BY DEF Surjection
  <2>2. QED
    BY <2>1, FS_Surjection
<1>2. MaxOrder \in Nat /\ Capacity <= MaxOrder
  BY CapacityAssumption DEF MaxOrder
<1>3. Cardinality(stamps) \in Nat /\ Cardinality(keys) \in Nat /\ Cardinality(rebuilt) \in Nat
  BY <1>1, FS_CardinalityType
<1>4. CASE Cardinality(stamps) > MaxOrder
  <2>1. Compacted(stamps, keys, gen) = rebuilt
    BY <1>4 DEF Compacted
  <2>2. Cardinality(rebuilt) <= MaxOrder
    BY <1>1, <1>2, <1>3, CapacityAssumption
  <2>3. QED
    BY <1>1, <2>1, <2>2
<1>5. CASE ~(Cardinality(stamps) > MaxOrder)
  <2>1. Compacted(stamps, keys, gen) = stamps
    BY <1>5 DEF Compacted
  <2>2. QED
    BY <1>2, <1>3, <1>5, <2>1
<1>6. QED
  BY <1>4, <1>5

\* An empty cache satisfies the inductive invariant.
LEMMA InitCacheInv == Init => CacheInv
<1> SUFFICES ASSUME Init PROVE CacheInv
  OBVIOUS
<1>1. IsFiniteSet({}) /\ Cardinality({}) = 0
  BY FS_EmptySet
<1>2. MaxOrder \in Nat
  BY CapacityAssumption DEF MaxOrder
<1>3. TypeOK
  BY <1>1 DEF Init, TypeOK
<1>4. QueueIsComplete
  BY <1>1, CapacityAssumption DEF Init, QueueIsComplete
<1>5. BudgetKept
  BY <1>1, <1>2, CapacityAssumption DEF Init, BudgetKept
<1>6. QED
  BY <1>3, <1>4, <1>5 DEF CacheInv

\* What the stamp of a use does, whether the key was cached or not.
LEMMA StampFacts ==
  ASSUME CacheInv, NEW k \in Keys
  PROVE  /\ Stamped(k) \in [cached \cup {k} -> Nat]
         /\ Stamped(k)[k] = next
         /\ \A key \in cached \ {k} : Stamped(k)[key] = generation[key]
         /\ order \cup {<<next, k>>} \subseteq Nat \X Keys
         /\ IsFiniteSet(order \cup {<<next, k>>})
         /\ \A s \in order \cup {<<next, k>>} : s[1] < next + 1
         /\ \A s, t \in order \cup {<<next, k>>} : s[1] = t[1] => s = t
         /\ \A key \in cached \cup {k} : <<Stamped(k)[key], key>> \in order \cup {<<next, k>>}
<1>1. Stamped(k) \in [cached \cup {k} -> Nat] /\ Stamped(k)[k] = next
  BY DEF Stamped, CacheInv, TypeOK
<1>2. \A key \in cached \ {k} : Stamped(k)[key] = generation[key]
  BY DEF Stamped
<1>3. order \cup {<<next, k>>} \subseteq Nat \X Keys /\ IsFiniteSet(order \cup {<<next, k>>})
  <2>1. order \subseteq Nat \X Keys /\ IsFiniteSet(order) /\ <<next, k>> \in Nat \X Keys
    BY DEF CacheInv, TypeOK
  <2>2. IsFiniteSet(order \cup {<<next, k>>})
    BY <2>1, FS_AddElement, Zenon
  <2>3. QED
    BY <2>1, <2>2
<1>4. \A s \in order : s[1] \in Nat /\ s[1] < next
  BY DEF CacheInv, TypeOK, QueueIsComplete
<1>5. \A s \in order \cup {<<next, k>>} : s[1] < next + 1
  BY <1>4 DEF CacheInv, TypeOK
<1>6. \A s, t \in order \cup {<<next, k>>} : s[1] = t[1] => s = t
  <2>1. \A s \in order : s[1] # next
    BY <1>4 DEF CacheInv, TypeOK
  <2>2. \A s, t \in order : s[1] = t[1] => s = t
    BY DEF CacheInv, QueueIsComplete
  <2>3. <<next, k>>[1] = next
    OBVIOUS
  <2>4. QED
    BY <2>1, <2>2, <2>3
<1>7. \A key \in cached \cup {k} : <<Stamped(k)[key], key>> \in order \cup {<<next, k>>}
  BY <1>1, <1>2 DEF CacheInv, QueueIsComplete
<1>8. QED
  BY <1>1, <1>2, <1>3, <1>5, <1>6, <1>7

\* A live front is the stamp of the key that was not used for the longest time.
LEMMA FrontIsOldest ==
  ASSUME CacheInv, NEW stamp, Front(stamp), stamp \in Live(order, cached, generation)
  PROVE  /\ stamp[2] \in cached /\ stamp = <<generation[stamp[2]], stamp[2]>>
         /\ \A k \in cached \ {stamp[2]} : generation[stamp[2]] < generation[k]
<1>1. stamp \in order /\ stamp[2] \in cached /\ generation[stamp[2]] = stamp[1]
  BY DEF Live
<1>2. stamp = <<generation[stamp[2]], stamp[2]>>
  BY <1>1 DEF CacheInv, TypeOK
<1>3. ASSUME NEW k \in cached \ {stamp[2]} PROVE generation[stamp[2]] < generation[k]
  <2> DEFINE other == <<generation[k], k>>
  <2>1. other \in order /\ other # stamp
    BY <1>2, <1>3 DEF CacheInv, QueueIsComplete
  <2>2. stamp[1] <= other[1] /\ stamp[1] # other[1]
    BY <1>1, <2>1 DEF Front, CacheInv, QueueIsComplete
  <2>3. stamp[1] \in Nat /\ other[1] \in Nat /\ other[1] = generation[k]
    BY <1>1, <2>1 DEF CacheInv, TypeOK
  <2>4. QED
    BY <1>1, <2>2, <2>3
<1>4. QED
  BY <1>1, <1>2, <1>3

\* Every operation keeps the inductive invariant.
LEMMA NextCacheInv == CacheInv /\ [Next]_vars => CacheInv'
<1> SUFFICES ASSUME CacheInv, [Next]_vars PROVE CacheInv'
  OBVIOUS
<1>0. /\ IsFiniteSet(cached) /\ Cardinality(cached) \in Nat /\ Cardinality(order) \in Nat
      /\ MaxOrder \in Nat /\ Capacity \in Nat
  BY FS_CardinalityType, CapacityAssumption DEF CacheInv, TypeOK, MaxOrder
<1>1. ASSUME NEW k \in Keys, GetHit(k) PROVE CacheInv'
  <2> DEFINE stamps == order \cup {<<next, k>>}
  <2>1. /\ cached \cup {k} = cached /\ cached' = cached /\ generation' = Stamped(k) /\ ~evicting
        /\ order' = Compacted(stamps, cached, Stamped(k)) /\ next' = next + 1 /\ evicting' = evicting
    BY <1>1 DEF GetHit, Use
  <2>2. Cardinality(cached) <= Capacity
    BY <2>1 DEF CacheInv, BudgetKept
  <2>3. /\ order' \subseteq stamps /\ \A key \in cached : <<Stamped(k)[key], key>> \in order'
        /\ IsFiniteSet(order') /\ Cardinality(order') <= MaxOrder
    <3>1. /\ Stamped(k) \in [cached -> Nat] /\ IsFiniteSet(stamps)
          /\ \A key \in cached : <<Stamped(k)[key], key>> \in stamps
      BY <2>1, StampFacts
    <3>2. cached \in SUBSET Keys
      BY DEF CacheInv, TypeOK
    <3> HIDE DEF stamps
    <3> QED
      BY <1>0, <2>1, <2>2, <3>1, <3>2, CompactedFacts
  <2>4. TypeOK'
    <3>1. Stamped(k) \in [cached -> Nat] /\ stamps \subseteq Nat \X Keys
      BY <2>1, StampFacts
    <3> HIDE DEF stamps
    <3>2. QED
      BY <2>1, <2>3, <3>1 DEF CacheInv, TypeOK
  <2>5. QueueIsComplete'
    <3>1. /\ \A s \in stamps : s[1] < next + 1
          /\ \A s, t \in stamps : s[1] = t[1] => s = t
      BY StampFacts
    <3>2. Cardinality(cached) <= Capacity + 1
      BY <1>0, <2>2
    <3> HIDE DEF stamps
    <3>3. QED
      BY <2>1, <2>3, <3>1, <3>2 DEF QueueIsComplete
  <2>6. QED
    BY <2>1, <2>2, <2>3, <2>4, <2>5 DEF CacheInv, BudgetKept
<1>2. ASSUME NEW k \in Keys, GetMiss(k) PROVE CacheInv'
  <2>1. UNCHANGED <<cached, generation, order, evicting>> /\ next' = next + 1
    BY <1>2 DEF GetMiss, Use
  <2>2. \A s \in order : s[1] \in Nat /\ s[1] < next
    BY DEF CacheInv, TypeOK, QueueIsComplete
  <2>3. QED
    BY <2>1, <2>2 DEF CacheInv, TypeOK, QueueIsComplete, BudgetKept
<1>3. ASSUME NEW k \in Keys, Insert(k) PROVE CacheInv'
  <2>1. /\ ~evicting /\ next' = next + 1 /\ cached' = cached \cup {k} /\ generation' = Stamped(k)
        /\ order' = order \cup {<<next, k>>} /\ evicting' = TRUE
    BY <1>3 DEF Insert, Use
  <2>2. IsFiniteSet(cached') /\ Cardinality(cached') <= Capacity + 1
    BY <1>0, <2>1, FS_AddElement DEF CacheInv, BudgetKept
  <2>3. TypeOK'
    <3>1. generation' \in [cached' -> Nat] /\ order' \subseteq Nat \X Keys /\ IsFiniteSet(order')
      BY <2>1, StampFacts
    <3>2. QED
      BY <2>1, <2>2, <3>1 DEF CacheInv, TypeOK
  <2>4. QueueIsComplete'
    BY <2>1, <2>2, StampFacts DEF QueueIsComplete
  <2>5. QED
    BY <2>1, <2>3, <2>4 DEF CacheInv, BudgetKept
<1>4. ASSUME NEW stamp \in order, EvictFront(stamp) PROVE CacheInv'
  <2>1. /\ evicting /\ order' = order \ {stamp} /\ UNCHANGED <<next, evicting>>
        /\ generation' = [k \in cached' |-> generation[k]]
        /\ cached' = IF stamp \in Live(order, cached, generation) THEN cached \ {stamp[2]} ELSE cached
    BY <1>4 DEF EvictFront
  <2>2. /\ cached' \subseteq cached /\ IsFiniteSet(cached') /\ IsFiniteSet(order')
        /\ Cardinality(cached') <= Cardinality(cached)
    BY <1>0, <2>1, FS_Subset, FS_RemoveElement DEF CacheInv, TypeOK
  <2>3. TypeOK'
    BY <2>1, <2>2 DEF CacheInv, TypeOK
  <2>4. ASSUME NEW k \in cached' PROVE <<generation'[k], k>> \in order'
    <3>1. generation'[k] = generation[k] /\ k \in cached /\ <<generation[k], k>> \in order
      BY <2>1, <2>2 DEF CacheInv, QueueIsComplete
    <3>2. stamp = <<generation[k], k>> => stamp \in Live(order, cached, generation) /\ stamp[2] = k
      BY <3>1 DEF Live
    <3>3. QED
      BY <2>1, <3>1, <3>2
  <2>5. Cardinality(cached') <= Capacity + 1
    <3>1. Cardinality(cached') \in Nat /\ Cardinality(cached) <= Capacity + 1
      BY <2>2, FS_CardinalityType DEF CacheInv, QueueIsComplete
    <3>2. QED
      BY <1>0, <2>2, <3>1
  <2>6. QueueIsComplete'
    BY <2>1, <2>4, <2>5 DEF CacheInv, QueueIsComplete
  <2>7. QED
    BY <2>1, <2>3, <2>6 DEF CacheInv, BudgetKept
<1>5. CASE EvictDone
  <2>1. /\ order' = Compacted(order, cached, generation) /\ UNCHANGED <<cached, generation, next>>
        /\ evicting' = FALSE /\ (Cardinality(cached) <= Capacity \/ order = {})
    BY <1>5 DEF EvictDone
  <2>2. Cardinality(cached) <= Capacity
    <3>1. order = {} => cached = {}
      BY DEF CacheInv, QueueIsComplete
    <3>2. QED
      BY <1>0, <2>1, <3>1, FS_EmptySet
  <2>3. /\ order' \subseteq order /\ \A key \in cached : <<generation[key], key>> \in order'
        /\ IsFiniteSet(order') /\ Cardinality(order') <= MaxOrder
    <3>1. /\ generation \in [cached -> Nat] /\ cached \in SUBSET Keys /\ IsFiniteSet(order)
          /\ \A k \in cached : <<generation[k], k>> \in order
      BY DEF CacheInv, TypeOK, QueueIsComplete
    <3>2. QED
      BY <1>0, <2>1, <2>2, <3>1, CompactedFacts
  <2>4. TypeOK' /\ QueueIsComplete'
    BY <2>1, <2>3 DEF CacheInv, TypeOK, QueueIsComplete
  <2>5. QED
    BY <2>1, <2>2, <2>3, <2>4 DEF CacheInv, BudgetKept
<1>6. CASE Clear
  <2>1. /\ cached' = {} /\ generation' = [k \in {} |-> 0] /\ order' = {}
        /\ UNCHANGED <<next, evicting>>
    BY <1>6 DEF Clear
  <2>2. IsFiniteSet({}) /\ Cardinality({}) = 0
    BY FS_EmptySet
  <2>3. TypeOK'
    BY <2>1, <2>2 DEF CacheInv, TypeOK
  <2>4. QueueIsComplete' /\ BudgetKept'
    BY <1>0, <2>1, <2>2 DEF QueueIsComplete, BudgetKept, MaxOrder
  <2>5. QED
    BY <2>3, <2>4 DEF CacheInv
<1>7. CASE UNCHANGED vars
  BY <1>7 DEF vars, CacheInv, TypeOK, QueueIsComplete, BudgetKept
<1>8. QED
  BY <1>1, <1>2, <1>3, <1>4, <1>5, <1>6, <1>7 DEF Next

\* The inductive invariant holds in every state of the cache.
THEOREM CacheInvariance == Spec => []CacheInv
  BY InitCacheInv, NextCacheInv, PTL DEF Spec

\* The values, generations and queue of a cache stay of the types the code gives them.
THEOREM CacheTypes == Spec => []TypeOK
  BY CacheInvariance, PTL DEF CacheInv

-----------------------------------------------------------------------------
(* The refinement: to its caller the cache is LruCache. *)

\* The abstract cache counts keys as this one does.
LEMMA SameCardinality == \A S : Lru!Cardinality(S) = Cardinality(S)
  BY DEF Cardinality, Lru!Cardinality

\* Generations tell cached keys apart and were all taken before.
LEMMA GenerationFacts ==
  ASSUME CacheInv
  PROVE  /\ \A k \in cached : generation[k] \in Nat /\ generation[k] < next
         /\ \A j, k \in cached : generation[j] = generation[k] => j = k
<1>1. ASSUME NEW k \in cached PROVE generation[k] \in Nat /\ generation[k] < next
  <2>1. <<generation[k], k>> \in order /\ <<generation[k], k>>[1] = generation[k]
    BY DEF CacheInv, QueueIsComplete
  <2>2. QED
    BY <2>1 DEF CacheInv, TypeOK, QueueIsComplete
<1>2. ASSUME NEW j \in cached, NEW k \in cached, generation[j] = generation[k] PROVE j = k
  <2> DEFINE s == <<generation[j], j>>  t == <<generation[k], k>>
  <2>1. s \in order /\ t \in order /\ s[1] = t[1]
    BY <1>2 DEF CacheInv, QueueIsComplete
  <2>2. s = t
    BY <2>1 DEF CacheInv, QueueIsComplete
  <2>3. QED
    BY <2>2
<1>3. QED
  BY <1>1, <1>2

\* One of the cached keys was not used for the longest time.
LEMMA OldestExists ==
  ASSUME CacheInv, cached # {}
  PROVE  \E v \in cached : \A k \in cached \ {v} : generation[v] < generation[k]
<1> DEFINE taken == {generation[k] : k \in cached}
<1>1. taken \in SUBSET Nat /\ taken # {}
  BY GenerationFacts
<1>2. \E n \in taken : \A m \in taken : n <= m
  <2> HIDE DEF taken
  <2> QED
    BY <1>1, LeastNatural
<1>3. PICK v \in cached : \A k \in cached : generation[v] <= generation[k]
  BY <1>2
<1>4. ASSUME NEW k \in cached \ {v} PROVE generation[v] < generation[k]
  BY <1>3, <1>4, GenerationFacts
<1>5. QED
  BY <1>4

\* Over capacity, the key that goes is not offered any more; nothing else changes.
LEMMA KeptOver ==
  ASSUME NEW keys, NEW gen, \A k \in keys : gen[k] \in Nat,
         NEW v \in keys, \A k \in keys \ {v} : gen[v] < gen[k]
  PROVE  {k \in keys : \E other \in keys : gen[other] < gen[k]} = keys \ {v}
<1>1. ASSUME NEW other \in keys PROVE ~(gen[other] < gen[v])
  BY <1>1
<1>2. QED
  BY <1>1

\* After a use of k the order of use is what LruCache says: k is the most recent key.
LEMMA RecencyAfterUse ==
  ASSUME CacheInv, ~evicting, NEW k \in Keys, NEW keys \in SUBSET (cached \cup {k}), k \in keys,
         generation' = Stamped(k), Kept' = keys
  PROVE  Recency' = Lru!Used(k, keys \ {k})
<1>1. Kept = cached
  BY FS_CardinalityType, CapacityAssumption DEF Kept, CacheInv, TypeOK, BudgetKept
<1>2. Recency' = {pair \in keys \X keys : Stamped(k)[pair[1]] < Stamped(k)[pair[2]]}
  BY DEF Recency
<1>3. Lru!Used(k, keys \ {k}) =
         {pair \in Recency : /\ k \notin {pair[1], pair[2]}
                             /\ pair[1] \in keys \ {k} /\ pair[2] \in keys \ {k}}
         \cup {<<a, k>> : a \in keys \ {k}}
  BY DEF Lru!Used
<1>4. Recency = {pair \in cached \X cached : generation[pair[1]] < generation[pair[2]]}
  BY <1>1 DEF Recency
<1>5. /\ Stamped(k)[k] = next
      /\ \A a \in keys \ {k} : /\ a \in cached /\ Stamped(k)[a] = generation[a]
                               /\ generation[a] \in Nat /\ generation[a] < next
  BY StampFacts, GenerationFacts
<1>6. next \in Nat
  BY DEF CacheInv, TypeOK
<1>7. ASSUME NEW pair \in Recency' PROVE pair \in Lru!Used(k, keys \ {k})
  <2>1. pair \in keys \X keys /\ Stamped(k)[pair[1]] < Stamped(k)[pair[2]]
    BY <1>2, <1>7
  <2>2. pair[1] \in keys /\ pair[2] \in keys /\ pair = <<pair[1], pair[2]>>
    BY <2>1
  <2>3. pair[1] # k
    BY <1>5, <1>6, <2>1, <2>2
  <2>4. CASE pair[2] = k
    BY <1>3, <2>2, <2>3, <2>4
  <2>5. CASE pair[2] # k
    <3>1. /\ pair[1] \in cached /\ pair[2] \in cached
          /\ generation[pair[1]] < generation[pair[2]]
      BY <1>5, <2>1, <2>2, <2>3, <2>5
    <3>2. pair \in Recency
      BY <1>4, <2>2, <3>1
    <3>3. QED
      BY <1>3, <2>2, <2>3, <2>5, <3>2
  <2>6. QED
    BY <2>4, <2>5
<1>8. ASSUME NEW pair \in Lru!Used(k, keys \ {k}) PROVE pair \in Recency'
  <2>1. CASE pair \in {<<a, k>> : a \in keys \ {k}}
    BY <1>2, <1>5, <2>1
  <2>2. CASE /\ pair \in Recency /\ pair[1] \in keys \ {k} /\ pair[2] \in keys \ {k}
    <3>1. pair \in cached \X cached /\ generation[pair[1]] < generation[pair[2]]
      BY <1>4, <2>2
    <3>2. pair \in keys \X keys
      BY <2>2, <3>1
    <3>3. Stamped(k)[pair[1]] < Stamped(k)[pair[2]]
      BY <1>5, <2>2, <3>1
    <3>4. QED
      BY <1>2, <3>2, <3>3
  <2>3. QED
    BY <1>3, <1>8, <2>1, <2>2
<1>9. QED
  BY <1>7, <1>8

\* LruCache forgets the place of k itself whether or not k was among the keys.
LEMMA UsedSame == \A k, keys : Lru!Used(k, keys) = Lru!Used(k, keys \ {k})
<1> SUFFICES ASSUME NEW k, NEW keys PROVE Lru!Used(k, keys) = Lru!Used(k, keys \ {k})
  OBVIOUS
<1>1. (keys \ {k}) \ {k} = keys \ {k}
  OBVIOUS
<1>2. \A pair : /\ k \notin {pair[1], pair[2]} /\ pair[1] \in keys /\ pair[2] \in keys
                <=> /\ k \notin {pair[1], pair[2]}
                    /\ pair[1] \in keys \ {k} /\ pair[2] \in keys \ {k}
  OBVIOUS
<1>3. QED
  BY <1>1, <1>2 DEF Lru!Used

\* An empty cache is an empty least-recently-used cache.
LEMMA LruInit == Init => Lru!Init
<1> SUFFICES ASSUME Init PROVE Lru!Init
  OBVIOUS
<1>1. Kept = {}
  BY DEF Init, Kept
<1>2. Recency = {}
  BY <1>1 DEF Recency
<1>3. QED
  BY <1>1, <1>2 DEF Lru!Init

\* A hit, and an insert that needs no room, put the key last in the order of use.
LEMMA LruWithinCapacity ==
  ASSUME CacheInv, ~evicting, NEW k \in Keys, generation' = Stamped(k),
         cached' = cached \cup {k}, Cardinality(cached') <= Capacity
  PROVE  /\ Kept = cached /\ Kept' = cached \cup {k}
         /\ Recency' = Lru!Used(k, cached)
<1>1. IsFiniteSet(cached) /\ IsFiniteSet(cached')
  BY FS_AddElement DEF CacheInv, TypeOK
<1>2. Cardinality(cached) \in Nat /\ Cardinality(cached') \in Nat
  BY <1>1, FS_CardinalityType
<1>3. Kept = cached
  BY <1>2, CapacityAssumption DEF Kept, CacheInv, BudgetKept
<1>4. Kept' = cached \cup {k}
  BY <1>2, CapacityAssumption DEF Kept
<1>5. Recency' = Lru!Used(k, (cached \cup {k}) \ {k})
  BY <1>4, RecencyAfterUse
<1>6. (cached \cup {k}) \ {k} = cached \ {k}
  OBVIOUS
<1>7. QED
  BY <1>3, <1>4, <1>5, <1>6, UsedSame

\* An insert into a full cache gives up the key that was not used for the longest time.
LEMMA LruOverCapacity ==
  ASSUME CacheInv, NEW k \in Keys, Insert(k), k \notin cached, Cardinality(cached) = Capacity
  PROVE  \E victim \in Keys : Lru!InsertEvicting(k, victim)
<1>1. /\ ~evicting /\ Capacity > 0 /\ cached' = cached \cup {k} /\ generation' = Stamped(k)
      /\ IsFiniteSet(cached) /\ cached \subseteq Keys
  BY DEF Insert, Use, CacheInv, TypeOK
<1>2. cached # {}
  BY <1>1, FS_EmptySet
<1>3. PICK v \in cached : \A a \in cached \ {v} : generation[v] < generation[a]
  BY <1>2, OldestExists
<1>4. v # k /\ v \in Keys
  BY <1>1
<1>5. Cardinality(cached') = Capacity + 1
  BY <1>1, FS_AddElement
<1>6. Kept = cached /\ Lru!Cardinality(Kept) = Capacity
  BY CapacityAssumption, SameCardinality DEF Kept
<1>7. Kept' = cached' \ {v}
  <2>1. Kept' = {a \in cached' : \E other \in cached' : generation'[other] < generation'[a]}
    BY <1>5, CapacityAssumption DEF Kept
  <2>2. /\ \A a \in cached' : generation'[a] \in Nat
        /\ \A a \in cached' \ {v} : generation'[v] < generation'[a]
    <3>1. /\ generation'[k] = next
          /\ \A a \in cached \ {k} : generation'[a] = generation[a]
      BY <1>1, StampFacts
    <3>2. next \in Nat
      BY DEF CacheInv, TypeOK
    <3>3. QED
      BY <1>1, <1>3, <1>4, <3>1, <3>2, GenerationFacts
  <2>3. v \in cached'
    BY <1>1
  <2>4. QED
    BY <2>1, <2>2, <2>3, KeptOver
<1>8. Recency' = Lru!Used(k, Kept \ {v})
  <2> DEFINE keys == cached' \ {v}
  <2>1. keys \in SUBSET (cached \cup {k}) /\ k \in keys
    BY <1>1, <1>4
  <2>2. Recency' = Lru!Used(k, keys \ {k})
    <3> HIDE DEF keys
    <3> QED
      BY <1>1, <1>7, <2>1, RecencyAfterUse DEF keys
  <2>3. keys \ {k} = Kept \ {v}
    BY <1>1, <1>6
  <2>4. QED
    BY <2>2, <2>3
<1>9. Lru!Oldest(v)
  <2>1. \A a \in Kept \ {v} : <<v, a>> \in Recency
    BY <1>3, <1>6 DEF Recency
  <2>2. QED
    BY <2>1 DEF Lru!Oldest
<1>10. Kept' = (Kept \ {v}) \cup {k}
  BY <1>1, <1>4, <1>6, <1>7
<1>11. Lru!InsertEvicting(k, v)
  BY <1>6, <1>8, <1>9, <1>10 DEF Lru!InsertEvicting
<1>12. QED
  BY <1>4, <1>11

\* Evicting the key of a live front changes nothing for the caller.
LEMMA LruEvict ==
  ASSUME CacheInv, NEW stamp, EvictFront(stamp)
  PROVE  Kept' = Kept /\ Recency' = Recency
<1>0. IsFiniteSet(cached) /\ Cardinality(cached) \in Nat /\ Capacity \in Nat
  BY FS_CardinalityType, CapacityAssumption DEF CacheInv, TypeOK
<1>1. /\ Cardinality(cached) > Capacity /\ Cardinality(cached) <= Capacity + 1
      /\ cached' = IF stamp \in Live(order, cached, generation) THEN cached \ {stamp[2]} ELSE cached
      /\ generation' = [k \in cached' |-> generation[k]] /\ Front(stamp)
  BY DEF EvictFront, CacheInv, QueueIsComplete
<1>2. cached' \subseteq cached /\ \A k \in cached' : generation'[k] = generation[k]
  BY <1>1
<1>3. Kept' = Kept
  <2>1. CASE stamp \in Live(order, cached, generation)
    <3> DEFINE v == stamp[2]
    <3>1. v \in cached /\ \A k \in cached \ {v} : generation[v] < generation[k]
      BY <1>1, <2>1, FrontIsOldest
    <3>2. cached' = cached \ {v} /\ Cardinality(cached') = Capacity
      <4>1. cached' = cached \ {v}
        BY <1>1, <2>1
      <4>2. Cardinality(cached \ {v}) = Cardinality(cached) - 1
        BY <1>0, <3>1, FS_RemoveElement
      <4>3. Cardinality(cached) - 1 = Capacity
        BY <1>0, <1>1
      <4>4. QED
        BY <4>1, <4>2, <4>3
    <3>3. Kept' = cached'
      BY <1>0, <3>2 DEF Kept
    <3>4. Kept = cached \ {v}
      <4>1. Kept = {k \in cached : \E other \in cached : generation[other] < generation[k]}
        BY <1>1 DEF Kept
      <4>2. \A k \in cached : generation[k] \in Nat
        BY GenerationFacts
      <4> HIDE DEF v
      <4>3. QED
        BY <3>1, <4>1, <4>2, KeptOver
    <3>5. QED
      BY <3>2, <3>3, <3>4
  <2>2. CASE stamp \notin Live(order, cached, generation)
    <3>1. cached' = cached /\ generation' = generation
      BY <1>1, <2>2 DEF CacheInv, TypeOK
    <3>2. QED
      BY <3>1 DEF Kept
  <2>3. QED
    BY <2>1, <2>2
<1>4. \A k \in Kept : generation'[k] = generation[k]
  <2>1. Kept' \subseteq cached'
    BY DEF Kept
  <2>2. QED
    BY <1>2, <1>3, <2>1
<1>5. QED
  BY <1>3, <1>4 DEF Recency

\* Every step of the cache is a step of LruCache, or none to its caller.
LEMMA LruStep == CacheInv /\ [Next]_vars => [Lru!Next]_(Lru!vars)
<1> SUFFICES ASSUME CacheInv, [Next]_vars PROVE Lru!Next \/ UNCHANGED <<Kept, Recency>>
  BY DEF Lru!vars
<1>0. IsFiniteSet(cached) /\ Cardinality(cached) \in Nat /\ Capacity \in Nat
  BY FS_CardinalityType, CapacityAssumption DEF CacheInv, TypeOK
<1>1. ASSUME NEW k \in Keys, GetHit(k) PROVE Lru!Next
  <2>1. /\ ~evicting /\ k \in cached /\ cached' = cached \cup {k} /\ cached' = cached
        /\ generation' = Stamped(k)
    BY <1>1 DEF GetHit, Use
  <2>2. Cardinality(cached') <= Capacity
    BY <2>1 DEF CacheInv, BudgetKept
  <2>3. Kept = cached /\ Kept' = cached /\ Recency' = Lru!Used(k, cached)
    BY <2>1, <2>2, LruWithinCapacity
  <2>4. Lru!Hit(k)
    BY <2>1, <2>3 DEF Lru!Hit
  <2>5. QED
    BY <2>4 DEF Lru!Next
<1>2. ASSUME NEW k \in Keys, Insert(k) PROVE Lru!Next
  <2>1. ~evicting /\ cached' = cached \cup {k} /\ generation' = Stamped(k)
    BY <1>2 DEF Insert, Use
  <2>2. CASE k \notin cached /\ Cardinality(cached) = Capacity
    BY <1>2, <2>2, LruOverCapacity DEF Lru!Next
  <2>3. CASE k \in cached \/ Cardinality(cached) # Capacity
    <3>1. Cardinality(cached) <= Capacity
      BY <2>1 DEF CacheInv, BudgetKept
    <3>2. Cardinality(cached') <= Capacity
      <4>1. Cardinality(cached \cup {k}) = IF k \in cached THEN Cardinality(cached) ELSE Cardinality(cached) + 1
        BY <1>0, FS_AddElement
      <4>2. QED
        BY <1>0, <2>1, <2>3, <3>1, <4>1
    <3>3. Kept = cached /\ Kept' = cached \cup {k} /\ Recency' = Lru!Used(k, cached)
      BY <2>1, <3>2, LruWithinCapacity
    <3>4. k \in Kept \/ Lru!Cardinality(Kept) < Capacity
      BY <1>0, <2>3, <3>1, <3>3, SameCardinality
    <3>5. Lru!Insert(k)
      BY <3>3, <3>4 DEF Lru!Insert
    <3>6. QED
      BY <3>5 DEF Lru!Next
  <2>4. QED
    BY <2>2, <2>3
<1>3. CASE Clear
  <2>1. Kept' = {}
    BY <1>3 DEF Clear, Kept
  <2>2. Recency' = {}
    BY <2>1 DEF Recency
  <2>3. QED
    BY <2>1, <2>2 DEF Lru!Next, Lru!Clear
<1>4. ASSUME (\E k \in Keys : GetMiss(k)) \/ EvictDone \/ UNCHANGED vars
      PROVE  UNCHANGED <<Kept, Recency>>
  <2>1. UNCHANGED <<cached, generation>>
    BY <1>4 DEF GetMiss, EvictDone, vars
  <2>2. QED
    BY <2>1 DEF Kept, Recency
<1>5. ASSUME NEW stamp \in order, EvictFront(stamp) PROVE UNCHANGED <<Kept, Recency>>
  BY <1>5, LruEvict
<1>6. QED
  BY <1>1, <1>2, <1>3, <1>4, <1>5 DEF Next

\* To its caller a cache is the least recently used cache: what it gives up is the key
\* that was neither found nor inserted for the longest time, for every capacity and
\* whatever stale stamps the queue holds.
THEOREM Refinement == Spec => ImplementsLru
  BY LruInit, LruStep, CacheInvariance, PTL DEF Spec, ImplementsLru, Lru!Spec
-----------------------------------------------------------------------------
(* Orders on finite sets. *)

\* B[t] is what comes before t in a strict total order on S.
Ranks(B, S) ==
  /\ B \in [S -> SUBSET S]
  /\ \A t \in S : t \notin B[t]
  /\ \A o, t \in S : o \in B[t] => B[o] \subseteq B[t]
  /\ \A o, t \in S : o = t \/ o \in B[t] \/ t \in B[o]

\* What comes before a member of a finite set is fewer than its members, and fewer
\* than what comes before any later member.
LEMMA RankGrows ==
  ASSUME NEW S, IsFiniteSet(S), NEW B, Ranks(B, S)
  PROVE  /\ \A t \in S : /\ IsFiniteSet(B[t]) /\ Cardinality(B[t]) \in Nat
                         /\ Cardinality(B[t]) < Cardinality(S)
         /\ \A o, t \in S : o \in B[t] => Cardinality(B[o]) < Cardinality(B[t])
<1>1. ASSUME NEW t \in S
      PROVE  B[t] \subseteq S /\ IsFiniteSet(B[t]) /\ Cardinality(B[t]) \in Nat /\ Cardinality(S) \in Nat
  <2>1. B[t] \subseteq S
    BY DEF Ranks
  <2>2. QED
    BY <2>1, FS_Subset, FS_CardinalityType
<1>2. ASSUME NEW o \in S, NEW T, IsFiniteSet(T), B[o] \subseteq T, o \in T
      PROVE  Cardinality(B[o]) < Cardinality(T)
  <2>1. o \notin B[o]
    BY DEF Ranks
  <2>2. B[o] \subseteq T \ {o} /\ IsFiniteSet(T \ {o}) /\ Cardinality(T \ {o}) = Cardinality(T) - 1
    BY <1>2, <2>1, FS_RemoveElement
  <2>3. Cardinality(B[o]) <= Cardinality(T \ {o})
    BY <2>2, FS_Subset
  <2>4. Cardinality(T) \in Nat /\ Cardinality(B[o]) \in Nat
    BY <1>1, <1>2, FS_CardinalityType
  <2>5. QED
    BY <2>2, <2>3, <2>4
<1>3. \A t \in S : Cardinality(B[t]) < Cardinality(S)
  BY <1>1, <1>2
<1>4. ASSUME NEW o \in S, NEW t \in S, o \in B[t] PROVE Cardinality(B[o]) < Cardinality(B[t])
  <2>1. B[o] \subseteq B[t]
    BY <1>4 DEF Ranks
  <2>2. QED
    BY <1>1, <1>2, <1>4, <2>1
<1>5. QED
  BY <1>1, <1>3, <1>4

\* The members with fewer than n before them are at most n.
LEMMA FirstOnesFit ==
  ASSUME NEW S, IsFiniteSet(S), NEW B, Ranks(B, S), NEW n \in Nat
  PROVE  LET F == {t \in S : Cardinality(B[t]) < n} IN
         IsFiniteSet(F) /\ Cardinality(F) <= n
<1> DEFINE F == {t \in S : Cardinality(B[t]) < n}
           R == {n - Cardinality(B[t]) : t \in F}
<1>1. IsFiniteSet(F)
  BY FS_Subset
<1>2. \A t \in S : Cardinality(B[t]) \in Nat /\ IsFiniteSet(B[t])
  BY RankGrows
<1>3. CASE F = {}
  BY <1>1, <1>3, FS_EmptySet
<1>4. CASE F # {}
  <2>1. R \in SUBSET Nat /\ R # {}
    BY <1>2, <1>4
  <2>2. PICK r \in R : \A q \in R : r <= q
    BY <2>1, LeastNatural
  <2>3. PICK m \in F : r = n - Cardinality(B[m])
    BY <2>2
  <2>4. \A o \in F : Cardinality(B[o]) <= Cardinality(B[m])
    <3> SUFFICES ASSUME NEW o \in F PROVE Cardinality(B[o]) <= Cardinality(B[m])
      OBVIOUS
    <3>1. n - Cardinality(B[o]) \in R
      OBVIOUS
    <3>2. r <= n - Cardinality(B[o])
      BY <2>2, <3>1
    <3>3. QED
      BY <1>2, <2>3, <3>2
  <2>5. F \subseteq B[m] \cup {m}
    <3> SUFFICES ASSUME NEW o \in F, o # m PROVE o \in B[m]
      OBVIOUS
    <3>1. o \in B[m] \/ m \in B[o]
      BY DEF Ranks
    <3>2. m \in B[o] => Cardinality(B[m]) < Cardinality(B[o])
      BY RankGrows
    <3>3. QED
      BY <1>2, <2>4, <3>1, <3>2
  <2>6. m \notin B[m] /\ m \in S
    BY DEF Ranks
  <2>7. IsFiniteSet(B[m] \cup {m}) /\ Cardinality(B[m] \cup {m}) = Cardinality(B[m]) + 1
    BY <1>2, <2>6, FS_AddElement
  <2>8. Cardinality(F) <= Cardinality(B[m]) + 1
    BY <2>5, <2>7, FS_Subset
  <2>9. Cardinality(F) \in Nat /\ Cardinality(B[m]) \in Nat /\ Cardinality(B[m]) < n
    BY <1>1, <1>2, FS_CardinalityType
  <2>10. QED
    BY <1>1, <2>8, <2>9
<1>5. QED
  BY <1>3, <1>4

-----------------------------------------------------------------------------
(* The limits of the previews. *)

PreviewPolicies == [prefetch : 0..MaxPrefetch, cancel : BOOLEAN]

\* One task per key and per token.
Distinct(tasks) == \A t, o \in tasks : t.key = o.key \/ t.token = o.token => t = o

\* A limit is a number, and no background preview is in flight.
LEMMA LimitType ==
  ASSUME NEW pol \in PreviewPolicies, NEW p \in Priorities
  PROVE  limit(p, pol) \in Nat
<1>1. pol.prefetch \in Nat
  BY PolicyAssumption DEF PreviewPolicies
<1>2. QED
  BY <1>1, PolicyAssumption DEF limit, Priorities

\* The policy under pressure asks for no more than the base policy.
LEMMA AdaptedType ==
  ASSUME NEW pressure \in Pressures
  PROVE  adapted_for_pressure(pressure) \in PreviewPolicies
<1>1. MaxPrefetch \in Nat /\ MaxPrefetch \div 2 \in 0..MaxPrefetch
  BY PolicyAssumption
<1>2. QED
  BY <1>1, PolicyAssumption DEF adapted_for_pressure, PreviewPolicies, Pressures

\* What reconcile_inflight_limits_preserving keeps is within the limits.
LEMMA ReconciledFits ==
  ASSUME NEW tasks, IsFiniteSet(tasks), Distinct(tasks), \A t \in tasks : t.token \in Nat,
         NEW wanted, NEW pol \in PreviewPolicies
  PROVE  /\ Reconciled(tasks, wanted, pol) \subseteq tasks
         /\ \A p \in Priorities :
              Cardinality({t \in Reconciled(tasks, wanted, pol) : t.priority = p}) <= limit(p, pol)
<1> DEFINE Before(a, b) ==
             \/ a.key \in wanted /\ b.key \notin wanted
             \/ (a.key \in wanted <=> b.key \in wanted) /\ a.token < b.token
           Rec == Reconciled(tasks, wanted, pol)
<1>1. Rec = {t \in tasks :
               Cardinality({o \in tasks : o.priority = t.priority /\ Before(o, t)}) < limit(t.priority, pol)}
  BY DEF Reconciled, Limited
<1>2. ASSUME NEW p \in Priorities
      PROVE  Cardinality({t \in Rec : t.priority = p}) <= limit(p, pol)
  <2> DEFINE S == {t \in tasks : t.priority = p}
             B == [t \in S |-> {o \in S : Before(o, t)}]
  <2>1. IsFiniteSet(S) /\ limit(p, pol) \in Nat
    BY FS_Subset, LimitType
  <2>2. Ranks(B, S)
    BY DEF Ranks, Distinct
  <2>3. \A t \in S : {o \in tasks : o.priority = t.priority /\ Before(o, t)} = B[t]
    OBVIOUS
  <2>4. {t \in Rec : t.priority = p} = {t \in S : Cardinality(B[t]) < limit(p, pol)}
    <3> HIDE DEF B, Before, Rec
    <3>1. ASSUME NEW t \in tasks, t.priority = p
          PROVE  t \in Rec <=> Cardinality(B[t]) < limit(p, pol)
      BY <1>1, <2>3, <3>1
    <3>2. Rec \subseteq tasks
      BY <1>1
    <3>3. QED
      BY <3>1, <3>2
  <2> HIDE DEF B, S, Rec
  <2>5. QED
    BY <2>1, <2>2, <2>4, FirstOnesFit
<1>3. QED
  BY <1>1, <1>2

\* So is what apply_limits admits.
LEMMA AdmittedFits ==
  ASSUME NEW desired, IsFiniteSet(desired), \A i \in desired : i.key \in Nat,
         \A i, o \in desired : i.key = o.key => i = o, NEW pol \in PreviewPolicies
  PROVE  /\ apply_limits(desired, pol) \subseteq desired
         /\ \A p \in Priorities :
              Cardinality({i \in apply_limits(desired, pol) : i.priority = p}) <= limit(p, pol)
<1> DEFINE Rec == apply_limits(desired, pol)
<1>1. Rec = {i \in desired :
               Cardinality({o \in desired : o.priority = i.priority /\ o.key < i.key}) < limit(i.priority, pol)}
  BY DEF apply_limits, Limited
<1>2. ASSUME NEW p \in Priorities
      PROVE  Cardinality({i \in Rec : i.priority = p}) <= limit(p, pol)
  <2> DEFINE S == {i \in desired : i.priority = p}
             B == [i \in S |-> {o \in S : o.key < i.key}]
  <2>1. IsFiniteSet(S) /\ limit(p, pol) \in Nat
    BY FS_Subset, LimitType
  <2>2. Ranks(B, S)
    BY DEF Ranks
  <2>3. \A i \in S : {o \in desired : o.priority = i.priority /\ o.key < i.key} = B[i]
    OBVIOUS
  <2>4. {i \in Rec : i.priority = p} = {i \in S : Cardinality(B[i]) < limit(p, pol)}
    <3> HIDE DEF B, Rec
    <3>1. ASSUME NEW i \in desired, i.priority = p
          PROVE  i \in Rec <=> Cardinality(B[i]) < limit(p, pol)
      BY <1>1, <2>3, <3>1
    <3>2. Rec \subseteq desired
      BY <1>1
    <3>3. QED
      BY <3>1, <3>2
  <2> HIDE DEF B, S, Rec
  <2>5. QED
    BY <2>1, <2>2, <2>4, FirstOnesFit
<1>3. QED
  BY <1>1, <1>2

-----------------------------------------------------------------------------
(* One call of the preview scheduler. *)

Requests == [key : Items, priority : Priorities, generation : 1..MaxGenerations]
Tasks(n) == [key : Items, priority : Priorities, generation : 1..MaxGenerations, token : 1..n]

\* Requests or tasks with at most one for each item.
OnePerKey(S) == \A i, o \in S : i.key = o.key => i = o

\* One for each item is finitely many.
LEMMA OnePerKeyFinite ==
  ASSUME NEW S, OnePerKey(S), \A i \in S : i.key \in Items
  PROVE  IsFiniteSet(S)
<1> DEFINE f == [i \in S |-> i.key]
<1>1. f \in Injection(S, Items)
  BY DEF Injection, IsInjective, OnePerKey
<1>2. QED
  BY <1>1, FS_Injection, PolicyAssumption

\* The tasks that are started have tokens of their own, all new.
LEMMA StartedFacts ==
  ASSUME NEW items \in SUBSET Requests, OnePerKey(items), sequence \in Nat
  PROVE  /\ Cardinality(items) \in Nat
         /\ Started(items) \subseteq Tasks(sequence + Cardinality(items))
         /\ Distinct(Started(items))
         /\ \A t \in Started(items) :
              /\ t.token > sequence
              /\ \E i \in items : t.key = i.key /\ t.priority = i.priority /\ t.generation = i.generation
         /\ \A i \in items : \E t \in Started(items) :
              t.key = i.key /\ t.priority = i.priority /\ t.generation = i.generation
<1> DEFINE B == [i \in items |-> {o \in items : Earlier(o, i)}]
           token(i) == sequence + 1 + Cardinality(B[i])
           task(i) == [key |-> i.key, priority |-> i.priority, generation |-> i.generation,
                       token |-> token(i)]
<1>1. IsFiniteSet(items) /\ Cardinality(items) \in Nat
  BY OnePerKeyFinite, FS_CardinalityType DEF Requests
<1>2. \A i \in items : /\ i.key \in Items /\ i.key \in Nat /\ i.priority \in Priorities
                       /\ i.generation \in 1..MaxGenerations
  BY PolicyAssumption DEF Requests
<1>3. /\ score["Visible"] = 0 /\ score["Prefetch"] = 1 /\ score["Background"] = 2
  BY DEF score
<1>4. Ranks(B, items)
  <2>1. \A o, i \in items : o = i \/ Earlier(o, i) \/ Earlier(i, o)
    BY <1>2, <1>3 DEF Earlier, Priorities, OnePerKey
  <2>2. \A i \in items : ~Earlier(i, i)
    BY <1>2, <1>3 DEF Earlier, Priorities
  <2>3. \A i, j, k \in items : Earlier(i, j) /\ Earlier(j, k) => Earlier(i, k)
    BY <1>2, <1>3 DEF Earlier, Priorities
  <2>4. QED
    BY <2>1, <2>2, <2>3 DEF Ranks
<1>5. /\ \A i \in items : Cardinality(B[i]) \in Nat /\ Cardinality(B[i]) < Cardinality(items)
      /\ \A o, i \in items : o \in B[i] => Cardinality(B[o]) < Cardinality(B[i])
  <2> HIDE DEF B
  <2> QED
    BY <1>1, <1>4, RankGrows
<1>6. \A i \in items : token(i) \in 1..(sequence + Cardinality(items)) /\ token(i) > sequence
  <2> HIDE DEF B
  <2> QED
    BY <1>1, <1>5
<1>7. \A o, i \in items : token(o) = token(i) => o = i
  <2> SUFFICES ASSUME NEW o \in items, NEW i \in items, o # i PROVE token(o) # token(i)
    OBVIOUS
  <2>1. o \in B[i] \/ i \in B[o]
    BY <1>4 DEF Ranks
  <2> HIDE DEF B
  <2>2. QED
    BY <1>5, <2>1
<1>8. Started(items) = {task(i) : i \in items}
  BY DEF Started
<1> HIDE DEF token
<1>9. Started(items) \subseteq Tasks(sequence + Cardinality(items))
  BY <1>2, <1>6, <1>8 DEF Tasks
<1>10. Distinct(Started(items))
  BY <1>7, <1>8 DEF Distinct, OnePerKey
<1>11. \A i \in items : /\ task(i) \in Started(items) /\ task(i).key = i.key /\ task(i).token = token(i)
                        /\ task(i).priority = i.priority /\ task(i).generation = i.generation
  BY <1>8
<1>12. \A t \in Started(items) : \E i \in items : t = task(i)
  BY <1>8
<1> HIDE DEF task
<1>13. \A t \in Started(items) :
         /\ t.token > sequence
         /\ \E i \in items : t.key = i.key /\ t.priority = i.priority /\ t.generation = i.generation
  BY <1>6, <1>11, <1>12
<1>14. \A i \in items : \E t \in Started(items) :
         t.key = i.key /\ t.priority = i.priority /\ t.generation = i.generation
  BY <1>11
<1>15. QED
  BY <1>1, <1>9, <1>10, <1>13, <1>14

\* The parts of what schedule_mutating reconciles.
Onscreen(tasks, items, pol) ==
  IF pol.cancel THEN {t \in tasks : t.key \in KeysOf(items)} ELSE tasks
Others(tasks, items, pol) == {t \in Onscreen(tasks, items, pol) : t.key \notin KeysOf(items)}
KeptOn(tasks, items, pol) ==
  UNION {{[t EXCEPT !.priority = i.priority] : t \in {t \in Onscreen(tasks, items, pol) : GoesOn(t, i)}} :
           i \in items}
Fresh(tasks, items, pol) == {i \in items : ~\E t \in Onscreen(tasks, items, pol) : GoesOn(t, i)}
Together(tasks, items, pol) ==
  Others(tasks, items, pol) \cup KeptOn(tasks, items, pol) \cup Started(Fresh(tasks, items, pol))

\* A call reconciles these parts.
LEMMA ScheduledParts ==
  ASSUME NEW tasks, NEW items, NEW pol
  PROVE  /\ Scheduled(tasks, items, pol).tasks
              = Reconciled(Together(tasks, items, pol), KeysOf(items), pol)
         /\ Scheduled(tasks, items, pol).started = Cardinality(Fresh(tasks, items, pol))
  BY DEF Scheduled, Together, Others, KeptOn, Fresh, Onscreen, Replaced

\* A task that goes on keeps its token and key, and takes the priority of its item.
LEMMA KeptOnFacts ==
  ASSUME NEW n \in Nat, NEW tasks \in SUBSET Tasks(n), NEW items \in SUBSET Requests, NEW pol
  PROVE  /\ \A u \in KeptOn(tasks, items, pol) : \E t \in Onscreen(tasks, items, pol), i \in items :
              /\ GoesOn(t, i) /\ u \in Tasks(n)
              /\ u.key = t.key /\ u.token = t.token /\ u.generation = t.generation
              /\ u.priority = i.priority
         /\ \A t \in Onscreen(tasks, items, pol), i \in items : GoesOn(t, i) =>
              \E u \in KeptOn(tasks, items, pol) :
                /\ u.key = t.key /\ u.token = t.token /\ u.generation = t.generation
                /\ u.priority = i.priority
<1>1. ASSUME NEW t \in Tasks(n), NEW i \in Requests
      PROVE  LET u == [t EXCEPT !.priority = i.priority] IN
             /\ u \in Tasks(n) /\ u.key = t.key /\ u.token = t.token
             /\ u.generation = t.generation /\ u.priority = i.priority
  BY DEF Tasks, Requests
<1>2. Onscreen(tasks, items, pol) \subseteq Tasks(n)
  BY DEF Onscreen
<1>3. ASSUME NEW u \in KeptOn(tasks, items, pol)
      PROVE  \E t \in Onscreen(tasks, items, pol), i \in items :
               GoesOn(t, i) /\ u = [t EXCEPT !.priority = i.priority]
  BY DEF KeptOn
<1>4. ASSUME NEW t \in Onscreen(tasks, items, pol), NEW i \in items, GoesOn(t, i)
      PROVE  [t EXCEPT !.priority = i.priority] \in KeptOn(tasks, items, pol)
  BY <1>4 DEF KeptOn
<1>5. ASSUME NEW u \in KeptOn(tasks, items, pol)
      PROVE  \E t \in Onscreen(tasks, items, pol), i \in items :
               /\ GoesOn(t, i) /\ u \in Tasks(n)
               /\ u.key = t.key /\ u.token = t.token /\ u.generation = t.generation
               /\ u.priority = i.priority
  <2>1. PICK t \in Onscreen(tasks, items, pol), i \in items :
               GoesOn(t, i) /\ u = [t EXCEPT !.priority = i.priority]
    BY <1>3
  <2>2. /\ u \in Tasks(n) /\ u.key = t.key /\ u.token = t.token
        /\ u.generation = t.generation /\ u.priority = i.priority
    BY <1>1, <1>2, <2>1
  <2>3. QED
    BY <2>1, <2>2
<1>6. ASSUME NEW t \in Onscreen(tasks, items, pol), NEW i \in items, GoesOn(t, i)
      PROVE  \E u \in KeptOn(tasks, items, pol) :
                /\ u.key = t.key /\ u.token = t.token /\ u.generation = t.generation
                /\ u.priority = i.priority
  BY <1>1, <1>2, <1>4, <1>6
<1>7. QED
  BY <1>5, <1>6

\* Where a task comes from: one that was there, of a key that is not desired; one that
\* was there and goes on; or a new one.
Origin(u, tasks, items, pol) ==
  \/ u \in tasks /\ u.key \notin KeysOf(items)
  \/ \E t \in Onscreen(tasks, items, pol), i \in items :
       /\ t \in tasks /\ GoesOn(t, i)
       /\ u.key = t.key /\ u.token = t.token /\ u.generation = t.generation
       /\ u.priority = i.priority
  \/ u \in Started(Fresh(tasks, items, pol))

\* Every task of a call has an origin, and they stay apart.
LEMMA TogetherFacts ==
  ASSUME sequence \in Nat, NEW tasks \in SUBSET Tasks(sequence), Distinct(tasks),
         NEW items \in SUBSET Requests, OnePerKey(items), NEW pol
  PROVE  LET all == Together(tasks, items, pol)
             fresh == Fresh(tasks, items, pol)
         IN  /\ Cardinality(fresh) \in Nat
             /\ all \subseteq Tasks(sequence + Cardinality(fresh))
             /\ \A u \in all : Origin(u, tasks, items, pol)
             /\ Distinct(all)
             /\ IsFiniteSet(all)
             /\ \A i \in items : \E u \in all :
                  u.key = i.key /\ u.priority = i.priority /\ u.generation = i.generation
<1> DEFINE all == Together(tasks, items, pol)
           fresh == Fresh(tasks, items, pol)
           on == Onscreen(tasks, items, pol)
           n == sequence + Cardinality(fresh)
<1>1. fresh \in SUBSET Requests /\ OnePerKey(fresh) /\ fresh \subseteq items
  BY DEF Fresh, OnePerKey
<1>2. /\ Cardinality(fresh) \in Nat /\ Started(fresh) \subseteq Tasks(n) /\ Distinct(Started(fresh))
      /\ \A t \in Started(fresh) :
           /\ t.token > sequence
           /\ \E i \in fresh : t.key = i.key /\ t.priority = i.priority /\ t.generation = i.generation
      /\ \A i \in fresh : \E t \in Started(fresh) :
           t.key = i.key /\ t.priority = i.priority /\ t.generation = i.generation
  <2> HIDE DEF fresh
  <2> QED
    BY <1>1, StartedFacts
<1>3. on \subseteq tasks
  BY DEF Onscreen
<1>4. Tasks(sequence) \subseteq Tasks(n)
  BY <1>2 DEF Tasks
<1>5. /\ \A u \in KeptOn(tasks, items, pol) : \E t \in on, i \in items :
           /\ GoesOn(t, i) /\ u \in Tasks(sequence)
           /\ u.key = t.key /\ u.token = t.token /\ u.generation = t.generation
           /\ u.priority = i.priority
      /\ \A t \in on, i \in items : GoesOn(t, i) =>
           \E u \in KeptOn(tasks, items, pol) :
             /\ u.key = t.key /\ u.token = t.token /\ u.generation = t.generation
             /\ u.priority = i.priority
  BY KeptOnFacts
<1>6. Others(tasks, items, pol) \subseteq tasks /\ \A u \in Others(tasks, items, pol) : u.key \notin KeysOf(items)
  BY <1>3 DEF Others
<1>7. all \subseteq Tasks(n)
  BY <1>2, <1>4, <1>5, <1>6 DEF Together
<1>8. \A u \in all : Origin(u, tasks, items, pol)
  BY <1>3, <1>5, <1>6 DEF Together, Origin
<1>9. \A i \in items : i.key \in KeysOf(items)
  BY DEF KeysOf
<1>10. \A t \in tasks : t.token <= sequence /\ t.token \in Nat
  BY DEF Tasks
<1>11. ASSUME NEW u \in all, NEW v \in all, u.key = v.key \/ u.token = v.token
       PROVE  u = v
  <2> DEFINE Other(x) == x \in tasks /\ x.key \notin KeysOf(items)
             Goes(x) == \E t \in on, i \in items :
                          /\ t \in tasks /\ GoesOn(t, i)
                          /\ x.key = t.key /\ x.token = t.token /\ x.generation = t.generation
                          /\ x.priority = i.priority
             New(x) == x \in Started(fresh)
  <2>1. (Other(u) \/ Goes(u) \/ New(u)) /\ (Other(v) \/ Goes(v) \/ New(v))
    BY <1>8 DEF Origin
  <2>2. ASSUME NEW x \in all, NEW y \in all, Other(x), Other(y), x.key = y.key \/ x.token = y.token
        PROVE  x = y
    BY <2>2 DEF Distinct
  <2>3. ASSUME NEW x \in all, NEW y \in all, Other(x), Goes(y)
        PROVE  x.key # y.key /\ x.token # y.token
    BY <1>9, <2>3 DEF Distinct, GoesOn
  <2>4. ASSUME NEW x \in all, NEW y \in all, Goes(x), Goes(y), x.key = y.key \/ x.token = y.token
        PROVE  x = y
    <3>1. PICK t \in tasks, i \in items :
            /\ GoesOn(t, i) /\ x.key = t.key /\ x.token = t.token /\ x.generation = t.generation
            /\ x.priority = i.priority
      BY <2>4
    <3>2. PICK s \in tasks, j \in items :
            /\ GoesOn(s, j) /\ y.key = s.key /\ y.token = s.token /\ y.generation = s.generation
            /\ y.priority = j.priority
      BY <2>4
    <3>3. s = t
      BY <2>4, <3>1, <3>2 DEF Distinct
    <3>4. i = j
      BY <3>1, <3>2, <3>3 DEF GoesOn, OnePerKey
    <3>5. x \in Tasks(n) /\ y \in Tasks(n)
      BY <1>7
    <3>6. QED
      BY <3>1, <3>2, <3>3, <3>4, <3>5 DEF Tasks
  <2>5. ASSUME NEW x \in all, NEW y \in all, New(x), Other(y) \/ Goes(y)
        PROVE  x.key # y.key /\ x.token # y.token
    <3>1. x.token > sequence /\ x.token \in Nat
      BY <1>2, <2>5 DEF Tasks
    <3>2. y.token <= sequence /\ y.token \in Nat
      BY <1>10, <2>5
    <3>3. PICK i \in fresh : x.key = i.key
      BY <1>2, <2>5
    <3>4. i \in items /\ i.key \in KeysOf(items) /\ ~\E t \in on : GoesOn(t, i)
      BY <1>9 DEF Fresh
    <3>5. x.key # y.key
      BY <2>5, <3>3, <3>4 DEF GoesOn, OnePerKey
    <3>6. QED
      BY <3>1, <3>2, <3>5
  <2>6. ASSUME New(u), New(v) PROVE u = v
    BY <1>2, <1>11, <2>6 DEF Distinct
  <2> HIDE DEF Other, Goes, New
  <2>7. QED
    BY <1>11, <2>1, <2>2, <2>3, <2>4, <2>5, <2>6
<1>12. Distinct(all)
  BY <1>11 DEF Distinct
<1>13. IsFiniteSet(all)
  <2>1. OnePerKey(all) /\ \A u \in all : u.key \in Items
    BY <1>7, <1>12 DEF Distinct, OnePerKey, Tasks
  <2>2. QED
    BY <2>1, OnePerKeyFinite
<1>14. ASSUME NEW i \in items
       PROVE  \E u \in all : u.key = i.key /\ u.priority = i.priority /\ u.generation = i.generation
  <2>1. CASE i \in fresh
    BY <1>2, <2>1 DEF Together
  <2>2. CASE i \notin fresh
    <3>1. PICK t \in on : GoesOn(t, i)
      BY <2>2 DEF Fresh
    <3>2. QED
      BY <1>5, <3>1 DEF GoesOn, Together
  <2>3. QED
    BY <2>1, <2>2
<1>15. QED
  BY <1>2, <1>7, <1>8, <1>12, <1>13, <1>14

\* A task of a desired key has the priority of its item.
LEMMA WantedPriority ==
  ASSUME NEW tasks, NEW items \in SUBSET Requests, OnePerKey(items), NEW pol, sequence \in Nat,
         NEW u, Origin(u, tasks, items, pol), NEW j \in items, u.key = j.key
  PROVE  u.priority = j.priority
<1>1. j.key \in KeysOf(items)
  BY DEF KeysOf
<1>2. CASE u \in Started(Fresh(tasks, items, pol))
  <2>1. Fresh(tasks, items, pol) \in SUBSET Requests /\ OnePerKey(Fresh(tasks, items, pol))
    BY DEF Fresh, OnePerKey
  <2>2. PICK i \in Fresh(tasks, items, pol) : u.key = i.key /\ u.priority = i.priority
    BY <1>2, <2>1, StartedFacts
  <2>3. i = j
    BY <2>2 DEF Fresh, OnePerKey
  <2>4. QED
    BY <2>2, <2>3
<1>3. CASE \E t \in Onscreen(tasks, items, pol), i \in items :
             GoesOn(t, i) /\ u.key = t.key /\ u.priority = i.priority
  BY <1>3 DEF GoesOn, OnePerKey
<1>4. QED
  BY <1>1, <1>2, <1>3 DEF Origin

\* One call of the scheduler: what it leaves in flight is within the limits, every task
\* that is not new was there with its key and token, and every item it admits is in
\* flight: what comes before the item's task are tasks of other admitted items.
LEMMA ScheduledFacts ==
  ASSUME sequence \in Nat, NEW tasks \in SUBSET Tasks(sequence), Distinct(tasks),
         NEW items \in SUBSET Requests, OnePerKey(items), NEW pol \in PreviewPolicies,
         \A p \in Priorities : Cardinality({i \in items : i.priority = p}) <= limit(p, pol)
  PROVE  LET result == Scheduled(tasks, items, pol) IN
         /\ result.started \in Nat
         /\ result.tasks \subseteq Tasks(sequence + result.started)
         /\ Distinct(result.tasks)
         /\ \A p \in Priorities :
              Cardinality({t \in result.tasks : t.priority = p}) <= limit(p, pol)
         /\ \A u \in result.tasks : u.token <= sequence =>
              \E o \in tasks : o.key = u.key /\ o.token = u.token
         /\ \A i \in items : \E u \in result.tasks :
              u.key = i.key /\ u.priority = i.priority /\ u.generation = i.generation
<1> DEFINE result == Scheduled(tasks, items, pol)
           all == Together(tasks, items, pol)
           fresh == Fresh(tasks, items, pol)
           wanted == KeysOf(items)
<1>1. result.tasks = Reconciled(all, wanted, pol) /\ result.started = Cardinality(fresh)
  BY ScheduledParts
<1>2. /\ Cardinality(fresh) \in Nat
      /\ all \subseteq Tasks(sequence + Cardinality(fresh))
      /\ \A u \in all : Origin(u, tasks, items, pol)
      /\ Distinct(all) /\ IsFiniteSet(all)
      /\ \A i \in items : \E u \in all :
           u.key = i.key /\ u.priority = i.priority /\ u.generation = i.generation
  BY TogetherFacts
<1>3. \A u \in all : u.token \in Nat /\ u.priority \in Priorities
  BY <1>2 DEF Tasks
<1> HIDE DEF result, all, fresh
<1>4. /\ result.tasks \subseteq all
      /\ \A p \in Priorities : Cardinality({t \in result.tasks : t.priority = p}) <= limit(p, pol)
  BY <1>1, <1>2, <1>3, ReconciledFits
<1>5. Distinct(result.tasks)
  BY <1>2, <1>4 DEF Distinct
<1>6. ASSUME NEW u \in result.tasks, u.token <= sequence
      PROVE  \E o \in tasks : o.key = u.key /\ o.token = u.token
  <2>1. u \in all /\ Origin(u, tasks, items, pol)
    BY <1>2, <1>4
  <2>2. u \notin Started(Fresh(tasks, items, pol))
    <3>1. Fresh(tasks, items, pol) \in SUBSET Requests /\ OnePerKey(Fresh(tasks, items, pol))
      BY DEF Fresh, OnePerKey
    <3>2. \A t \in Started(Fresh(tasks, items, pol)) : t.token > sequence
      BY <3>1, StartedFacts
    <3>3. QED
      BY <1>3, <1>6, <2>1, <3>2
  <2>3. QED
    BY <2>1, <2>2 DEF Origin
<1>7. ASSUME NEW i \in items
      PROVE  \E u \in result.tasks :
               u.key = i.key /\ u.priority = i.priority /\ u.generation = i.generation
  <2>1. PICK u \in all : u.key = i.key /\ u.priority = i.priority /\ u.generation = i.generation
    BY <1>2
  <2> DEFINE p == i.priority
             Q == {o \in all : /\ o.priority = u.priority
                               /\ \/ o.key \in wanted /\ u.key \notin wanted
                                  \/ (o.key \in wanted <=> u.key \in wanted) /\ o.token < u.token}
             W == {o \in all : o.key \in wanted /\ o.priority = p}
             J == {j \in items : j.priority = p}
             f == [o \in W |-> CHOOSE j \in J : j.key = o.key]
  <2>2. p \in Priorities /\ u.key \in wanted
    BY <2>1 DEF Requests, KeysOf
  <2>3. Q \subseteq W \ {u} /\ u \in W
    BY <1>3, <2>1, <2>2
  <2>4. ASSUME NEW o \in W PROVE \E j \in J : j.key = o.key
    <3>1. PICK j \in items : j.key = o.key
      BY DEF KeysOf
    <3>2. o.priority = j.priority
      BY <1>2, <3>1, WantedPriority
    <3>3. QED
      BY <3>1, <3>2
  <2>5. f \in Injection(W, J)
    <3>1. \A o \in W : f[o] \in J /\ f[o].key = o.key
      BY <2>4
    <3>2. f \in [W -> J]
      BY <3>1
    <3> HIDE DEF f
    <3>3. \A o, v \in W : f[o] = f[v] => o = v
      <4>1. \A o, v \in W : f[o] = f[v] => o.key = v.key
        BY <3>1
      <4>2. W \subseteq all
        OBVIOUS
      <4>3. QED
        BY <1>2, <4>1, <4>2 DEF Distinct
    <3>4. QED
      BY <3>2, <3>3 DEF Injection, IsInjective
  <2>6. IsFiniteSet(J) /\ IsFiniteSet(W)
    <3>1. OnePerKey(items) /\ \A j \in items : j.key \in Items
      BY DEF Requests
    <3>2. IsFiniteSet(items)
      BY <3>1, OnePerKeyFinite
    <3>3. QED
      BY <1>2, <3>2, FS_Subset
  <2>7. Cardinality(W) <= Cardinality(J) /\ Cardinality(J) <= limit(p, pol)
    <3> HIDE DEF W, f
    <3>1. Cardinality(W) <= Cardinality(J)
      BY <2>5, <2>6, FS_Injection
    <3>2. QED
      BY <2>2, <3>1
  <2>8. IsFiniteSet(W \ {u}) /\ Cardinality(W \ {u}) = Cardinality(W) - 1
    <3> HIDE DEF W
    <3> QED
      BY <2>3, <2>6, FS_RemoveElement
  <2>9. IsFiniteSet(Q) /\ Cardinality(Q) <= Cardinality(W \ {u})
    BY <2>3, <2>8, FS_Subset
  <2>10. Cardinality(Q) < limit(u.priority, pol)
    <3>1. /\ Cardinality(Q) \in Nat /\ Cardinality(W) \in Nat /\ Cardinality(J) \in Nat
          /\ limit(p, pol) \in Nat
      BY <2>2, <2>6, <2>9, FS_CardinalityType, LimitType
    <3> HIDE DEF Q, W, J
    <3>2. QED
      BY <2>1, <2>7, <2>8, <2>9, <3>1
  <2>11. u \in Reconciled(all, wanted, pol)
    BY <2>10 DEF Reconciled, Limited
  <2>12. QED
    BY <1>1, <2>1, <2>11
<1>8. result.started \in Nat /\ result.tasks \subseteq Tasks(sequence + result.started)
  BY <1>1, <1>2, <1>4
<1>9. QED
  BY <1>4, <1>5, <1>6, <1>7, <1>8 DEF result

\* What a viewport asks for.
LEMMA ViewsType ==
  ASSUME version \in [Items -> 1..MaxGenerations], NEW top \in Items, NEW requests \in Views(top)
  PROVE  requests \in SUBSET Requests
<1>1. \A k \in Items : version[k] \in 1..MaxGenerations /\ priority_for(k, top) \in Priorities
  BY DEF priority_for, Priorities
<1>2. 1 \in 1..MaxGenerations /\ "Visible" \in Priorities
  BY PolicyAssumption DEF Priorities
<1>3. View(top) \subseteq Requests
  BY <1>1 DEF View, Request, Requests
<1>4. \A k \in Items : Request(k, "Visible", 1) \in Requests
  BY <1>2 DEF Request, Requests
<1>5. QED
  BY <1>3, <1>4 DEF Views

\* Of a key, coalesce_desired_tasks keeps one request; what apply_limits admits of them
\* fits the limits.
LEMMA DesiredFacts ==
  ASSUME NEW requests \in SUBSET Requests, NEW pol \in PreviewPolicies
  PROVE  LET items == apply_limits(Desired(requests), pol) IN
         /\ items \in SUBSET Requests /\ OnePerKey(items)
         /\ \A p \in Priorities : Cardinality({i \in items : i.priority = p}) <= limit(p, pol)
<1>1. Desired(requests) \in SUBSET Requests
  BY DEF Desired
<1>2. OnePerKey(Desired(requests))
  <2> SUFFICES ASSUME NEW r \in Desired(requests), NEW o \in Desired(requests), r.key = o.key
               PROVE  r = o
    BY DEF OnePerKey
  <2>1. /\ r.generation < o.generation \/ (r.generation = o.generation /\ score[r.priority] >= score[o.priority])
        /\ o.generation < r.generation \/ (r.generation = o.generation /\ score[o.priority] >= score[r.priority])
    BY DEF Desired
  <2>2. r.generation \in Nat /\ o.generation \in Nat /\ r.priority \in Priorities /\ o.priority \in Priorities
    BY <1>1, PolicyAssumption DEF Requests
  <2>3. score["Visible"] = 0 /\ score["Prefetch"] = 1 /\ score["Background"] = 2
    BY DEF score
  <2>4. r.generation = o.generation /\ r.priority = o.priority
    BY <2>1, <2>2, <2>3 DEF Priorities
  <2>5. QED
    BY <1>1, <2>4 DEF Requests
<1>3. /\ IsFiniteSet(Desired(requests)) /\ \A i \in Desired(requests) : i.key \in Nat
      /\ \A i, o \in Desired(requests) : i.key = o.key => i = o
  <2>1. \A i \in Desired(requests) : i.key \in Items
    BY <1>1 DEF Requests
  <2>2. IsFiniteSet(Desired(requests))
    BY <1>2, <2>1, OnePerKeyFinite
  <2>3. QED
    BY <1>2, <2>1, <2>2, PolicyAssumption DEF OnePerKey
<1>4. /\ apply_limits(Desired(requests), pol) \subseteq Desired(requests)
      /\ \A p \in Priorities :
           Cardinality({i \in apply_limits(Desired(requests), pol) : i.priority = p}) <= limit(p, pol)
  BY <1>3, AdmittedFits
<1>5. QED
  BY <1>1, <1>2, <1>4 DEF OnePerKey

-----------------------------------------------------------------------------
(* The previews. *)

Workers(n) == [key : Items, token : 1..n]

PreviewTypes ==
  /\ version \in [Items -> 1..MaxGenerations] /\ sequence \in Nat
  /\ inflight \subseteq Tasks(sequence) /\ Distinct(inflight)
  /\ policy \in PreviewPolicies
  /\ cancelled \subseteq 1..sequence /\ orphaned \subseteq 1..sequence
  /\ running \subseteq Workers(sequence)

\* The inductive invariant of the previews.
PreviewInv == PreviewTypes /\ InflightWithinLimits /\ RunningIsTracked /\ AdmittedIsInflight

\* A new scheduler has nothing in flight and its base policy in force.
LEMMA InitPreviewInv == PreviewInit => PreviewInv
<1> SUFFICES ASSUME PreviewInit PROVE PreviewInv
  OBVIOUS
<1>1. PreviewTypes
  BY PolicyAssumption DEF PreviewInit, PreviewTypes, PreviewPolicies, Distinct
<1>2. InflightWithinLimits
  <2>1. policy \in PreviewPolicies /\ inflight = {}
    BY <1>1 DEF PreviewTypes, PreviewInit
  <2>2. ASSUME NEW p \in Priorities PROVE Cardinality({t \in inflight : t.priority = p}) <= limit(p, policy)
    <3>1. {t \in inflight : t.priority = p} = {}
      BY <2>1
    <3>2. limit(p, policy) \in Nat
      BY <2>1, LimitType
    <3>3. QED
      BY <3>1, <3>2, FS_EmptySet
  <2>3. QED
    BY <2>2 DEF InflightWithinLimits
<1>3. RunningIsTracked /\ AdmittedIsInflight
  BY DEF PreviewInit, RunningIsTracked, AdmittedIsInflight
<1>4. QED
  BY <1>1, <1>2, <1>3 DEF PreviewInv

\* A call that works on some of the tasks in flight that were not cancelled.
LEMMA InstallKeeps ==
  ASSUME PreviewInv, NEW tasks \in SUBSET Pruned(inflight),
         NEW pol \in PreviewPolicies, NEW requests \in SUBSET Requests,
         LET items == apply_limits(Desired(requests), pol)
         IN  Install(Scheduled(tasks, items, pol), items, pol)
  PROVE  PreviewInv'
<1> DEFINE items == apply_limits(Desired(requests), pol)
           result == Scheduled(tasks, items, pol)
<1>1. /\ tasks \in SUBSET inflight /\ \A t \in tasks : t.token \notin cancelled
      /\ tasks \in SUBSET Tasks(sequence) /\ Distinct(tasks) /\ sequence \in Nat
  BY DEF Pruned, PreviewInv, PreviewTypes, Distinct
<1>2. /\ items \in SUBSET Requests /\ OnePerKey(items)
      /\ \A p \in Priorities : Cardinality({i \in items : i.priority = p}) <= limit(p, pol)
  BY DesiredFacts
<1>3. Install(result, items, pol)
  OBVIOUS
<1> HIDE DEF items
<1>4. /\ result.started \in Nat
      /\ result.tasks \subseteq Tasks(sequence + result.started)
      /\ Distinct(result.tasks)
      /\ \A p \in Priorities :
           Cardinality({t \in result.tasks : t.priority = p}) <= limit(p, pol)
      /\ \A u \in result.tasks : u.token <= sequence =>
           \E o \in tasks : o.key = u.key /\ o.token = u.token
      /\ \A i \in items : \E u \in result.tasks :
           u.key = i.key /\ u.priority = i.priority /\ u.generation = i.generation
  BY <1>1, <1>2, ScheduledFacts
<1> HIDE DEF result
<1>5. /\ inflight' = result.tasks /\ sequence' = sequence + result.started /\ policy' = pol
      /\ cancelled' = CancelRemoved(result.tasks)
      /\ running' = running \cup {[key |-> t.key, token |-> t.token] : t \in {t \in result.tasks : t.token > sequence}}
      /\ admitted' = items /\ version' = version /\ orphaned' = orphaned
  BY <1>3 DEF Install
<1>6. \A u \in result.tasks : u.token \in 1..sequence' /\ u.key \in Items /\ u.token \in Nat
  BY <1>1, <1>4, <1>5 DEF Tasks
<1>7. \A t \in inflight : t.token \in 1..sequence
  BY DEF PreviewInv, PreviewTypes, Tasks
<1>8. cancelled \subseteq 1..sequence /\ cancelled' \subseteq 1..sequence /\ orphaned' \subseteq 1..sequence
  BY <1>5, <1>7 DEF CancelRemoved, PreviewInv, PreviewTypes
<1>9. PreviewTypes'
  <2>1. version' \in [Items -> 1..MaxGenerations] /\ sequence' \in Nat /\ policy' \in PreviewPolicies
    BY <1>1, <1>4, <1>5 DEF PreviewInv, PreviewTypes
  <2>2. inflight' \subseteq Tasks(sequence') /\ Distinct(inflight')
    BY <1>4, <1>5
  <2>3. 1..sequence \subseteq 1..sequence'
    BY <1>1, <1>4, <1>5
  <2>4. running' \subseteq Workers(sequence')
    <3>1. running \subseteq Workers(sequence')
      BY <2>3 DEF PreviewInv, PreviewTypes, Workers
    <3>2. QED
      BY <1>5, <1>6, <3>1 DEF Workers
  <2>5. QED
    BY <1>8, <2>1, <2>2, <2>3, <2>4 DEF PreviewTypes, Distinct
<1>10. InflightWithinLimits'
  BY <1>4, <1>5 DEF InflightWithinLimits, limit
<1>11. RunningIsTracked'
  <2> SUFFICES ASSUME NEW w \in running', w.token \notin cancelled' \cup orphaned'
               PROVE  \E t \in inflight' : t.key = w.key /\ t.token = w.token
    BY DEF RunningIsTracked
  <2>1. CASE w \in running
    <3>1. w.token \notin cancelled \cup orphaned
      BY <1>5 DEF CancelRemoved
    <3>2. PICK t \in inflight : t.key = w.key /\ t.token = w.token
      BY <2>1, <3>1 DEF PreviewInv, RunningIsTracked
    <3>3. PICK o \in result.tasks : o.token = t.token
      BY <1>5, <3>2 DEF CancelRemoved
    <3>4. o.token <= sequence
      BY <1>1, <1>7, <3>3
    <3>5. PICK q \in tasks : q.key = o.key /\ q.token = o.token
      BY <1>4, <3>4
    <3>6. q = t
      BY <1>1, <3>3, <3>5 DEF PreviewInv, PreviewTypes, Distinct
    <3>7. QED
      BY <1>5, <3>2, <3>3, <3>5, <3>6
  <2>2. CASE w \notin running
    BY <1>5, <2>2
  <2>3. QED
    BY <2>1, <2>2
<1>12. AdmittedIsInflight'
  <2>1. ASSUME NEW u \in result.tasks PROVE u.token \notin cancelled'
    <3>1. CASE u.token <= sequence
      <4>1. u.token \notin cancelled
        BY <1>1, <1>4, <3>1
      <4>2. QED
        BY <1>5, <4>1 DEF CancelRemoved
    <3>2. CASE ~(u.token <= sequence)
      BY <1>1, <1>6, <1>8, <3>2
    <3>3. QED
      BY <3>1, <3>2
  <2>2. QED
    BY <1>4, <1>5, <2>1 DEF AdmittedIsInflight
<1>13. QED
  BY <1>9, <1>10, <1>11, <1>12 DEF PreviewInv

\* Some of the tasks that are in flight have tokens and keys of their own, too.
LEMMA ReconciledNone ==
  ASSUME PreviewInv, NEW pol \in PreviewPolicies
  PROVE  LET tasks == Reconciled(Pruned(inflight), {}, pol) IN
         /\ tasks \subseteq Pruned(inflight)
         /\ \A p \in Priorities : Cardinality({t \in tasks : t.priority = p}) <= limit(p, pol)
<1>1. /\ Pruned(inflight) \subseteq inflight /\ Distinct(Pruned(inflight))
      /\ \A t \in Pruned(inflight) : t.token \in Nat /\ t.key \in Items
  BY DEF Pruned, PreviewInv, PreviewTypes, Distinct, Tasks
<1>2. IsFiniteSet(Pruned(inflight))
  BY <1>1, OnePerKeyFinite DEF OnePerKey, Distinct
<1>3. QED
  BY <1>1, <1>2, ReconciledFits

\* Every step of the preview scheduler, its workers and its callers keeps the invariant.
LEMMA NextPreviewInv == PreviewInv /\ [PreviewNext]_previewVars => PreviewInv'
<1> SUFFICES ASSUME PreviewInv, [PreviewNext]_previewVars PROVE PreviewInv'
  OBVIOUS
<1> USE DEF PreviewInv
<1>1. ASSUME NEW k \in Items, Modify(k) PROVE PreviewInv'
  <2>1. version' = [version EXCEPT ![k] = version[k] + 1] /\ version[k] < MaxGenerations
        /\ UNCHANGED <<inflight, policy, sequence, cancelled, running, admitted, orphaned>>
    BY <1>1 DEF Modify
  <2>2. version' \in [Items -> 1..MaxGenerations]
    <3>1. version \in [Items -> 1..MaxGenerations]
      BY DEF PreviewTypes
    <3>2. version[k] + 1 \in 1..MaxGenerations
      BY <2>1, <3>1, PolicyAssumption
    <3>3. QED
      BY <2>1, <3>1, <3>2
  <2>3. PreviewTypes'
    BY <2>1, <2>2 DEF PreviewTypes, Distinct
  <2>4. InflightWithinLimits' /\ RunningIsTracked' /\ AdmittedIsInflight'
    BY <2>1 DEF InflightWithinLimits, RunningIsTracked, AdmittedIsInflight, limit
  <2>5. QED
    BY <2>3, <2>4
<1>2. ASSUME NEW top \in Items, NEW requests \in Views(top), schedule(requests) PROVE PreviewInv'
  <2>1. requests \in SUBSET Requests /\ policy \in PreviewPolicies
    BY ViewsType DEF PreviewTypes
  <2>2. QED
    BY <1>2, <2>1, InstallKeeps DEF schedule
<1>3. ASSUME NEW top \in Items, NEW requests \in Views(top), NEW pressure \in Pressures,
             schedule_with_pressure(pressure, requests)
      PROVE  PreviewInv'
  <2> DEFINE pol == adapted_for_pressure(pressure)
             tasks == Reconciled(Pruned(inflight), {}, pol)
  <2>1. requests \in SUBSET Requests /\ pol \in PreviewPolicies
    BY ViewsType, AdaptedType DEF PreviewTypes
  <2>2. LET items == apply_limits(Desired(requests), pol)
        IN  Install(Scheduled(tasks, items, pol), items, pol)
    BY <1>3 DEF schedule_with_pressure
  <2>3. tasks \in SUBSET Pruned(inflight)
    <3> HIDE DEF pol
    <3> QED
      BY <2>1, ReconciledNone
  <2> HIDE DEF pol, tasks
  <2>4. QED
    BY <2>1, <2>2, <2>3, InstallKeeps
<1>4. ASSUME NEW pressure \in Pressures, adapt_to_pressure(pressure) PROVE PreviewInv'
  <2> DEFINE pol == adapted_for_pressure(pressure)
             tasks == Reconciled(Pruned(inflight), {}, pol)
  <2>1. pol \in PreviewPolicies
    BY AdaptedType
  <2>2. /\ inflight' = tasks /\ cancelled' = CancelRemoved(tasks) /\ policy' = pol /\ admitted' = {}
        /\ UNCHANGED <<version, sequence, running, orphaned>>
    BY <1>4 DEF adapt_to_pressure
  <2> HIDE DEF pol
  <2>3. /\ tasks \subseteq Pruned(inflight)
        /\ \A p \in Priorities : Cardinality({t \in tasks : t.priority = p}) <= limit(p, pol)
    BY <2>1, ReconciledNone
  <2> HIDE DEF tasks
  <2>4. tasks \subseteq inflight
    BY <2>3 DEF Pruned
  <2>5. PreviewTypes'
    <3>1. \A t \in inflight : t.token \in 1..sequence
      BY DEF PreviewTypes, Tasks
    <3>2. cancelled' \subseteq 1..sequence
      BY <2>2, <3>1 DEF CancelRemoved, PreviewTypes
    <3>3. QED
      BY <2>1, <2>2, <2>4, <3>2 DEF PreviewTypes, Distinct
  <2>6. InflightWithinLimits'
    BY <2>2, <2>3 DEF InflightWithinLimits, limit
  <2>7. RunningIsTracked'
    <3> SUFFICES ASSUME NEW w \in running, w.token \notin cancelled' \cup orphaned
                 PROVE  \E t \in tasks : t.key = w.key /\ t.token = w.token
      BY <2>2 DEF RunningIsTracked
    <3>1. PICK t \in inflight : t.key = w.key /\ t.token = w.token
      BY <2>2 DEF RunningIsTracked, CancelRemoved
    <3>2. PICK o \in tasks : o.token = t.token
      BY <2>2, <3>1 DEF CancelRemoved
    <3>3. o = t
      BY <2>4, <3>2 DEF PreviewTypes, Distinct
    <3>4. QED
      BY <3>1, <3>2, <3>3
  <2>8. AdmittedIsInflight'
    BY <2>2 DEF AdmittedIsInflight
  <2>9. QED
    BY <2>5, <2>6, <2>7, <2>8
<1>5. ASSUME NEW w \in running, finish(w) PROVE PreviewInv'
  <2>1. /\ inflight' = {t \in inflight : t.key # w.key}
        /\ orphaned' = orphaned \cup {t.token : t \in {t \in inflight : t.key = w.key /\ t.token # w.token}}
        /\ running' = running \ {w} /\ admitted' = {} /\ UNCHANGED <<version, policy, sequence, cancelled>>
    BY <1>5 DEF finish
  <2>2. PreviewTypes'
    <3>1. \A t \in inflight : t.token \in 1..sequence
      BY DEF PreviewTypes, Tasks
    <3>2. orphaned' \subseteq 1..sequence
      BY <2>1, <3>1 DEF PreviewTypes
    <3>3. QED
      BY <2>1, <3>2 DEF PreviewTypes, Distinct
  <2>3. InflightWithinLimits'
    <3> SUFFICES ASSUME NEW p \in Priorities
                 PROVE  Cardinality({t \in inflight' : t.priority = p}) <= limit(p, policy)
      BY <2>1 DEF InflightWithinLimits, limit
    <3>1. IsFiniteSet(inflight)
      BY OnePerKeyFinite DEF OnePerKey, PreviewTypes, Distinct, Tasks
    <3>2. {t \in inflight' : t.priority = p} \subseteq {t \in inflight : t.priority = p}
      BY <2>1
    <3>3. IsFiniteSet({t \in inflight : t.priority = p})
      BY <3>1, FS_Subset
    <3>4. /\ Cardinality({t \in inflight' : t.priority = p}) <= Cardinality({t \in inflight : t.priority = p})
          /\ Cardinality({t \in inflight' : t.priority = p}) \in Nat
          /\ Cardinality({t \in inflight : t.priority = p}) \in Nat
      BY <3>2, <3>3, FS_Subset, FS_CardinalityType
    <3>5. Cardinality({t \in inflight : t.priority = p}) <= limit(p, policy) /\ limit(p, policy) \in Nat
      BY LimitType DEF InflightWithinLimits, PreviewTypes
    <3>6. QED
      BY <3>4, <3>5
  <2>4. RunningIsTracked'
    <3> SUFFICES ASSUME NEW v \in running, v # w, v.token \notin cancelled \cup orphaned'
                 PROVE  \E t \in inflight' : t.key = v.key /\ t.token = v.token
      BY <2>1 DEF RunningIsTracked
    <3>1. PICK t \in inflight : t.key = v.key /\ t.token = v.token
      BY <2>1 DEF RunningIsTracked
    <3>2. v.key # w.key \/ v.token # w.token
      BY DEF PreviewTypes, Workers
    <3>3. t.key # w.key
      BY <2>1, <3>1, <3>2
    <3>4. QED
      BY <2>1, <3>1, <3>3
  <2>5. AdmittedIsInflight'
    BY <2>1 DEF AdmittedIsInflight
  <2>6. QED
    BY <2>2, <2>3, <2>4, <2>5
<1>6. ASSUME NEW w \in running, Abandon(w) PROVE PreviewInv'
  <2>1. running' = running \ {w} /\ UNCHANGED <<version, inflight, policy, sequence, cancelled, admitted, orphaned>>
    BY <1>6 DEF Abandon
  <2>2. PreviewTypes'
    BY <2>1 DEF PreviewTypes, Distinct
  <2>3. InflightWithinLimits' /\ RunningIsTracked' /\ AdmittedIsInflight'
    BY <2>1 DEF InflightWithinLimits, RunningIsTracked, AdmittedIsInflight, limit
  <2>4. QED
    BY <2>2, <2>3
<1>7. ASSUME NEW t \in inflight, CancelToken(t) PROVE PreviewInv'
  <2>1. /\ cancelled' = cancelled \cup {t.token} /\ admitted' = {}
        /\ UNCHANGED <<version, inflight, policy, sequence, running, orphaned>>
    BY <1>7 DEF CancelToken
  <2>2. PreviewTypes'
    <3>1. t.token \in 1..sequence
      BY DEF PreviewTypes, Tasks
    <3>2. QED
      BY <2>1, <3>1 DEF PreviewTypes, Distinct
  <2>3. InflightWithinLimits' /\ RunningIsTracked' /\ AdmittedIsInflight'
    BY <2>1 DEF InflightWithinLimits, RunningIsTracked, AdmittedIsInflight, limit
  <2>4. QED
    BY <2>2, <2>3
<1>8. CASE UNCHANGED previewVars
  BY <1>8 DEF previewVars, PreviewTypes, Distinct, InflightWithinLimits, RunningIsTracked,
              AdmittedIsInflight, limit
<1>9. QED
  BY <1>1, <1>2, <1>3, <1>4, <1>5, <1>6, <1>7, <1>8 DEF PreviewNext

\* The previews keep their invariant in every behaviour.
THEOREM PreviewInvariance == PreviewSpec => []PreviewInv
  BY InitPreviewInv, NextPreviewInv, PTL DEF PreviewSpec

\* The types of the preview scheduler's state: at most one task of a key is in flight,
\* each under a token of its own that was handed out.
THEOREM PreviewTypesHold == PreviewSpec => []PreviewTypeOK
<1>1. PreviewInv => PreviewTypeOK
  BY DEF PreviewInv, PreviewTypes, PreviewTypeOK, Tasks, Distinct, PreviewPolicies, Workers, KeysOf
<1>2. QED
  BY <1>1, PreviewInvariance, PTL

-----------------------------------------------------------------------------
(* The session. *)

\* A behaviour of the session is one of each of its parts.
LEMMA SessionParts == SessionSpec => Spec /\ PreviewSpec
<1>1. SessionInit => Init /\ PreviewInit
  BY DEF SessionInit
<1>2. [SessionNext]_sessionVars => [Next]_vars
  BY DEF SessionNext, sessionVars
<1>3. [SessionNext]_sessionVars => [PreviewNext]_previewVars
  BY DEF SessionNext, sessionVars
<1>4. QED
  BY <1>1, <1>2, <1>3, PTL DEF SessionSpec, Spec, PreviewSpec

\* What a session holds in memory stays within its limits, for every capacity of the
\* cache and every policy of the previews: the keys and the queue of the cache, while
\* stale stamps are dropped late, and the previews in flight, while the policy shrinks
\* under pressure and grows again.
THEOREM Limits == SessionSpec => []LimitsHold
<1>1. CacheInv /\ PreviewInv => LimitsHold
  BY DEF CacheInv, PreviewInv, LimitsHold
<1>2. QED
  BY <1>1, SessionParts, CacheInvariance, PreviewInvariance, PTL

\* No call of the scheduler lets a preview worker go with its token live, the only way out
\* being the end of another worker of its key, and what a call admits is in flight after
\* it, whatever was in flight before, was cancelled or finished, and however many items a
\* viewport shows.
THEOREM Tracked == SessionSpec => []InflightIsTracked
<1>1. PreviewInv => InflightIsTracked
  BY DEF PreviewInv, InflightIsTracked
<1>2. QED
  BY <1>1, SessionParts, PreviewInvariance, PTL

\* A session's cache is a least recently used cache, too.
THEOREM SessionImplementsLru == SessionSpec => ImplementsLru
  BY SessionParts, Refinement
=============================================================================
