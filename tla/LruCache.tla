------------------------------- MODULE LruCache -------------------------------
(***************************************************************************)
(* What a query-time cache promises: it holds at most Capacity keys, and   *)
(* the key it gives up is the one that was neither found nor inserted for  *)
(* the longest time.                                                       *)
(***************************************************************************)
EXTENDS Naturals, FiniteSets

CONSTANTS Keys, Capacity

VARIABLES
    cached,  \* the keys in the cache
    before   \* <<a, b>> : a was used less recently than b

vars == <<cached, before>>

\* The order after k, and no other key, was used; keys are those that remain.
Used(k, keys) ==
    {pair \in before : k \notin {pair[1], pair[2]} /\ pair[1] \in keys /\ pair[2] \in keys}
    \cup {<<a, k>> : a \in keys \ {k}}

Oldest(k) == \A a \in cached \ {k} : <<k, a>> \in before

Init == cached = {} /\ before = {}

Hit(k) ==
    /\ k \in cached
    /\ before' = Used(k, cached)
    /\ UNCHANGED cached

Insert(k) ==
    /\ k \in cached \/ Cardinality(cached) < Capacity
    /\ cached' = cached \cup {k}
    /\ before' = Used(k, cached)

InsertEvicting(k, victim) ==
    /\ k \notin cached /\ Cardinality(cached) = Capacity
    /\ victim \in cached /\ Oldest(victim)
    /\ cached' = (cached \ {victim}) \cup {k}
    /\ before' = Used(k, cached \ {victim})

Clear == cached' = {} /\ before' = {}

Next ==
    \/ \E k \in Keys : Hit(k) \/ Insert(k) \/ \E victim \in Keys : InsertEvicting(k, victim)
    \/ Clear

Spec == Init /\ [][Next]_vars
=============================================================================
