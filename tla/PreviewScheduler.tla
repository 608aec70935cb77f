--------------------------- MODULE PreviewScheduler ---------------------------
(***************************************************************************)
(* The scheduler of preview and thumbnail work (crates/preview/src/        *)
(* schedule.rs).  Each call of schedule brings the items of the viewport;  *)
(* the scheduler keeps one task in flight per key, cancels the tasks that  *)
(* went off screen, were superseded by a newer generation or exceed the    *)
(* limits, and shrinks the prefetch limit under pressure.                  *)
(*                                                                         *)
(* A call works on a clone and replaces the scheduler when it succeeds, so *)
(* it is one step and a cancelled call is none.  A task's token is its     *)
(* sequence number: the two are made together.  The items lie one below    *)
(* the other in the order of their keys, and a viewport shows two of them. *)
(***************************************************************************)
EXTENDS Naturals, FiniteSets

CONSTANTS
    Items,            \* the previews, numbered in the order of their position
    MaxVisible, MaxPrefetch,   \* the limits of the base policy
    CancelOffscreen,  \* whether the base policy cancels what is off screen
    MaxTokens,        \* bound on the tasks that are started
    MaxGenerations    \* bound on the versions of an item

\* The policy rejects a limit of no visible previews (PreviewScheduler::new).
ASSUME PolicyAssumption ==
    /\ MaxVisible \in Nat \ {0} /\ MaxPrefetch \in Nat /\ CancelOffscreen \in BOOLEAN
    /\ Items \subseteq Nat /\ IsFiniteSet(Items)
    /\ MaxGenerations \in Nat \ {0}

VARIABLES
    version,    \* the generation of each item
    inflight,   \* the tasks in flight: [key, priority, generation, token]
    policy,     \* [prefetch : the limit in force, cancel : cancel_offscreen]
    sequence,   \* next_sequence
    cancelled,  \* the tokens that were cancelled
    running,    \* the workers: [key, token]
    admitted,   \* what the last call admitted, until something else happens
    orphaned    \* history: the tokens of tasks that the end of another worker removed

previewVars == <<version, inflight, policy, sequence, cancelled, running, admitted, orphaned>>

Priorities == {"Visible", "Prefetch", "Background"}
score == [Visible |-> 0, Prefetch |-> 1, Background |-> 2]
Pressures == {"Normal", "Elevated", "Saturated"}
Request(k, priority, generation) == [key |-> k, priority |-> priority, generation |-> generation]

\* priority_for: what lies next to the visible items is prefetched.
priority_for(k, top) ==
    CASE k \in {top, top + 1} -> "Visible"
      [] k + 1 = top \/ k = top + 2 -> "Prefetch"
      [] OTHER -> "Background"

\* The items of a viewport.  The caller may list an item once more, in its first version.
View(top) == {Request(k, priority_for(k, top), version[k]) : k \in Items}
Views(top) ==
    {View(top)} \cup {View(top) \cup {Request(k, "Visible", 1)} : k \in Items}

KeysOf(tasks) == {t.key : t \in tasks}

\* adapted_for_pressure: always from the base policy.
adapted_for_pressure(pressure) ==
    [prefetch |-> CASE pressure = "Saturated" -> 0
                    [] pressure = "Elevated"  -> IF MaxPrefetch > 1 THEN MaxPrefetch \div 2 ELSE MaxPrefetch
                    [] OTHER                  -> MaxPrefetch,
     cancel |-> CancelOffscreen \/ pressure # "Normal"]

limit(priority, pol) ==
    CASE priority = "Visible" -> MaxVisible [] priority = "Prefetch" -> pol.prefetch [] OTHER -> 0

\* Of each priority, the first tasks up to its limit, in the order Before.
Limited(tasks, pol, Before(_, _)) ==
    {t \in tasks :
        Cardinality({o \in tasks : o.priority = t.priority /\ Before(o, t)}) < limit(t.priority, pol)}

\* coalesce_desired_tasks: the newest generation of a key, at its best priority.
Desired(requests) ==
    {r \in requests : \A o \in requests : o.key = r.key =>
        \/ o.generation < r.generation
        \/ o.generation = r.generation /\ score[o.priority] >= score[r.priority]}

apply_limits(desired, pol) == Limited(desired, pol, LAMBDA a, b : a.key < b.key)

\* prune_cancelled_inflight.
Pruned(tasks) == {t \in tasks : t.token \notin cancelled}

\* Mutant: the limits bind only what is desired.
ReconciledNot(tasks, wanted, pol) == tasks

\* Mutant: older tasks come first, wanted or not.
ReconciledByAge(tasks, wanted, pol) == Limited(tasks, pol, LAMBDA a, b : a.token < b.token)

\* reconcile_inflight_limits_preserving: wanted tasks first, then the older ones.
Reconciled(tasks, wanted, pol) ==
    Limited(tasks, pol, LAMBDA a, b :
        \/ a.key \in wanted /\ b.key \notin wanted
        \/ (a.key \in wanted <=> b.key \in wanted) /\ a.token < b.token)

\* A task whose key is desired again, in the same generation, goes on at its new priority.
GoesOn(t, item) == t.key = item.key /\ t.generation = item.generation

\* Any other task of such a key makes room.
Replaced(t, wanted) == t.key \in wanted

\* The order of the desired tasks: by priority, then by position.
Earlier(a, b) ==
    score[a.priority] < score[b.priority] \/ (a.priority = b.priority /\ a.key < b.key)

\* The tasks of the items, with the tokens that follow the last one in that order.
Started(items) ==
    {[key |-> i.key, priority |-> i.priority, generation |-> i.generation,
      token |-> sequence + 1 + Cardinality({o \in items : Earlier(o, i)})] : i \in items}

\* schedule_mutating on the tasks that are left after pruning.
Scheduled(tasks, items, pol) ==
    LET wanted == KeysOf(items)
        onscreen == IF pol.cancel THEN {t \in tasks : t.key \in wanted} ELSE tasks
        others == {t \in onscreen : ~Replaced(t, wanted)}
        kept == UNION {{[t EXCEPT !.priority = i.priority] : t \in {t \in onscreen : GoesOn(t, i)}} : i \in items}
        fresh == {i \in items : ~\E t \in onscreen : GoesOn(t, i)}
    IN  [tasks |-> Reconciled(others \cup kept \cup Started(fresh), wanted, pol),
         started |-> Cardinality(fresh)]

\* Mutant: a task that was replaced keeps its token.
CancelGone(tasks) == cancelled \cup {t.token : t \in {t \in inflight : t.key \notin KeysOf(tasks)}}

\* cancel_removed_original_tokens: every task that was in flight and is not any more.
CancelRemoved(tasks) ==
    cancelled \cup {t.token : t \in {t \in inflight : \A o \in tasks : o.token # t.token}}

-----------------------------------------------------------------------------
PreviewInit ==
    /\ version = [k \in Items |-> 1]
    /\ inflight = {} /\ cancelled = {} /\ running = {} /\ admitted = {} /\ orphaned = {}
    /\ policy = [prefetch |-> MaxPrefetch, cancel |-> CancelOffscreen]
    /\ sequence = 0

\* The caller starts a worker for each task that it finds scheduled (cancellation_for).
Install(result, items, pol) ==
    /\ sequence + result.started <= MaxTokens
    /\ inflight' = result.tasks
    /\ cancelled' = CancelRemoved(result.tasks)
    /\ sequence' = sequence + result.started
    /\ running' = running \cup {[key |-> t.key, token |-> t.token] : t \in {t \in result.tasks : t.token > sequence}}
    /\ policy' = pol
    /\ admitted' = items
    /\ UNCHANGED <<version, orphaned>>

schedule(requests) ==
    LET items == apply_limits(Desired(requests), policy)
    IN  Install(Scheduled(Pruned(inflight), items, policy), items, policy)

schedule_with_pressure(pressure, requests) ==
    LET pol == adapted_for_pressure(pressure)
        items == apply_limits(Desired(requests), pol)
    IN  Install(Scheduled(Reconciled(Pruned(inflight), {}, pol), items, pol), items, pol)

adapt_to_pressure(pressure) ==
    LET pol == adapted_for_pressure(pressure)
        tasks == Reconciled(Pruned(inflight), {}, pol)
    IN  /\ inflight' = tasks
        /\ cancelled' = CancelRemoved(tasks)
        /\ policy' = pol
        /\ admitted' = {}
        /\ UNCHANGED <<version, sequence, running, orphaned>>

\* A worker is done with its preview, cancelled or not.  finish removes the task that the
\* key has now, which is another one when the worker's own task was superseded.
finish(w) ==
    /\ w \in running
    /\ orphaned' = orphaned \cup {t.token : t \in {t \in inflight : t.key = w.key /\ t.token # w.token}}
    /\ inflight' = {t \in inflight : t.key # w.key}
    /\ running' = running \ {w}
    /\ admitted' = {}
    /\ UNCHANGED <<version, policy, sequence, cancelled>>

\* A worker that sees its token cancelled stops.
Abandon(w) ==
    /\ w \in running /\ w.token \in cancelled
    /\ running' = running \ {w}
    /\ UNCHANGED <<version, inflight, policy, sequence, cancelled, admitted, orphaned>>

\* The token's owner, or a parent of it, cancels a task that is in flight.
CancelToken(t) ==
    /\ t \in inflight /\ t.token \notin cancelled
    /\ cancelled' = cancelled \cup {t.token}
    /\ admitted' = {}
    /\ UNCHANGED <<version, inflight, policy, sequence, running, orphaned>>

\* The file behind an item changes.
Modify(k) ==
    /\ version[k] < MaxGenerations
    /\ version' = [version EXCEPT ![k] = @ + 1]
    /\ UNCHANGED <<inflight, policy, sequence, cancelled, running, admitted, orphaned>>

PreviewNext ==
    \/ \E k \in Items : Modify(k)
    \/ \E requests \in UNION {Views(top) : top \in Items} :
         \/ schedule(requests)
         \/ \E pressure \in Pressures : schedule_with_pressure(pressure, requests)
    \/ \E pressure \in Pressures : adapt_to_pressure(pressure)
    \/ \E w \in running : finish(w) \/ Abandon(w)
    \/ \E t \in inflight : CancelToken(t)

PreviewSpec == PreviewInit /\ [][PreviewNext]_previewVars

-----------------------------------------------------------------------------
\* One task per key in flight, each with a token of its own.
PreviewTypeOK ==
    /\ version \in [Items -> 1..MaxGenerations]
    /\ \A t \in inflight : t.key \in Items /\ t.generation \in 1..MaxGenerations /\ t.token \in 1..sequence
    /\ \A t, o \in inflight : t.key = o.key \/ t.token = o.token => t = o
    /\ policy.prefetch \in 0..MaxPrefetch /\ policy.cancel \in BOOLEAN
    /\ cancelled \subseteq 1..sequence /\ orphaned \subseteq 1..sequence /\ KeysOf(running) \subseteq Items

\* The limits of the policy in force hold, and nothing in the background is in flight.
InflightWithinLimits ==
    \A p \in Priorities : Cardinality({t \in inflight : t.priority = p}) <= limit(p, policy)

\* The scheduler lets no worker go by itself: a worker whose task is no longer in flight
\* has its token cancelled, so that previews that scrolled away or were superseded do
\* stop.  Only the end of another worker of the key, which finish does not tell from the
\* worker of the task, takes a task away and leaves its token alone.
RunningIsTracked ==
    \A w \in running :
        \/ w.token \in cancelled \cup orphaned
        \/ \E t \in inflight : t.key = w.key /\ t.token = w.token

\* What a call admits is in flight after it: a visible item never loses its place to
\* a task the viewport no longer asks for, nor to an older generation.
AdmittedIsInflight ==
    \A i \in admitted : \E t \in inflight :
        /\ t.key = i.key /\ t.generation = i.generation /\ t.priority = i.priority
        /\ t.token \notin cancelled
=============================================================================
