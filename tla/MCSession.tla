------------------------------ MODULE MCSession ------------------------------
(***************************************************************************)
(* What a browsing session holds in memory within fixed limits: the caches *)
(* of a content query and the previews in flight.                          *)
(*                                                                         *)
(* The two share no state, so their steps commute and a property of one of *)
(* them holds in every interleaving iff it holds while the other one rests: *)
(* a behaviour here follows one part.                                      *)
(***************************************************************************)
EXTENDS QueryCache, PreviewScheduler

VARIABLE part   \* the part the behaviour follows

sessionVars == <<vars, previewVars, part>>

SessionInit == Init /\ PreviewInit /\ part \in {"cache", "previews"}

SessionNext ==
    \/ part = "cache" /\ Next /\ UNCHANGED <<previewVars, part>>
    \/ part = "previews" /\ PreviewNext /\ UNCHANGED <<vars, part>>

SessionSpec == SessionInit /\ [][SessionNext]_sessionVars

-----------------------------------------------------------------------------
\* What the session holds stays within its limits: the keys and the order queue of a
\* cache, however often keys are used again (compact_stale_order_if_needed), and the
\* previews in flight under the policy in force (reconcile_inflight_limits).
LimitsHold == BudgetKept /\ InflightWithinLimits

\* No call of the scheduler leaves a worker running without its task or with its token
\* live: only the late end of another worker of the key does.  And what a call admits is
\* in flight after it, also when the policy shrinks in that call (PreviewScheduler).
InflightIsTracked == RunningIsTracked /\ AdmittedIsInflight
=============================================================================
