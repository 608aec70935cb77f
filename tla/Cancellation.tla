----------------------------- MODULE Cancellation -----------------------------
(***************************************************************************)
(* gfm_jobs::Cancellation (crates/jobs/src/cancel.rs): a tree of tokens    *)
(* shared by threads. A token is alive while some Arc to it exists: the    *)
(* handle its owner holds, or one a running call holds. Parents and        *)
(* children refer to one another by Weak links only, which no longer       *)
(* upgrade once the token is dead.                                         *)
(*                                                                         *)
(* cancel() stores the token's flag, then visits the live children with a  *)
(* worklist. is_cancelled() loads the flags from the token towards the     *)
(* root, and stores what it learns into every token it passed. child()     *)
(* calls is_cancelled() and then links the new token. Each atomic access   *)
(* and each locked section is one step.                                    *)
(***************************************************************************)
EXTENDS Integers, FiniteSets

CONSTANTS
  MaxTokens,   \* bound on the tokens created in a behaviour
  Threads

ASSUME CancellationAssumption == MaxTokens \in Nat \ {0} /\ IsFiniteSet(Threads)

Tokens == 1..MaxTokens
Root == 1
None == 0

VARIABLES
  created,    \* number of tokens created so far; token 1 is the root
  parent,     \* the token each was created from
  cancelled,  \* the AtomicBool of each token
  links,      \* the child links of each token
  handles,    \* tokens whose owner still holds its Arc
  call,       \* what each thread is executing
  returned,   \* history: tokens on which cancel() has returned
  called,     \* history: tokens on which cancel() has been called
  answered    \* history: tokens for which is_cancelled() returned true

vars == <<created, parent, cancelled, links, handles, call, returned, called, answered>>

\* A call in progress. token: the receiver. at: the Arc being visited. held:
\* other Arcs the call keeps (cancel's worklist, is_cancelled's observed).
\* owed: what the history says the call must achieve.
Calls == [op: {"idle", "cancel", "is_cancelled", "child"},
          pc: {"idle", "store", "collect", "load", "upgrade", "link", "link_cancelled"},
          token: Tokens \cup {None}, at: Tokens \cup {None},
          held: SUBSET Tokens, owed: SUBSET Tokens]

Idle == [op |-> "idle", pc |-> "idle", token |-> None, at |-> None,
         held |-> {}, owed |-> {}]

Init ==
  /\ created = 1
  /\ parent = [t \in Tokens |-> None]
  /\ cancelled = [t \in Tokens |-> FALSE]
  /\ links = [t \in Tokens |-> {}]
  /\ handles = {Root}
  /\ call = [th \in Threads |-> Idle]
  /\ returned = {} /\ called = {} /\ answered = {}

-----------------------------------------------------------------------------
(* Reference counts. *)

\* Weak::upgrade succeeds: some Arc to t exists.
Alive(t) ==
  \/ t \in handles
  \/ \E th \in Threads : t \in {call[th].token, call[th].at} \cup call[th].held

\* Mutant: is_cancelled() looks at its own token only.
UpgradeNothing(t) == None

Upgrade(t) == IF t # None /\ Alive(t) THEN t ELSE None

\* The tokens from t up to the root, t included: the least set that contains t
\* and the parent of each of its members.
Closed(up, S) == \A s \in S : up[s] # None => up[s] \in S

Ancestors(up, t) ==
  {a \in Tokens : \A S \in SUBSET Tokens : t \in S /\ Closed(up, S) => a \in S}

Lineage == [t \in Tokens |-> Ancestors(parent, t)]

\* The tokens from d up to its ancestor a, both included.
Path(d, a) == {t \in Lineage[d] : a \in Lineage[t]}

Unbroken(d, a) == \A t \in Path(d, a) : Alive(t)

-----------------------------------------------------------------------------
(* cancel() *)

\* Owed: the live descendants reached by live links when the call begins.
CancelBegin(th, t) ==
  /\ call[th] = Idle
  /\ t \in handles
  /\ call' = [call EXCEPT ![th] =
       [op |-> "cancel", pc |-> "store", token |-> t, at |-> t, held |-> {},
        owed |-> {d \in 1..created : t \in Lineage[d] /\ Unbroken(d, t)}]]
  /\ called' = called \cup {t}
  /\ UNCHANGED <<created, parent, cancelled, links, handles, returned, answered>>

CancelStore(th) ==
  /\ call[th].pc = "store"
  /\ cancelled' = [cancelled EXCEPT ![call[th].at] = TRUE]
  /\ call' = [call EXCEPT ![th].pc = "collect"]
  /\ UNCHANGED <<created, parent, links, handles, returned, called, answered>>

\* Mutant: cancel() does not visit the children.
NoLinks(t) == {}

\* Mutant: cancel() visits the parent too.
LinksBothWays(t) == {c \in links[t] \cup {parent[t]} : c # None /\ Alive(c)}

LiveLinks(t) == {c \in links[t] : Alive(c)}

\* Under the children's lock: upgrade the links and prune the dead ones. Then
\* take the next token off the worklist, or return.
CancelCollect(th) ==
  LET here == call[th].at
      work == call[th].held \cup LiveLinks(here)
  IN  /\ call[th].pc = "collect"
      /\ links' = [links EXCEPT ![here] = LiveLinks(here)]
      /\ IF work = {}
         THEN /\ call' = [call EXCEPT ![th] = Idle]
              /\ returned' = returned \cup {call[th].token}
         ELSE /\ \E next \in work :
                   call' = [call EXCEPT ![th].pc = "store", ![th].at = next,
                                        ![th].held = work \ {next}]
              /\ UNCHANGED returned
      /\ UNCHANGED <<created, parent, cancelled, handles, called, answered>>

-----------------------------------------------------------------------------
(* is_cancelled(), also the first half of child() *)

\* The bound MaxTokens counts the tokens that running calls will still create.
RoomForChild == created + Cardinality({th \in Threads : call[th].op = "child"}) < MaxTokens

\* Owed: the ancestors, or t itself, on which cancel() has already returned.
WalkBegin(th, op, t) ==
  /\ call[th] = Idle
  /\ t \in handles
  /\ op = "child" => RoomForChild
  /\ call' = [call EXCEPT ![th] =
       [op |-> op, pc |-> "load", token |-> t, at |-> t, held |-> {},
        owed |-> returned \cap Lineage[t]]]
  /\ UNCHANGED <<created, parent, cancelled, links, handles, returned, called, answered>>

\* The walk is over: child() still has to link the new token, is_cancelled()
\* returns.
WalkDone(th, linkpc) ==
  call' = [call EXCEPT ![th] = IF call[th].op = "child"
                               THEN [@ EXCEPT !.pc = linkpc, !.at = None, !.held = {}]
                               ELSE Idle]

\* Mutant: the answer is not latched.
LatchedNothing(th) == {}

\* A load that finds the flag set: the receiver and every token passed on the
\* way are set too (monotone stores, one step), and the walk answers true.
Latched(th) == call[th].held \cup {call[th].token}

WalkFound(th) ==
  /\ call[th].pc = "load"
  /\ cancelled[call[th].at]
  /\ cancelled' = [t \in Tokens |-> cancelled[t] \/ t \in Latched(th)]
  /\ WalkDone(th, "link_cancelled")
  /\ answered' = answered \cup {call[th].token}
  /\ UNCHANGED <<created, parent, links, handles, returned, called>>

WalkLoad(th) ==
  /\ call[th].pc = "load"
  /\ ~cancelled[call[th].at]
  /\ call' = [call EXCEPT ![th].pc = "upgrade"]
  /\ UNCHANGED <<created, parent, cancelled, links, handles, returned, called, answered>>

\* The parent's Weak link upgrades: go on there.
WalkUp(th) ==
  /\ call[th].pc = "upgrade"
  /\ Upgrade(parent[call[th].at]) # None
  /\ call' = [call EXCEPT ![th].pc = "load",
                          ![th].at = Upgrade(parent[call[th].at]),
                          ![th].held = @ \cup {call[th].at}]
  /\ UNCHANGED <<created, parent, cancelled, links, handles, returned, called, answered>>

\* No parent, or a dead one: the walk answers false.
WalkEnd(th) ==
  /\ call[th].pc = "upgrade"
  /\ Upgrade(parent[call[th].at]) = None
  /\ WalkDone(th, "link")
  /\ UNCHANGED <<created, parent, cancelled, links, handles, returned, called, answered>>

\* child(): under the parent's lock, prune dead links and add the new one. A
\* dead link never upgrades again, so pruning at every push rather than at
\* next_prune_len makes no difference to anyone.
Link(th) ==
  LET new == created + 1
      from == call[th].token
  IN  /\ call[th].pc \in {"link", "link_cancelled"}
      /\ created' = new
      /\ parent' = [parent EXCEPT ![new] = from]
      /\ cancelled' = [cancelled EXCEPT ![new] = (call[th].pc = "link_cancelled")]
      /\ links' = [links EXCEPT ![from] = LiveLinks(from) \cup {new}]
      /\ handles' = handles \cup {new}
      /\ call' = [call EXCEPT ![th] = Idle]
      /\ UNCHANGED <<returned, called, answered>>

-----------------------------------------------------------------------------
\* An owner drops its token (it is dead once no call holds it either).
Drop(t) ==
  /\ t \in handles
  /\ handles' = handles \ {t}
  /\ UNCHANGED <<created, parent, cancelled, links, call, returned, called, answered>>

Step(th) ==
  \/ CancelStore(th)
  \/ CancelCollect(th)
  \/ WalkFound(th)
  \/ WalkLoad(th)
  \/ WalkUp(th)
  \/ WalkEnd(th)
  \/ Link(th)

Next ==
  \/ \E th \in Threads, t \in Tokens : CancelBegin(th, t)
  \/ \E th \in Threads, t \in Tokens, op \in {"is_cancelled", "child"} : WalkBegin(th, op, t)
  \/ \E th \in Threads : Step(th)
  \/ \E t \in Tokens : Drop(t)

Spec == Init /\ [][Next]_vars

-----------------------------------------------------------------------------
(* Correctness. *)

TypeOK ==
  /\ created \in Tokens
  /\ parent \in [Tokens -> Tokens \cup {None}]
  /\ cancelled \in [Tokens -> BOOLEAN]
  /\ links \in [Tokens -> SUBSET Tokens]
  /\ handles \in SUBSET (1..created)
  /\ call \in [Threads -> Calls]
  /\ returned \subseteq called /\ called \subseteq 1..created /\ answered \subseteq 1..created

\* Cancelling a branch stays local to it: a token is only ever set because
\* cancel() was called on it or on one of its ancestors.
CancelStaysLocal ==
  \A t \in 1..created : cancelled[t] => Lineage[t] \cap called # {}

\* A check that begins after cancel() has returned on the token or on an
\* ancestor answers true, as does the flag of a child created then, as long as
\* the tokens on the way up to that ancestor are alive.
CancelIsObserved ==
  [][\A th \in Threads : WalkEnd(th) =>
       \A a \in call[th].owed : ~Unbroken(call[th].token, a)]_vars

\* When cancel() returns, it has itself set every descendant that was linked
\* when it was called, unless somebody dropped a token in between: they stay
\* cancelled however the tree is dropped afterwards.
CancelFansOut ==
  [][\A th \in Threads : (call[th].pc = "collect" /\ call'[th] = Idle) =>
       \A d \in call[th].owed :
          Unbroken(d, call[th].token) => cancelled[d]]_vars

\* An answer of true is final: it is latched in the token, so that no later
\* check depends on an ancestor that may be dropped meanwhile.
AnswersAreFinal == \A t \in answered : cancelled[t]

\* PLAN.md: "parent cancellation propagates to child and grandchild work".
\* Once cancel() has returned, no live descendant would be told it may go on.
CancelReachesDescendants ==
  \A a \in returned, d \in handles :
    a \in Lineage[d] =>
      \E t \in Lineage[d] : cancelled[t] /\ Unbroken(d, t)

=============================================================================
