------------------------- MODULE CancellationProofs -------------------------
(***************************************************************************)
(* The cancellation tokens' safety, for every number of tokens and every   *)
(* finite set of threads. The inductive invariant says, of every call in   *)
(* progress, where in the tree the tokens it holds are, and how far the    *)
(* call has got: what cancel() still owes lies below its worklist, what    *)
(* is_cancelled() is owed lies above the token it is visiting.             *)
(***************************************************************************)
EXTENDS Cancellation, FiniteSetTheorems, TLAPS

Forests == [Tokens -> Tokens \cup {None}]

-----------------------------------------------------------------------------
(* Ancestors, in any forest. *)

\* A token is one of its own ancestors, and the parent of an ancestor is one.
LEMMA AncestorsClosed ==
  ASSUME NEW up \in Forests, NEW t \in Tokens
  PROVE  /\ t \in Ancestors(up, t)
         /\ Ancestors(up, t) \in SUBSET Tokens
         /\ Closed(up, Ancestors(up, t))
BY DEF Ancestors, Closed, Forests

\* Ancestors are the least such set.
LEMMA AncestorsLeast ==
  ASSUME NEW up, NEW t \in Tokens, NEW S \in SUBSET Tokens, t \in S, Closed(up, S)
  PROVE  Ancestors(up, t) \subseteq S
BY DEF Ancestors

\* The ancestors of an ancestor are ancestors.
LEMMA AncestorsTransitive ==
  ASSUME NEW up \in Forests, NEW t \in Tokens, NEW s \in Ancestors(up, t)
  PROVE  Ancestors(up, s) \subseteq Ancestors(up, t)
<1>1. s \in Tokens
  BY DEF Ancestors
<1>2. QED
  BY <1>1, AncestorsClosed, AncestorsLeast

\* A proper ancestor of a token is an ancestor of its parent.
LEMMA AncestorsStep ==
  ASSUME NEW up \in Forests, NEW t \in Tokens, NEW a \in Ancestors(up, t), a # t
  PROVE  up[t] \in Tokens /\ a \in Ancestors(up, up[t])
<1>1. CASE up[t] = None
  <2>1. Closed(up, {t})
    BY <1>1 DEF Closed
  <2>2. QED
    BY <2>1, AncestorsLeast
<1>2. CASE up[t] # None
  <2>1. up[t] \in Tokens
    BY <1>2 DEF Forests
  <2> DEFINE S == {t} \cup Ancestors(up, up[t])
  <2>2. S \in SUBSET Tokens /\ Closed(up, S)
    BY <2>1, AncestorsClosed DEF Closed
  <2>3. a \in S
    BY <2>2, AncestorsLeast
  <2>4. QED
    BY <2>1, <2>3
<1>3. QED
  BY <1>1, <1>2

\* On the way up from a token to a proper ancestor there is a child of it.
LEMMA AncestorsBelow ==
  ASSUME NEW up \in Forests, NEW t \in Tokens, NEW a \in Ancestors(up, t), a # t
  PROVE  \E c \in Ancestors(up, t) : up[c] = a
<1> DEFINE S == Ancestors(up, t) \ {a}
<1>1. S \in SUBSET Tokens /\ t \in S
  BY AncestorsClosed
<1>2. ~Closed(up, S)
  BY <1>1, AncestorsLeast
<1>3. PICK c \in S : up[c] # None /\ up[c] \notin S
  BY <1>2 DEF Closed
<1>4. up[c] \in Ancestors(up, t)
  BY <1>3, AncestorsClosed DEF Closed
<1>5. QED
  BY <1>3, <1>4

\* Giving a parent to a token that is nobody's parent changes the ancestors of no other.
LEMMA AncestorsFrame ==
  ASSUME NEW up \in Forests, NEW vp \in Forests, NEW n \in Tokens,
         \A s \in Tokens : s # n => vp[s] = up[s],
         \A s \in Tokens : up[s] # n /\ vp[s] # n,
         NEW t \in Tokens, t # n
  PROVE  Ancestors(vp, t) = Ancestors(up, t)
<1>1. n \notin Ancestors(up, t)
  BY AncestorsBelow, AncestorsClosed
<1>2. n \notin Ancestors(vp, t)
  BY AncestorsBelow, AncestorsClosed
<1>3. Closed(vp, Ancestors(up, t))
  BY <1>1, AncestorsClosed DEF Closed
<1>4. Closed(up, Ancestors(vp, t))
  BY <1>2, AncestorsClosed DEF Closed
<1>5. Ancestors(vp, t) \subseteq Ancestors(up, t)
  BY <1>3, AncestorsClosed, AncestorsLeast
<1>6. Ancestors(up, t) \subseteq Ancestors(vp, t)
  BY <1>4, AncestorsClosed, AncestorsLeast
<1>7. QED
  BY <1>5, <1>6

-----------------------------------------------------------------------------
(* The inductive invariant. *)

\* A running cancel(): every Arc it holds is at or below its token, and a
\* descendant it owes is set or still below a token of the worklist.
CancelOK(c) ==
  /\ c.op = "cancel" /\ c.pc \in {"store", "collect"}
  /\ c.token \in 1..created /\ c.at \in 1..created
  /\ c.held \subseteq 1..created /\ c.owed \subseteq 1..created
  /\ c.token \in called
  /\ \A x \in {c.at} \cup c.held : c.token \in Lineage[x]
  /\ (c.pc = "store" /\ c.at = c.token) \/ cancelled[c.token]
  /\ \A d \in c.owed :
       Unbroken(d, c.token) =>
         \/ cancelled[d]
         \/ \E w \in {c.at} \cup c.held :
              w \in Lineage[d] /\ (w = c.at /\ c.pc = "collect" => w # d)

\* A running walk: it is at an ancestor of its token and of the tokens it has
\* passed, and every ancestor that must answer is set and not yet passed.
WalkOK(c) ==
  /\ c.op \in {"is_cancelled", "child"} /\ c.pc \in {"load", "upgrade"}
  /\ c.token \in 1..created /\ c.at \in 1..created
  /\ c.held \subseteq 1..created /\ c.owed \subseteq 1..created
  /\ c.at \in Lineage[c.token]
  /\ \A h \in c.held : c.at \in Lineage[h]
  /\ \A a \in c.owed :
       cancelled[a] /\ a \in Lineage[c.at] /\ (c.pc = "upgrade" => a # c.at)

\* child() after its walk: the flag it will copy is still its parent's.
LinkOK(c) ==
  /\ c.op = "child" /\ c.pc \in {"link", "link_cancelled"}
  /\ c.token \in 1..created /\ c.at = None /\ c.held = {}
  /\ c.pc = "link_cancelled" => cancelled[c.token]

CallOK(c) == c = Idle \/ CancelOK(c) \/ WalkOK(c) \/ LinkOK(c)

CallsOK == \A th \in Threads : CallOK(call[th])

\* Parents are older than their children, and no live child is missing from
\* its parent's links.
Tree ==
  /\ \A t \in Tokens : parent[t] # None => t \in 1..created /\ parent[t] \in 1..(t - 1)
  /\ \A p \in Tokens : \A c \in links[p] : c \in 1..created /\ parent[c] = p
  /\ \A c \in 1..created : parent[c] # None /\ Alive(c) => c \in links[parent[c]]

Latches == \A t \in returned \cup answered : cancelled[t]

Creating == {th \in Threads : call[th].op = "child"}

Room == created + Cardinality(Creating) <= MaxTokens

IInv ==
  /\ TypeOK
  /\ Tree
  /\ CallsOK
  /\ Latches
  /\ Room
  /\ CancelStaysLocal

-----------------------------------------------------------------------------
(* What every step keeps. *)

\* No step takes anything back: lineages, set flags and dead tokens stay.
Grows ==
  /\ 1..created \subseteq 1..created'
  /\ \A t \in 1..created : Lineage'[t] = Lineage[t]
  /\ \A t \in 1..created : cancelled[t] => cancelled'[t]
  /\ called \subseteq called'
  /\ \A t \in 1..created : Alive(t)' => Alive(t)

\* The lemmas above in terms of the state.
LEMMA LineageFacts ==
  ASSUME TypeOK, Tree
  PROVE  /\ \A t \in 1..created : t \in Lineage[t] /\ Lineage[t] \subseteq 1..created
         /\ \A t \in 1..created : \A s \in Lineage[t] : Lineage[s] \subseteq Lineage[t]
         /\ \A t \in 1..created : parent[t] # None => parent[t] \in Lineage[t]
         /\ \A t \in 1..created : \A a \in Lineage[t] : a # t =>
              /\ parent[t] # None /\ a \in Lineage[parent[t]]
              /\ \E c \in Lineage[t] : parent[c] = a
<1>1. parent \in Forests /\ 1..created \subseteq Tokens
  BY CancellationAssumption DEF TypeOK, Forests, Tokens
<1>2. \A t \in Tokens : Lineage[t] = Ancestors(parent, t)
  BY DEF Lineage
<1> SUFFICES ASSUME NEW t \in 1..created
             PROVE  /\ t \in Lineage[t] /\ Lineage[t] \subseteq 1..created
                    /\ \A s \in Lineage[t] : Lineage[s] \subseteq Lineage[t]
                    /\ parent[t] # None => parent[t] \in Lineage[t]
                    /\ \A a \in Lineage[t] : a # t =>
                         /\ parent[t] # None /\ a \in Lineage[parent[t]]
                         /\ \E c \in Lineage[t] : parent[c] = a
  OBVIOUS
<1>3. t \in Lineage[t] /\ (parent[t] # None => parent[t] \in Lineage[t])
  BY <1>1, <1>2, AncestorsClosed DEF Closed
<1>4. Lineage[t] \subseteq 1..created
  <2> DEFINE S == 1..created
  <2>1. Closed(parent, S)
    BY <1>1 DEF Closed, Tree, TypeOK, Tokens
  <2>2. t \in Tokens /\ S \in SUBSET Tokens /\ t \in S
    BY <1>1
  <2> HIDE DEF S
  <2>3. Ancestors(parent, t) \subseteq S
    BY <2>1, <2>2, AncestorsLeast
  <2>4. QED
    BY <1>2, <2>2, <2>3 DEF S
<1>5. ASSUME NEW s \in Lineage[t]
      PROVE  Lineage[s] \subseteq Lineage[t]
  BY <1>1, <1>2, <1>4, AncestorsTransitive
<1>6. ASSUME NEW a \in Lineage[t], a # t
      PROVE  /\ parent[t] # None /\ a \in Lineage[parent[t]]
             /\ \E c \in Lineage[t] : parent[c] = a
  <2>1. parent[t] \in Tokens /\ a \in Ancestors(parent, parent[t])
    BY <1>1, <1>2, <1>6, AncestorsStep
  <2>2. \E c \in Ancestors(parent, t) : parent[c] = a
    BY <1>1, <1>2, <1>6, AncestorsBelow
  <2>3. QED
    BY <1>1, <1>2, <2>1, <2>2 DEF Tokens, None
<1>7. QED
  BY <1>3, <1>4, <1>5, <1>6

\* A path that is unbroken after a step was unbroken before it.
LEMMA UnbrokenBefore ==
  ASSUME TypeOK, Tree, Grows, NEW d \in 1..created, NEW a, Unbroken(d, a)'
  PROVE  Unbroken(d, a)
<1>1. Lineage[d] \subseteq 1..created
  BY LineageFacts
<1>2. \A t \in Path(d, a) : t \in 1..created /\ t \in Lineage'[d] /\ a \in Lineage'[t]
  BY <1>1 DEF Path, Grows
<1>3. \A t \in Path(d, a) : Alive(t)'
  BY <1>2 DEF Unbroken, Path
<1>4. QED
  BY <1>2, <1>3 DEF Unbroken, Grows

\* A call that takes no part in a step is where it was.
LEMMA CallFrame ==
  ASSUME TypeOK, Tree, Grows, NEW th \in Threads, call'[th] = call[th], CallOK(call[th])
  PROVE  CallOK(call[th])'
<1>1. 1..created \subseteq 1..created' /\ called \subseteq called'
  BY DEF Grows
<1>2. \A t \in 1..created : Lineage'[t] = Lineage[t] /\ (cancelled[t] => cancelled'[t])
  BY DEF Grows
<1>3. CASE CancelOK(call[th])
  <2>1. \A d \in call[th].owed :
          Unbroken(d, call[th].token)' => Unbroken(d, call[th].token)
    BY <1>3, UnbrokenBefore DEF CancelOK
  <2>2. CancelOK(call[th])'
    BY <1>1, <1>2, <1>3, <2>1 DEF CancelOK
  <2>3. QED
    BY <2>2 DEF CallOK
<1>4. CASE WalkOK(call[th])
  BY <1>1, <1>2, <1>4 DEF CallOK, WalkOK
<1>5. CASE LinkOK(call[th])
  BY <1>1, <1>2, <1>5 DEF CallOK, LinkOK
<1>6. QED
  BY <1>3, <1>4, <1>5 DEF CallOK

\* The Arcs a call holds.
Arcs(c) == {c.token, c.at} \cup c.held

\* A step of one thread that creates no token and revives none.
Quiet(th) ==
  /\ UNCHANGED <<created, parent>>
  /\ handles' \subseteq handles
  /\ called \subseteq called'
  /\ \A t \in 1..created : cancelled[t] => cancelled'[t]
  /\ \A x \in Threads : x # th => call'[x] = call[x]
  /\ \A t \in Arcs(call[th])' : t \in 1..created => Alive(t)

\* A quiet step only adds to what is set, and leaves the other calls as they are.
LEMMA QuietGrows ==
  ASSUME IInv, NEW th \in Threads, Quiet(th)
  PROVE  Grows /\ Lineage' = Lineage /\ \A x \in Threads : x # th => CallOK(call[x])'
<1>1. Lineage' = Lineage
  BY DEF Quiet, Lineage
<1>2. ASSUME NEW t \in 1..created, Alive(t)'
      PROVE  Alive(t)
  <2>1. CASE t \in handles'
    BY <2>1 DEF Quiet, Alive
  <2>2. CASE t \in Arcs(call[th])'
    BY <2>2 DEF Quiet
  <2>3. CASE \E x \in Threads : x # th /\ t \in Arcs(call[x])'
    BY <2>3 DEF Quiet, Alive, Arcs
  <2>4. QED
    BY <1>2, <2>1, <2>2, <2>3 DEF Alive, Arcs
<1>3. Grows
  BY <1>1, <1>2 DEF Quiet, Grows
<1>4. QED
  BY <1>1, <1>3, CallFrame DEF Quiet, IInv, CallsOK

\* Such a step preserves the invariant when it preserves the parts that speak
\* of what it changed.
LEMMA QuietInv ==
  ASSUME IInv, NEW th \in Threads, Quiet(th), TypeOK', CallOK(call[th])',
         \A p \in Tokens : links'[p] \subseteq links[p]
                        /\ \A c \in links[p] : Alive(c) => c \in links'[p],
         Latches', CancelStaysLocal',
         call'[th].op = "child" => call[th].op = "child" \/ RoomForChild
  PROVE  IInv'
<1>1. Grows /\ \A x \in Threads : x # th => CallOK(call[x])'
  BY QuietGrows
<1>2. CallsOK'
  BY <1>1 DEF CallsOK
<1>3. Tree'
  <2>1. \A c \in 1..created : parent[c] # None => parent[c] \in Tokens
    BY CancellationAssumption DEF IInv, Tree, TypeOK, Tokens, None
  <2>2. QED
    BY <1>1, <2>1 DEF Grows, Quiet, IInv, Tree
<1>4. Room'
  <2>1. IsFiniteSet(Creating) /\ Creating \subseteq Threads
    BY CancellationAssumption, FS_Subset DEF Creating
  <2>2. CASE Creating' \subseteq Creating
    <3>1. IsFiniteSet(Creating') /\ Cardinality(Creating') <= Cardinality(Creating)
      BY <2>1, <2>2, FS_Subset
    <3>2. Cardinality(Creating) \in Nat /\ Cardinality(Creating') \in Nat
      BY <2>1, <3>1, FS_CardinalityType
    <3>3. QED
      BY <3>1, <3>2, CancellationAssumption DEF IInv, TypeOK, Tokens, Room, Quiet
  <2>3. CASE ~(Creating' \subseteq Creating)
    <3>1. Creating' = Creating \cup {th} /\ th \notin Creating /\ RoomForChild
      BY <2>3 DEF Creating, Quiet
    <3>2. /\ Cardinality(Creating') = Cardinality(Creating) + 1
          /\ Cardinality(Creating) \in Nat
      BY <2>1, <3>1, FS_AddElement, FS_CardinalityType
    <3>3. QED
      BY <3>1, <3>2, CancellationAssumption
      DEF RoomForChild, Creating, IInv, TypeOK, Tokens, Room, Quiet
  <2>4. QED
    BY <2>2, <2>3
<1>5. QED
  BY <1>2, <1>3, <1>4 DEF IInv

\* The Arcs of a running call are alive.
LEMMA ArcsAlive ==
  ASSUME NEW th \in Threads, NEW t \in Arcs(call[th])
  PROVE  Alive(t)
BY DEF Arcs, Alive

-----------------------------------------------------------------------------
(* One lemma per action. *)

\* A fresh root satisfies the invariant.
LEMMA InitInv == Init => IInv
<1> SUFFICES ASSUME Init
             PROVE  IInv
  OBVIOUS
<1>1. TypeOK
  BY CancellationAssumption DEF Init, TypeOK, Tokens, Root, Idle, Calls, None
<1>2. Tree /\ Latches /\ CancelStaysLocal
  BY CancellationAssumption DEF Init, Tree, Latches, CancelStaysLocal, Tokens
<1>3. CallsOK
  BY DEF Init, CallsOK, CallOK
<1>4. Room
  <2>1. Creating = {}
    BY DEF Init, Creating, Idle
  <2>2. Cardinality(Creating) = 0
    BY <2>1, FS_EmptySet
  <2>3. QED
    BY <2>2, CancellationAssumption DEF Init, Room
<1>5. QED
  BY <1>1, <1>2, <1>3, <1>4 DEF IInv

\* cancel() begins: everything it owes is below its token.
LEMMA CancelBeginInv ==
  ASSUME IInv, NEW th \in Threads, NEW t \in Tokens, CancelBegin(th, t)
  PROVE  IInv'
<1> DEFINE owed == {d \in 1..created : t \in Lineage[d] /\ Unbroken(d, t)}
           c == [op |-> "cancel", pc |-> "store", token |-> t, at |-> t, held |-> {},
                 owed |-> owed]
<1>1. /\ t \in 1..created /\ Alive(t)
      /\ call' = [call EXCEPT ![th] = c] /\ called' = called \cup {t}
      /\ UNCHANGED <<created, parent, cancelled, links, handles, returned, answered>>
  BY DEF CancelBegin, IInv, TypeOK, Alive
<1>2. owed \subseteq 1..created /\ \A d \in owed : t \in Lineage[d]
  OBVIOUS
<1> HIDE DEF owed
<1>3. TypeOK' /\ call'[th] = c /\ \A x \in Threads : x # th => call'[x] = call[x]
  <2>1. owed \in SUBSET Tokens
    BY <1>2, CancellationAssumption DEF IInv, TypeOK, Tokens
  <2>2. QED
    BY <1>1, <2>1 DEF IInv, TypeOK, Calls
<1>4. Quiet(th)
  BY <1>1, <1>3 DEF Quiet, Arcs
<1>5. Lineage' = Lineage
  BY <1>4, QuietGrows
<1>6. CallOK(call[th])'
  <2>1. t \in Lineage[t]
    BY <1>1, LineageFacts DEF IInv
  <2>2. t \in called' /\ t \in Lineage'[t] /\ t \in 1..created' /\ owed \subseteq 1..created'
    BY <1>1, <1>2, <1>5, <2>1
  <2>3. \A d \in owed : t \in Lineage'[d]
    BY <1>2, <1>5
  <2>4. /\ call'[th].op = "cancel" /\ call'[th].pc = "store" /\ call'[th].held = {}
        /\ call'[th].token = t /\ call'[th].at = t /\ call'[th].owed = owed
    BY <1>3
  <2>5. CancelOK(call[th])'
    BY <2>2, <2>3, <2>4 DEF CancelOK
  <2>6. QED
    BY <2>5 DEF CallOK
<1>7. Latches' /\ CancelStaysLocal'
  BY <1>1, <1>5 DEF IInv, Latches, CancelStaysLocal
<1>8. QED
  BY <1>1, <1>3, <1>4, <1>6, <1>7, QuietInv

\* Which call a thread is in follows from its program counter.
LEMMA CallAtPc ==
  ASSUME IInv, NEW th \in Threads
  PROVE  /\ call[th].pc \in {"store", "collect"} => CancelOK(call[th])
         /\ call[th].pc \in {"load", "upgrade"} => WalkOK(call[th])
         /\ call[th].pc \in {"link", "link_cancelled"} => LinkOK(call[th])
         /\ call[th] \in Calls
BY DEF IInv, TypeOK, CallsOK, CallOK, CancelOK, WalkOK, LinkOK, Idle

\* Setting the flag of the visited token: it is the token or below it.
LEMMA CancelStoreInv ==
  ASSUME IInv, NEW th \in Threads, CancelStore(th)
  PROVE  IInv'
<1> DEFINE at == call[th].at
<1>1. CancelOK(call[th]) /\ call[th] \in Calls /\ call[th].pc = "store"
  BY CallAtPc DEF CancelStore
<1>2. at \in 1..created /\ at \in Tokens
  BY <1>1, CancellationAssumption DEF CancelOK, IInv, TypeOK, Tokens
<1>3. /\ call'[th].op = "cancel" /\ call'[th].pc = "collect"
      /\ call'[th].token = call[th].token /\ call'[th].at = at
      /\ call'[th].held = call[th].held /\ call'[th].owed = call[th].owed
      /\ \A x \in Threads : x # th => call'[x] = call[x]
      /\ call' \in [Threads -> Calls]
  BY <1>1 DEF CancelStore, CancelOK, IInv, TypeOK, Calls
<1>4. /\ cancelled' \in [Tokens -> BOOLEAN] /\ cancelled'[at]
      /\ \A t \in Tokens : cancelled[t] => cancelled'[t]
      /\ \A t \in Tokens : cancelled'[t] => cancelled[t] \/ t = at
  BY <1>2 DEF CancelStore, IInv, TypeOK
<1>5. TypeOK'
  BY <1>3, <1>4 DEF CancelStore, IInv, TypeOK
<1>6. 1..created \subseteq Tokens
  BY CancellationAssumption DEF IInv, TypeOK, Tokens
<1>7. Quiet(th)
  BY <1>3, <1>4, <1>6, ArcsAlive DEF Quiet, Arcs, CancelStore
<1>8. Grows /\ Lineage' = Lineage
  BY <1>7, QuietGrows
<1>9. CallOK(call[th])'
  <2>1. \A d \in call[th].owed : Unbroken(d, call[th].token)' => Unbroken(d, call[th].token)
    BY <1>1, <1>3, <1>8, UnbrokenBefore DEF CancelOK, IInv
  <2>2. cancelled'[call[th].token]
    <3>1. call[th].token \in Tokens /\ (at = call[th].token \/ cancelled[call[th].token])
      BY <1>1, <1>6 DEF CancelOK
    <3>2. QED
      BY <1>4, <3>1
  <2>3. ASSUME NEW d \in call[th].owed, Unbroken(d, call[th].token)'
        PROVE  \/ cancelled'[d]
               \/ \E w \in {at} \cup call[th].held : w \in Lineage[d] /\ (w = at => w # d)
    <3>1. d \in Tokens
      BY <1>1, <1>6 DEF CancelOK
    <3>2. \/ cancelled[d]
          \/ \E w \in {at} \cup call[th].held : w \in Lineage[d]
      BY <1>1, <2>1, <2>3 DEF CancelOK
    <3>3. QED
      BY <1>4, <3>1, <3>2
  <2>4. CancelOK(call[th])'
    <3>1. \A d \in call'[th].owed : Unbroken(d, call[th].token)' =>
            \/ cancelled'[d]
            \/ \E w \in {call'[th].at} \cup call'[th].held :
                 w \in Lineage'[d] /\ (w = call'[th].at => w # d)
      BY <1>3, <1>8, <2>3
    <3>2. /\ call'[th].token \in 1..created' /\ call'[th].at \in 1..created'
          /\ call'[th].held \subseteq 1..created' /\ call'[th].owed \subseteq 1..created'
          /\ call'[th].token \in called'
          /\ \A x \in {call'[th].at} \cup call'[th].held : call'[th].token \in Lineage'[x]
          /\ cancelled'[call'[th].token]
      BY <1>1, <1>3, <1>8, <2>2 DEF CancelOK, CancelStore
    <3>3. QED
      BY <1>3, <3>1, <3>2 DEF CancelOK
  <2>5. QED
    BY <2>4 DEF CallOK
<1>10. Latches'
  BY <1>4, <1>6 DEF IInv, Latches, TypeOK, CancelStore
<1>11. CancelStaysLocal'
  <2>1. call[th].token \in Lineage[at] \cap called
    BY <1>1 DEF CancelOK
  <2>2. QED
    BY <1>4, <1>6, <1>8, <2>1 DEF IInv, CancelStaysLocal, CancelStore
<1>12. QED
  BY <1>3, <1>5, <1>7, <1>9, <1>10, <1>11, <1>1, QuietInv DEF CancelStore, CancelOK

\* What cancel() still owes is at or below the visited token's live links or
\* the rest of the worklist.
LEMMA OwedBelowWork ==
  ASSUME IInv, NEW th \in Threads, CancelOK(call[th]), call[th].pc = "collect",
         NEW d \in call[th].owed, Unbroken(d, call[th].token), ~cancelled[d]
  PROVE  \E w \in call[th].held \cup LiveLinks(call[th].at) : w \in Lineage[d]
<1> DEFINE at == call[th].at
           token == call[th].token
<1>1. d \in 1..created /\ at \in 1..created /\ token \in Lineage[at]
  BY DEF CancelOK
<1>2. PICK w \in {at} \cup call[th].held : w \in Lineage[d] /\ (w = at => w # d)
  BY DEF CancelOK
<1>3. CASE w = at
  <2>1. PICK c \in Lineage[d] : parent[c] = at
    BY <1>1, <1>2, <1>3, LineageFacts DEF IInv
  <2>2. c \in 1..created /\ parent[c] # None
    BY <1>1, <2>1, LineageFacts DEF IInv, None
  <2>3. token \in Lineage[c]
    <3>1. at \in Lineage[c]
      BY <2>1, <2>2, LineageFacts DEF IInv
    <3>2. QED
      BY <1>1, <2>2, <3>1, LineageFacts DEF IInv
  <2>4. Alive(c)
    BY <2>1, <2>3 DEF Unbroken, Path
  <2>5. c \in links[at]
    BY <2>1, <2>2, <2>4 DEF IInv, Tree
  <2>6. QED
    BY <2>1, <2>4, <2>5 DEF LiveLinks
<1>4. CASE w \in call[th].held
  BY <1>2, <1>4
<1>5. QED
  BY <1>2, <1>3, <1>4

\* Collecting the children of the visited token: live ones are kept, so the
\* worklist still covers what is owed.
LEMMA CancelCollectInv ==
  ASSUME IInv, NEW th \in Threads, CancelCollect(th)
  PROVE  IInv'
<1> DEFINE at == call[th].at
           work == call[th].held \cup LiveLinks(at)
<1>1. CancelOK(call[th]) /\ call[th] \in Calls /\ call[th].pc = "collect"
  BY CallAtPc DEF CancelCollect
<1>2. at \in 1..created /\ at \in Tokens /\ 1..created \subseteq Tokens
  BY <1>1, CancellationAssumption DEF CancelOK, IInv, TypeOK, Tokens
<1>3. /\ links' \in [Tokens -> SUBSET Tokens]
      /\ \A p \in Tokens : links'[p] \subseteq links[p]
                        /\ \A c \in links[p] : Alive(c) => c \in links'[p]
  BY <1>2 DEF CancelCollect, LiveLinks, IInv, TypeOK
<1>4. /\ UNCHANGED <<created, parent, cancelled, handles, called, answered>>
      /\ call[th].token \in called /\ cancelled[call[th].token]
  BY <1>1 DEF CancelCollect, CancelOK
<1>5. \A w \in work : w \in 1..created /\ Alive(w) /\ call[th].token \in Lineage[w]
  <2>1. ASSUME NEW w \in call[th].held
        PROVE  w \in 1..created /\ Alive(w) /\ call[th].token \in Lineage[w]
    BY <1>1, ArcsAlive DEF Arcs, CancelOK
  <2>2. ASSUME NEW w \in LiveLinks(at)
        PROVE  w \in 1..created /\ Alive(w) /\ call[th].token \in Lineage[w]
    <3>1. w \in 1..created /\ Alive(w) /\ parent[w] = at /\ parent[w] # None
      BY <1>2 DEF LiveLinks, IInv, Tree, None
    <3>2. at \in Lineage[w] /\ call[th].token \in Lineage[at]
      BY <1>1, <3>1, LineageFacts DEF IInv, CancelOK
    <3>3. QED
      BY <3>1, <3>2, LineageFacts DEF IInv
  <2>3. QED
    BY <2>1, <2>2
<1>6. CASE work = {}
  <2>1. call' = [call EXCEPT ![th] = Idle] /\ returned' = returned \cup {call[th].token}
    BY <1>6 DEF CancelCollect
  <2>2. call'[th] = Idle /\ \A x \in Threads : x # th => call'[x] = call[x]
    BY <2>1 DEF IInv, TypeOK
  <2>3. TypeOK'
    BY <1>3, <1>4, <2>1 DEF IInv, TypeOK, Calls, Idle
  <2>4. Quiet(th)
    BY <1>4, <2>2 DEF Quiet, Arcs, Idle, None
  <2>5. Latches' /\ CancelStaysLocal'
    BY <1>4, <2>1, <2>4, QuietGrows DEF IInv, Latches, CancelStaysLocal
  <2>6. CallOK(call[th])' /\ call'[th].op # "child"
    BY <2>2 DEF CallOK, Idle
  <2>7. QED
    BY <1>3, <2>3, <2>4, <2>5, <2>6, QuietInv
<1>7. CASE work # {}
  <2>1. PICK next \in work :
          call' = [call EXCEPT ![th].pc = "store", ![th].at = next, ![th].held = work \ {next}]
    BY <1>7 DEF CancelCollect
  <2>2. returned' = returned
    BY <1>7 DEF CancelCollect
  <2>3. work \in SUBSET Tokens /\ next \in Tokens
    BY <1>2, <1>5
  <2> HIDE DEF work
  <2>4. /\ call'[th].op = "cancel" /\ call'[th].pc = "store"
        /\ call'[th].token = call[th].token /\ call'[th].at = next
        /\ call'[th].held = work \ {next} /\ call'[th].owed = call[th].owed
        /\ \A x \in Threads : x # th => call'[x] = call[x]
        /\ call' \in [Threads -> Calls]
    BY <1>1, <2>1, <2>3 DEF CancelOK, IInv, TypeOK, Calls
  <2>5. TypeOK'
    BY <1>3, <1>4, <2>2, <2>4 DEF IInv, TypeOK
  <2>6. Quiet(th)
    <3>1. \A t \in Arcs(call[th])' : t = call[th].token \/ t \in work
      BY <2>1, <2>4 DEF Arcs
    <3>2. Alive(call[th].token)
      BY ArcsAlive DEF Arcs
    <3>3. QED
      BY <1>4, <1>5, <2>4, <3>1, <3>2 DEF Quiet
  <2>7. Grows /\ Lineage' = Lineage
    BY <2>6, QuietGrows
  <2>8. CallOK(call[th])'
    <3>1. ASSUME NEW d \in call[th].owed, Unbroken(d, call[th].token)', ~cancelled[d]
          PROVE  \E w \in work : w \in Lineage[d]
      <4>1. Unbroken(d, call[th].token)
        BY <1>1, <2>4, <2>7, <3>1, UnbrokenBefore DEF CancelOK, IInv
      <4>2. QED
        BY <1>1, <3>1, <4>1, OwedBelowWork DEF work
    <3>2. \A d \in call'[th].owed : Unbroken(d, call[th].token)' =>
            \/ cancelled'[d]
            \/ \E w \in {call'[th].at} \cup call'[th].held : w \in Lineage'[d]
      <4>1. {call'[th].at} \cup call'[th].held = work
        BY <2>1, <2>4
      <4>2. QED
        BY <1>4, <2>4, <2>7, <3>1, <4>1
    <3>3. /\ call'[th].token \in 1..created' /\ call'[th].at \in 1..created'
          /\ call'[th].held \subseteq 1..created' /\ call'[th].owed \subseteq 1..created'
          /\ call'[th].token \in called'
          /\ \A x \in {call'[th].at} \cup call'[th].held : call'[th].token \in Lineage'[x]
          /\ cancelled'[call'[th].token]
      BY <1>1, <1>4, <1>5, <2>1, <2>4, <2>7 DEF CancelOK
    <3>4. CancelOK(call[th])'
      BY <2>4, <3>2, <3>3 DEF CancelOK
    <3>5. QED
      BY <3>4 DEF CallOK
  <2>9. Latches' /\ CancelStaysLocal'
    BY <1>4, <2>2, <2>7 DEF IInv, Latches, CancelStaysLocal
  <2>10. QED
    BY <1>3, <2>4, <2>5, <2>6, <2>8, <2>9, QuietInv
<1>8. QED
  BY <1>6, <1>7

\* A walk begins: the ancestors that must answer are set, and above the token.
LEMMA WalkBeginInv ==
  ASSUME IInv, NEW th \in Threads, NEW t \in Tokens, NEW op \in {"is_cancelled", "child"},
         WalkBegin(th, op, t)
  PROVE  IInv'
<1> DEFINE owed == returned \cap Lineage[t]
<1>1. /\ t \in 1..created /\ Alive(t)
      /\ call' = [call EXCEPT ![th] = [op |-> op, pc |-> "load", token |-> t, at |-> t,
                                       held |-> {}, owed |-> owed]]
      /\ UNCHANGED <<created, parent, cancelled, links, handles, returned, called, answered>>
      /\ op = "child" => RoomForChild
  BY DEF WalkBegin, IInv, TypeOK, Alive
<1>2. /\ owed \subseteq 1..created /\ owed \in SUBSET Tokens
      /\ \A a \in owed : cancelled[a] /\ a \in Lineage[t]
  <2>1. returned \subseteq 1..created /\ 1..created \subseteq Tokens
    BY CancellationAssumption DEF IInv, TypeOK, Tokens
  <2>2. \A a \in returned : cancelled[a]
    BY DEF IInv, Latches
  <2>3. QED
    BY <2>1, <2>2
<1> HIDE DEF owed
<1>3. /\ call'[th].op = op /\ call'[th].pc = "load"
      /\ call'[th].token = t /\ call'[th].at = t
      /\ call'[th].held = {} /\ call'[th].owed = owed
      /\ \A x \in Threads : x # th => call'[x] = call[x]
      /\ call' \in [Threads -> Calls]
  BY <1>1, <1>2 DEF IInv, TypeOK, Calls
<1>4. TypeOK'
  BY <1>1, <1>3 DEF IInv, TypeOK
<1>5. Quiet(th)
  BY <1>1, <1>3 DEF Quiet, Arcs
<1>6. Lineage' = Lineage
  BY <1>5, QuietGrows
<1>7. CallOK(call[th])'
  <2>1. t \in Lineage[t]
    BY <1>1, LineageFacts DEF IInv
  <2>2. WalkOK(call[th])'
    BY <1>1, <1>2, <1>3, <1>6, <2>1 DEF WalkOK
  <2>3. QED
    BY <2>2 DEF CallOK
<1>8. Latches' /\ CancelStaysLocal'
  BY <1>1, <1>6 DEF IInv, Latches, CancelStaysLocal
<1>9. QED
  BY <1>1, <1>3, <1>4, <1>5, <1>7, <1>8, QuietInv

\* A walk that is over leaves nothing behind but child()'s link to make.
LEMMA WalkDoneFacts ==
  ASSUME IInv, NEW th \in Threads, WalkOK(call[th]), NEW pc \in {"link", "link_cancelled"},
         WalkDone(th, pc)
  PROVE  /\ call' \in [Threads -> Calls]
         /\ \A x \in Threads : x # th => call'[x] = call[x]
         /\ \A t \in Arcs(call[th])' : t \in 1..created => Alive(t)
         /\ call'[th].op = "child" => call[th].op = "child"
         /\ \/ call'[th] = Idle
            \/ /\ call'[th].op = "child" /\ call'[th].pc = pc /\ call'[th].at = None
               /\ call'[th].held = {} /\ call'[th].token = call[th].token
<1>1. call[th] \in Calls /\ call \in [Threads -> Calls]
  BY DEF IInv, TypeOK
<1>2. CASE call[th].op = "child"
  <2>1. /\ call' \in [Threads -> Calls]
        /\ \A x \in Threads : x # th => call'[x] = call[x]
        /\ call'[th].op = "child" /\ call'[th].pc = pc /\ call'[th].at = None
        /\ call'[th].held = {} /\ call'[th].token = call[th].token
    BY <1>1, <1>2 DEF WalkDone, Calls
  <2>2. QED
    BY <1>2, <2>1, ArcsAlive DEF Arcs, None
<1>3. CASE call[th].op # "child"
  <2>1. /\ call' = [call EXCEPT ![th] = Idle]
        /\ Idle \in Calls
    BY <1>3 DEF WalkDone, Calls, Idle, None
  <2>2. call'[th] = Idle /\ call' \in [Threads -> Calls]
    BY <1>1, <2>1
  <2>3. QED
    BY <1>1, <2>1, <2>2 DEF Arcs, Idle, None
<1>4. QED
  BY <1>2, <1>3

\* The walk finds a set flag: it lies above every token it now sets.
LEMMA WalkFoundInv ==
  ASSUME IInv, NEW th \in Threads, WalkFound(th)
  PROVE  IInv'
<1> DEFINE at == call[th].at
<1>1. WalkOK(call[th]) /\ call[th].pc = "load" /\ cancelled[at]
  BY CallAtPc DEF WalkFound
<1>2. 1..created \subseteq Tokens
  BY CancellationAssumption DEF IInv, TypeOK, Tokens
<1>3. /\ cancelled' \in [Tokens -> BOOLEAN]
      /\ \A t \in Tokens : cancelled'[t] <=> (cancelled[t] \/ t \in Latched(th))
  BY DEF WalkFound, IInv, TypeOK
<1>4. Latched(th) \subseteq 1..created /\ \A t \in Latched(th) : at \in Lineage[t]
  BY <1>1 DEF Latched, WalkOK
<1>5. /\ call' \in [Threads -> Calls]
      /\ \A x \in Threads : x # th => call'[x] = call[x]
      /\ \A t \in Arcs(call[th])' : t \in 1..created => Alive(t)
      /\ call'[th].op = "child" => call[th].op = "child"
      /\ \/ call'[th] = Idle
         \/ /\ call'[th].op = "child" /\ call'[th].pc = "link_cancelled"
            /\ call'[th].at = None
            /\ call'[th].held = {} /\ call'[th].token = call[th].token
  BY <1>1, WalkDoneFacts DEF WalkFound
<1>6. /\ answered' = answered \cup {call[th].token}
      /\ UNCHANGED <<created, parent, links, handles, returned, called>>
      /\ call[th].token \in 1..created
  BY <1>1 DEF WalkFound, WalkOK
<1>7. TypeOK'
  BY <1>3, <1>5, <1>6 DEF IInv, TypeOK
<1>8. Quiet(th)
  <2>1. \A t \in 1..created : cancelled[t] => cancelled'[t]
    BY <1>2, <1>3
  <2>2. QED
    BY <1>5, <1>6, <2>1 DEF Quiet
<1>9. Lineage' = Lineage
  BY <1>8, QuietGrows
<1>10. cancelled'[call[th].token]
  BY <1>2, <1>3, <1>6 DEF Latched
<1>11. CallOK(call[th])'
  BY <1>5, <1>6, <1>10 DEF CallOK, LinkOK
<1>12. Latches'
  BY <1>2, <1>3, <1>6, <1>10 DEF IInv, TypeOK, Latches
<1>13. CancelStaysLocal'
  <2>1. at \in 1..created
    BY <1>1 DEF WalkOK
  <2>2. Lineage[at] \cap called # {}
    BY <1>1, <2>1 DEF IInv, CancelStaysLocal
  <2>3. \A t \in Latched(th) : Lineage[at] \subseteq Lineage[t]
    BY <1>4, LineageFacts DEF IInv
  <2>4. ASSUME NEW t \in 1..created, cancelled'[t]
        PROVE  Lineage[t] \cap called # {}
    <3>1. cancelled[t] \/ t \in Latched(th)
      BY <1>2, <1>3, <2>4
    <3>2. QED
      BY <2>2, <2>3, <3>1 DEF IInv, CancelStaysLocal
  <2>5. QED
    BY <1>6, <1>9, <2>4 DEF CancelStaysLocal
<1>14. QED
  BY <1>5, <1>6, <1>7, <1>8, <1>11, <1>12, <1>13, QuietInv

\* The walk finds the flag unset: no ancestor that must answer is here.
LEMMA WalkLoadInv ==
  ASSUME IInv, NEW th \in Threads, WalkLoad(th)
  PROVE  IInv'
<1>1. WalkOK(call[th]) /\ call[th] \in Calls /\ ~cancelled[call[th].at]
  BY CallAtPc DEF WalkLoad
<1>2. UNCHANGED <<created, parent, cancelled, links, handles, returned, called, answered>>
  BY DEF WalkLoad
<1>3. /\ call'[th].op = call[th].op /\ call'[th].pc = "upgrade"
      /\ call'[th].token = call[th].token /\ call'[th].at = call[th].at
      /\ call'[th].held = call[th].held /\ call'[th].owed = call[th].owed
      /\ \A x \in Threads : x # th => call'[x] = call[x]
      /\ call' \in [Threads -> Calls]
  BY <1>1 DEF WalkLoad, IInv, TypeOK, Calls
<1>4. TypeOK'
  BY <1>2, <1>3 DEF IInv, TypeOK
<1>5. Quiet(th)
  BY <1>2, <1>3, ArcsAlive DEF Quiet, Arcs
<1>6. Lineage' = Lineage
  BY <1>5, QuietGrows
<1>7. CallOK(call[th])'
  <2>1. WalkOK(call[th])'
    BY <1>1, <1>2, <1>3, <1>6 DEF WalkOK
  <2>2. QED
    BY <2>1 DEF CallOK
<1>8. Latches' /\ CancelStaysLocal'
  BY <1>2, <1>6 DEF IInv, Latches, CancelStaysLocal
<1>9. QED
  BY <1>2, <1>3, <1>4, <1>5, <1>7, <1>8, QuietInv

\* The walk goes on at the parent: an ancestor that must answer is still above.
LEMMA WalkUpInv ==
  ASSUME IInv, NEW th \in Threads, WalkUp(th)
  PROVE  IInv'
<1> DEFINE at == call[th].at
           up == parent[at]
<1>1. WalkOK(call[th]) /\ call[th] \in Calls /\ call[th].pc = "upgrade"
  BY CallAtPc DEF WalkUp
<1>2. at \in 1..created /\ 1..created \subseteq Tokens
  BY <1>1, CancellationAssumption DEF WalkOK, IInv, TypeOK, Tokens
<1>3. up # None /\ Alive(up) /\ Upgrade(up) = up
  BY DEF WalkUp, Upgrade
<1>4. up \in Lineage[at] /\ up \in 1..created
  BY <1>2, <1>3, LineageFacts DEF IInv
<1>5. UNCHANGED <<created, parent, cancelled, links, handles, returned, called, answered>>
  BY DEF WalkUp
<1>6. /\ call'[th].op = call[th].op /\ call'[th].pc = "load"
      /\ call'[th].token = call[th].token /\ call'[th].at = up
      /\ call'[th].held = call[th].held \cup {at} /\ call'[th].owed = call[th].owed
      /\ \A x \in Threads : x # th => call'[x] = call[x]
      /\ call' \in [Threads -> Calls]
  <2>1. call' = [call EXCEPT ![th].pc = "load", ![th].at = up, ![th].held = @ \cup {at}]
    BY <1>3 DEF WalkUp
  <2>2. up \in Tokens /\ at \in Tokens
    BY <1>2, <1>4
  <2>3. QED
    BY <1>1, <2>1, <2>2 DEF IInv, TypeOK, Calls
<1>7. TypeOK'
  BY <1>5, <1>6 DEF IInv, TypeOK
<1>8. Quiet(th)
  BY <1>3, <1>5, <1>6, ArcsAlive DEF Quiet, Arcs
<1>9. Lineage' = Lineage
  BY <1>8, QuietGrows
<1>10. CallOK(call[th])'
  <2>1. up \in Lineage[call[th].token]
    BY <1>1, <1>4, LineageFacts DEF IInv, WalkOK
  <2>2. \A h \in call[th].held \cup {at} : h \in 1..created /\ up \in Lineage[h]
    BY <1>1, <1>2, <1>4, LineageFacts DEF IInv, WalkOK
  <2>3. \A a \in call[th].owed : a \in Lineage[up]
    BY <1>1, <1>2, LineageFacts DEF IInv, WalkOK
  <2>4. WalkOK(call[th])'
    BY <1>1, <1>4, <1>5, <1>6, <1>9, <2>1, <2>2, <2>3 DEF WalkOK
  <2>5. QED
    BY <2>4 DEF CallOK
<1>11. Latches' /\ CancelStaysLocal'
  BY <1>5, <1>9 DEF IInv, Latches, CancelStaysLocal
<1>12. QED
  BY <1>5, <1>6, <1>7, <1>8, <1>10, <1>11, QuietInv

\* The walk ends without having found a set flag.
LEMMA WalkEndInv ==
  ASSUME IInv, NEW th \in Threads, WalkEnd(th)
  PROVE  IInv'
<1>1. WalkOK(call[th])
  BY CallAtPc DEF WalkEnd
<1>2. UNCHANGED <<created, parent, cancelled, links, handles, returned, called, answered>>
  BY DEF WalkEnd
<1>3. /\ call' \in [Threads -> Calls]
      /\ \A x \in Threads : x # th => call'[x] = call[x]
      /\ \A t \in Arcs(call[th])' : t \in 1..created => Alive(t)
      /\ call'[th].op = "child" => call[th].op = "child"
      /\ \/ call'[th] = Idle
         \/ /\ call'[th].op = "child" /\ call'[th].pc = "link" /\ call'[th].at = None
            /\ call'[th].held = {} /\ call'[th].token = call[th].token
  BY <1>1, WalkDoneFacts DEF WalkEnd
<1>4. TypeOK'
  BY <1>2, <1>3 DEF IInv, TypeOK
<1>5. Quiet(th)
  BY <1>2, <1>3 DEF Quiet
<1>6. CallOK(call[th])'
  BY <1>1, <1>2, <1>3 DEF CallOK, LinkOK, WalkOK
<1>7. Latches' /\ CancelStaysLocal'
  BY <1>2, <1>5, QuietGrows DEF IInv, Latches, CancelStaysLocal
<1>8. QED
  BY <1>2, <1>3, <1>4, <1>5, <1>6, <1>7, QuietInv

\* An owner drops its token.
LEMMA DropInv ==
  ASSUME IInv, NEW t \in Tokens, Drop(t)
  PROVE  IInv'
<1>1. /\ UNCHANGED <<created, parent, cancelled, links, call, returned, called, answered>>
      /\ handles' \subseteq handles
  BY DEF Drop
<1>2. Lineage' = Lineage
  BY <1>1 DEF Lineage
<1>3. \A x \in Tokens : Alive(x)' => Alive(x)
  BY <1>1 DEF Alive
<1>4. 1..created \subseteq Tokens
  BY CancellationAssumption DEF IInv, TypeOK, Tokens
<1>5. Grows
  BY <1>1, <1>2, <1>3, <1>4 DEF Grows
<1>6. CallsOK'
  BY <1>1, <1>5, CallFrame DEF IInv, CallsOK
<1>7. TypeOK' /\ Latches' /\ CancelStaysLocal'
  BY <1>1, <1>2 DEF IInv, TypeOK, Latches, CancelStaysLocal
<1>8. Tree'
  BY <1>1, <1>5 DEF IInv, Tree, Grows
<1>9. Room'
  BY <1>1 DEF IInv, Room, Creating
<1>10. QED
  BY <1>6, <1>7, <1>8, <1>9 DEF IInv

\* child() links the new token: it has no descendants yet, and it copies the
\* flag of its parent only.
LEMMA LinkInv ==
  ASSUME IInv, NEW th \in Threads, Link(th)
  PROVE  IInv'
<1> DEFINE new == created + 1
           from == call[th].token
<1>1. LinkOK(call[th]) /\ call[th] \in Calls
  BY CallAtPc DEF Link
<1>2. IsFiniteSet(Creating) /\ th \in Creating /\ Cardinality(Creating) \in Nat
  BY <1>1, CancellationAssumption, FS_Subset, FS_CardinalityType DEF Creating, LinkOK
<1>3. /\ Cardinality(Creating \ {th}) = Cardinality(Creating) - 1
      /\ Cardinality(Creating \ {th}) \in Nat
  BY <1>2, FS_RemoveElement, FS_CardinalityType
<1>4. /\ created \in Nat /\ new \in Tokens /\ new \notin 1..created /\ new # None
      /\ 1..new = 1..created \cup {new} /\ 1..created \subseteq Tokens
      /\ from \in 1..created /\ from \in 1..(new - 1) /\ from \in Tokens /\ from # new
      /\ from # None
  <2>1. created \in Nat /\ created + 1 <= MaxTokens
    BY <1>2, <1>3, CancellationAssumption DEF IInv, TypeOK, Tokens, Room
  <2>2. from \in 1..created
    BY <1>1 DEF LinkOK
  <2>3. QED
    BY <2>1, <2>2, CancellationAssumption DEF Tokens, None
<1>5. /\ created' = new
      /\ parent' = [parent EXCEPT ![new] = from]
      /\ cancelled' = [cancelled EXCEPT ![new] = (call[th].pc = "link_cancelled")]
      /\ links' = [links EXCEPT ![from] = LiveLinks(from) \cup {new}]
      /\ handles' = handles \cup {new}
      /\ call' = [call EXCEPT ![th] = Idle]
      /\ UNCHANGED <<returned, called, answered>>
  BY DEF Link
<1> HIDE DEF new, from
<1>6. /\ parent \in Forests /\ parent' \in Forests
      /\ \A t \in 1..created : parent'[t] = parent[t]
      /\ parent'[new] = from
      /\ \A t \in Tokens : t # new => parent'[t] = parent[t]
      /\ \A t \in Tokens : parent[t] # new /\ parent'[t] # new
  BY <1>4, <1>5 DEF IInv, TypeOK, Forests, Tree
<1>7. /\ call'[th] = Idle /\ Idle \in Calls
      /\ \A x \in Threads : x # th => call'[x] = call[x]
      /\ call' \in [Threads -> Calls]
  BY <1>5 DEF IInv, TypeOK, Calls, Idle, None
<1>8. /\ cancelled' \in [Tokens -> BOOLEAN]
      /\ \A t \in 1..created : cancelled'[t] = cancelled[t]
      /\ cancelled'[new] => cancelled[from]
  BY <1>1, <1>4, <1>5 DEF IInv, TypeOK, LinkOK, from
<1>9. /\ links' \in [Tokens -> SUBSET Tokens]
      /\ links'[from] = LiveLinks(from) \cup {new}
      /\ \A p \in Tokens : p # from => links'[p] = links[p]
  BY <1>4, <1>5 DEF IInv, TypeOK, LiveLinks
<1>10. TypeOK'
  BY <1>4, <1>5, <1>6, <1>7, <1>8, <1>9 DEF IInv, TypeOK, Forests
<1>11. \A t \in 1..created : Lineage'[t] = Lineage[t]
  <2>1. \A t \in Tokens : Lineage'[t] = Ancestors(parent', t) /\ Lineage[t] = Ancestors(parent, t)
    BY DEF Lineage
  <2>2. ASSUME NEW t \in 1..created
        PROVE  Ancestors(parent', t) = Ancestors(parent, t)
    <3>1. t \in Tokens /\ t # new
      BY <1>4
    <3>2. QED
      BY <1>4, <1>6, <3>1, AncestorsFrame
  <2>3. QED
    BY <1>4, <2>1, <2>2
<1>12. \A t \in 1..created : Alive(t)' => Alive(t)
  BY <1>4, <1>5, <1>7 DEF Alive, Idle, None
<1>13. Grows
  BY <1>4, <1>5, <1>8, <1>11, <1>12 DEF Grows
<1>14. CallsOK'
  <2>1. \A x \in Threads : x # th => CallOK(call[x])'
    BY <1>7, <1>13, CallFrame DEF IInv, CallsOK
  <2>2. CallOK(call[th])'
    BY <1>7 DEF CallOK
  <2>3. QED
    BY <2>1, <2>2 DEF CallsOK
<1>15. Tree'
  <2>1. \A t \in Tokens : parent'[t] # None => t \in 1..new /\ parent'[t] \in 1..(t - 1)
    BY <1>4, <1>5, <1>6 DEF IInv, Tree, TypeOK
  <2>2. \A p \in Tokens : \A c \in links'[p] : c \in 1..new /\ parent'[c] = p
    <3>1. \A p \in Tokens : \A c \in links'[p] : c \in links[p] \/ (p = from /\ c = new)
      BY <1>9 DEF LiveLinks
    <3>2. QED
      BY <1>4, <1>6, <3>1 DEF IInv, Tree
  <2>3. ASSUME NEW c \in 1..new, parent'[c] # None, Alive(c)'
        PROVE  c \in links'[parent'[c]]
    <3>1. CASE c = new
      BY <1>6, <1>9, <3>1
    <3>2. CASE c \in 1..created
      <4>1. Alive(c) /\ c \in links[parent[c]] /\ parent[c] \in Tokens /\ parent'[c] = parent[c]
        BY <1>4, <1>6, <1>12, <2>3, <3>2 DEF IInv, Tree, TypeOK
      <4>2. QED
        BY <1>9, <4>1 DEF LiveLinks
    <3>3. QED
      BY <1>4, <3>1, <3>2
  <2>4. QED
    BY <1>5, <2>1, <2>2, <2>3 DEF Tree
<1>16. Latches'
  BY <1>5, <1>8 DEF IInv, TypeOK, Latches
<1>17. Room'
  <2>1. Creating' = Creating \ {th}
    BY <1>7 DEF Creating, Idle
  <2>2. QED
    BY <1>2, <1>3, <1>4, <1>5, <2>1, CancellationAssumption DEF IInv, Room, new
<1>18. CancelStaysLocal'
  <2>1. Lineage[from] \subseteq Lineage'[new]
    <3>1. from \in Ancestors(parent', new)
      BY <1>4, <1>6, AncestorsClosed DEF Closed
    <3>2. Ancestors(parent', from) \subseteq Ancestors(parent', new)
      BY <1>4, <1>6, <3>1, AncestorsTransitive
    <3>3. Lineage'[new] = Ancestors(parent', new) /\ Lineage'[from] = Ancestors(parent', from)
      BY <1>4 DEF Lineage
    <3>4. QED
      BY <1>4, <1>11, <3>2, <3>3
  <2>2. ASSUME NEW t \in 1..new, cancelled'[t]
        PROVE  Lineage'[t] \cap called # {}
    <3>1. CASE t = new
      BY <1>4, <1>8, <2>1, <2>2, <3>1 DEF IInv, CancelStaysLocal
    <3>2. CASE t \in 1..created
      BY <1>8, <1>11, <2>2, <3>2 DEF IInv, CancelStaysLocal
    <3>3. QED
      BY <1>4, <3>1, <3>2
  <2>3. QED
    BY <1>5, <2>2 DEF CancelStaysLocal
<1>19. QED
  BY <1>10, <1>14, <1>15, <1>16, <1>17, <1>18 DEF IInv

-----------------------------------------------------------------------------
(* The theorems. *)

\* Every step of the token tree preserves the invariant.
LEMMA NextInv == IInv /\ [Next]_vars => IInv'
<1> SUFFICES ASSUME IInv, [Next]_vars
             PROVE  IInv'
  OBVIOUS
<1>1. CASE \E th \in Threads, t \in Tokens : CancelBegin(th, t)
  BY <1>1, CancelBeginInv
<1>2. CASE \E th \in Threads, t \in Tokens, op \in {"is_cancelled", "child"} :
             WalkBegin(th, op, t)
  BY <1>2, WalkBeginInv
<1>3. ASSUME NEW th \in Threads, Step(th)
      PROVE  IInv'
  BY <1>3, CancelStoreInv, CancelCollectInv, WalkFoundInv, WalkLoadInv, WalkUpInv,
     WalkEndInv, LinkInv DEF Step
<1>4. CASE \E t \in Tokens : Drop(t)
  BY <1>4, DropInv
<1>5. CASE UNCHANGED vars
  <2>1. UNCHANGED <<created, parent, cancelled, links, handles, call, returned, called, answered>>
    BY <1>5 DEF vars
  <2>2. Lineage' = Lineage /\ \A t \in 1..created : Alive(t)' => Alive(t)
    BY <2>1 DEF Lineage, Alive
  <2>3. Grows
    BY <2>1, <2>2 DEF Grows
  <2>4. CallsOK'
    BY <2>1, <2>3, CallFrame DEF IInv, CallsOK
  <2>5. Tree'
    BY <2>1, <2>2 DEF IInv, Tree
  <2>6. TypeOK' /\ Latches' /\ Room' /\ CancelStaysLocal'
    BY <2>1, <2>2 DEF IInv, TypeOK, Latches, Room, Creating, CancelStaysLocal
  <2>7. QED
    BY <2>4, <2>5, <2>6 DEF IInv
<1>6. QED
  BY <1>1, <1>2, <1>3, <1>4, <1>5 DEF Next

\* The invariant holds in every behaviour: calls hold the tokens they should.
THEOREM Invariance == Spec => []IInv
BY InitInv, NextInv, PTL DEF Spec

\* The state of the tokens and of the running calls keeps its types; in
\* particular child() never runs past the tokens it has room for.
THEOREM TypeCorrect == Spec => []TypeOK
<1>1. IInv => TypeOK
  BY DEF IInv
<1>2. QED
  BY <1>1, Invariance, PTL

\* Cancelling a branch never sets a token outside it, however cancel(),
\* is_cancelled()'s latching and child() interleave.
THEOREM CancelLocality == Spec => []CancelStaysLocal
<1>1. IInv => CancelStaysLocal
  BY DEF IInv
<1>2. QED
  BY <1>1, Invariance, PTL

\* Once is_cancelled() has answered true, the token's own flag is set for good.
THEOREM FinalAnswers == Spec => []AnswersAreFinal
<1>1. IInv => AnswersAreFinal
  BY DEF IInv, Latches, AnswersAreFinal
<1>2. QED
  BY <1>1, Invariance, PTL

\* A check that begins after cancel() has returned on an ancestor does not
\* answer false while the tokens in between are alive.
THEOREM CancelObserved == Spec => CancelIsObserved
<1> DEFINE Observed ==
      \A th \in Threads : WalkEnd(th) => \A a \in call[th].owed : ~Unbroken(call[th].token, a)
<1>1. IInv /\ [Next]_vars => [Observed]_vars
  <2> SUFFICES ASSUME IInv, NEW th \in Threads, WalkEnd(th), NEW a \in call[th].owed,
                      Unbroken(call[th].token, a)
               PROVE  FALSE
    OBVIOUS
  <2> DEFINE at == call[th].at
  <2>1. WalkOK(call[th]) /\ call[th].pc = "upgrade"
    BY CallAtPc DEF WalkEnd
  <2>2. at \in 1..created /\ at \in Lineage[call[th].token] /\ call[th].token \in 1..created
    BY <2>1 DEF WalkOK
  <2>3. a \in Lineage[at] /\ a # at
    BY <2>1 DEF WalkOK
  <2>4. parent[at] # None /\ a \in Lineage[parent[at]] /\ parent[at] \in Lineage[at]
    BY <2>2, <2>3, LineageFacts DEF IInv
  <2>5. parent[at] \in Path(call[th].token, a)
    BY <2>2, <2>4, LineageFacts DEF Path, IInv
  <2>6. Alive(parent[at])
    BY <2>5 DEF Unbroken
  <2>7. QED
    BY <2>4, <2>6 DEF WalkEnd, Upgrade
<1>2. QED
  BY <1>1, Invariance, PTL DEF CancelIsObserved, Spec

\* When cancel() returns, every descendant linked when it was called is set,
\* unless a token in between was dropped meanwhile: children created, links
\* pruned and flags latched by other threads do not hide one from the worklist.
THEOREM CancelFanOut == Spec => CancelFansOut
<1> DEFINE FansOut ==
      \A th \in Threads : (call[th].pc = "collect" /\ call'[th] = Idle) =>
        \A d \in call[th].owed : Unbroken(d, call[th].token) => cancelled[d]
<1>1. IInv /\ [Next]_vars => [FansOut]_vars
  <2> SUFFICES ASSUME IInv, [Next]_vars, NEW th \in Threads,
                      call[th].pc = "collect", call'[th] = Idle,
                      NEW d \in call[th].owed, Unbroken(d, call[th].token), ~cancelled[d]
               PROVE  FALSE
    OBVIOUS
  <2>1. CancelOK(call[th])
    BY CallAtPc
  <2>2. CancelCollect(th)
    <3>1. call'[th] # call[th]
      BY DEF Idle
    <3>2. ASSUME NEW x \in Threads, x # th
          PROVE  /\ \A t \in Tokens : ~CancelBegin(x, t)
                 /\ \A t \in Tokens, op \in {"is_cancelled", "child"} : ~WalkBegin(x, op, t)
                 /\ ~Step(x)
      BY <3>1, <3>2 DEF IInv, TypeOK, CancelBegin, WalkBegin, Step, CancelStore, CancelCollect,
         WalkFound, WalkLoad, WalkUp, WalkEnd, WalkDone, Link
    <3>3. /\ \A t \in Tokens : ~CancelBegin(th, t)
          /\ \A t \in Tokens, op \in {"is_cancelled", "child"} : ~WalkBegin(th, op, t)
      BY DEF CancelBegin, WalkBegin, Idle
    <3>4. Step(th)
      BY <3>1, <3>2, <3>3 DEF Next, vars, Drop
    <3>5. QED
      BY <3>4 DEF Step, CancelStore, WalkFound, WalkLoad, WalkUp, WalkEnd, Link
  <2>3. PICK w \in call[th].held \cup LiveLinks(call[th].at) : w \in Lineage[d]
    BY <2>1, OwedBelowWork
  <2>4. PICK next \in call[th].held \cup LiveLinks(call[th].at) :
          call' = [call EXCEPT ![th].pc = "store", ![th].at = next,
                    ![th].held = (call[th].held \cup LiveLinks(call[th].at)) \ {next}]
    BY <2>2, <2>3 DEF CancelCollect
  <2>5. call'[th].pc = "store"
    BY <2>4 DEF IInv, TypeOK, Calls
  <2>6. QED
    BY <2>5 DEF Idle
<1>2. QED
  BY <1>1, Invariance, PTL DEF CancelFansOut, Spec
=============================================================================
