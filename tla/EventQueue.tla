----------------------------- MODULE EventQueue -----------------------------
(***************************************************************************)
(* The bounded queue between the file-event stream and the live index      *)
(* (crates/index/src/backpressure.rs): events wait in a visible or in a    *)
(* background queue, an event that repeats a waiting one replaces it in    *)
(* place, a full queue drops events and asks for a repair, and a drain     *)
(* takes a batch in which the visible events come in bursts.               *)
(*                                                                         *)
(* An event is a record of a kind, where a rename comes from (else the     *)
(* path) and the path, which is where a rename leads.  The counters of     *)
(* dropped and coalesced events are diagnostics and left out.              *)
(***************************************************************************)
EXTENDS Naturals, Sequences, SequencesExt

CONSTANTS
    Arrivals,       \* the events the stream may deliver
    max_pending,    \* events that may wait, both queues together
    visible_burst,  \* visible events drained before a background one has its turn
    Batches         \* the batch sizes the consumer asks for

SizesAssumption ==
    /\ max_pending \in Nat \ {0}
    /\ visible_burst \in Nat \ {0}
    /\ Batches \subseteq Nat

VARIABLES
    visible,          \* the waiting events of visible folders, oldest first
    background,       \* the other waiting events, oldest first
    repair_required,  \* an event was lost: the index needs a repair
    drained           \* the batch handed out last

queueVars == <<visible, background, repair_required>>
eventVars == <<visible, background, repair_required, drained>>

Priorities == {"Visible", "Background"}
Rescan == [kind |-> "Rescan", path |-> <<>>, to |-> <<>>]

pending == Len(visible) + Len(background)

\* Two events with the same key are one event.  The key of a rename is made of both paths,
\* but pushing an absolute path on another one replaces that: what is left is the path
\* the rename leads to, which is the key of any other event there.
coalesce_key(e) == e.to

\* What is left of a waiting event when one with its key arrives.
coalesced_event(existing, incoming) ==
    [incoming EXCEPT !.kind =
        CASE existing.kind = "Create" /\ incoming.kind \in {"Metadata", "Modify"} -> "Create"
          [] {existing.kind, incoming.kind} = {"Metadata", "Modify"} -> "Modify"
          [] OTHER -> incoming.kind]

\* The youngest waiting event with e's key, or 0.
Twin(queue, e) == Max({0} \cup {i \in 1..Len(queue) : coalesce_key(queue[i]) = coalesce_key(e)})

-----------------------------------------------------------------------------
Init ==
    /\ visible = <<>>
    /\ background = <<>>
    /\ repair_required = FALSE
    /\ drained = <<>>

\* A rescan makes every waiting event pointless.
EnqueueRescan ==
    /\ visible' = <<>>
    /\ background' = <<Rescan>>
    /\ repair_required' = TRUE

Merge(queue, e) ==
    LET i == Twin(queue, e) IN [queue EXCEPT ![i] = coalesced_event(queue[i], e)]

Queue(priority) == IF priority = "Visible" THEN visible ELSE background
HasTwin(priority, e) == Twin(Queue(priority), e) > 0

\* coalesce: only the queue of the event's own priority is searched.
Coalesce(priority, e) ==
    /\ HasTwin(priority, e)
    /\ visible' = IF priority = "Visible" THEN Merge(visible, e) ELSE visible
    /\ background' = IF priority = "Background" THEN Merge(background, e) ELSE background
    /\ UNCHANGED repair_required

\* make_room: the oldest background event goes first; a visible one only makes
\* way for another visible one, and only out of more than a burst of them.
make_room(priority) ==
    IF pending < max_pending THEN [visible |-> visible, background |-> background]
    ELSE IF background # <<>>
      THEN [visible |-> visible, background |-> Tail(background)]
    ELSE IF priority = "Visible" /\ Len(visible) > visible_burst
      THEN [visible |-> Tail(visible), background |-> background]
    ELSE [visible |-> visible, background |-> background]

IsFull(room) == Len(room.visible) + Len(room.background) >= max_pending

\* Mutant: making room is not reported as a loss.
NeverMadeBySomeLoss(room) == FALSE

MadeBySomeLoss(room) == Len(room.visible) + Len(room.background) < pending

\* A new event waits at the end of its queue, unless there is no room for it.
AppendEvent(priority, e) ==
    LET room == make_room(priority)
        Joined(queue, p) == IF p = priority /\ ~IsFull(room) THEN Append(queue, e) ELSE queue
    IN  /\ ~HasTwin(priority, e)
        /\ visible' = Joined(room.visible, "Visible")
        /\ background' = Joined(room.background, "Background")
        /\ repair_required' = (repair_required \/ IsFull(room) \/ MadeBySomeLoss(room))

enqueue(priority, e) ==
    IF e.kind = "Rescan" THEN EnqueueRescan
    ELSE Coalesce(priority, e) \/ AppendEvent(priority, e)

-----------------------------------------------------------------------------
Whole == [visible |-> visible, background |-> background, credit |-> 0, out |-> <<>>]

\* Mutant: background events are served only when no visible one waits.
DrainVisibleFirst(s) ==
    IF s.visible # <<>>
      THEN [s EXCEPT !.visible = Tail(@), !.out = Append(@, Head(s.visible))]
    ELSE [s EXCEPT !.background = Tail(@), !.out = Append(@, Head(s.background))]

\* One turn of the loop: a visible event while the burst lasts, else a background
\* event, which starts a new burst, else a visible one.
DrainOne(s) ==
    IF s.visible # <<>> /\ (s.credit < visible_burst \/ s.background = <<>>)
      THEN [s EXCEPT !.visible = Tail(@), !.credit = @ + 1, !.out = Append(@, Head(s.visible))]
    ELSE [s EXCEPT !.background = Tail(@), !.credit = 0, !.out = Append(@, Head(s.background))]

\* The queues and the batch after a drain of at most max events.
drain_batch_mutating(max) ==
    LET most == IF max < pending THEN max ELSE pending
        turns[n \in 0..most] == IF n = 0 THEN Whole ELSE DrainOne(turns[n - 1])
    IN  turns[most]

\* drain_batch_checked works on a copy and commits it at the end: a cancelled drain
\* leaves everything as it was.
drain_batch(max) ==
    LET staged == drain_batch_mutating(max)
    IN  /\ visible' = staged.visible
        /\ background' = staged.background
        /\ drained' = staged.out
        /\ UNCHANGED repair_required

-----------------------------------------------------------------------------
Deliver == \E priority \in Priorities, e \in Arrivals :
             enqueue(priority, e) /\ UNCHANGED drained
Drain == \E max \in Batches : drain_batch(max)

Next == Deliver \/ Drain
Spec == Init /\ [][Next]_eventVars

\* A batch with room for more than one burst of visible events.
DrainPastBurst == \E max \in Batches : max > visible_burst /\ pending > 0 /\ drain_batch(max)

-----------------------------------------------------------------------------
Keys(queue) == {coalesce_key(queue[i]) : i \in 1..Len(queue)}

\* Of a path with an event in the background queue, an event is handed out in the end,
\* the waiting one or a later one that took its place, however many events of visible
\* folders keep arriving.
BackgroundProgresses ==
    \A key \in {coalesce_key(e) : e \in Arrivals} :
        key \in Keys(background) ~> key \in Keys(drained) \/ repair_required
=============================================================================
