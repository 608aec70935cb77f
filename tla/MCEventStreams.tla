---------------------------- MODULE MCEventStreams ----------------------------
(***************************************************************************)
(* What the file manager learns of the world through streams of events:    *)
(* the files of the live index, the gaps of a resumed stream, and the      *)
(* mounted volumes.                                                        *)
(*                                                                         *)
(* The three share no state, so their steps commute and a property of one  *)
(* of them holds in every interleaving iff it holds while the others rest: *)
(* a behaviour here follows one part.                                      *)
(*   live     files change, and the index follows through the event queue  *)
(*   queue    the event queue alone, under any arrivals                    *)
(*   repair   a stream loses, repeats and drops events                     *)
(*   mounts   volumes come, go and change their paths                      *)
(***************************************************************************)
EXTENDS LiveIndex, VolumeEvents, RepairSchedule

VARIABLE part   \* the part the behaviour follows

-----------------------------------------------------------------------------
\* The live index over three names with a child each, one of them shown, in an
\* environment it can follow.
ASSUME InstanceIsCareful == Careful

ShownPaths == {<<"a">>, <<"a", "child">>}

\* The event queue under a few events: three paths and a rename between two of them.
Alone == INSTANCE EventQueue WITH
    Arrivals <- {Event("Create", <<"a">>), Event("Modify", <<"a">>), Event("Remove", <<"b">>),
                 [kind |-> "Rename", path |-> <<"a">>, to |-> <<"b">>], Event("Create", <<"c">>), Rescan},
    max_pending <- 3, drained <- batch

\* Subtrees below, beside and above each other.
Subtrees == {<<>>, <<1>>, <<1, 2>>, <<1, 3>>, <<2>>}

streamVars == <<liveVars, repairVars, mountVars, part>>

-----------------------------------------------------------------------------
\* What is mounted at first matters to the volumes only.
StreamInit ==
    /\ LiveInit /\ RepairInit /\ VolumesInit
    /\ part \in {"live", "queue", "repair", "mounts"}
    /\ part # "mounts" => \A v \in DOMAIN mounted : mounted[v] = NoPath

OfLive(A) == A /\ UNCHANGED <<repairVars, mountVars, part>>
OfQueue(A) == A /\ UNCHANGED <<disk, made, edits, index, stream, tangled, repairVars, mountVars, part>>
OfRepair(A) == A /\ UNCHANGED <<liveVars, mountVars, part>>
OfVolumes(A) == A /\ UNCHANGED <<liveVars, repairVars, part>>

\* Nothing more is said of the index once a repair is required or no name is untangled.
LiveBound == ~repair_required /\ tangled' # Tops

StreamNext ==
    \/ part = "live" /\ OfLive(LiveNext) /\ LiveBound
    \/ part = "queue" /\ OfQueue(Alone!Next)
    \/ part = "repair" /\ OfRepair(RepairNext)
    \/ part = "mounts" /\ OfVolumes(VolumesNext)

\* The consumer keeps draining batches with room for more than one burst.
StreamFairness == WF_streamVars(part = "queue" /\ OfQueue(Alone!DrainPastBurst))

StreamSpec == StreamInit /\ [][StreamNext]_streamVars /\ StreamFairness

-----------------------------------------------------------------------------
\* Of a path with an event in the background queue, an event is handed out in the end,
\* that one or a later one that took its place, however many events of visible folders
\* keep arriving, or a repair is required (EventQueue: drain_batch).
BackgroundIsServed == part = "queue" => Alone!BackgroundProgresses
=============================================================================
