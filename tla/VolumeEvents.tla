---------------------------- MODULE VolumeEvents ----------------------------
(***************************************************************************)
(* The mounted volumes as the file manager knows them                      *)
(* (crates/mac/src/volume.rs).                                             *)
(*                                                                         *)
(* DiskArbitration reports that a volume appeared, disappeared or changed. *)
(* VolumeEventStream queues the reports.  drain_into_state_checked takes a *)
(* batch of them, keeps the last report of each volume, asks the file      *)
(* system which volume is mounted at the reported path NOW, and applies    *)
(* the result to VolumeEventState: a list of volumes with an index by      *)
(* identity and an index by mount path.  A report that a volume has gone   *)
(* is matched by its path alone.                                           *)
(*                                                                         *)
(* A descriptor is reduced to the identity of the volume and its path.     *)
(* The stream's channel and the queue of events that were put back form    *)
(* one sequence, because the put-back ones are always read first.          *)
(***************************************************************************)
EXTENDS Naturals, Sequences, SequencesExt, Functions, FiniteSets

CONSTANTS Volumes,       \* the identities of the volumes
          MountPaths,    \* the mount paths
          NoPath,        \* of a volume that is not mounted
          MaxBatch,      \* bound: largest max_events of a drain
          MaxChanges     \* bound: changes of the mounted volumes

ASSUME VolumesAssumption ==
    /\ NoPath \notin MountPaths \union Volumes /\ IsFiniteSet(Volumes)
    /\ MaxBatch \in Nat \ {0} /\ MaxChanges \in Nat

\* calm is a history variable: no volume has changed its path so far, none was mounted
\* at a path that a waiting report of another one names, and no drain was stopped.
VARIABLES mounted,   \* where each volume is mounted, in reality
          reports,   \* the reports that were not taken yet
          state,     \* VolumeEventState
          changes,   \* how many changes there were
          calm

mountVars == <<mounted, reports, state, changes, calm>>

Descriptor == [id : Volumes, path : MountPaths]

Report == [kind : {"Appeared", "DescriptionChanged", "Disappeared"},
           id : Volumes, path : MountPaths]

\* DiskArbitration itself failed: the report names no volume.
Unavailable == [kind |-> "Unavailable"]

NoVolume == [kind |-> "None"]

Mounted == {[id |-> v, path |-> mounted[v]] : v \in {w \in Volumes : mounted[w] # NoPath}}

-----------------------------------------------------------------------------
(* VolumeEventState.                                                       *)

\* rebuild_indexes: a later volume of the list hides an earlier one.
Indexed(list) ==
    [volumes |-> list,
     stable  |-> [v \in {d.id : d \in Range(list)} |->
                     CHOOSE i \in DOMAIN list :
                         list[i].id = v /\ \A j \in DOMAIN list : list[j].id = v => j <= i],
     path    |-> [p \in {d.path : d \in Range(list)} |->
                     CHOOSE i \in DOMAIN list :
                         list[i].path = p /\ \A j \in DOMAIN list : list[j].path = p => j <= i]]

Without(f, x) == Restrict(f, DOMAIN f \ {x})
With(f, x, y) == [z \in DOMAIN f \union {x} |-> IF z = x THEN y ELSE f[z]]

\* Mutant: the moved volume stays listed under its old path.
UpsertKeepingPath(s, d) ==
    IF d.id \in DOMAIN s.stable
    THEN [s EXCEPT !.volumes[s.stable[d.id]] = d]
    ELSE [volumes |-> Append(s.volumes, d),
          stable  |-> With(s.stable, d.id, Len(s.volumes) + 1),
          path    |-> With(s.path, d.path, Len(s.volumes) + 1)]

upsert(s, d) ==
    IF d.id \in DOMAIN s.stable
    THEN LET i   == s.stable[d.id]
             old == s.volumes[i].path
         IN  [s EXCEPT !.volumes[i] = d,
                       !.path = IF old = d.path THEN @
                                ELSE With(Without(@, old), d.path, i)]
    ELSE IF d.path \in DOMAIN s.path
    THEN LET i == s.path[d.path]
         IN  [s EXCEPT !.volumes[i] = d,
                       !.stable = With(Without(@, s.volumes[i].id), d.id, i)]
    ELSE [volumes |-> Append(s.volumes, d),
          stable  |-> With(s.stable, d.id, Len(s.volumes) + 1),
          path    |-> With(s.path, d.path, Len(s.volumes) + 1)]

remove_by_stable_identity(s, v) == Indexed(RemoveAt(s.volumes, s.stable[v]))

\* The volume a report is about: by identity when it could be resolved,
\* else by path.
matching_previous(s, e, current) ==
    IF current # NoVolume /\ current.id \in DOMAIN s.stable
    THEN s.volumes[s.stable[current.id]]
    ELSE IF e.path \in DOMAIN s.path THEN s.volumes[s.path[e.path]]
    ELSE NoVolume

\* native_event_descriptor_checked: what is mounted at the path now.  A
\* volume that has gone is not looked up.
Resolved(e) ==
    IF e.kind = "Disappeared" THEN NoVolume
    ELSE LET there == {d \in Mounted : d.path = e.path}
         IN  IF there = {} THEN NoVolume ELSE CHOOSE d \in there : TRUE

\* apply_parts_transition with volume_event_transition_applies.
apply_parts_transition(s, e) ==
    IF e.kind = "Unavailable" THEN s
    ELSE LET current  == Resolved(e)
             previous == matching_previous(s, e, current)
         IN  IF e.kind = "Disappeared"
             THEN IF previous = NoVolume THEN s ELSE remove_by_stable_identity(s, previous.id)
             ELSE IF current = NoVolume \/ current = previous THEN s
             ELSE upsert(s, current)

-----------------------------------------------------------------------------
(* Coalescing.                                                             *)

\* The volume, or the one key of all reports of unavailability.
CoalescingKey(e) == IF e.kind = "Unavailable" THEN NoPath ELSE e.id

\* Mutant: a volume that reappears takes the place of its disappearance.
CoalesceAcross(c, e) ==
    LET k == CoalescingKey(e)
    IN  IF k \in DOMAIN c.key THEN [c EXCEPT !.kept[c.key[k]] = e]
        ELSE [kept |-> Append(c.kept, e), key |-> With(c.key, k, Len(c.kept) + 1),
              gone |-> c.gone]

\* One report joins the batch c: the reports kept so far, the place of the
\* last report of each volume that is there, and of each that has gone.  A
\* later report takes the place of the earlier one, but a volume that comes
\* back after it has gone gets a place of its own.
CoalesceOne(c, e) ==
    LET k     == CoalescingKey(e)
        place == Len(c.kept) + 1
    IN  CASE e.kind = "Disappeared" /\ k \in DOMAIN c.key ->
                 [kept |-> [c.kept EXCEPT ![c.key[k]] = e],
                  key  |-> Without(c.key, k),
                  gone |-> With(c.gone, k, c.key[k])]
          [] e.kind = "Disappeared" /\ k \notin DOMAIN c.key /\ k \in DOMAIN c.gone ->
                 [c EXCEPT !.kept[c.gone[k]] = e]
          [] e.kind = "Disappeared" /\ k \notin DOMAIN c.key \union DOMAIN c.gone ->
                 [kept |-> Append(c.kept, e), key |-> c.key, gone |-> With(c.gone, k, place)]
          [] e.kind # "Disappeared" /\ k \in DOMAIN c.key ->
                 [c EXCEPT !.kept[c.key[k]] = e]
          [] OTHER ->
                 [kept |-> Append(c.kept, e), key |-> With(c.key, k, place),
                  gone |-> Without(c.gone, k)]

\* The batch after each report.
Joined(events) ==
    LET joined[i \in 0..Len(events)] ==
            IF i = 0 THEN [kept |-> <<>>, key |-> <<>>, gone |-> <<>>]
            ELSE CoalesceOne(joined[i - 1], events[i])
    IN  joined

Coalesced(events) == Joined(events)[Len(events)].kept

-----------------------------------------------------------------------------
(* The steps.                                                              *)

\* The volumes were discovered and the stream was started: DiskArbitration
\* reports every volume that is there already.
VolumesInit ==
    /\ mounted \in {m \in [Volumes -> MountPaths \union {NoPath}] :
                       \A v, w \in Volumes : m[v] = m[w] /\ v # w => m[v] = NoPath}
    /\ LET list == SetToSeq(Mounted)
       IN  /\ state = Indexed(list)
           /\ reports = [i \in DOMAIN list |->
                           [kind |-> "Appeared", id |-> list[i].id, path |-> list[i].path]]
    /\ changes = 0 /\ calm = TRUE

\* A change of what is mounted, and its report.
ChangeMounts(v, p, report) ==
    /\ changes < MaxChanges
    /\ p = NoPath \/ \A w \in Volumes : mounted[w] # p
    /\ mounted' = [mounted EXCEPT ![v] = p]
    /\ reports' = Append(reports, report)
    /\ changes' = changes + 1
    /\ UNCHANGED state

\* Every waiting report that names p is one of v.
LeftTo(v, p) ==
    \A i \in DOMAIN reports :
        reports[i].kind # "Unavailable" /\ reports[i].path = p => reports[i].id = v

Mount(v, p) ==
    /\ mounted[v] = NoPath
    /\ calm' = (calm /\ LeftTo(v, p))
    /\ ChangeMounts(v, p, [kind |-> "Appeared", id |-> v, path |-> p])

Unmount(v) ==
    /\ mounted[v] # NoPath
    /\ UNCHANGED calm
    /\ ChangeMounts(v, NoPath, [kind |-> "Disappeared", id |-> v, path |-> mounted[v]])

Rename(v, p) ==
    /\ mounted[v] \notin {NoPath, p}
    /\ calm' = FALSE
    /\ ChangeMounts(v, p, [kind |-> "DescriptionChanged", id |-> v, path |-> p])

\* The volume changed in some way other than its path, or DiskArbitration
\* reported a failure of its own.
Notice(report) ==
    /\ changes < MaxChanges
    /\ reports' = Append(reports, report)
    /\ changes' = changes + 1
    /\ UNCHANGED <<mounted, state, calm>>

NoticeChange(v) ==
    /\ mounted[v] # NoPath
    /\ Notice([kind |-> "DescriptionChanged", id |-> v, path |-> mounted[v]])

NoticeFailure == Notice(Unavailable)

\* apply_events_with_counts_checked: the state after each event.
Staged(events) ==
    LET staged[i \in 0..Len(events)] ==
            IF i = 0 THEN state ELSE apply_parts_transition(staged[i - 1], events[i])
    IN  staged

\* drain_into_state_checked: n events are taken, coalesced, resolved and
\* applied to a copy of the state, which replaces it.
drain_into_state(n) ==
    /\ n <= Len(reports)
    /\ LET events == Coalesced(SubSeq(reports, 1, n)) IN state' = Staged(events)[Len(events)]
    /\ reports' = SubSeq(reports, n + 1, Len(reports))
    /\ UNCHANGED <<mounted, changes, calm>>

\* The control check of the polling loop stops the drain when n events are
\* taken: they are gone.  A drain stopped later puts its events back and
\* drops the copy: nothing changes.
drain_stopped(n) ==
    /\ n <= Len(reports)
    /\ n < MaxBatch
    /\ reports' = SubSeq(reports, n + 1, Len(reports))
    /\ calm' = FALSE
    /\ UNCHANGED <<mounted, state, changes>>

World ==
    \/ \E v \in Volumes, p \in MountPaths : Mount(v, p) \/ Rename(v, p)
    \/ \E v \in Volumes : Unmount(v) \/ NoticeChange(v)
    \/ NoticeFailure

VolumesNext ==
    \/ World
    \/ \E n \in 1..MaxBatch : drain_into_state(n) \/ drain_stopped(n)

VolumesSpec == VolumesInit /\ [][VolumesNext]_mountVars

-----------------------------------------------------------------------------
(* Properties.                                                             *)

\* Types of the state.
VolumesTypeOK ==
    /\ mounted \in [Volumes -> MountPaths \union {NoPath}]
    /\ reports \in Seq(Report \union {Unavailable})
    /\ state.volumes \in Seq(Descriptor)
    /\ DOMAIN state.stable \subseteq Volumes /\ DOMAIN state.path \subseteq MountPaths
    /\ Range(state.stable) \union Range(state.path) \subseteq DOMAIN state.volumes
    /\ changes \in 0..MaxChanges /\ calm \in BOOLEAN

\* upsert and remove keep the two indexes by hand: no volume is listed
\* twice, each is found under its identity and nothing else is, and a path of
\* the index leads to a volume that is listed there.  (Two volumes may be
\* listed at one path for a while, and then the index leads to one of them.)
IndexesAgree ==
    LET list == state.volumes
    IN  /\ DOMAIN state.stable = {d.id : d \in Range(list)}
        /\ \A i \in DOMAIN list : state.stable[list[i].id] = i
        /\ \A p \in DOMAIN state.path : list[state.path[p]].path = p

\* The sidebar, the operation policy and the index are told of what is
\* mounted through this state: once every report has been drained, it holds
\* the volumes that are mounted, each at its path, whatever was coalesced and
\* however late a report was resolved.
TracksMounts == calm /\ reports = <<>> => Range(state.volumes) = Mounted
=============================================================================
