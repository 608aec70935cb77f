--------------------------- MODULE ContentManifest ---------------------------
(***************************************************************************)
(* The manifest of content archives: which archives a content search reads. *)
(* A promotion puts a compacted archive in and retires others, guarded by a *)
(* journal; segment maintenance adds an archive without one; cleanup        *)
(* deletes retired archives; and two recoveries finish an interrupted       *)
(* promotion or replace a damaged manifest (crates/store/src/contentset.rs  *)
(* and contentrecover.rs, crates/index/src/content.rs).                     *)
(*                                                                         *)
(* Every file is replaced atomically (durable.rs), so a step of an action  *)
(* is one such replacement or one removal.  A process may be cancelled     *)
(* between two of them (check_control) or die; either way its local state  *)
(* is gone and the files stay.  An archive holds documents, named after    *)
(* the archive that first held them; a manifest is the set of its archives *)
(* (their tiers and order do not matter here).                             *)
(***************************************************************************)
EXTENDS Naturals, FiniteSets

CONSTANTS
    Archives,   \* archive files
    Origin,     \* the archives of the first manifest
    Writers,    \* processes that work on one manifest
    Commands,   \* the commands they run, see ContentNext
    MaxContentStops,  \* cancellations and crashes
    MaxContentDamage  \* files damaged from outside

\* There is something to search to begin with.
ASSUME OriginAssumption == Origin \subseteq Archives /\ Origin # {}

\* No lock is taken on the manifest: what holds for one process at a time is stated
\* under this condition.
OneWriter == \A p, q \in Writers : p = q

VARIABLES
    file,       \* the state of each archive file: none, ok or bad
    contents,   \* the documents of each archive
    manifest,   \* [state : ok, archives] or a missing or bad manifest
    journal,    \* the promotion journal, or NoJournal
    retired,    \* archives that a promotion has reported as retired
    task,       \* what each process is doing
    published,  \* documents that some manifest has offered to a search
    content_stops, content_damage

contentVars ==
    <<file, contents, manifest, journal, retired, task, published, content_stops, content_damage>>
files == <<file, contents, manifest, journal>>

Manifest(archives) == [state |-> "ok", archives |-> archives]
Missing == [state |-> "missing", archives |-> {}]
Damaged == [state |-> "bad", archives |-> {}]
NoJournal == [state |-> "none", previous |-> {}, new |-> {}, retire |-> {}]
Pending(previous, new, retire) ==
    [state |-> "pending", previous |-> previous, new |-> new, retire |-> retire]

\* A process's step, the manifest it has read, its new archive and those it retires.
Task(pc, seen, new, retire) == [pc |-> pc, seen |-> seen, new |-> new, retire |-> retire]
NoTask == Task("idle", {}, {}, {})

Documents(archives) == UNION {contents[a] : a \in archives}
Readable(a) == file[a] = "ok"
Offered == Documents({a \in manifest.archives : Readable(a)})

Do(p, step) == task' = [task EXCEPT ![p] = step]

\* promote_archive: the retired archives go, and an older one of the new path.
promote_archive(previous, new, retire) == (previous \ retire) \cup new

WriteManifest(archives) ==
    /\ manifest' = Manifest(archives)
    /\ published' = published \cup Documents({a \in archives : Readable(a)})

-----------------------------------------------------------------------------
ContentInit ==
    /\ file = [a \in Archives |-> IF a \in Origin THEN "ok" ELSE "none"]
    /\ contents = [a \in Archives |-> IF a \in Origin THEN {a} ELSE {}]
    /\ manifest = Manifest(Origin)
    /\ journal = NoJournal
    /\ retired = {}
    /\ task = [p \in Writers |-> NoTask]
    /\ published = Origin
    /\ content_stops = 0 /\ content_damage = 0

\* promote_content_archive_manifest: the archive a, just compacted from some of the
\* active ones, is to replace them.  The manifest is read first.  An output path is
\* never used twice (the caller picks it): contents remembers the removed ones.
StartPromotion(p, a, retire) ==
    /\ "promote" \in Commands /\ task[p] = NoTask
    /\ manifest.state = "ok"
    /\ retire \subseteq manifest.archives /\ retire # {}
    /\ \A r \in retire : Readable(r)
    /\ contents[a] = {}
    /\ file' = [file EXCEPT ![a] = "ok"]
    /\ contents' = [contents EXCEPT ![a] = Documents(retire)]
    /\ Do(p, Task("journal", manifest.archives, {a}, retire))
    /\ UNCHANGED <<manifest, journal, retired, published, content_stops, content_damage>>

WriteJournal(p) ==
    /\ task[p].pc = "journal"
    /\ journal' = Pending(task[p].seen, task[p].new, task[p].retire)
    /\ Do(p, [task[p] EXCEPT !.pc = "promote"])
    /\ UNCHANGED <<file, contents, manifest, retired, published, content_stops, content_damage>>

Promote(p) ==
    /\ task[p].pc = "promote"
    /\ WriteManifest(promote_archive(task[p].seen, task[p].new, task[p].retire))
    /\ Do(p, [task[p] EXCEPT !.pc = "forget"])
    /\ UNCHANGED <<file, contents, journal, retired, content_stops, content_damage>>

\* The journal goes, and the caller learns which archives are retired.
FinishPromotion(p) ==
    /\ task[p].pc = "forget"
    /\ journal' = NoJournal
    /\ retired' = retired \cup task[p].retire
    /\ Do(p, NoTask)
    /\ UNCHANGED <<file, contents, manifest, published, content_stops, content_damage>>

-----------------------------------------------------------------------------
\* maintain_segments: the segments are compacted into an archive of new documents.
CompactSegments(p, a) ==
    /\ "maintain" \in Commands /\ task[p] = NoTask
    /\ contents[a] = {}
    /\ file' = [file EXCEPT ![a] = "ok"]
    /\ contents' = [contents EXCEPT ![a] = {a}]
    /\ Do(p, Task("compacted", {}, {a}, {}))
    /\ UNCHANGED <<manifest, journal, retired, published, content_stops, content_damage>>

ReadForMaintenance(p) ==
    /\ task[p].pc = "compacted"
    /\ Do(p, IF manifest.state = "ok" THEN [task[p] EXCEPT !.pc = "maintain", !.seen = manifest.archives] ELSE NoTask)
    /\ UNCHANGED <<files, retired, published, content_stops, content_damage>>

\* Mutant: a manifest that has changed since the first one is left alone.
PublishSometimes(p) ==
    /\ task[p].pc = "maintain"
    /\ IF task[p].seen = Origin THEN WriteManifest(promote_archive(task[p].seen, task[p].new, {}))
                               ELSE UNCHANGED <<manifest, published>>
    /\ Do(p, NoTask)
    /\ UNCHANGED <<file, contents, journal, retired, content_stops, content_damage>>

\* The new archive joins the manifest that was read; no journal is involved.
PublishMaintenance(p) ==
    /\ task[p].pc = "maintain"
    /\ WriteManifest(promote_archive(task[p].seen, task[p].new, {}))
    /\ Do(p, NoTask)
    /\ UNCHANGED <<file, contents, journal, retired, content_stops, content_damage>>

-----------------------------------------------------------------------------
\* cleanup_inactive_content_archives: the manifest is read once, then the retired
\* archives it does not name are removed one by one.
StartCleanup(p) ==
    /\ "cleanup" \in Commands /\ task[p] = NoTask
    /\ manifest.state = "ok" /\ retired # {}
    /\ Do(p, Task("cleanup", manifest.archives, {}, retired))
    /\ UNCHANGED <<files, retired, published, content_stops, content_damage>>

RemoveArchive(p, a) ==
    /\ task[p].pc = "cleanup" /\ a \in task[p].retire
    /\ file' = IF a \notin task[p].seen THEN [file EXCEPT ![a] = "none"] ELSE file
    /\ Do(p, IF task[p].retire = {a} THEN NoTask ELSE [task[p] EXCEPT !.retire = @ \ {a}])
    /\ UNCHANGED <<contents, manifest, journal, retired, published, content_stops, content_damage>>

-----------------------------------------------------------------------------
\* plan_content_manifest_promotion_recovery.
Promoted == promote_archive(journal.previous, journal.new, journal.retire)
\* Mutant: a journal whose promotion is done counts as no journal.
PlanKeepingStale ==
    IF journal.state = "none" \/ (manifest.state = "ok" /\ manifest.archives = Promoted) THEN "Ready"
    ELSE IF \E a \in Promoted : ~Readable(a) THEN "CannotRecover"
    ELSE "CompletePromotion"

PromotionPlan ==
    IF journal.state = "none" THEN "Ready"
    ELSE IF manifest.state = "ok" /\ manifest.archives = Promoted THEN "RemoveStaleJournal"
    ELSE IF \E a \in Promoted : ~Readable(a) THEN "CannotRecover"
    ELSE "CompletePromotion"

\* recover_content_manifest_promotion reads the journal and the manifest, then writes
\* the promoted manifest, then removes the journal.
StartPromotionRecovery(p) ==
    /\ "recover" \in Commands /\ task[p] = NoTask
    /\ \/ PromotionPlan = "RemoveStaleJournal" /\ Do(p, Task("discard", {}, {}, {}))
       \/ PromotionPlan = "CompletePromotion"
            /\ Do(p, Task("complete", journal.previous, journal.new, journal.retire))
    /\ UNCHANGED <<files, retired, published, content_stops, content_damage>>

\* Mutant: recovery retires the old archives and forgets the new one.
CompleteRetirementOnly(p) ==
    /\ task[p].pc = "complete"
    /\ WriteManifest(promote_archive(task[p].seen, {}, task[p].retire))
    /\ Do(p, Task("discard", {}, {}, {}))
    /\ UNCHANGED <<file, contents, journal, retired, content_stops, content_damage>>

CompletePromotion(p) ==
    /\ task[p].pc = "complete"
    /\ WriteManifest(promote_archive(task[p].seen, task[p].new, task[p].retire))
    /\ Do(p, Task("discard", {}, {}, {}))
    /\ UNCHANGED <<file, contents, journal, retired, content_stops, content_damage>>

DiscardJournal(p) ==
    /\ task[p].pc = "discard"
    /\ journal' = NoJournal
    /\ Do(p, NoTask)
    /\ UNCHANGED <<file, contents, manifest, retired, published, content_stops, content_damage>>

-----------------------------------------------------------------------------
\* plan_content_manifest_recovery, given every archive that is on the disk.
Discovered == {a \in Archives : Readable(a)}

\* Mutant: a missing manifest needs no recovery.
PlanIgnoringMissing ==
    IF manifest.state # "bad" /\ \A a \in manifest.archives : Readable(a) THEN [do |-> "Ready", archives |-> {}]
    ELSE IF Discovered = {} THEN [do |-> "CannotRecover", archives |-> {}]
    ELSE [do |-> "QuarantineManifestAndWriteDiscovered", archives |-> Discovered]

ManifestPlan ==
    LET valid == {a \in manifest.archives : Readable(a)}
    IN  IF manifest.state = "ok" /\ valid = manifest.archives THEN [do |-> "Ready", archives |-> valid]
        ELSE IF manifest.state = "ok" /\ valid # {} THEN [do |-> "PruneInvalidArchives", archives |-> valid]
        ELSE IF Discovered = {} THEN [do |-> "CannotRecover", archives |-> {}]
        ELSE IF manifest.state = "bad"
          THEN [do |-> "QuarantineManifestAndWriteDiscovered", archives |-> Discovered]
        ELSE [do |-> "WriteDiscoveredManifest", archives |-> Discovered]

\* recover_content_manifest: a bad manifest is moved aside before its successor is
\* written.
StartManifestRecovery(p) ==
    /\ "recover" \in Commands /\ task[p] = NoTask
    /\ ManifestPlan.do \notin {"Ready", "CannotRecover"}
    /\ manifest' = IF ManifestPlan.do = "QuarantineManifestAndWriteDiscovered" THEN Missing ELSE manifest
    /\ Do(p, Task("rewrite", ManifestPlan.archives, {}, {}))
    /\ UNCHANGED <<file, contents, journal, retired, published, content_stops, content_damage>>

RewriteManifest(p) ==
    /\ task[p].pc = "rewrite"
    /\ WriteManifest(task[p].seen)
    /\ Do(p, NoTask)
    /\ UNCHANGED <<file, contents, journal, retired, content_stops, content_damage>>

-----------------------------------------------------------------------------
\* A cancelled or dying process leaves the files as they are.
StopTask(p) ==
    /\ task[p] # NoTask /\ content_stops < MaxContentStops
    /\ content_stops' = content_stops + 1
    /\ Do(p, NoTask)
    /\ UNCHANGED <<files, retired, published, content_damage>>

DamageContent ==
    /\ content_damage < MaxContentDamage
    /\ content_damage' = content_damage + 1
    /\ \/ manifest' = Damaged /\ UNCHANGED file
       \/ \E a \in Archives : Readable(a) /\ file' = [file EXCEPT ![a] = "bad"] /\ UNCHANGED manifest
    /\ UNCHANGED <<contents, journal, retired, task, published, content_stops>>

PromotionStep(p) == WriteJournal(p) \/ Promote(p) \/ FinishPromotion(p)
MaintenanceStep(p) == ReadForMaintenance(p) \/ PublishMaintenance(p)
RecoveryStep(p) == CompletePromotion(p) \/ DiscardJournal(p) \/ RewriteManifest(p)
AdvanceTask(p) ==
    \/ PromotionStep(p) \/ MaintenanceStep(p) \/ RecoveryStep(p)
    \/ \E a \in Archives : RemoveArchive(p, a)
RecoverContent(p) == StartPromotionRecovery(p) \/ StartManifestRecovery(p)

ContentNext ==
    \/ \E p \in Writers :
         \/ \E a \in Archives, retire \in SUBSET Archives : StartPromotion(p, a, retire)
         \/ \E a \in Archives : CompactSegments(p, a)
         \/ StartCleanup(p)
         \/ RecoverContent(p)
         \/ AdvanceTask(p)
         \/ StopTask(p)
    \/ DamageContent

ContentSpec == ContentInit /\ [][ContentNext]_contentVars

-----------------------------------------------------------------------------
\* The manifest, the journal and the tasks are well formed.
Steps == {"idle", "journal", "promote", "forget", "compacted", "maintain", "cleanup", "complete",
          "discard", "rewrite"}

ContentTypeOK ==
    /\ file \in [Archives -> {"none", "ok", "bad"}]
    /\ contents \in [Archives -> SUBSET Archives]
    /\ manifest \in [state : {"ok", "missing", "bad"}, archives : SUBSET Archives]
    /\ journal \in [state : {"none", "pending"}, previous : SUBSET Archives, new : SUBSET Archives,
                   retire : SUBSET Archives]
    /\ task \in [Writers -> [pc : Steps, seen : SUBSET Archives, new : SUBSET Archives,
                             retire : SUBSET Archives]]
    /\ retired \subseteq Archives /\ published \subseteq Archives
    /\ content_stops \in Nat /\ content_damage \in Nat

\* Segments have been compacted: an archive holds documents of its own.
Maintained == \E a \in Archives \ Origin : contents[a] = {a}

\* As long as nothing is damaged from outside, a search goes on finding every
\* document it could ever find: promotion, cleanup and recovery, interrupted
\* anywhere, never leave a document behind, and maintenance does not either
\* when nothing is interrupted.
FoundIsFound ==
    content_damage = 0 /\ (content_stops = 0 \/ ~Maintained) => published \subseteq Offered

\* A manifest that can be read, and whose archives can be read.
ManifestIsGood == manifest.state = "ok" /\ \A a \in manifest.archives : Readable(a)

\* Between two commands the plans tell what needs a recovery: an interrupted promotion
\* can be finished or cleaned up, unless something was damaged from outside, and a
\* manifest that is not good can be replaced, when there is an archive left to read.
ContentRecoveryIsOffered ==
    (\A p \in Writers : task[p] = NoTask) =>
        /\ journal.state = "pending" /\ content_damage = 0
             => PromotionPlan \in {"RemoveStaleJournal", "CompletePromotion"}
        /\ ~ManifestIsGood /\ Discovered # {} => ManifestPlan.do \notin {"Ready", "CannotRecover"}

\* The recovery of a promotion that ends without being stopped leaves no journal, and that
\* of a manifest leaves a good one, unless something was damaged while it ran.
ContentIsSettled(p) ==
    task[p] # NoTask /\ task'[p] = NoTask /\ content_stops' = content_stops =>
        /\ task[p].pc \in {"complete", "discard"} => journal'.state = "none"
        /\ task[p].pc = "rewrite" /\ (\A a \in task[p].seen : Readable(a)) => ManifestIsGood'

\* A compacted archive that no command is working on has been offered by a manifest or
\* is recorded in the journal, as long as nothing is interrupted or damaged.
NotStranded ==
    content_stops = 0 /\ content_damage = 0 =>
        \A a \in Archives : Readable(a) /\ contents[a] = {a} /\ (\A p \in Writers : task[p] = NoTask)
                            => a \in published \/ a \in journal.new

\* Content that could be found once is found for ever, and no compacted archive stays
\* behind (contentset.rs, contentrecover.rs, index/content.rs).
ContentServed == FoundIsFound /\ NotStranded
=============================================================================
