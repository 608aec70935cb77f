--------------------------- MODULE ContentIndexing ---------------------------
(***************************************************************************)
(* The background content index (run_content_job in                        *)
(* crates/app/src/content.rs, BackgroundContentIndexer in                  *)
(* crates/index/src/content.rs): a job scans the tree, compares it with    *)
(* the records of the job before, extracts the text of the files that      *)
(* changed and rewrites the content archive.  Extractions that fail are    *)
(* counted in a quarantine file, and images are queued for recognition.    *)
(*                                                                         *)
(* Each file the job replaces is replaced by a rename, in one step, and    *)
(* the job may be stopped between two of them: by an error, a              *)
(* cancellation or a crash.  Its next attempt, whether a retry, a resumed  *)
(* job or a new one, begins again from the files.                          *)
(***************************************************************************)
EXTENDS Naturals, FiniteSets

CONSTANTS
    Documents,     \* the files, by identity
    Natures,       \* what the extractor may make of each of them, see Outcomes
    MaxVersion,    \* contents of one file
    MaxExtractor,  \* versions of the extractor
    MaxStops       \* attempts that are stopped

VARIABLES
    nature,       \* what it does make of each of them: never changes
    disk,         \* the version of each file
    extractor,    \* the version of the extractor that runs
    records,      \* the record archive: the versions the last scan found
    compacted,    \* the content archive exists
    archive,      \* the texts it holds of each file
    versions,     \* the file of extractor versions, 0 where it has no entry
    quarantine,   \* the quarantine file: failed extractions
    ocr_queue,    \* the file of images to recognize
    recognized,   \* the cache of recognized texts
    job,          \* the running attempt
    stops,        \* attempts stopped so far
    completed,    \* history: the last attempt completed
    missed        \* history: files whose change an attempt had seen when it was stopped

contentVars == <<nature, disk, extractor, records, compacted, archive, versions, quarantine,
                 ocr_queue, recognized, job, stops, completed, missed>>

Versions == 1..MaxVersion
Extractors == 1..MaxExtractor
Nowhere == 0
Deleted == MaxVersion + 1
Present(tree) == {d \in Documents : tree[d] \in Versions}
Nothing == [d \in Documents |-> Nowhere]

failure_threshold == 2

\* A text is told by the version of the file and by the extractor that read it.
Texts == Versions \X Extractors

NoTexts == [d \in Documents |-> {}]
NoFailures == [key \in Documents \X Texts |-> 0]

\* No attempt runs.  An attempt first has what it compares, and then its plan.
Idle == [at |-> "idle", snapshot |-> Nothing, previous |-> Nothing, entries |-> Nothing,
         tombstones |-> {}, selected |-> {}, retried |-> {}, todo |-> {},
         texts |-> NoTexts, failures |-> NoFailures, candidates |-> {}]

At(place) == job.at = place

ASSUME NatureAssumption ==
    Natures \subseteq [Documents -> {"text", "large", "flaky", "scan", "screenshot"}]
ASSUME VersionsAssumption == MaxVersion \in Nat /\ MaxExtractor \in Nat \ {0} /\ MaxStops \in Nat

IndexingInit ==
    /\ nature \in Natures
    /\ disk = Nothing /\ extractor = 1
    /\ records = Nothing /\ compacted = FALSE /\ archive = NoTexts
    /\ versions = Nothing
    /\ quarantine = NoFailures
    /\ ocr_queue = {} /\ recognized = {}
    /\ job = Idle /\ stops = 0 /\ completed = FALSE /\ missed = {}

-----------------------------------------------------------------------------
\* The world.  A deleted file's identity is not used again.

Files == <<records, compacted, archive, versions, quarantine, ocr_queue>>
Program == <<nature, extractor>>
History == <<stops, completed, missed>>

Write(d) ==
    /\ disk[d] < MaxVersion
    /\ disk' = [disk EXCEPT ![d] = @ + 1]
    /\ UNCHANGED <<Program, Files, recognized, job, History>>

Delete(d) ==
    /\ d \in Present(disk)
    /\ disk' = [disk EXCEPT ![d] = Deleted]
    /\ UNCHANGED <<Program, Files, recognized, job, History>>

\* A release of the program with a new extractor.
Upgrade ==
    /\ job = Idle /\ extractor < MaxExtractor
    /\ extractor' = extractor + 1
    /\ UNCHANGED <<nature, disk, Files, recognized, job, History>>

\* run_ocr_worker: it recognizes what it can of the queue, each file as it is now.
RecognizeQueue ==
    \E done \in SUBSET {c \in ocr_queue : c[1] \in Present(disk)} :
        /\ done # {}
        /\ \A c \in done : ~\E r \in recognized : r.candidate = c
        /\ recognized' = recognized \cup {[candidate |-> c, text |-> disk[c[1]]] : c \in done}
        /\ UNCHANGED <<disk, Program, Files, job, History>>

-----------------------------------------------------------------------------
\* What the job compares: a record without an entry in the file of extractor versions
\* counts as read by the extractor that runs.

\* Mutant: the extractor's version is not compared.
SignatureOfRecord(tree, entries, d) == <<tree[d]>>

content_record_signature(tree, entries, d) ==
    <<tree[d], IF entries[d] = 0 THEN extractor ELSE entries[d]>>

Changed(snapshot, previous, entries) ==
    {d \in Present(snapshot) \cap Present(previous) :
        content_record_signature(snapshot, Nothing, d) # content_record_signature(previous, entries, d)}
New(snapshot, previous) == Present(snapshot) \ Present(previous)
Gone(snapshot, previous) == Present(previous) \ Present(snapshot)

\* Mutant: a file that changed leaves its old text in the archive.
TombstonesOfGone(snapshot, previous, entries) == Gone(snapshot, previous)

Tombstones(snapshot, previous, entries) ==
    Changed(snapshot, previous, entries) \cup Gone(snapshot, previous)

Selected(snapshot, previous, entries) ==
    Changed(snapshot, previous, entries) \cup New(snapshot, previous)

\* cache_key: the file as it is on the disk now.
Key(d) == <<d, <<disk[d], extractor>>>>

\* retry_quarantine_entries: the unchanged files with a failed extraction behind them.
retry_quarantine_entries(unchanged) == {d \in unchanged : quarantine[Key(d)] > 0}

-----------------------------------------------------------------------------
\* The attempt.  Without a content archive everything counts as new.

Scanned == [d \in Documents |-> IF d \in Present(disk) THEN disk[d] ELSE Nowhere]

Begin ==
    /\ job = Idle
    /\ job' = [Idle EXCEPT !.at = "save", !.snapshot = Scanned,
                           !.previous = IF compacted THEN records ELSE Nothing,
                           !.entries = versions]
    /\ completed' = FALSE
    /\ UNCHANGED <<disk, Program, Files, recognized, stops, missed>>

SaveRecords ==
    /\ At("save")
    /\ records' = job.snapshot
    /\ job' = [job EXCEPT !.at = "plan"]
    /\ UNCHANGED <<disk, Program, compacted, archive, versions, quarantine, ocr_queue, recognized, History>>

Unchanged == Present(job.snapshot) \ Selected(job.snapshot, job.previous, job.entries)

Plan ==
    LET selected == Selected(job.snapshot, job.previous, job.entries)
        retried == retry_quarantine_entries(Unchanged)
    IN  /\ At("plan") /\ Unchanged \subseteq Present(disk)
        /\ job' = [Idle EXCEPT !.at = "extract", !.snapshot = job.snapshot,
                       !.tombstones = Tombstones(job.snapshot, job.previous, job.entries),
                       !.selected = selected, !.retried = retried,
                       !.todo = selected \cup retried, !.failures = quarantine]
        /\ UNCHANGED <<disk, Program, Files, recognized, History>>

\* Of the natures, "large" is too large for the budget under pressure, and "flaky" cannot
\* always be parsed.
Outcomes(d) ==
    CASE nature[d] = "text"  -> {"Extracted"}
      [] nature[d] = "large" -> {"Extracted", "Skipped"}
      [] nature[d] = "flaky" -> {"Extracted", "Quarantined"}
      [] nature[d] = "scan"  -> {"ImageOnly"}

\* apply_ocr_candidate
WithCandidate(j, c) ==
    LET known == {r \in recognized : r.candidate = c}
    IN  IF known = {} THEN [j EXCEPT !.candidates = @ \cup {c}]
        ELSE [j EXCEPT !.texts[c[1]] = {<<r.text, extractor>> : r \in known}]

record_report(j, d, outcome) ==
    CASE outcome = "Extracted"   -> [j EXCEPT !.texts[d] = {Key(d)[2]}, !.failures[Key(d)] = 0]
      [] outcome = "Skipped"     -> [j EXCEPT !.failures[Key(d)] = 0]
      [] outcome = "Quarantined" -> [j EXCEPT !.failures[Key(d)] = @ + 1]
      [] outcome = "ImageOnly"   -> WithCandidate(j, <<d, disk[d]>>)

\* before_extract
Blocked(d) == job.failures[Key(d)] >= failure_threshold

\* A screenshot is told by its record, and everything else by what is on the disk.
Extract(d) ==
    /\ At("extract") /\ d \in job.todo
    /\ LET rest == [job EXCEPT !.todo = @ \ {d}]
       IN  \/ /\ nature[d] = "screenshot"
              /\ job' = WithCandidate(rest, <<d, job.snapshot[d]>>)
           \/ /\ nature[d] # "screenshot" /\ d \in Present(disk) /\ Blocked(d)
              /\ job' = rest
           \/ /\ nature[d] # "screenshot" /\ d \in Present(disk) /\ ~Blocked(d)
              /\ \E outcome \in Outcomes(d) : job' = record_report(rest, d, outcome)
    /\ UNCHANGED <<disk, Program, Files, recognized, History>>

\* compact_content_postings_with_segments: the tombstones first, then the new texts.
Compact ==
    /\ At("extract") /\ job.todo = {}
    /\ archive' = [d \in Documents |->
                     (IF d \in job.tombstones THEN {} ELSE archive[d]) \cup job.texts[d]]
    /\ compacted' = TRUE
    /\ job' = [job EXCEPT !.at = "publish"]
    /\ UNCHANGED <<disk, Program, records, versions, quarantine, ocr_queue, recognized, History>>

PublishCandidates ==
    /\ At("publish")
    /\ ocr_queue' = job.candidates
    /\ job' = [job EXCEPT !.at = "versions"]
    /\ UNCHANGED <<disk, Program, records, compacted, archive, versions, quarantine, recognized, History>>

WriteVersions ==
    /\ At("versions")
    /\ versions' = [d \in Documents |-> IF d \in Present(job.snapshot) THEN extractor ELSE 0]
    /\ job' = [job EXCEPT !.at = "quarantine"]
    /\ UNCHANGED <<disk, Program, records, compacted, archive, quarantine, ocr_queue, recognized, History>>

\* Mutant: the failures of the job are not kept.
ForgetFailures ==
    /\ At("quarantine")
    /\ job' = Idle /\ completed' = TRUE
    /\ missed' = missed \ (job.selected \cup job.tombstones)
    /\ UNCHANGED <<disk, Program, Files, recognized, stops>>

WriteQuarantine ==
    /\ At("quarantine")
    /\ quarantine' = job.failures
    /\ job' = Idle /\ completed' = TRUE
    /\ missed' = missed \ (job.selected \cup job.tombstones)
    /\ UNCHANGED <<disk, Program, records, compacted, archive, versions, ocr_queue, recognized, stops>>

-----------------------------------------------------------------------------
\* The attempt fails.  What it had seen of changes is in the records by now.

SeenOfChanges ==
    CASE At("save") -> {}
      [] At("plan") -> Selected(job.snapshot, job.previous, job.entries)
                       \cup Tombstones(job.snapshot, job.previous, job.entries)
      [] OTHER      -> job.selected \cup job.retried \cup job.tombstones

Fail ==
    /\ job' = Idle
    /\ missed' = missed \cup SeenOfChanges
    /\ UNCHANGED <<disk, Program, Files, recognized, completed>>

\* A file that is gone since the scan fails the job.
FileGone ==
    /\ \/ At("plan") /\ ~(Unchanged \subseteq Present(disk))
       \/ At("extract") /\ \E d \in job.todo \ Present(disk) : nature[d] # "screenshot"
    /\ Fail /\ UNCHANGED stops

Stop == job # Idle /\ stops < MaxStops /\ Fail /\ stops' = stops + 1

-----------------------------------------------------------------------------
IndexingNext ==
    \/ \E d \in Documents : Write(d) \/ Delete(d)
    \/ Upgrade \/ RecognizeQueue
    \/ Begin \/ SaveRecords \/ Plan \/ (\E d \in Documents : Extract(d))
    \/ Compact \/ PublishCandidates \/ WriteVersions \/ WriteQuarantine
    \/ FileGone \/ Stop

IndexingSpec == IndexingInit /\ [][IndexingNext]_contentVars

-----------------------------------------------------------------------------
Places == {"idle", "save", "plan", "extract", "publish", "versions", "quarantine"}
Scans == [Documents -> 0..MaxVersion]
Stamps == [Documents -> 0..MaxExtractor]
Counts == [Documents \X Texts -> Nat]
Candidates == Documents \X Versions
Attempts ==
    [at : Places, snapshot : Scans, previous : Scans, entries : Stamps,
     tombstones : SUBSET Documents, selected : SUBSET Documents, retried : SUBSET Documents,
     todo : SUBSET Documents, texts : [Documents -> SUBSET Texts], failures : Counts,
     candidates : SUBSET Candidates]

\* The values of the files and of the attempt.
IndexingTypeOK ==
    /\ nature \in Natures /\ extractor \in Extractors
    /\ disk \in [Documents -> 0..Deleted] /\ records \in Scans
    /\ compacted \in BOOLEAN /\ completed \in BOOLEAN
    /\ archive \in [Documents -> SUBSET Texts]
    /\ versions \in Stamps /\ quarantine \in Counts
    /\ ocr_queue \subseteq Candidates
    /\ recognized \subseteq [candidate : Candidates, text : Versions]
    /\ job \in Attempts
    /\ stops \in 0..MaxStops /\ missed \subseteq Documents

\* The archive never holds the texts of two versions of one file, whatever is stopped:
\* a file in the archive is in the records as well, so that its change is seen.  A file
\* that failed before is retried without a tombstone, and is left out.
OneVersion == \A d \in Documents : nature[d] # "flaky" => Cardinality(archive[d]) <= 1

\* What there should be of a file whose text is text: of one that could not be parsed,
\* nothing but a note for the next job.
Suits(d, text, texts, failures) ==
    CASE nature[d] = "text"  -> texts = {text}
      [] nature[d] = "flaky" -> texts = {text} \/ (texts = {} /\ failures[<<d, text>>] > 0)
      [] OTHER               -> texts \subseteq {text}

\* The archive holds what it should of a file as it is recorded.
Right(d) ==
    IF d \in Present(records)
    THEN Suits(d, <<records[d], versions[d]>>, archive[d], quarantine)
    ELSE archive[d] = {}

\* Between jobs, the archive is right about every file that is as recorded.
\* The files an attempt was stopped over are left out: see CompletedIsIndexed.
ArchiveIsCurrent ==
    job = Idle => \A d \in Documents \ missed :
        records[d] = Scanned[d] => Right(d)

\* The archive holds one text of a file, and between jobs it is the text of the file as
\* it is recorded, unless an attempt was stopped over it (run_content_job,
\* ContentIndexDelta, ExtractionQuarantine, compact_content_postings_with_segments).
ContentIsCurrent == OneVersion /\ ArchiveIsCurrent

\* PLAN.md: the job "re-extracts only new or content-modified records" and "resumes".
\* Once it has completed, a file that is as recorded can be found by its text.
CompletedIsIndexed ==
    completed => \A d \in Present(disk) :
        disk[d] = records[d] /\ nature[d] = "text" => disk[d] \in {text[1] : text \in archive[d]}
=============================================================================
