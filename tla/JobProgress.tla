----------------------------- MODULE JobProgress -----------------------------
(***************************************************************************)
(* The payload catalog and the progress store of the jobs layer            *)
(* (JobPayloadCatalog in crates/jobs lib.rs, progress.rs, restore.rs) and   *)
(* the runtime that keeps them while it runs a job (RuntimeJobHandle in     *)
(* crates/app runtime.rs).                                                 *)
(*                                                                         *)
(* A process runs one job: it picks an id above those it reads, records    *)
(* payload and progress, and writes its progress as it goes. The commands  *)
(* that pause, resume or stop a job and the one that restores interrupted  *)
(* jobs are jobs as well, whose work is on the store itself. Both files    *)
(* are read, changed in memory and replaced by one rename; no lock is held. *)
(***************************************************************************)
EXTENDS Integers, FiniteSets, FiniteSetsExt

CONSTANTS
  Procs,     \* processes, each running one job after the other
  MaxJobs,   \* bound on the jobs
  MaxUnits,  \* units of work a job reports
  MaxFaults  \* bound on crashes and failed writes

ASSUME ProgressAssumption == MaxJobs \in Nat /\ MaxUnits \in Nat /\ MaxFaults \in Nat

\* The processes are separate programs, and nothing makes them take turns: what holds
\* for one of them at a time is stated under this condition.
OneProcess == \A p, q \in Procs : p = q

Jobs == 1..MaxJobs
Ids == 1..MaxJobs

VARIABLES
  catalog,  \* payload catalog: the job each id stands for
  store,    \* progress store: the snapshot of each id
  proc,     \* what each process does
  begun,    \* jobs that have been planned in the store
  ended,    \* jobs that came to an end, or were stopped by the user
  jobs, faults

progressVars == <<catalog, store, proc, begun, ended, jobs, faults>>

States == {"Planned", "Running", "Paused", "Completed", "Cancelled", "Failed"}
restorable(state) == state \in {"Planned", "Running", "Paused"}
Terminal(state) == ~restorable(state)

\* JobProgressSnapshot; by is what its detail tells apart.
Snapshot(job, state, units, by) == [job |-> job, state |-> state, units |-> units, by |-> by]
Snapshots == [job : Jobs, state : States, units : 0..MaxUnits,
              by : {"job", "user", "restart", "deferred"}]

Nothing == [i \in {} |-> i]
NoWork == [kind |-> "plain", id |-> 0]
Works == [kind : {"plain"}, id : {0}] \cup [kind : {"Pause", "Resume", "Stop"}, id : Ids]
           \cup [kind : {"Restore"}, id : {0}]

NoJob == [pc |-> "idle", job |-> 0, id |-> 0, work |-> NoWork, buf |-> Nothing,
         last |-> Nothing, want |-> Nothing, then |-> "idle"]

ProgressInit ==
  /\ catalog = Nothing
  /\ store = Nothing
  /\ proc = [p \in Procs |-> NoJob]
  /\ begun = {}
  /\ ended = {}
  /\ jobs = 0
  /\ faults = 0

\* The rows of a file with one of them new or replaced.
WithRow(rows, id, row) == [i \in DOMAIN rows \cup {id} |-> IF i = id THEN row ELSE rows[i]]

Above(f) == IF DOMAIN f = {} THEN 0 ELSE Max(DOMAIN f)

-----------------------------------------------------------------------------
(* runtime.rs: a job begins *)

\* RuntimeJobBeginStores::max_job_id_checked reads the catalog, then the store. A
\* command names a job that the user has seen in the store.
Launch(p, work) ==
  /\ proc[p] = NoJob
  /\ jobs < MaxJobs
  /\ work.id \in DOMAIN store \cup {0}
  /\ jobs' = jobs + 1
  /\ proc' = [proc EXCEPT ![p] = [NoJob EXCEPT !.pc = "floor", !.job = jobs + 1,
                                              !.id = Above(catalog), !.work = work]]
  /\ UNCHANGED <<catalog, store, begun, ended, faults>>

\* Scheduler::new_starting_after
TakeId(p) ==
  /\ proc[p].pc = "floor"
  /\ proc' = [proc EXCEPT ![p].id = 1 + Max({@, Above(store)}), ![p].pc = "catalog_read"]
  /\ UNCHANGED <<catalog, store, begun, ended, jobs, faults>>

\* JobPayloadCatalog::append_checked
CatalogRead(p) ==
  /\ proc[p].pc = "catalog_read"
  /\ proc' = [proc EXCEPT ![p].buf = catalog, ![p].pc = "catalog_write"]
  /\ UNCHANGED <<catalog, store, begun, ended, jobs, faults>>

\* Persist a snapshot, then go on: the first step of persist_progress_checked,
\* which skips what would not change the last snapshot.
Persist(p, snapshot, label) ==
  proc' = [proc EXCEPT ![p].want = snapshot, ![p].then = label, ![p].buf = Nothing,
                       ![p].pc = IF proc[p].last = snapshot THEN label ELSE "upsert_read"]

\* Mutant: the payload is not recorded.
CatalogForgotten(p) ==
  /\ proc[p].pc = "catalog_write"
  /\ Persist(p, Snapshot(proc[p].job, "Planned", 0, "job"), "planned")
  /\ UNCHANGED <<catalog, store, begun, ended, jobs, faults>>

\* The rename of the new catalog, then the planned snapshot.
CatalogWrite(p) ==
  /\ proc[p].pc = "catalog_write"
  /\ catalog' = WithRow(proc[p].buf, proc[p].id, proc[p].job)
  /\ Persist(p, Snapshot(proc[p].job, "Planned", 0, "job"), "planned")
  /\ UNCHANGED <<store, begun, ended, jobs, faults>>

-----------------------------------------------------------------------------
(* progress.rs: upsert_checked *)

UpsertRead(p) ==
  /\ proc[p].pc = "upsert_read"
  /\ proc' = [proc EXCEPT ![p].buf = store, ![p].pc = "upsert_write"]
  /\ UNCHANGED <<catalog, store, begun, ended, jobs, faults>>

UpsertWrite(p) ==
  /\ proc[p].pc = "upsert_write"
  /\ store' = WithRow(proc[p].buf, proc[p].id, proc[p].want)
  /\ begun' = begun \cup {proc[p].job}
  /\ proc' = [proc EXCEPT ![p].last = proc[p].want, ![p].buf = Nothing, ![p].pc = proc[p].then]
  /\ UNCHANGED <<catalog, ended, jobs, faults>>

-----------------------------------------------------------------------------
(* runtime.rs: a job runs *)

\* A job deferred by the pressure policy leaves a paused snapshot and no run.
Defer(p) ==
  /\ proc[p].pc = "planned"
  /\ Persist(p, Snapshot(proc[p].job, "Paused", 0, "deferred"), "done")
  /\ UNCHANGED <<catalog, store, begun, ended, jobs, faults>>

\* running_checked, at the start of an attempt.
RunAttempt(p) ==
  /\ proc[p].pc = "planned"
  /\ Persist(p, Snapshot(proc[p].job, "Running", 0, "job"), "work")
  /\ UNCHANGED <<catalog, store, begun, ended, jobs, faults>>

\* progress_checked and resize_checked; a second attempt starts from nothing.
ReportProgress(p) ==
  /\ proc[p].pc = "work"
  /\ \E n \in 0..MaxUnits : Persist(p, Snapshot(proc[p].job, "Running", n, "job"), "work")
  /\ UNCHANGED <<catalog, store, begun, ended, jobs, faults>>

\* finish_checked: the status of the job.
EndJob(p, status) ==
  /\ ended' = ended \cup {proc[p].job}
  /\ Persist(p, Snapshot(proc[p].job, status, IF status = "Completed" THEN MaxUnits ELSE 0, "job"),
             "done")

Finish(p, status) ==
  /\ proc[p].pc = "work" /\ proc[p].work.kind = "plain"
  /\ EndJob(p, status)
  /\ UNCHANGED <<catalog, store, begun, jobs, faults>>

Leave(p) ==
  /\ proc[p].pc = "done"
  /\ proc' = [proc EXCEPT ![p] = NoJob]
  /\ UNCHANGED <<catalog, store, begun, ended, jobs, faults>>

-----------------------------------------------------------------------------
(* Jobs whose work is on the store *)

CommandRead(p) ==
  /\ proc[p].pc = "work" /\ proc[p].work.kind # "plain"
  /\ proc' = [proc EXCEPT ![p].buf = store, ![p].pc = "command"]
  /\ UNCHANGED <<catalog, store, begun, ended, jobs, faults>>

\* Mutant: a job that ended can be resumed.
AcceptsAnyResume(s, command) ==
  CASE command = "Resume" -> s.state # "Running"
    [] OTHER -> restorable(s.state)

\* apply_progress_command: what it refuses, what it leaves alone, what it does.
Accepts(s, command) ==
  CASE command = "Resume" -> s.state = "Paused"
    [] OTHER -> restorable(s.state)

Commanded(s, command) ==
  CASE command = "Pause" -> [s EXCEPT !.state = "Paused", !.by = "user"]
    [] command = "Resume" -> [s EXCEPT !.state = "Running", !.by = "user"]
    [] OTHER -> [s EXCEPT !.state = "Cancelled", !.by = "user"]

\* The work on the store is done and the job goes on like any other.
CommandDone(p) == proc' = [proc EXCEPT ![p].work = NoWork, ![p].buf = Nothing, ![p].pc = "work"]

\* write_all_checked of what was read and changed, unless nothing changed.
WriteStore(p, snapshots) == store' = IF snapshots = proc[p].buf THEN store ELSE snapshots

\* apply_command_checked
ApplyCommand(p) ==
  LET w == proc[p].work
      Accepted == w.id \in DOMAIN proc[p].buf /\ Accepts(proc[p].buf[w.id], w.kind)
  IN /\ proc[p].pc = "command" /\ w.kind \in {"Pause", "Resume", "Stop"}
     /\ \/ /\ Accepted
           /\ WriteStore(p, [proc[p].buf EXCEPT ![w.id] = Commanded(@, w.kind)])
           /\ ended' = IF w.kind = "Stop" THEN ended \cup {proc[p].buf[w.id].job} ELSE ended
           /\ CommandDone(p)
        \/ /\ ~Accepted
           /\ EndJob(p, "Failed")
           /\ UNCHANGED store
     /\ UNCHANGED <<catalog, begun, jobs, faults>>

\* Mutant: only what was running is written back.
RestoredRunningOnly(f) ==
  [i \in {j \in DOMAIN f : f[j].state = "Running" \/ Terminal(f[j].state)} |->
     IF restorable(f[i].state) THEN [f[i] EXCEPT !.state = "Paused", !.by = "restart"] ELSE f[i]]

\* restore_interrupted_checked: what was planned or running is paused, the
\* restoring job's own snapshot included.
Restored(f) ==
  [i \in DOMAIN f |-> IF f[i].state \in {"Planned", "Running"}
                      THEN [f[i] EXCEPT !.state = "Paused", !.by = "restart"] ELSE f[i]]

RestoreInterrupted(p) ==
  /\ proc[p].pc = "command" /\ proc[p].work.kind = "Restore"
  /\ WriteStore(p, Restored(proc[p].buf))
  /\ CommandDone(p)
  /\ UNCHANGED <<catalog, begun, ended, jobs, faults>>

-----------------------------------------------------------------------------
(* Faults *)

Writing == {"catalog_write", "upsert_write", "command"}

\* A write fails: before the work the launch is given up; a job that fails to
\* report has failed, and says so if it can; after that nothing is left to do.
WriteFails(p) ==
  /\ proc[p].pc \in Writing
  /\ faults < MaxFaults
  /\ faults' = faults + 1
  /\ IF proc[p].pc = "command" \/ proc[p].then = "work"
     THEN EndJob(p, "Failed")
     ELSE proc' = [proc EXCEPT ![p] = NoJob] /\ UNCHANGED ended
  /\ UNCHANGED <<catalog, store, begun, jobs>>

Crash(p) ==
  /\ proc[p] # NoJob
  /\ faults < MaxFaults
  /\ faults' = faults + 1
  /\ proc' = [proc EXCEPT ![p] = NoJob]
  /\ UNCHANGED <<catalog, store, begun, ended, jobs>>

JobStep(p) ==
  \/ TakeId(p) \/ CatalogRead(p) \/ CatalogWrite(p) \/ UpsertRead(p) \/ UpsertWrite(p)
  \/ Defer(p) \/ RunAttempt(p) \/ ReportProgress(p) \/ Leave(p)
  \/ \E status \in {"Completed", "Cancelled", "Failed"} : Finish(p, status)
  \/ CommandRead(p) \/ ApplyCommand(p) \/ RestoreInterrupted(p)

ProgressNext ==
  \E p \in Procs :
    \/ \E work \in Works : Launch(p, work)
    \/ JobStep(p) \/ WriteFails(p) \/ Crash(p)

ProgressSpec == ProgressInit /\ [][ProgressNext]_progressVars

-----------------------------------------------------------------------------
Labels == {"idle", "floor", "catalog_read", "catalog_write", "upsert_read", "upsert_write",
           "planned", "work", "command", "done"}

\* The values the variables take: ids and jobs within the bounds, snapshots in the store.
ProgressTypeOK ==
  /\ DOMAIN catalog \subseteq Ids /\ \A i \in DOMAIN catalog : catalog[i] \in Jobs
  /\ DOMAIN store \subseteq Ids /\ \A i \in DOMAIN store : store[i] \in Snapshots
  /\ DOMAIN proc = Procs
  /\ \A p \in Procs :
       /\ DOMAIN proc[p] = DOMAIN NoJob
       /\ proc[p].pc \in Labels /\ proc[p].id \in 0..MaxJobs /\ proc[p].work \in Works
  /\ begun \subseteq Jobs /\ ended \subseteq Jobs /\ jobs \in 0..MaxJobs

\* Every job that a restart would restore has its own payload in the catalog,
\* so that the restore plan can say what it was meant to do (restore.rs).
RestorableHasPayload ==
  \A i \in DOMAIN store :
    restorable(store[i].state) => i \in DOMAIN catalog /\ catalog[i] = store[i].job

\* No work is lost: a job that was planned and neither came to an end nor was
\* stopped is in the store as restorable, whatever crashed, paused or restored
\* it, and what is restorable has its payload (progress.rs, runtime.rs).
UnfinishedIsRestorable ==
  /\ \A j \in begun \ ended : \E i \in DOMAIN store : store[i].job = j /\ restorable(store[i].state)
  /\ RestorableHasPayload

\* "completed, cancelled, and failed terminal work stays out of the active
\* restoration set" (README.md): no step brings a terminal snapshot back.
EndedStaysOut ==
  [][\A i \in DOMAIN store :
       Terminal(store[i].state) => i \in DOMAIN store' /\ Terminal(store'[i].state)]_progressVars
=============================================================================
