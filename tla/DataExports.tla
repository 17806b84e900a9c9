------------------------------ MODULE DataExports ------------------------------
(***************************************************************************)
(* Organization exports, and the sweep that works on them.                 *)
(*                                                                         *)
(* worker/exports.ts, requestOrgExport (app/admin/(protected)/settings),   *)
(* queueExport (scripts/statusctl.ts), worker/tasks.ts and lib/jobs.ts.    *)
(* Graphile Worker is external: one job per key waits, a queue runs one    *)
(* job at a time, and a queue whose worker died is unlocked hours later.   *)
(* Every action is one transaction of the code.                            *)
(***************************************************************************)
EXTENDS Naturals, FiniteSets

CONSTANTS
    Workers,      \* worker processes
    Orgs,         \* organizations
    None,         \* no worker, no file
    MaxAttempts,  \* attempts of an export (3)
    MaxJobs,      \* bound: exports requested; their ids are 1..MaxJobs
    MaxFaults     \* bound: crashes, stalls and lost writes

ASSUME NoneAssumption == None \notin Workers \union Orgs
ASSUME AttemptsAssumption == MaxAttempts \in Nat \ {0}
ASSUME ExportBoundsAssumption == MaxJobs \in Nat /\ MaxFaults \in Nat

VARIABLES
    org,     \* what is left of each organization
    jobs,    \* the dataExportJobs rows, by creation order
    files,   \* the export archives among the assetBlobs rows
    worker,  \* each process: where it is, the job it leased, its attempt
    keyed,   \* Graphile: a job with the key of the export sweep waits
    lock,    \* Graphile: who runs the job of the queue, and whether it would
             \* run again after a failure
    faults   \* faults so far

vars == <<org, jobs, files, worker, keyed, lock, faults>>

JobIds == 1..MaxJobs

\* An archive is named after the job and its content, which no two attempts
\* share (generatedAt).
Files == JobIds \X (1..MaxAttempts)

Job == [org : Orgs \union {None},
        status : {"ABSENT", "QUEUED", "PROCESSING", "SUCCEEDED", "FAILED", "GONE"},
        attempts : 0..MaxAttempts, owner : Workers \union {None},
        live : BOOLEAN, file : Files \union {None}]

Pcs == {"down", "idle", "scheduling", "leasing", "building", "storing", "completing",
        "failing", "ending"}

AbsentJob == [org |-> None, status |-> "ABSENT", attempts |-> 0, owner |-> None,
              live |-> FALSE, file |-> None]

IdleWorker == [pc |-> "idle", job |-> 0, attempt |-> 0]
Unlocked == [by |-> None, retryable |-> FALSE]

Init ==
    /\ org = [o \in Orgs |-> "ACTIVE"]
    /\ jobs = [j \in JobIds |-> AbsentJob]
    /\ files = {}
    /\ worker = [w \in Workers |-> IdleWorker]
    /\ keyed = TRUE
    /\ lock = Unlocked
    /\ faults = 0

-----------------------------------------------------------------------------
(***************************************************************************)
(* Graphile Worker and the tasks                                           *)
(***************************************************************************)

\* Mutant: a nudge during a sweep leaves the running job as the only one.
WaitsUnlessRunning == lock.by = None

\* add_job with job_key_mode "replace": one job waits afterwards ...
WaitsAfterwards == TRUE

\* ... and a running job with that key loses the key and its retries.
AddJob ==
    /\ keyed' = WaitsAfterwards
    /\ lock' = [lock EXCEPT !.retryable = FALSE]

Goto(w, pc) == worker' = [worker EXCEPT ![w].pc = pc]

\* The queue has no other job running.
StartSweep(w) ==
    /\ worker[w].pc = "idle"
    /\ keyed
    /\ lock.by = None
    /\ keyed' = FALSE
    /\ lock' = [by |-> w, retryable |-> TRUE]
    /\ Goto(w, "scheduling")
    /\ UNCHANGED <<org, jobs, files, faults>>

\* scheduleNext: the successor is there before the work begins.
ScheduleNext(w) ==
    /\ worker[w].pc = "scheduling"
    /\ AddJob
    /\ Goto(w, "leasing")
    /\ UNCHANGED <<org, jobs, files, faults>>

Release(w, again) ==
    IF lock.by = w
    THEN /\ lock' = Unlocked
         /\ keyed' = (keyed \/ (again /\ lock.retryable))
    ELSE UNCHANGED <<lock, keyed>>

EndSweep(w) ==
    /\ worker[w].pc = "ending"
    /\ worker' = [worker EXCEPT ![w] = IdleWorker]
    /\ Release(w, FALSE)
    /\ UNCHANGED <<org, jobs, files, faults>>

\* A statement outside the try block of drainDataExportJobs fails, and with
\* it the Graphile job; the export keeps its status.
SweepThrows(w) ==
    /\ worker[w].pc \in {"scheduling", "leasing", "failing"}
    /\ faults < MaxFaults
    /\ faults' = faults + 1
    /\ worker' = [worker EXCEPT ![w] = IdleWorker]
    /\ Release(w, TRUE)
    /\ UNCHANGED <<org, jobs, files>>

Crash(w) ==
    /\ worker[w].pc # "down"
    /\ faults < MaxFaults
    /\ faults' = faults + 1
    /\ worker' = [worker EXCEPT ![w] = [IdleWorker EXCEPT !.pc = "down"]]
    /\ UNCHANGED <<org, jobs, files, keyed, lock>>

\* seedContinuousTasks.
Restart(w) ==
    /\ worker[w].pc = "down"
    /\ AddJob
    /\ Goto(w, "idle")
    /\ UNCHANGED <<org, jobs, files, faults>>

Leased(w) == {j \in JobIds : jobs[j].status = "PROCESSING" /\ jobs[j].owner = w}

\* Graphile unlocks a queue hours after it was locked; a holder that is
\* still at work has stalled.
Unlock ==
    /\ lock.by # None
    /\ \A j \in Leased(lock.by) : ~jobs[j].live
    /\ IF worker[lock.by].pc \in {"idle", "down"}
       THEN UNCHANGED faults
       ELSE faults < MaxFaults /\ faults' = faults + 1
    /\ Release(lock.by, TRUE)
    /\ UNCHANGED <<org, jobs, files, worker>>

-----------------------------------------------------------------------------
(***************************************************************************)
(* Requests                                                                *)
(***************************************************************************)

Active(o) == {j \in JobIds : jobs[j].org = o /\ jobs[j].status \in {"QUEUED", "PROCESSING"}}

\* The check, and the unique index for two that pass it together.
Insert(o) ==
    /\ Active(o) = {}
    /\ \E j \in JobIds :
          /\ jobs[j].status = "ABSENT"
          /\ \A i \in 1..(j - 1) : jobs[i].status # "ABSENT"
          /\ jobs' = [jobs EXCEPT ![j] = [AbsentJob EXCEPT !.org = o, !.status = "QUEUED"]]
    /\ AddJob
    /\ UNCHANGED <<org, files, worker, faults>>

\* Behind the fence of writeActiveTenantAudit.
RequestOrgExport(o) == org[o] = "ACTIVE" /\ Insert(o)

\* signalhubctl export: the organization only has to exist.
QueueExport(o) == org[o] # "GONE" /\ Insert(o)

RequestPurge(o) ==
    /\ org[o] = "ACTIVE"
    /\ org' = [org EXCEPT ![o] = "DELETING"]
    /\ UNCHANGED <<jobs, files, worker, keyed, lock, faults>>

\* The last transaction of deleteOrgCascade: the rows of the organization go
\* with it.  Only the files the assets table names were deleted before it.
Purge(o) ==
    /\ org[o] = "DELETING"
    /\ org' = [org EXCEPT ![o] = "GONE"]
    /\ jobs' = [j \in JobIds |-> IF jobs[j].org = o
                                 THEN [jobs[j] EXCEPT !.status = "GONE", !.owner = None]
                                 ELSE jobs[j]]
    /\ UNCHANGED <<files, worker, keyed, lock, faults>>

-----------------------------------------------------------------------------
(***************************************************************************)
(* drainDataExportJobs                                                     *)
(***************************************************************************)

\* Mutants: attempts are not limited; the last attempt is not taken.
LeasableForever(job) == job.status = "QUEUED" \/ (job.status = "PROCESSING" /\ ~job.live)
LeasableButLast(job) == job.attempts + 1 < MaxAttempts /\ LeasableForever(job)

Leasable(job) ==
    /\ job.attempts < MaxAttempts
    /\ job.status = "QUEUED" \/ (job.status = "PROCESSING" /\ ~job.live)

\* leaseDataExportJob: the oldest one, counted as an attempt.
Lease(w) ==
    LET due == {j \in JobIds : Leasable(jobs[j])}
    IN /\ worker[w].pc = "leasing"
       /\ IF due = {}
          THEN UNCHANGED jobs /\ Goto(w, "ending")
          ELSE \E j \in due :
                  /\ \A k \in due : j <= k
                  /\ jobs' = [jobs EXCEPT ![j].status = "PROCESSING",
                                          ![j].attempts = @ + 1,
                                          ![j].owner = w, ![j].live = TRUE]
                  /\ worker' = [worker EXCEPT ![w] =
                       [pc |-> "building", job |-> j, attempt |-> jobs[j].attempts + 1]]
       /\ UNCHANGED <<org, files, keyed, lock, faults>>

\* buildOrganizationExport reads many tables and changes none.
Build(w) ==
    /\ worker[w].pc = "building"
    /\ org[jobs[worker[w].job].org] # "GONE"
    /\ Goto(w, "storing")
    /\ UNCHANGED <<org, jobs, files, keyed, lock, faults>>

File(w) == <<worker[w].job, worker[w].attempt>>

\* storage.put, on its own.
Store(w) ==
    /\ worker[w].pc = "storing"
    /\ files' = files \union {File(w)}
    /\ Goto(w, "completing")
    /\ UNCHANGED <<org, jobs, keyed, lock, faults>>

\* An exception in the try block.
Throws(w) ==
    /\ worker[w].pc \in {"building", "storing", "completing"}
    /\ Goto(w, "failing")
    /\ UNCHANGED <<org, jobs, files, keyed, lock, faults>>

\* Mutant: the row is named by its id alone.
HoldsById(w) == jobs[worker[w].job].status # "GONE"

\* WHERE lease_owner = worker.
Holds(w) == jobs[worker[w].job].owner = w

Complete(w) ==
    /\ worker[w].pc = "completing"
    /\ jobs' = IF Holds(w)
               THEN [jobs EXCEPT ![worker[w].job] =
                       [@ EXCEPT !.status = "SUCCEEDED", !.file = File(w),
                                 !.owner = None, !.live = FALSE]]
               ELSE jobs
    /\ Goto(w, "ending")
    /\ UNCHANGED <<org, files, keyed, lock, faults>>

AfterFailure(attempt) == IF attempt >= MaxAttempts THEN "FAILED" ELSE "QUEUED"

Fail(w) ==
    /\ worker[w].pc = "failing"
    /\ jobs' = IF Holds(w)
               THEN [jobs EXCEPT ![worker[w].job] =
                       [@ EXCEPT !.status = AfterFailure(worker[w].attempt),
                                 !.owner = None, !.live = FALSE]]
               ELSE jobs
    /\ Goto(w, "ending")
    /\ UNCHANGED <<org, files, keyed, lock, faults>>

\* Ten minutes, without a heartbeat.
LeaseExpires(j) ==
    /\ jobs[j].status = "PROCESSING"
    /\ jobs[j].live
    /\ jobs' = [jobs EXCEPT ![j].live = FALSE]
    /\ UNCHANGED <<org, files, worker, keyed, lock, faults>>

-----------------------------------------------------------------------------

WorkerStep(w) ==
    \/ ScheduleNext(w) \/ Lease(w) \/ Build(w) \/ Store(w) \/ Throws(w)
    \/ Complete(w) \/ Fail(w) \/ EndSweep(w) \/ Restart(w)

Next ==
    \/ \E w \in Workers : WorkerStep(w) \/ StartSweep(w) \/ SweepThrows(w) \/ Crash(w)
    \/ Unlock
    \/ \E o \in Orgs : RequestOrgExport(o) \/ QueueExport(o) \/ RequestPurge(o) \/ Purge(o)
    \/ \E j \in JobIds : LeaseExpires(j)

Spec == Init /\ [][Next]_vars

\* Processes are restarted and work on, some worker takes the next sweep,
\* leases and locks run out.  Requests, purges and faults are not fair.
FairSpec ==
    /\ Spec
    /\ \A w \in Workers : WF_vars(WorkerStep(w))
    /\ WF_vars(\E w \in Workers : StartSweep(w))
    /\ WF_vars(Unlock)
    /\ \A j \in JobIds : WF_vars(LeaseExpires(j))

-----------------------------------------------------------------------------
(***************************************************************************)
(* Properties                                                              *)
(***************************************************************************)

\* Type invariant of the rows, the workers and the Graphile jobs.
TypeOK ==
    /\ org \in [Orgs -> {"ACTIVE", "DELETING", "GONE"}]
    /\ jobs \in [JobIds -> Job]
    /\ files \subseteq Files
    /\ worker \in [Workers -> [pc : Pcs, job : 0..MaxJobs, attempt : 0..MaxAttempts]]
    /\ keyed \in BOOLEAN
    /\ lock \in [by : Workers \union {None}, retryable : BOOLEAN]
    /\ faults \in 0..MaxFaults

\* The sweep never stops for good: at every moment, between any two steps of
\* any worker and after any crash, a job waits or one that would be repeated
\* is running (scheduleNext; "a state change is never lost").
SweepGoesOn == keyed \/ lock.retryable

\* An export that is offered for download has its archive, stored by an
\* attempt of this very export.
FinishedHasFile ==
    \A j \in JobIds : jobs[j].status = "SUCCEEDED" => /\ jobs[j].file \in files
                                                      /\ jobs[j].file[1] = j

Attended(j) == \E w \in Workers : worker[w].job = j /\ jobs[j].owner = w

\* A finished or failed export stays as it is, its archive included: a worker
\* that stalled and was replaced touches neither.
FinishedIsFinal ==
    [][/\ FinishedHasFile'
       /\ \A j \in JobIds :
             jobs[j].status \in {"SUCCEEDED", "FAILED"} =>
                jobs'[j] = jobs[j] \/ jobs'[j].status = "GONE"]_vars

\* Every export ends, or a worker died in its last attempt.
ExportEndsUnlessLost ==
    \A j \in JobIds :
        jobs[j].status \in {"QUEUED", "PROCESSING"} ~>
            \/ jobs[j].status \notin {"QUEUED", "PROCESSING"}
            \/ /\ jobs[j].status = "PROCESSING"
               /\ jobs[j].attempts = MaxAttempts
               /\ ~Attended(j)

=============================================================================
