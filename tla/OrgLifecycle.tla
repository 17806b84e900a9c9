---------------------------- MODULE OrgLifecycle ----------------------------
(***************************************************************************)
(* The life of one organization: suspend, reactivate, request a purge,     *)
(* cancel it, and the worker that carries the purge out.                   *)
(*                                                                         *)
(* app/platform/(protected)/orgs/actions.ts, operations/actions.ts,        *)
(* worker/platform-jobs.ts, lib/cascade.ts (deleteOrgCascade) and          *)
(* lib/platform-job-policy.ts.  Every statement of those files is keyed    *)
(* by one organization id, so one organization is modelled.  Each action   *)
(* is one database transaction (or one external call) of the code; other   *)
(* transactions interleave between any two of them.                        *)
(***************************************************************************)
EXTENDS Integers, FiniteSets

CONSTANTS
    PurgeWorkers,      \* the platform-job sweeps that may run at the same time
    NoWorker,          \* leaseOwner IS NULL
    MaxPurgeAttempts,  \* platformJobs.maxAttempts (5 in purgeOne)
    MaxPurges,         \* bound: purge requests made over a behaviour
    MaxFaults          \* bound: process crashes and stalls over a behaviour

ASSUME PurgeWorkersAssumption == NoWorker \notin PurgeWorkers
ASSUME PurgeAttemptsAssumption == MaxPurgeAttempts \in Nat \ {0}
ASSUME PurgeBoundsAssumption == MaxPurges \in Nat /\ MaxFaults \in Nat

VARIABLES
    org,      \* organizations.status, "GONE" once the row is deleted
    assets,   \* "intact" until a purge has removed the first stored file
    latest,   \* number of platformJobs rows; the row with this id is the newest
    pjob,     \* the platformJobs rows, by creation order
    pworker,  \* each sweep: where it is, the job it leased, its attempt number
    faults    \* crashes and stalls so far (bounded by MaxFaults)

orgVars == <<org, assets, latest, pjob, pworker>>

PurgeIds == 1..MaxPurges

OrgStatuses == {"ACTIVE", "SUSPENDED", "DELETING", "GONE"}

PurgeStatuses == {"ABSENT", "QUEUED", "PROCESSING", "SUCCEEDED", "FAILED", "CANCELLED"}

\* live: leaseExpiresAt lies in the future; due: nextAttemptAt has been
\* reached; started: startedAt is set.
PurgeJob == [status : PurgeStatuses, attempts : 0..MaxPurgeAttempts,
             owner : PurgeWorkers \union {NoWorker},
             live : BOOLEAN, due : BOOLEAN, started : BOOLEAN]

PurgePcs == {"idle", "removing", "fencing", "finalizing", "failing"}

PurgeWorker == [pc : PurgePcs, job : PurgeIds \union {0}, attempt : 0..MaxPurgeAttempts]

IdlePurgeWorker == [pc |-> "idle", job |-> 0, attempt |-> 0]

AbsentPurgeJob == [status |-> "ABSENT", attempts |-> 0, owner |-> NoWorker,
                   live |-> FALSE, due |-> FALSE, started |-> FALSE]

QueuedPurgeJob == [AbsentPurgeJob EXCEPT !.status = "QUEUED", !.due = TRUE]

OrgTypeOK ==
    /\ org \in OrgStatuses
    /\ assets \in {"intact", "damaged"}
    /\ latest \in 0..MaxPurges
    /\ pjob \in [PurgeIds -> PurgeJob]
    /\ pworker \in [PurgeWorkers -> PurgeWorker]
    /\ faults \in 0..MaxFaults

OrgInit ==
    /\ org = "ACTIVE"
    /\ assets = "intact"
    /\ latest = 0
    /\ pjob = [p \in PurgeIds |-> AbsentPurgeJob]
    /\ pworker = [w \in PurgeWorkers |-> IdlePurgeWorker]
    /\ faults = 0

-----------------------------------------------------------------------------
(* The operator's actions.  Each locks the organization row first.         *)

\* suspendOne: refuses a suspended or deleting organization.
SuspendOrg ==
    /\ org = "ACTIVE"
    /\ org' = "SUSPENDED"
    /\ UNCHANGED <<assets, latest, pjob, pworker, faults>>

\* reactivateOne: only a suspended organization.
ReactivateOrg ==
    /\ org = "SUSPENDED"
    /\ org' = "ACTIVE"
    /\ UNCHANGED <<assets, latest, pjob, pworker, faults>>

\* purgeOne: queues a new job; the organization must be suspended already.
RequestPurge ==
    /\ org = "SUSPENDED"
    /\ latest < MaxPurges
    /\ org' = "DELETING"
    /\ latest' = latest + 1
    /\ pjob' = [pjob EXCEPT ![latest + 1] = QueuedPurgeJob]
    /\ UNCHANGED <<assets, pworker, faults>>

\* Mutant: the cancellation forgets that a retried job was started before.
CancellableOnceRetried(job) == job.status = "QUEUED" /\ job.attempts = 0

\* organizationPurgeCanBeCancelled, and the guards cancelPurgeOne repeats.
Cancellable(job) ==
    /\ job.status = "QUEUED"
    /\ job.attempts = 0
    /\ ~job.started

\* cancelPurgeOne looks at the newest job of the organization only.
CancelPurge ==
    /\ org = "DELETING"
    /\ latest > 0
    /\ Cancellable(pjob[latest])
    /\ pjob' = [pjob EXCEPT ![latest].status = "CANCELLED",
                            ![latest].owner = NoWorker,
                            ![latest].live = FALSE]
    /\ org' = "SUSPENDED"
    /\ UNCHANGED <<assets, latest, pworker, faults>>

\* retryJob keeps startedAt, so a retried purge stays irreversible.
RetryPurge(p) ==
    /\ pjob[p].status = "FAILED"
    /\ pjob[p].attempts >= MaxPurgeAttempts
    /\ pjob' = [pjob EXCEPT ![p].status = "QUEUED",
                            ![p].attempts = 0,
                            ![p].due = TRUE,
                            ![p].owner = NoWorker,
                            ![p].live = FALSE]
    /\ UNCHANGED <<org, assets, latest, pworker, faults>>

-----------------------------------------------------------------------------
(* The worker.                                                             *)

\* Mutant: the attempts are not counted.
PurgeLeasableForever(job) ==
    job.due /\ (job.status \in {"QUEUED", "FAILED"} \/ (job.status = "PROCESSING" /\ ~job.live))

PurgeLeasable(job) ==
    /\ job.attempts < MaxPurgeAttempts
    /\ job.due
    /\ \/ job.status \in {"QUEUED", "FAILED"}
       \/ job.status = "PROCESSING" /\ ~job.live

\* leasePlatformJob counts the attempt when it leases, not when it ends.
LeasePurge(w, p) ==
    /\ pworker[w].pc = "idle"
    /\ PurgeLeasable(pjob[p])
    /\ pjob' = [pjob EXCEPT ![p].status = "PROCESSING",
                            ![p].owner = w,
                            ![p].live = TRUE,
                            ![p].started = TRUE,
                            ![p].attempts = pjob[p].attempts + 1]
    /\ pworker' = [pworker EXCEPT ![w] = [pc |-> "removing", job |-> p,
                                          attempt |-> pjob[p].attempts + 1]]
    /\ UNCHANGED <<org, assets, latest, faults>>

\* Mutant: a write is conditional on the job's status, not on the lease owner.
HoldsPurgeByStatus(w) ==
    /\ pworker[w].job \in PurgeIds
    /\ pjob[pworker[w].job].status = "PROCESSING"

\* Mutant: a write names the job's id only.
HoldsPurgeById(w) == pworker[w].job \in PurgeIds

\* WHERE status = 'PROCESSING' AND lease_owner = worker; an ABSENT row of
\* an out-of-range id never matches.
HoldsPurge(w) ==
    /\ pworker[w].job \in PurgeIds
    /\ pjob[pworker[w].job].status = "PROCESSING"
    /\ pjob[pworker[w].job].owner = w

GotoPurge(w, pc) == pworker' = [pworker EXCEPT ![w].pc = pc]

\* A tick of startLeaseHeartbeat: an expired lease is renewed too, as long
\* as nobody else has taken it; a lost lease is ignored here.
HeartbeatPurge(w) ==
    /\ pworker[w].pc = "removing"
    /\ HoldsPurge(w)
    /\ ~pjob[pworker[w].job].live
    /\ pjob' = [pjob EXCEPT ![pworker[w].job].live = TRUE]
    /\ UNCHANGED <<org, assets, latest, pworker, faults>>

\* deleteRecordedAssets, outside any transaction.
RemoveAssets(w) ==
    /\ pworker[w].pc = "removing"
    /\ assets' = "damaged"
    /\ GotoPurge(w, "fencing")
    /\ UNCHANGED <<org, latest, pjob, faults>>

\* beforeFinalize: the heartbeat is stopped and the lease must still be ours.
FencePurge(w) ==
    /\ pworker[w].pc = "fencing"
    /\ IF HoldsPurge(w)
       THEN /\ pjob' = [pjob EXCEPT ![pworker[w].job].live = TRUE]
            /\ GotoPurge(w, "finalizing")
       ELSE /\ pjob' = pjob
            /\ GotoPurge(w, "failing")
    /\ UNCHANGED <<org, assets, latest, faults>>

\* The final transaction of deleteOrgCascade: the organization row must
\* exist, recordScope and finalize must both find the lease; otherwise it
\* rolls back and failPurge runs.
FinalizePurge(w) ==
    /\ pworker[w].pc = "finalizing"
    /\ IF org # "GONE" /\ HoldsPurge(w)
       THEN /\ org' = "GONE"
            /\ pjob' = [pjob EXCEPT ![pworker[w].job].status = "SUCCEEDED",
                                    ![pworker[w].job].owner = NoWorker,
                                    ![pworker[w].job].live = FALSE]
            /\ pworker' = [pworker EXCEPT ![w] = IdlePurgeWorker]
       ELSE /\ GotoPurge(w, "failing")
            /\ UNCHANGED <<org, pjob>>
    /\ UNCHANGED <<assets, latest, faults>>

\* An exception in any step; removal of the files may already have begun.
PurgeStepFails(w) ==
    /\ pworker[w].pc \in {"removing", "fencing", "finalizing"}
    /\ \/ assets' = assets
       \/ pworker[w].pc = "removing" /\ assets' = "damaged"
    /\ GotoPurge(w, "failing")
    /\ UNCHANGED <<org, latest, pjob, faults>>

\* Mutant: the last attempt is never taken for the last.
LastAttemptNever(w) == pworker[w].attempt > MaxPurgeAttempts

LastAttempt(w) == pworker[w].attempt >= MaxPurgeAttempts

\* failPurge: terminal once the attempt counted at the lease was the last.
FailPurge(w) ==
    /\ pworker[w].pc = "failing"
    /\ IF HoldsPurge(w)
       THEN pjob' = [pjob EXCEPT
                ![pworker[w].job].status = IF LastAttempt(w) THEN "FAILED" ELSE "QUEUED",
                ![pworker[w].job].owner = NoWorker,
                ![pworker[w].job].live = FALSE,
                ![pworker[w].job].due = FALSE]
       ELSE pjob' = pjob
    /\ pworker' = [pworker EXCEPT ![w] = IdlePurgeWorker]
    /\ UNCHANGED <<org, assets, latest, faults>>

-----------------------------------------------------------------------------
(* The environment: time and process failure.                              *)

\* The sweep that leased the job is still working on it.
PurgeAttended(p) ==
    \E w \in PurgeWorkers : pworker[w].pc # "idle" /\ pworker[w].job = p
                            /\ pjob[p].owner = w

\* Five minutes without a renewal.  A sweep that is still alive renews every
\* minute, so losing its lease takes a stall, which counts as a fault.
PurgeLeaseExpires(p) ==
    /\ pjob[p].status = "PROCESSING"
    /\ pjob[p].live
    /\ IF PurgeAttended(p)
       THEN faults < MaxFaults /\ faults' = faults + 1
       ELSE faults' = faults
    /\ pjob' = [pjob EXCEPT ![p].live = FALSE]
    /\ UNCHANGED <<org, assets, latest, pworker>>

\* nextAttemptAt is reached.  A FAILED job's lies in the year 9999.
PurgeBackoffElapses(p) ==
    /\ pjob[p].status = "QUEUED"
    /\ ~pjob[p].due
    /\ pjob' = [pjob EXCEPT ![p].due = TRUE]
    /\ UNCHANGED <<org, assets, latest, pworker, faults>>

\* The process dies, or failPurge itself cannot reach the database: the row
\* keeps its PROCESSING status and its owner.
CrashPurge(w) ==
    /\ pworker[w].pc # "idle"
    /\ faults < MaxFaults
    /\ faults' = faults + 1
    /\ pworker' = [pworker EXCEPT ![w] = IdlePurgeWorker]
    /\ UNCHANGED <<org, assets, latest, pjob>>

-----------------------------------------------------------------------------

PurgeWorkerStep(w) ==
    RemoveAssets(w) \/ FencePurge(w) \/ FinalizePurge(w) \/ FailPurge(w)

\* Everything of the purge but its last transaction and the life-cycle
\* actions that NotificationQueue extends with their effect on deliveries.
PurgeStep ==
    \/ RequestPurge
    \/ CancelPurge
    \/ \E p \in PurgeIds :
          RetryPurge(p) \/ PurgeLeaseExpires(p) \/ PurgeBackoffElapses(p)
    \/ \E w \in PurgeWorkers :
          \/ \E p \in PurgeIds : LeasePurge(w, p)
          \/ HeartbeatPurge(w) \/ RemoveAssets(w) \/ FencePurge(w)
          \/ PurgeStepFails(w) \/ FailPurge(w) \/ CrashPurge(w)

OrgNext ==
    \/ SuspendOrg
    \/ ReactivateOrg
    \/ PurgeStep
    \/ \E w \in PurgeWorkers : FinalizePurge(w)

OrgSpec == OrgInit /\ [][OrgNext]_<<orgVars, faults>>

\* Graphile runs the sweep again and again, so an idle sweep leases what is
\* due and a sweep that works finishes; clocks advance.  The operator and
\* the faults are not fair.
OrgFairness ==
    /\ \A w \in PurgeWorkers : WF_<<orgVars, faults>>(PurgeWorkerStep(w))
    /\ \A p \in PurgeIds :
          /\ WF_<<orgVars, faults>>(\E w \in PurgeWorkers : LeasePurge(w, p))
          /\ WF_<<orgVars, faults>>(~PurgeAttended(p) /\ PurgeLeaseExpires(p))
          /\ WF_<<orgVars, faults>>(PurgeBackoffElapses(p))

FairOrgSpec == OrgSpec /\ OrgFairness

-----------------------------------------------------------------------------
(* Properties.                                                             *)

\* Once a purge may have removed a file, the organization can only go on to
\* be deleted: cancelPurgeOne never hands back an organization whose data a
\* worker has touched, whatever crashes, retries and re-leases came between.
PurgeIrreversible == assets = "damaged" => org \in {"DELETING", "GONE"}

Outstanding(p) == pjob[p].status \in {"QUEUED", "PROCESSING", "FAILED"}

\* The organization row and the job rows never disagree: a deleting
\* organization has exactly one unfinished purge, its newest; any other has
\* none; and the row is gone exactly when a purge recorded success.
PurgeTracksOrganization ==
    /\ org = "DELETING" <=> \E p \in PurgeIds : Outstanding(p)
    /\ org = "GONE" <=> \E p \in PurgeIds : pjob[p].status = "SUCCEEDED"
    /\ \A p \in PurgeIds : Outstanding(p) => p = latest

\* An exhausted purge is one the operator's retry accepts (retryJob demands
\* attempts >= maxAttempts): a failed job is never stranded.
ExhaustedIsRetryable ==
    \A p \in PurgeIds : pjob[p].status = "FAILED" => pjob[p].attempts >= MaxPurgeAttempts

\* The organization row is deleted only by the sweep that holds the lease of
\* its current attempt, never by one that stalled and was replaced.
StaleSweepNeverFinalizes ==
    [][org' = "GONE" /\ org # "GONE" =>
         \E w \in PurgeWorkers :
            /\ pworker[w].pc = "finalizing"
            /\ pworker[w].job = latest
            /\ pjob[latest].owner = w
            /\ pworker[w].attempt = pjob[latest].attempts]_<<orgVars, faults>>

\* A requested deletion ends: deleted, cancelled, or failed where the operator
\* can retry it.  lib/help-content.ts calls it "queued, and retryable"; the one
\* way out of this is a crash in the last attempt, which leaves a job that
\* nobody works on, nobody can lease and retryJob refuses.
DeletionSettles ==
    org = "DELETING" ~>
        \/ org # "DELETING"
        \/ \E p \in PurgeIds :
              \/ pjob[p].status = "FAILED"
              \/ /\ pjob[p].status = "PROCESSING"
                 /\ pjob[p].attempts = MaxPurgeAttempts
                 /\ ~PurgeAttended(p)
=============================================================================
