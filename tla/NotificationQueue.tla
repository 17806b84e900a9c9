-------------------------- MODULE NotificationQueue --------------------------
(***************************************************************************)
(* The outbound notification queue of one organization, together with the  *)
(* organization life cycle that pauses, releases and finally erases it.    *)
(*                                                                         *)
(* worker/notifications.ts, lib/notify.ts, the delivery side of            *)
(* app/platform/(protected)/orgs/actions.ts, retryDelivery in              *)
(* operations/actions.ts and retryNotificationJob in                       *)
(* app/admin/(protected)/subscribers/actions.ts.  A sweep's work on one    *)
(* job is split at every statement that reads or writes the database or    *)
(* talks to a provider, since suspensions, retries and other sweeps        *)
(* interleave there.                                                       *)
(***************************************************************************)
EXTENDS OrgLifecycle

CONSTANTS
    Jobs,          \* the deliveries that events may ask for
    NoJob,         \* an idle sweep works on no job
    Workers,       \* the notification sweeps that may run at the same time
    MaxAttempts,   \* notificationJobs.maxAttempts (8 in lib/notify.ts)
    Subscribers,   \* the subscribers of the page
    NoSubscriber,  \* subscriberId IS NULL: a webhook, destination or direct mail
    RecipientOf    \* the subscriber a job is addressed to, or NoSubscriber

ASSUME WorkersAssumption == NoWorker \notin Workers
ASSUME JobsAssumption == NoJob \notin Jobs
ASSUME AttemptsAssumption == MaxAttempts \in Nat \ {0}
ASSUME RecipientAssumption ==
    /\ NoSubscriber \notin Subscribers
    /\ RecipientOf \in [Jobs -> Subscribers \union {NoSubscriber}]

VARIABLES
    job,          \* the notificationJobs rows
    worker,       \* each sweep: where it is, its job, attempt and outcome
    quarantined,  \* subscribers with quarantined = TRUE
    logged,       \* notificationLogs rows of a job since it was (re)queued
    accepted      \* the provider has accepted the job since it was (re)queued

queueVars == <<job, worker, quarantined, logged, accepted>>
vars == <<org, assets, latest, pjob, pworker, faults,
          job, worker, quarantined, logged, accepted>>

\* ABSENT: no row.  ANNOUNCED: no row either, but a monitor run has seen the
\* organization active and is about to insert it outside any fence.
JobStatuses == {"ABSENT", "ANNOUNCED", "PENDING", "PROCESSING", "SENT",
                "DEAD_LETTER", "BLOCKED"}

\* lastError of a BLOCKED row: who paused it.
Holds == {"none", "suspended", "inactive"}

Job == [status : JobStatuses, attempts : 0..MaxAttempts,
        owner : Workers \union {NoWorker}, live : BOOLEAN, due : BOOLEAN,
        hold : Holds]

Outcomes == {"none", "sent", "transient", "permanent", "bounced"}

Pcs == {"idle", "leased", "delivering", "delivered", "renewing", "committing",
        "writing", "blocking"}

Worker == [pc : Pcs, job : Jobs \union {NoJob}, attempt : 0..MaxAttempts,
           outcome : Outcomes]

AbsentJob == [status |-> "ABSENT", attempts |-> 0, owner |-> NoWorker,
              live |-> FALSE, due |-> FALSE, hold |-> "none"]

QueuedJob == [AbsentJob EXCEPT !.status = "PENDING", !.due = TRUE]

IdleWorker == [pc |-> "idle", job |-> NoJob, attempt |-> 0, outcome |-> "none"]

NoLog == [sent |-> 0, failed |-> 0]

QueueTypeOK ==
    /\ job \in [Jobs -> Job]
    /\ worker \in [Workers -> Worker]
    /\ quarantined \subseteq Subscribers
    /\ logged \in [Jobs -> [sent : Nat, failed : Nat]]
    /\ accepted \in [Jobs -> BOOLEAN]

TypeOK == OrgTypeOK /\ QueueTypeOK

QueueInit ==
    /\ job = [j \in Jobs |-> AbsentJob]
    /\ worker = [w \in Workers |-> IdleWorker]
    /\ quarantined = {}
    /\ logged = [j \in Jobs |-> NoLog]
    /\ accepted = [j \in Jobs |-> FALSE]

Init == OrgInit /\ QueueInit

\* activeOrganizationForNotification (and the page row exists).
Active == org = "ACTIVE"

-----------------------------------------------------------------------------
(* Producers.  The deduplication key makes a second insert a no-op, so a   *)
(* job is inserted at most once.                                           *)

Insert(j) ==
    /\ RecipientOf[j] \notin quarantined
    /\ job' = [job EXCEPT ![j] = QueuedJob]
    /\ UNCHANGED <<worker, quarantined, logged, accepted>>

\* dispatchNotifications inside a transaction that fences the organization:
\* incidents, maintenance, postmortems.
DispatchFenced(j) ==
    /\ Active
    /\ job[j].status = "ABSENT"
    /\ Insert(j)
    /\ UNCHANGED <<orgVars, faults>>

\* A monitor run commits its result while the organization is active ...
Announce(j) ==
    /\ Active
    /\ job[j].status = "ABSENT"
    /\ job' = [job EXCEPT ![j].status = "ANNOUNCED"]
    /\ UNCHANGED <<orgVars, faults, worker, quarantined, logged, accepted>>

\* ... and dispatches afterwards, in a transaction of its own without a
\* fence.  Deleting the organization deletes the page the row refers to.
DispatchUnfenced(j) ==
    /\ job[j].status = "ANNOUNCED"
    /\ org # "GONE"
    /\ Insert(j)
    /\ UNCHANGED <<orgVars, faults>>

-----------------------------------------------------------------------------
(* The sweep: leaseNotificationJob and processNotificationJob.             *)

Leasable(row) ==
    /\ row.status \in {"PENDING", "PROCESSING"}
    /\ row.attempts < MaxAttempts
    /\ row.due
    /\ ~row.live

\* The attempt is read here and counted only when the outcome is committed.
Lease(w, j) ==
    /\ worker[w].pc = "idle"
    /\ Leasable(job[j])
    /\ job' = [job EXCEPT ![j].status = "PROCESSING",
                          ![j].owner = w,
                          ![j].live = TRUE]
    /\ worker' = [worker EXCEPT ![w] = [pc |-> "leased", job |-> j,
                                        attempt |-> job[j].attempts + 1,
                                        outcome |-> "none"]]
    /\ UNCHANGED <<orgVars, faults, quarantined, logged, accepted>>

Goto(w, pc) == worker' = [worker EXCEPT ![w].pc = pc]

\* Mutant: a write is conditional on the status of the job, not on its owner.
HoldsLeaseByStatus(w) ==
    /\ worker[w].job \in Jobs
    /\ job[worker[w].job].status = "PROCESSING"

\* Mutant: a write names the job's id only.
HoldsLeaseById(w) == worker[w].job \in Jobs

\* WHERE status = 'PROCESSING' AND lease_owner = worker.
HoldsLease(w) ==
    /\ worker[w].job \in Jobs
    /\ job[worker[w].job].status = "PROCESSING"
    /\ job[worker[w].job].owner = w

CheckActive(w) ==
    /\ worker[w].pc = "leased"
    /\ Goto(w, IF Active THEN "delivering" ELSE "blocking")
    /\ UNCHANGED <<orgVars, faults, job, quarantined, logged, accepted>>

\* A tick of the heartbeat while the provider is slow.
Heartbeat(w) ==
    /\ worker[w].pc = "delivering"
    /\ HoldsLease(w)
    /\ ~job[worker[w].job].live
    /\ job' = [job EXCEPT ![worker[w].job].live = TRUE]
    /\ UNCHANGED <<orgVars, faults, worker, quarantined, logged, accepted>>

\* deliver: the provider accepts, fails for now, refuses for good, or
\* refuses the address of the recipient.
Deliver(w, outcome) ==
    /\ worker[w].pc = "delivering"
    /\ outcome \in Outcomes \ {"none"}
    /\ worker' = [worker EXCEPT ![w].pc = "delivered", ![w].outcome = outcome]
    /\ accepted' = IF outcome = "sent"
                   THEN [accepted EXCEPT ![worker[w].job] = TRUE]
                   ELSE accepted
    /\ UNCHANGED <<orgVars, faults, job, quarantined, logged>>

RecheckActive(w) ==
    /\ worker[w].pc = "delivered"
    /\ Goto(w, IF Active THEN "renewing" ELSE "blocking")
    /\ UNCHANGED <<orgVars, faults, job, quarantined, logged, accepted>>

\* renewNotificationLease throws when the lease is lost: the drain ends.
Renew(w) ==
    /\ worker[w].pc = "renewing"
    /\ IF HoldsLease(w)
       THEN /\ job' = [job EXCEPT ![worker[w].job].live = TRUE]
            /\ Goto(w, "committing")
       ELSE /\ job' = job
            /\ worker' = [worker EXCEPT ![w] = IdleWorker]
    /\ UNCHANGED <<orgVars, faults, quarantined, logged, accepted>>

\* The first statement of commitNotificationOutcome, a plain read ...
CommitCheck(w) ==
    /\ worker[w].pc = "committing"
    /\ Goto(w, IF Active THEN "writing" ELSE "blocking")
    /\ UNCHANGED <<orgVars, faults, job, quarantined, logged, accepted>>

\* Mutant: the last failure leaves the row in the queue.
FailedAlwaysPending(row, attempt, terminal) ==
    [row EXCEPT !.status = "PENDING", !.attempts = attempt,
                !.due = FALSE, !.owner = NoWorker, !.live = FALSE]

Failed(row, attempt, terminal) ==
    [row EXCEPT !.status = IF terminal THEN "DEAD_LETTER" ELSE "PENDING",
                !.attempts = IF terminal THEN MaxAttempts ELSE attempt,
                !.due = FALSE, !.owner = NoWorker, !.live = FALSE]

Sent(row, attempt) ==
    [row EXCEPT !.status = "SENT", !.attempts = attempt,
                !.owner = NoWorker, !.live = FALSE]

\* ... and the guarded update, the quarantine and the log row, which commit
\* together.  A lost lease returns false and falls through to the block.
CommitOutcome(w) ==
    /\ worker[w].pc = "writing"
    /\ LET j == worker[w].job
           outcome == worker[w].outcome
           attempt == worker[w].attempt
           terminal == outcome \in {"permanent", "bounced"} \/ attempt >= MaxAttempts
       IN  IF HoldsLease(w)
           THEN /\ job' = [job EXCEPT ![j] = IF outcome = "sent"
                                             THEN Sent(@, attempt)
                                             ELSE Failed(@, attempt, terminal)]
                /\ logged' = IF outcome = "sent"
                             THEN [logged EXCEPT ![j].sent = @ + 1]
                             ELSE [logged EXCEPT ![j].failed = @ + 1]
                /\ quarantined' = IF outcome = "bounced"
                                  THEN quarantined \union ({RecipientOf[j]} \ {NoSubscriber})
                                  ELSE quarantined
                /\ worker' = [worker EXCEPT ![w] = IdleWorker]
           ELSE /\ Goto(w, "blocking")
                /\ UNCHANGED <<job, logged, quarantined>>
    /\ UNCHANGED <<orgVars, faults, accepted>>

\* blockInactiveNotification checks the owner but not the status, nor
\* whether the organization is still inactive.
BlockInactive(w) ==
    /\ worker[w].pc = "blocking"
    /\ LET j == worker[w].job
       IN  job' = IF job[j].owner = w
                  THEN [job EXCEPT ![j].status = "BLOCKED",
                                   ![j].owner = NoWorker,
                                   ![j].live = FALSE,
                                   ![j].hold = "inactive"]
                  ELSE job
    /\ worker' = [worker EXCEPT ![w] = IdleWorker]
    /\ UNCHANGED <<orgVars, faults, quarantined, logged, accepted>>

-----------------------------------------------------------------------------
(* The operator.                                                           *)

Requeue(j) ==
    /\ job[j].status = "DEAD_LETTER"
    /\ job' = [job EXCEPT ![j] = QueuedJob]
    /\ logged' = [logged EXCEPT ![j] = NoLog]
    /\ accepted' = [accepted EXCEPT ![j] = FALSE]
    /\ UNCHANGED <<orgVars, faults, worker, quarantined>>

\* retryDelivery, from the platform console: no fence.
RetryDelivery(j) == Requeue(j)

\* retryNotificationJob, from the organization's own console: fenced.
RetryNotificationJob(j) == Active /\ Requeue(j)

\* toggleQuarantine, fenced.
ToggleQuarantine(s) ==
    /\ Active
    /\ quarantined' = IF s \in quarantined THEN quarantined \ {s}
                                           ELSE quarantined \union {s}
    /\ UNCHANGED <<orgVars, faults, job, worker, logged, accepted>>

\* The rest of suspendOne's transaction: every unfinished delivery is held.
Suspend ==
    /\ SuspendOrg
    /\ job' = [j \in Jobs |->
                 IF job[j].status \in {"PENDING", "PROCESSING"}
                 THEN [job[j] EXCEPT !.status = "BLOCKED", !.owner = NoWorker,
                                     !.live = FALSE, !.hold = "suspended"]
                 ELSE job[j]]
    /\ UNCHANGED <<worker, quarantined, logged, accepted>>

HeldBySuspension(row) == row.status = "BLOCKED" /\ row.hold = "suspended"

\* The rest of reactivateOne's: what the suspension held is due again.
Reactivate ==
    /\ ReactivateOrg
    /\ job' = [j \in Jobs |->
                 IF HeldBySuspension(job[j])
                 THEN [job[j] EXCEPT !.status = "PENDING", !.due = TRUE,
                                     !.hold = "none"]
                 ELSE job[j]]
    /\ UNCHANGED <<worker, quarantined, logged, accepted>>

\* The organization's rows disappear with it (ON DELETE CASCADE).
Finalize(w) ==
    /\ FinalizePurge(w)
    /\ IF org' = "GONE"
       THEN /\ job' = [j \in Jobs |-> AbsentJob]
            /\ quarantined' = {}
            /\ logged' = [j \in Jobs |-> NoLog]
            /\ accepted' = [j \in Jobs |-> FALSE]
       ELSE UNCHANGED <<job, quarantined, logged, accepted>>
    /\ UNCHANGED worker

-----------------------------------------------------------------------------
(* The environment.                                                        *)

Attended(j) ==
    \E w \in Workers : worker[w].pc # "idle" /\ worker[w].job = j /\ job[j].owner = w

\* Thirty seconds without a renewal.
LeaseExpires(j) ==
    /\ job[j].status = "PROCESSING"
    /\ job[j].live
    /\ IF Attended(j)
       THEN faults < MaxFaults /\ faults' = faults + 1
       ELSE faults' = faults
    /\ job' = [job EXCEPT ![j].live = FALSE]
    /\ UNCHANGED <<orgVars, worker, quarantined, logged, accepted>>

\* nextAttemptAt of a PENDING row is reached.
BackoffElapses(j) ==
    /\ job[j].status = "PENDING"
    /\ ~job[j].due
    /\ job' = [job EXCEPT ![j].due = TRUE]
    /\ UNCHANGED <<orgVars, faults, worker, quarantined, logged, accepted>>

\* The process dies, or a statement fails and the drain ends with its error.
Crash(w) ==
    /\ worker[w].pc # "idle"
    /\ faults < MaxFaults
    /\ faults' = faults + 1
    /\ worker' = [worker EXCEPT ![w] = IdleWorker]
    /\ UNCHANGED <<orgVars, job, quarantined, logged, accepted>>

-----------------------------------------------------------------------------

WorkerStep(w) ==
    \/ CheckActive(w)
    \/ \E outcome \in Outcomes : Deliver(w, outcome)
    \/ RecheckActive(w)
    \/ Renew(w)
    \/ CommitCheck(w)
    \/ CommitOutcome(w)
    \/ BlockInactive(w)

QueueStep ==
    \/ \E j \in Jobs :
          \/ DispatchFenced(j) \/ Announce(j) \/ DispatchUnfenced(j)
          \/ RetryDelivery(j) \/ RetryNotificationJob(j)
          \/ LeaseExpires(j) \/ BackoffElapses(j)
    \/ \E s \in Subscribers : ToggleQuarantine(s)
    \/ \E w \in Workers :
          \/ \E j \in Jobs : Lease(w, j)
          \/ Heartbeat(w)
          \/ WorkerStep(w)
          \/ Crash(w)

Next ==
    \/ QueueStep
    \/ Suspend
    \/ Reactivate
    \/ PurgeStep /\ UNCHANGED queueVars
    \/ \E w \in PurgeWorkers : Finalize(w)

Spec == Init /\ [][Next]_vars

\* Sweeps are rescheduled for ever and drain what is due, oldest first; a
\* sweep that works goes on; clocks advance; an unattended lease runs out.
Fairness ==
    /\ \A w \in Workers : WF_vars(WorkerStep(w))
    /\ \A j \in Jobs :
          /\ SF_vars(\E w \in Workers : Lease(w, j))
          /\ WF_vars(~Attended(j) /\ LeaseExpires(j))
          /\ WF_vars(BackoffElapses(j))

FairSpec == Spec /\ Fairness

-----------------------------------------------------------------------------
(* Properties.                                                             *)

Unfinished(j) == job[j].status \in {"PENDING", "PROCESSING", "BLOCKED"}

\* The attempt counter of a row and its log never drift apart, although the
\* counter is computed from a row read before the delivery and written after
\* it: no recorded attempt is lost, counted twice or overwritten by a sweep
\* that was replaced; a dead letter shows at least one recorded failure.
AttemptsMatchLog ==
    \A j \in Jobs :
        /\ Unfinished(j) =>
              /\ job[j].attempts = logged[j].failed
              /\ job[j].attempts < MaxAttempts
              /\ logged[j].sent = 0
        /\ job[j].status = "SENT" =>
              /\ job[j].attempts = logged[j].failed + 1
              /\ logged[j].sent = 1
        /\ job[j].status = "DEAD_LETTER" =>
              /\ job[j].attempts = MaxAttempts
              /\ logged[j].failed \in 1..MaxAttempts
              /\ logged[j].sent = 0

\* A row says SENT only if the provider accepted the message since the row
\* was last queued: a sweep never records the outcome of an older run.
SentWasAccepted == \A j \in Jobs : job[j].status = "SENT" => accepted[j]

\* Nothing of an organization outlives it: no sweep in flight and no late
\* dispatch leaves a row, a log or a quarantine behind the deletion.
NothingOutlivesOrganization ==
    org = "GONE" =>
        /\ \A j \in Jobs : job[j].status \in {"ABSENT", "ANNOUNCED"} /\ logged[j] = NoLog
        /\ quarantined = {}

\* What the rows and the log say is what happened, whichever sweep wrote them.
RecordsAreTrue ==
    TypeOK /\ AttemptsMatchLog /\ SentWasAccepted /\ NothingOutlivesOrganization

\* Every delivery that is queued or being processed ends: sent, given up, or
\* held because the organization stopped being active.
DeliveriesSettle ==
    \A j \in Jobs : job[j].status \in {"PENDING", "PROCESSING"} ~>
                   job[j].status \notin {"PENDING", "PROCESSING"}

\* The queue as its callers see it (DeliveryContract).  A row that a sweep
\* blocked is parked; one that the suspension blocked is held.
RowPhase(row) ==
    CASE row.status \in {"ABSENT", "ANNOUNCED"}    -> "none"
      [] row.status \in {"PENDING", "PROCESSING"}  -> "queued"
      [] row.status = "SENT"                       -> "sent"
      [] row.status = "DEAD_LETTER"                -> "dead"
      [] HeldBySuspension(row)                     -> "held"
      [] OTHER                                     -> "parked"

phase == [j \in Jobs |-> RowPhase(job[j])]

failures == [j \in Jobs |-> logged[j].failed]

Contract == INSTANCE DeliveryContract WITH active <- Active

\* Whatever sweeps, crashes and expiring leases do, callers see exactly the
\* transitions of the contract.
ImplementsContract == Contract!Spec
=============================================================================
