----------------------- MODULE NotificationQueue_proofs -----------------------
(***************************************************************************)
(* Safety of the organization life cycle, of the notification queue, and   *)
(* the queue's refinement of DeliveryContract, for every number of         *)
(* deliveries, sweeps, attempts, subscribers, purges and faults.           *)
(*                                                                         *)
(* The organization.  None of its properties is inductive: cancelling      *)
(* looks at one row, while a sweep acts on the row it leased, perhaps long *)
(* ago.  OrgInv ties the three together: a row that some sweep ever leased *)
(* (started) is never cancelled, and only the newest row can be            *)
(* unfinished.                                                             *)
(*                                                                         *)
(* The queue keeps OrgInv and adds two parts.  A row and its log agree,    *)
(* and a row has an owner exactly while it is PROCESSING (QueueRow).  A    *)
(* sweep that still owns its row counts from the row's own counter, has    *)
(* seen the organization active and it still is, and if its outcome is     *)
(* "sent" the provider accepted this run of the row (QueueSweep): whatever *)
(* breaks one of these takes the lease away first.                         *)
(***************************************************************************)
EXTENDS NotificationQueue, TLAPS

-----------------------------------------------------------------------------
(* The organization life cycle.                                            *)


\* What each row says about itself and about the organization.
RowInv(p) ==
    /\ pjob[p].status = "ABSENT" <=> p > latest
    /\ Outstanding(p) => p = latest /\ org = "DELETING"
    /\ pjob[p].status = "SUCCEEDED" => org = "GONE"
    /\ pjob[p].owner # NoWorker <=> pjob[p].status = "PROCESSING"
    /\ pjob[p].status \in {"PROCESSING", "FAILED", "SUCCEEDED"} => pjob[p].started
    /\ pjob[p].status \in {"ABSENT", "CANCELLED"} => ~pjob[p].started
    /\ pjob[p].status = "FAILED" => pjob[p].attempts >= MaxPurgeAttempts

\* What a sweep at work knows: its row was started, and if it still owns the
\* row, the attempt it remembers is the row's.
SweepInv(w) ==
    pworker[w].pc # "idle" =>
        /\ pworker[w].job \in PurgeIds
        /\ pjob[pworker[w].job].started
        /\ pjob[pworker[w].job].owner = w => pworker[w].attempt = pjob[pworker[w].job].attempts

OrgInv ==
    /\ OrgTypeOK
    /\ \A p \in PurgeIds : RowInv(p)
    /\ \A w \in PurgeWorkers : SweepInv(w)
    /\ org = "DELETING" => latest > 0 /\ Outstanding(latest)
    /\ org = "GONE" => latest > 0 /\ pjob[latest].status = "SUCCEEDED"
    /\ assets = "damaged" => \E p \in PurgeIds : pjob[p].started

USE PurgeWorkersAssumption, PurgeAttemptsAssumption, PurgeBoundsAssumption

-----------------------------------------------------------------------------
(* One lemma for each action that writes a row or a sweep.                 *)

\* The first rows and sweeps satisfy the invariant.
LEMMA OrgInitInv == OrgInit => OrgInv
  BY DEF OrgInit, OrgInv, OrgTypeOK, RowInv, SweepInv, Outstanding, PurgeIds,
         AbsentPurgeJob, IdlePurgeWorker, OrgStatuses, PurgeJob, PurgeStatuses,
         PurgeWorker, PurgePcs

\* Suspending and reactivating concern neither rows nor sweeps.
LEMMA LifecycleInv == OrgInv /\ (SuspendOrg \/ ReactivateOrg) => OrgInv'
  BY DEF SuspendOrg, ReactivateOrg, OrgInv, OrgTypeOK, RowInv, SweepInv, Outstanding,
         OrgStatuses

\* Nor do faults and steps of other components.
LEMMA FaultInv ==
  ASSUME OrgInv, UNCHANGED orgVars, faults' \in 0..MaxFaults
  PROVE  OrgInv'
  BY DEF orgVars, OrgInv, OrgTypeOK, RowInv, SweepInv, Outstanding

\* A request numbers its row one past the newest.
LEMMA RequestInv == OrgInv /\ RequestPurge => OrgInv'
  <1> SUFFICES ASSUME OrgInv, RequestPurge PROVE OrgInv'
    OBVIOUS
  <1> DEFINE q == latest + 1
  <1>1. q \in PurgeIds /\ pjob[q].status = "ABSENT"
    BY DEF OrgInv, OrgTypeOK, RowInv, RequestPurge, PurgeIds
  <1>2. /\ pjob' = [pjob EXCEPT ![q] = QueuedPurgeJob]
        /\ latest' = q /\ org' = "DELETING" /\ org = "SUSPENDED"
        /\ UNCHANGED <<assets, pworker, faults>>
    BY DEF RequestPurge
  <1> QueuedPurgeJob \in PurgeJob
    <2>1. AbsentPurgeJob \in PurgeJob
      BY DEF AbsentPurgeJob, PurgeJob, PurgeStatuses
    <2>2. QED
      BY <2>1 DEF QueuedPurgeJob, PurgeJob, PurgeStatuses
  <1>3. OrgTypeOK'
    BY <1>1, <1>2 DEF OrgInv, OrgTypeOK, PurgeIds, OrgStatuses
  <1>4. ASSUME NEW p \in PurgeIds PROVE RowInv(p)'
    BY <1>1, <1>2 DEF OrgInv, OrgTypeOK, RowInv, PurgeIds, Outstanding, QueuedPurgeJob,
                      AbsentPurgeJob
  <1>5. ASSUME NEW w \in PurgeWorkers PROVE SweepInv(w)'
    BY <1>1, <1>2 DEF OrgInv, OrgTypeOK, RowInv, SweepInv
  <1>6. QED
    BY <1>1, <1>2, <1>3, <1>4, <1>5
       DEF OrgInv, OrgTypeOK, RowInv, PurgeIds, Outstanding, QueuedPurgeJob, AbsentPurgeJob

\* Cancelling takes a row that no sweep ever leased.
LEMMA CancelInv == OrgInv /\ CancelPurge => OrgInv'
  <1> SUFFICES ASSUME OrgInv, CancelPurge PROVE OrgInv'
    OBVIOUS
  <1> DEFINE row == [pjob[latest] EXCEPT !.status = "CANCELLED", !.owner = NoWorker,
                                         !.live = FALSE]
  <1>1. latest \in PurgeIds /\ pjob[latest] \in PurgeJob
    BY DEF OrgInv, OrgTypeOK, CancelPurge, PurgeIds
  <1>2. /\ pjob' = [pjob EXCEPT ![latest] = row] /\ org' = "SUSPENDED"
        /\ UNCHANGED <<assets, latest, pworker, faults>>
    BY <1>1 DEF CancelPurge
  <1>3. row \in PurgeJob /\ ~row.started /\ row.status = "CANCELLED" /\ row.owner = NoWorker
    BY <1>1 DEF CancelPurge, Cancellable, PurgeJob, PurgeStatuses
  <1>4. OrgTypeOK'
    BY <1>1, <1>2, <1>3 DEF OrgInv, OrgTypeOK, OrgStatuses
  <1>5. ASSUME NEW p \in PurgeIds PROVE RowInv(p)'
    BY <1>1, <1>2, <1>3 DEF OrgInv, OrgTypeOK, RowInv, PurgeIds, Outstanding, CancelPurge
  <1>6. ASSUME NEW w \in PurgeWorkers PROVE SweepInv(w)'
    BY <1>1, <1>2, <1>3 DEF OrgInv, OrgTypeOK, SweepInv, CancelPurge, Cancellable
  <1>7. assets' = "damaged" => \E p \in PurgeIds : pjob'[p].started
    BY <1>1, <1>2, <1>3 DEF OrgInv, OrgTypeOK, CancelPurge, Cancellable
  <1>8. QED
    BY <1>2, <1>4, <1>5, <1>6, <1>7 DEF OrgInv

\* Every other change of a row leaves it a started or a queued one of the
\* same organization.  The step is described by the new row and the sweep, if
\* any, that moves with it.
LEMMA RowChangeInv ==
  ASSUME OrgInv, NEW p \in PurgeIds, NEW row \in PurgeJob,
         pjob' = [pjob EXCEPT ![p] = row],
         UNCHANGED <<org, latest>>,
         assets' \in {"intact", "damaged"}, faults' \in 0..MaxFaults,
         pworker' \in [PurgeWorkers -> PurgeWorker],
         assets' = "damaged" => assets = "damaged" \/ row.started,
         Outstanding(p),
         row.status \in {"QUEUED", "PROCESSING", "FAILED"},
         pjob[p].started => row.started,
         row.owner # NoWorker <=> row.status = "PROCESSING",
         row.status \in {"PROCESSING", "FAILED"} => row.started,
         row.status = "FAILED" => row.attempts >= MaxPurgeAttempts,
         \A w \in PurgeWorkers : SweepInv(w)'
  PROVE  OrgInv'
  <1>1. OrgTypeOK'
    BY DEF OrgInv, OrgTypeOK
  <1>2. ASSUME NEW q \in PurgeIds PROVE RowInv(q)'
    <2>1. CASE q = p
      BY <2>1 DEF OrgInv, OrgTypeOK, RowInv, Outstanding
    <2>2. CASE q # p
      BY <2>2 DEF OrgInv, OrgTypeOK, RowInv, Outstanding
    <2>3. QED
      BY <2>1, <2>2
  <1>3. Outstanding(latest)' /\ org' = "DELETING" /\ latest' > 0
    BY DEF OrgInv, OrgTypeOK, RowInv, Outstanding, PurgeIds
  <1>4. assets' = "damaged" => \E q \in PurgeIds : pjob'[q].started
    BY DEF OrgInv, OrgTypeOK
  <1>5. QED
    BY <1>1, <1>2, <1>3, <1>4 DEF OrgInv

\* A retry resets a row that failed for good; no sweep owns it.
LEMMA RetryInv == ASSUME OrgInv, NEW p \in PurgeIds, RetryPurge(p) PROVE OrgInv'
  <1> DEFINE reset == [pjob[p] EXCEPT !.status = "QUEUED", !.attempts = 0, !.due = TRUE]
             row == [reset EXCEPT !.owner = NoWorker, !.live = FALSE]
  <1>1. /\ pjob[p] \in PurgeJob /\ pjob[p].started /\ Outstanding(p)
        /\ pjob' = [pjob EXCEPT ![p] = row]
        /\ UNCHANGED <<org, assets, latest, pworker, faults>>
    BY DEF RetryPurge, OrgInv, OrgTypeOK, RowInv, Outstanding
  <1>r. reset \in PurgeJob /\ reset.started /\ reset.status = "QUEUED"
    <2>1. 0 \in 0..MaxPurgeAttempts /\ pjob[p] \in PurgeJob /\ pjob[p].started
      BY <1>1
    <2>2. QED
      BY <2>1 DEF PurgeJob, PurgeStatuses
  <1> HIDE DEF reset
  <1>2. row \in PurgeJob /\ row.started /\ row.status = "QUEUED" /\ row.owner = NoWorker
    BY <1>r DEF PurgeJob
  <1>3. ASSUME NEW w \in PurgeWorkers PROVE SweepInv(w)'
    BY <1>1, <1>2 DEF OrgInv, OrgTypeOK, SweepInv
  <1> HIDE DEF row
  <1>4. QED
    BY <1>1, <1>2, <1>3, RowChangeInv DEF OrgInv, OrgTypeOK

\* Time passes: a lease runs out or a backoff ends.
LEMMA TimeInv ==
  ASSUME OrgInv, NEW p \in PurgeIds, PurgeLeaseExpires(p) \/ PurgeBackoffElapses(p)
  PROVE  OrgInv'
  <1>1. PICK row \in PurgeJob :
          /\ pjob' = [pjob EXCEPT ![p] = row]
          /\ row.status = pjob[p].status /\ row.owner = pjob[p].owner
          /\ row.started = pjob[p].started /\ row.attempts = pjob[p].attempts
    <2> DEFINE expired == [pjob[p] EXCEPT !.live = FALSE]
               elapsed == [pjob[p] EXCEPT !.due = TRUE]
    <2>1. pjob[p] \in PurgeJob
      BY DEF OrgInv, OrgTypeOK
    <2>2. expired \in PurgeJob /\ elapsed \in PurgeJob
      BY <2>1 DEF PurgeJob
    <2>3. CASE PurgeLeaseExpires(p)
      BY <2>1, <2>2, <2>3 DEF PurgeLeaseExpires, PurgeJob
    <2>4. CASE PurgeBackoffElapses(p)
      BY <2>1, <2>2, <2>4 DEF PurgeBackoffElapses, PurgeJob
    <2>5. QED
      BY <2>3, <2>4
  <1>2. /\ pjob[p].status \in {"PROCESSING", "QUEUED"}
        /\ UNCHANGED <<org, assets, latest, pworker>>
        /\ faults' \in 0..MaxFaults
    BY DEF PurgeLeaseExpires, PurgeBackoffElapses, OrgInv, OrgTypeOK
  <1>3. ASSUME NEW w \in PurgeWorkers PROVE SweepInv(w)'
    BY <1>1, <1>2 DEF OrgInv, OrgTypeOK, SweepInv
  <1>4. RowInv(p) /\ Outstanding(p)
    BY <1>2 DEF OrgInv, Outstanding
  <1>5. QED
    BY <1>1, <1>2, <1>3, <1>4, RowChangeInv DEF OrgInv, OrgTypeOK, RowInv

\* A sweep leases a row: from then on the row is started.
LEMMA LeaseInv ==
  ASSUME OrgInv, NEW w \in PurgeWorkers, NEW p \in PurgeIds, LeasePurge(w, p)
  PROVE  OrgInv'
  <1> DEFINE taken == [pjob[p] EXCEPT !.status = "PROCESSING", !.owner = w, !.live = TRUE]
             row == [taken EXCEPT !.started = TRUE, !.attempts = pjob[p].attempts + 1]
             sweep == [pc |-> "removing", job |-> p, attempt |-> pjob[p].attempts + 1]
  <1>1. /\ pjob[p] \in PurgeJob /\ Outstanding(p)
        /\ pjob[p].attempts < MaxPurgeAttempts
        /\ pjob' = [pjob EXCEPT ![p] = row]
        /\ pworker' = [pworker EXCEPT ![w] = sweep]
        /\ UNCHANGED <<org, assets, latest, faults>>
    BY DEF LeasePurge, PurgeLeasable, OrgInv, OrgTypeOK, Outstanding
  <1>t. taken \in PurgeJob /\ taken.status = "PROCESSING" /\ taken.owner = w
    BY <1>1 DEF PurgeJob, PurgeStatuses
  <1>a. pjob[p].attempts + 1 \in 0..MaxPurgeAttempts
    BY <1>1 DEF PurgeJob
  <1> HIDE DEF taken
  <1>2. /\ row \in PurgeJob /\ row.started /\ row.status = "PROCESSING" /\ row.owner = w
        /\ row.attempts = pjob[p].attempts + 1
    BY <1>t, <1>a DEF PurgeJob
  <1>3. sweep \in PurgeWorker
    BY <1>1 DEF PurgeWorker, PurgePcs, PurgeJob
  <1>4. ASSUME NEW v \in PurgeWorkers PROVE SweepInv(v)'
    <2>1. CASE v = w
      BY <1>1, <1>2, <2>1 DEF OrgInv, OrgTypeOK, SweepInv
    <2>2. CASE v # w
      BY <1>1, <1>2, <2>2 DEF OrgInv, OrgTypeOK, SweepInv
    <2>3. QED
      BY <2>1, <2>2
  <1>5. pworker' \in [PurgeWorkers -> PurgeWorker]
    BY <1>1, <1>3 DEF OrgInv, OrgTypeOK
  <1>6. row.owner # NoWorker
    BY <1>2
  <1> HIDE DEF row
  <1>7. QED
    BY <1>1, <1>2, <1>4, <1>5, <1>6, RowChangeInv DEF OrgInv, OrgTypeOK

\* A sweep that moves on without touching a row, removing a file at most.
LEMMA SweepMovesInv ==
  ASSUME OrgInv, NEW w \in PurgeWorkers, NEW pc \in PurgePcs,
         pworker[w].pc # "idle",
         pworker' = [pworker EXCEPT ![w].pc = pc] \/ pworker' = [pworker EXCEPT ![w] = IdlePurgeWorker],
         UNCHANGED <<org, latest, pjob>>,
         assets' \in {assets, "damaged"}, faults' \in 0..MaxFaults
  PROVE  OrgInv'
  <1>1. pworker[w].job \in PurgeIds /\ pjob[pworker[w].job].started
    BY DEF OrgInv, SweepInv
  <1>2. pworker' \in [PurgeWorkers -> PurgeWorker]
    BY DEF OrgInv, OrgTypeOK, PurgeWorker, IdlePurgeWorker, PurgePcs
  <1>3. ASSUME NEW v \in PurgeWorkers PROVE SweepInv(v)'
    BY DEF OrgInv, OrgTypeOK, SweepInv, IdlePurgeWorker, PurgeWorker
  <1>4. ASSUME NEW p \in PurgeIds PROVE RowInv(p)'
    BY DEF OrgInv, RowInv, Outstanding
  <1>5. QED
    BY <1>1, <1>2, <1>3, <1>4 DEF OrgInv, OrgTypeOK, Outstanding

\* The holder of a lease renews it, and may move on as it does.
LEMMA RenewInv ==
  ASSUME OrgInv, NEW w \in PurgeWorkers, NEW pc \in PurgePcs,
         pworker[w].pc # "idle", HoldsPurge(w),
         pjob' = [pjob EXCEPT ![pworker[w].job].live = TRUE],
         pworker' = [pworker EXCEPT ![w].pc = pc],
         UNCHANGED <<org, assets, latest, faults>>
  PROVE  OrgInv'
  <1> DEFINE p == pworker[w].job
             row == [pjob[p] EXCEPT !.live = TRUE]
  <1>1. /\ p \in PurgeIds /\ pjob[p] \in PurgeJob /\ Outstanding(p)
        /\ pjob[p].status = "PROCESSING"
        /\ pjob' = [pjob EXCEPT ![p] = row]
    BY DEF HoldsPurge, OrgInv, OrgTypeOK, Outstanding
  <1>2. /\ row \in PurgeJob /\ row.status = pjob[p].status /\ row.owner = pjob[p].owner
        /\ row.started = pjob[p].started /\ row.attempts = pjob[p].attempts
    BY <1>1 DEF PurgeJob
  <1>3. pworker' \in [PurgeWorkers -> PurgeWorker]
    BY DEF OrgInv, OrgTypeOK, PurgeWorker
  <1>4. ASSUME NEW v \in PurgeWorkers PROVE SweepInv(v)'
    <2>1. pworker'[v].job = pworker[v].job /\ pworker'[v].attempt = pworker[v].attempt
      BY DEF OrgInv, OrgTypeOK, PurgeWorker
    <2>2. pworker'[v].pc # "idle" => pworker[v].pc # "idle"
      BY DEF OrgInv, OrgTypeOK, PurgeWorker
    <2>3. QED
      BY <1>1, <1>2, <2>1, <2>2 DEF OrgInv, OrgTypeOK, SweepInv
  <1>5. RowInv(p)
    BY <1>1 DEF OrgInv
  <1> HIDE DEF row, p
  <1>6. /\ row.status = "PROCESSING" /\ row.owner # NoWorker /\ row.started
        /\ pjob[p].started => row.started
    BY <1>1, <1>2, <1>5 DEF RowInv
  <1>7. /\ assets' \in {"intact", "damaged"} /\ faults' \in 0..MaxFaults
        /\ UNCHANGED <<org, latest>>
    BY DEF OrgInv, OrgTypeOK
  <1>8. QED
    BY <1>1, <1>2, <1>3, <1>4, <1>6, <1>7, RowChangeInv

\* A failed attempt goes back to the queue or, as the last one, ends FAILED:
\* the attempt the sweep remembers is the one the row counted at the lease.
LEMMA FailInv ==
  ASSUME OrgInv, NEW w \in PurgeWorkers, FailPurge(w)
  PROVE  OrgInv'
  <1> DEFINE p == pworker[w].job
  <1>1. CASE HoldsPurge(w)
    <2> DEFINE status == IF pworker[w].attempt >= MaxPurgeAttempts THEN "FAILED" ELSE "QUEUED"
               freed == [pjob[p] EXCEPT !.status = status, !.owner = NoWorker]
               row == [freed EXCEPT !.live = FALSE, !.due = FALSE]
    <2>1. /\ p \in PurgeIds /\ pjob[p] \in PurgeJob /\ pjob[p].status = "PROCESSING"
          /\ pjob[p].owner = w /\ Outstanding(p) /\ pworker[w].pc = "failing"
      BY <1>1 DEF FailPurge, HoldsPurge, OrgInv, OrgTypeOK, Outstanding
    <2>2. /\ pjob' = [pjob EXCEPT ![p] = row]
          /\ pworker' = [pworker EXCEPT ![w] = IdlePurgeWorker]
          /\ UNCHANGED <<org, assets, latest, faults>>
      BY <1>1, <2>1 DEF FailPurge, LastAttempt
    <2>3. pjob[p].started /\ pworker[w].attempt = pjob[p].attempts
      BY <2>1 DEF OrgInv, SweepInv
    <2>4. /\ freed \in PurgeJob /\ freed.status = status /\ freed.owner = NoWorker
          /\ freed.started /\ freed.attempts = pjob[p].attempts
      <3>1. status \in PurgeStatuses
        BY DEF PurgeStatuses
      <3> HIDE DEF status
      <3>2. QED
        BY <2>1, <2>3, <3>1 DEF PurgeJob
    <2>5. status \in {"QUEUED", "FAILED"}
      OBVIOUS
    <2>6. status = "FAILED" => pjob[p].attempts >= MaxPurgeAttempts
      BY <2>3
    <2> HIDE DEF freed, status
    <2>7. /\ row \in PurgeJob /\ row.status = status /\ row.owner = NoWorker
          /\ row.started /\ row.attempts = pjob[p].attempts
      BY <2>4 DEF PurgeJob
    <2>8. pworker' \in [PurgeWorkers -> PurgeWorker]
      BY <2>2 DEF OrgInv, OrgTypeOK, PurgeWorker, IdlePurgeWorker, PurgePcs
    <2> HIDE DEF row
    <2>9. ASSUME NEW v \in PurgeWorkers PROVE SweepInv(v)'
      BY <2>1, <2>2, <2>7 DEF OrgInv, OrgTypeOK, SweepInv, IdlePurgeWorker
    <2>10. QED
      BY <2>1, <2>2, <2>5, <2>6, <2>7, <2>8, <2>9, RowChangeInv DEF OrgInv, OrgTypeOK
  <1>2. CASE ~HoldsPurge(w)
    BY <1>2, SweepMovesInv DEF FailPurge, PurgePcs, OrgInv, OrgTypeOK
  <1>3. QED
    BY <1>1, <1>2

\* The last transaction: the lease it checks makes its row the one unfinished
\* purge, so the organization and the row end together.
LEMMA FinalizeInv ==
  ASSUME OrgInv, NEW w \in PurgeWorkers, FinalizePurge(w)
  PROVE  OrgInv'
  <1> DEFINE p == pworker[w].job
  <1>1. CASE org # "GONE" /\ HoldsPurge(w)
    <2> DEFINE row == [pjob[p] EXCEPT !.status = "SUCCEEDED", !.owner = NoWorker, !.live = FALSE]
    <2>1. /\ p \in PurgeIds /\ pjob[p] \in PurgeJob /\ pjob[p].status = "PROCESSING"
          /\ pjob[p].owner = w
          /\ pjob' = [pjob EXCEPT ![p] = row]
          /\ pworker' = [pworker EXCEPT ![w] = IdlePurgeWorker]
          /\ org' = "GONE" /\ UNCHANGED <<assets, latest, faults>>
      BY <1>1 DEF FinalizePurge, HoldsPurge, OrgInv, OrgTypeOK
    <2>2. p = latest /\ org = "DELETING" /\ pjob[p].started
      BY <2>1 DEF OrgInv, RowInv, Outstanding
    <2>3. /\ row \in PurgeJob /\ row.status = "SUCCEEDED" /\ row.owner = NoWorker
          /\ row.started /\ row.attempts = pjob[p].attempts
      BY <2>1, <2>2 DEF PurgeJob, PurgeStatuses
    <2> HIDE DEF row
    <2>4. OrgTypeOK'
      BY <2>1, <2>3 DEF OrgInv, OrgTypeOK, OrgStatuses, PurgeWorker, IdlePurgeWorker, PurgePcs
    <2>5. ASSUME NEW q \in PurgeIds PROVE RowInv(q)'
      <3>1. CASE q = p
        BY <2>1, <2>2, <2>3, <3>1 DEF OrgInv, OrgTypeOK, RowInv, Outstanding
      <3>2. CASE q # p
        BY <2>1, <2>2, <2>3, <3>2 DEF OrgInv, OrgTypeOK, RowInv, Outstanding
      <3>3. QED
        BY <3>1, <3>2
    <2>6. ASSUME NEW v \in PurgeWorkers PROVE SweepInv(v)'
      BY <2>1, <2>3 DEF OrgInv, OrgTypeOK, SweepInv, IdlePurgeWorker
    <2>7. latest' > 0 /\ pjob'[latest'].status = "SUCCEEDED" /\ pjob'[p].started
      BY <2>1, <2>2, <2>3 DEF OrgInv, OrgTypeOK, PurgeIds
    <2>8. QED
      BY <2>1, <2>4, <2>5, <2>6, <2>7 DEF OrgInv
  <1>2. CASE ~(org # "GONE" /\ HoldsPurge(w))
    <2>1. /\ pworker[w].pc # "idle" /\ pworker' = [pworker EXCEPT ![w].pc = "failing"]
          /\ UNCHANGED <<org, assets, latest, pjob, faults>> /\ "failing" \in PurgePcs
      BY <1>2 DEF FinalizePurge, GotoPurge, PurgePcs
    <2>2. QED
      BY <2>1, SweepMovesInv DEF OrgInv, OrgTypeOK
  <1>3. QED
    BY <1>1, <1>2

-----------------------------------------------------------------------------
(* The theorems.                                                           *)

\* Every step of the purge, whoever takes it.
LEMMA PurgeStepInv == OrgInv /\ PurgeStep => OrgInv'
  <1> SUFFICES ASSUME OrgInv, PurgeStep PROVE OrgInv'
    OBVIOUS
  <1> USE DEF PurgePcs
  <1>1. CASE RequestPurge \/ CancelPurge
    BY <1>1, RequestInv, CancelInv
  <1>2. ASSUME NEW p \in PurgeIds,
               RetryPurge(p) \/ PurgeLeaseExpires(p) \/ PurgeBackoffElapses(p)
        PROVE  OrgInv'
    BY <1>2, RetryInv, TimeInv
  <1>3. ASSUME NEW w \in PurgeWorkers PROVE
          /\ \A p \in PurgeIds : LeasePurge(w, p) => OrgInv'
          /\ HeartbeatPurge(w) => OrgInv'
          /\ RemoveAssets(w) => OrgInv'
          /\ FencePurge(w) => OrgInv'
          /\ PurgeStepFails(w) => OrgInv'
          /\ FailPurge(w) => OrgInv'
          /\ CrashPurge(w) => OrgInv'
    <2>1. ASSUME NEW p \in PurgeIds, LeasePurge(w, p) PROVE OrgInv'
      BY <2>1, LeaseInv
    <2>2. ASSUME HeartbeatPurge(w) PROVE OrgInv'
      <3>1. pworker' = [pworker EXCEPT ![w].pc = "removing"]
        BY <2>2 DEF HeartbeatPurge, OrgInv, OrgTypeOK, PurgeWorker
      <3>2. QED
        BY <2>2, <3>1, RenewInv DEF HeartbeatPurge
    <2>3. ASSUME RemoveAssets(w) PROVE OrgInv'
      BY <2>3, SweepMovesInv DEF RemoveAssets, GotoPurge, OrgInv, OrgTypeOK
    <2>4. ASSUME FencePurge(w) PROVE OrgInv'
      <3>1. CASE HoldsPurge(w)
        BY <2>4, <3>1, RenewInv DEF FencePurge, GotoPurge
      <3>2. CASE ~HoldsPurge(w)
        BY <2>4, <3>2, SweepMovesInv DEF FencePurge, GotoPurge, OrgInv, OrgTypeOK
      <3>3. QED
        BY <3>1, <3>2
    <2>5. ASSUME PurgeStepFails(w) PROVE OrgInv'
      BY <2>5, SweepMovesInv DEF PurgeStepFails, GotoPurge, OrgInv, OrgTypeOK
    <2>6. ASSUME FailPurge(w) PROVE OrgInv'
      BY <2>6, FailInv
    <2>7. ASSUME CrashPurge(w) PROVE OrgInv'
      <3>1. faults' \in 0..MaxFaults
        BY <2>7 DEF CrashPurge, OrgInv, OrgTypeOK
      <3>2. /\ pworker[w].pc # "idle" /\ pworker' = [pworker EXCEPT ![w] = IdlePurgeWorker]
            /\ UNCHANGED <<org, latest, pjob>> /\ assets' = assets /\ "idle" \in PurgePcs
        BY <2>7 DEF CrashPurge
      <3>3. QED
        BY <3>1, <3>2, SweepMovesInv
    <2>8. QED
      BY <2>1, <2>2, <2>3, <2>4, <2>5, <2>6, <2>7
  <1>4. QED
    BY <1>1, <1>2, <1>3 DEF PurgeStep

LEMMA OrgNextInv == OrgInv /\ [OrgNext]_<<orgVars, faults>> => OrgInv'
  <1> SUFFICES ASSUME OrgInv, [OrgNext]_<<orgVars, faults>> PROVE OrgInv'
    OBVIOUS
  <1>1. CASE OrgNext
    BY <1>1, LifecycleInv, PurgeStepInv, FinalizeInv DEF OrgNext
  <1>2. CASE UNCHANGED <<orgVars, faults>>
    BY <1>2, FaultInv DEF OrgInv, OrgTypeOK
  <1>3. QED
    BY <1>1, <1>2

\* OrgInv is an invariant of the organization life cycle, and with it the
\* types of its variables.
THEOREM OrgInvariance == OrgSpec => [](OrgInv /\ OrgTypeOK)
  <1>1. OrgInv => OrgTypeOK
    BY DEF OrgInv
  <1>2. QED
    BY <1>1, OrgInitInv, OrgNextInv, PTL DEF OrgSpec

\* Files are removed only after a lease, a leased row is never cancelled, and
\* a row that is not cancelled keeps its organization deleting.
THEOREM PurgeNeverUndone == OrgSpec => []PurgeIrreversible
  <1>1. OrgInv => PurgeIrreversible
    BY DEF OrgInv, OrgTypeOK, RowInv, Outstanding, PurgeIrreversible, PurgeJob, PurgeStatuses
  <1>2. QED
    BY <1>1, OrgInvariance, PTL

\* The organization row and its purge rows agree at every instant.
THEOREM PurgeTracked == OrgSpec => []PurgeTracksOrganization
  <1>1. ASSUME OrgInv PROVE PurgeTracksOrganization
    <2>1. latest > 0 => latest \in PurgeIds
      BY <1>1 DEF OrgInv, OrgTypeOK, PurgeIds
    <2>2. QED
      BY <1>1, <2>1 DEF OrgInv, RowInv, PurgeTracksOrganization
  <1>2. QED
    BY <1>1, OrgInvariance, PTL

\* A purge that has failed for good is one the operator can retry.
THEOREM FailedIsRetryable == OrgSpec => []ExhaustedIsRetryable
  <1>1. OrgInv => ExhaustedIsRetryable
    BY DEF OrgInv, RowInv, ExhaustedIsRetryable
  <1>2. QED
    BY <1>1, OrgInvariance, PTL

\* The organization disappears only in the hands of the sweep that holds the
\* lease of the newest row, in the attempt the row counts.
THEOREM OnlyTheHolderFinalizes == OrgSpec => StaleSweepNeverFinalizes
  <1> DEFINE Final == \E w \in PurgeWorkers :
                         /\ pworker[w].pc = "finalizing"
                         /\ pworker[w].job = latest
                         /\ pjob[latest].owner = w
                         /\ pworker[w].attempt = pjob[latest].attempts
             Guarded == org' = "GONE" /\ org # "GONE" => Final
  <1>1. ASSUME OrgInv, OrgNext PROVE Guarded
    <2>1. ASSUME NEW w \in PurgeWorkers, FinalizePurge(w) PROVE Guarded
      <3> SUFFICES ASSUME org' = "GONE", org # "GONE" PROVE Final
        OBVIOUS
      <3>1. pworker[w].pc = "finalizing" /\ HoldsPurge(w)
        BY <2>1 DEF FinalizePurge
      <3>2. pworker[w].job = latest
        BY <1>1, <3>1 DEF HoldsPurge, OrgInv, RowInv, Outstanding
      <3>3. QED
        BY <1>1, <3>1, <3>2 DEF HoldsPurge, OrgInv, SweepInv
    <2>2. ASSUME SuspendOrg \/ ReactivateOrg \/ PurgeStep PROVE org' # "GONE" \/ org' = org
      BY <2>2 DEF SuspendOrg, ReactivateOrg, PurgeStep, RequestPurge, CancelPurge, RetryPurge,
                  PurgeLeaseExpires, PurgeBackoffElapses, LeasePurge, HeartbeatPurge,
                  RemoveAssets, FencePurge, PurgeStepFails, FailPurge, CrashPurge
    <2>3. QED
      BY <1>1, <2>1, <2>2 DEF OrgNext
  <1>2. OrgInv /\ [OrgNext]_<<orgVars, faults>> => [Guarded]_<<orgVars, faults>>
    BY <1>1
  <1>3. QED
    BY <1>2, OrgInvariance, PTL DEF OrgSpec, StaleSweepNeverFinalizes

-----------------------------------------------------------------------------
(* The notification queue.                                                 *)


Consistent(row, log, taken) ==
    /\ row.owner # NoWorker <=> row.status = "PROCESSING"
    /\ row.status \in {"ABSENT", "ANNOUNCED"} => log = NoLog
    /\ row.status \in {"PENDING", "PROCESSING", "BLOCKED"} =>
          /\ row.attempts = log.failed
          /\ row.attempts < MaxAttempts
          /\ log.sent = 0
    /\ row.status = "SENT" =>
          /\ row.attempts = log.failed + 1
          /\ log.sent = 1
          /\ taken
    /\ row.status = "DEAD_LETTER" =>
          /\ row.attempts = MaxAttempts
          /\ log.failed \in 1..MaxAttempts
          /\ log.sent = 0

QueueRow(j) == Consistent(job[j], logged[j], accepted[j])

\* Where a sweep has found the organization active, and has an outcome.
Checked == {"delivering", "delivered", "renewing", "committing", "writing"}
Tried == {"delivered", "renewing", "committing", "writing"}

QueueSweep(w) ==
    worker[w].pc # "idle" =>
        /\ worker[w].job \in Jobs
        /\ worker[w].pc \in Tried => worker[w].outcome # "none"
        /\ job[worker[w].job].owner = w =>
              /\ worker[w].attempt = job[worker[w].job].attempts + 1
              /\ worker[w].pc \in Checked => Active
              /\ worker[w].pc \in Tried /\ worker[w].outcome = "sent" =>
                    accepted[worker[w].job]

QueueInv ==
    /\ OrgInv /\ QueueTypeOK /\ NothingOutlivesOrganization
    /\ \A j \in Jobs : QueueRow(j)
    /\ \A w \in Workers : QueueSweep(w)

USE WorkersAssumption, JobsAssumption, AttemptsAssumption, RecipientAssumption,
    PurgeBoundsAssumption

Logs == [sent : Nat, failed : Nat]

\* Row j, its log and its mark become these; an unchanged part is written anew.
Write(j, row, log, taken) ==
    /\ job' = [job EXCEPT ![j] = row]
    /\ logged' = [logged EXCEPT ![j] = log]
    /\ accepted' = [accepted EXCEPT ![j] = taken]

-----------------------------------------------------------------------------
(* Steps that write one row, and steps that move one sweep.                *)

\* A sweep that does not move keeps what it knows, if the row that is written
\* is not its own afterwards or still counts as before.
LEMMA SweepKept ==
  ASSUME QueueInv, NEW j \in Jobs, NEW row \in Job, NEW v \in Workers,
         job' = [job EXCEPT ![j] = row], org' = org,
         worker'[v] = worker[v],
         \A k \in Jobs : k # j => accepted'[k] = accepted[k],
         \/ row.owner # v
         \/ /\ row.owner = job[j].owner
            /\ row.attempts = job[j].attempts
            /\ accepted[j] => accepted'[j]
  PROVE  QueueSweep(v)'
  <1>1. CASE worker[v].pc = "idle"
    BY <1>1 DEF QueueSweep
  <1>2. CASE worker[v].pc # "idle"
    <2>1. worker[v].job \in Jobs
      BY <1>2 DEF QueueInv, QueueSweep
    <2>2. CASE worker[v].job = j
      BY <1>2, <2>2 DEF QueueInv, QueueTypeOK, QueueSweep, Active
    <2>3. CASE worker[v].job # j
      BY <1>2, <2>1, <2>3 DEF QueueInv, QueueTypeOK, QueueSweep, Active
    <2>4. QED
      BY <2>2, <2>3
  <1>3. QED
    BY <1>1, <1>2

\* One row changes, with its log and its mark.
LEMMA RowStepInv ==
  ASSUME QueueInv, UNCHANGED orgVars, faults' \in 0..MaxFaults,
         NEW j \in Jobs, NEW row \in Job, NEW log \in Logs, NEW taken \in BOOLEAN,
         Write(j, row, log, taken),
         quarantined' \subseteq Subscribers,
         worker' \in [Workers -> Worker],
         Consistent(row, log, taken),
         org = "GONE" => row.status \in {"ABSENT", "ANNOUNCED"} /\ quarantined' = {},
         \A v \in Workers : QueueSweep(v)'
  PROVE  QueueInv'
  <1>1. OrgInv'
    BY FaultInv DEF QueueInv
  <1>2. org' = org
    BY DEF orgVars
  <1>3. QueueTypeOK'
    BY DEF QueueInv, QueueTypeOK, Logs, Write
  <1>4. ASSUME NEW k \in Jobs PROVE QueueRow(k)'
    <2>1. CASE k = j
      <3>1. job'[k] = row /\ logged'[k] = log /\ accepted'[k] = taken
        BY <2>1 DEF QueueInv, QueueTypeOK, Write
      <3>2. QED
        BY <3>1 DEF QueueRow, Consistent
    <2>2. CASE k # j
      <3>1. job'[k] = job[k] /\ logged'[k] = logged[k] /\ accepted'[k] = accepted[k]
        BY <2>2 DEF QueueInv, QueueTypeOK, Write
      <3>2. QueueRow(k)
        BY DEF QueueInv
      <3>3. QED
        BY <3>1, <3>2 DEF QueueRow, Consistent
    <2>3. QED
      BY <2>1, <2>2
  <1>5. NothingOutlivesOrganization'
    <2>1. SUFFICES ASSUME org = "GONE"
                   PROVE  /\ quarantined' = {}
                          /\ \A k \in Jobs : /\ job'[k].status \in {"ABSENT", "ANNOUNCED"}
                                             /\ logged'[k] = NoLog
      BY <1>2 DEF NothingOutlivesOrganization
    <2>2. row.status \in {"ABSENT", "ANNOUNCED"} /\ log = NoLog
      BY <2>1 DEF Consistent
    <2>3. \A k \in Jobs : job[k].status \in {"ABSENT", "ANNOUNCED"} /\ logged[k] = NoLog
      BY <2>1 DEF QueueInv, NothingOutlivesOrganization
    <2>4. QED
      BY <2>1, <2>2, <2>3 DEF QueueInv, QueueTypeOK, Write
  <1>6. QED
    BY <1>1, <1>3, <1>4, <1>5 DEF QueueInv

\* One sweep changes, and no row.
LEMMA SweepStepInv ==
  ASSUME QueueInv, UNCHANGED orgVars, faults' \in 0..MaxFaults,
         UNCHANGED <<job, quarantined, logged, accepted>>,
         NEW w \in Workers, NEW sweep \in Worker,
         worker' = [worker EXCEPT ![w] = sweep],
         sweep.pc = "idle" \/
            /\ worker[w].pc # "idle"
            /\ sweep.job = worker[w].job
            /\ sweep.attempt = worker[w].attempt
            /\ sweep.pc \in Tried =>
                  worker[w].pc \in Tried /\ sweep.outcome = worker[w].outcome
            /\ sweep.pc \in Checked => Active
  PROVE  QueueInv'
  <1>1. OrgInv' /\ org' = org
    BY FaultInv DEF QueueInv, orgVars
  <1>2. QueueTypeOK'
    BY DEF QueueInv, QueueTypeOK
  <1>3. ASSUME NEW v \in Workers PROVE QueueSweep(v)'
    <2>0. QueueSweep(v)
      BY DEF QueueInv
    <2>1. CASE v # w
      <3>1. worker'[v] = worker[v]
        BY <2>1 DEF QueueInv, QueueTypeOK
      <3>2. QED
        BY <1>1, <2>0, <3>1 DEF QueueSweep, Active
    <2>2. CASE v = w
      <3>1. worker'[v] = sweep
        BY <2>2 DEF QueueInv, QueueTypeOK
      <3>2. QED
        BY <1>1, <2>0, <2>2, <3>1 DEF QueueSweep, Active
    <2>3. QED
      BY <2>1, <2>2
  <1>4. ASSUME NEW k \in Jobs PROVE QueueRow(k)'
    BY DEF QueueInv, QueueRow, Consistent
  <1>5. NothingOutlivesOrganization'
    BY <1>1 DEF QueueInv, NothingOutlivesOrganization
  <1>6. QED
    BY <1>1, <1>2, <1>3, <1>4, <1>5 DEF QueueInv

-----------------------------------------------------------------------------
(* One lemma for each kind of step.                                        *)

\* A row that no sweep owns, and none of the sweeps moves.
LEMMA FreeRowInv ==
  ASSUME QueueInv, UNCHANGED <<orgVars, faults, worker>>,
         NEW j \in Jobs, NEW row \in Job, NEW log \in Logs, NEW taken \in BOOLEAN,
         Write(j, row, log, taken),
         UNCHANGED quarantined,
         Consistent(row, log, taken),
         row.owner = NoWorker,
         org = "GONE" => row.status \in {"ABSENT", "ANNOUNCED"}
  PROVE  QueueInv'
  <1>1. /\ UNCHANGED orgVars /\ faults' \in 0..MaxFaults /\ org' = org
        /\ quarantined' \subseteq Subscribers
        /\ worker' \in [Workers -> Worker]
        /\ org = "GONE" => quarantined' = {}
    BY DEF QueueInv, QueueTypeOK, OrgInv, OrgTypeOK, orgVars, NothingOutlivesOrganization
  <1>2. ASSUME NEW v \in Workers PROVE QueueSweep(v)'
    <2>1. row.owner # v /\ worker'[v] = worker[v]
      OBVIOUS
    <2>2. \A k \in Jobs : k # j => accepted'[k] = accepted[k]
      BY DEF QueueInv, QueueTypeOK, Write
    <2>3. job' = [job EXCEPT ![j] = row]
      BY DEF Write
    <2>4. QED
      BY <1>1, <2>1, <2>2, <2>3, SweepKept
  <1>3. QED
    BY <1>1, <1>2, RowStepInv

LEMMA QueuedRow == QueuedJob \in Job /\ QueuedJob.status = "PENDING" /\ QueuedJob.attempts = 0
                   /\ QueuedJob.owner = NoWorker /\ NoLog \in Logs /\ NoLog.failed = 0
                   /\ NoLog.sent = 0
  <1>1. AbsentJob \in Job /\ AbsentJob.attempts = 0 /\ AbsentJob.owner = NoWorker
    <2>1. 0 \in 0..MaxAttempts
      OBVIOUS
    <2>2. QED
      BY <2>1 DEF AbsentJob, Job, JobStatuses, Holds
  <1>2. QED
    BY <1>1 DEF QueuedJob, Job, JobStatuses, NoLog, Logs

\* A dispatch queues a row, with or without the fence.
LEMMA InsertInv ==
  ASSUME QueueInv, NEW j \in Jobs, Insert(j), UNCHANGED <<orgVars, faults>>,
         job[j].status \in {"ABSENT", "ANNOUNCED"}, org # "GONE"
  PROVE  QueueInv'
  <1>1. logged[j] = NoLog
    BY DEF QueueInv, QueueRow, Consistent
  <1>2. Write(j, QueuedJob, NoLog, accepted[j])
    BY <1>1 DEF Write, Insert, QueueInv, QueueTypeOK
  <1>3. accepted[j] \in BOOLEAN
    BY DEF QueueInv, QueueTypeOK
  <1>4. Consistent(QueuedJob, NoLog, accepted[j])
    BY QueuedRow DEF Consistent
  <1>5. UNCHANGED <<orgVars, faults, worker>> /\ UNCHANGED quarantined
    BY DEF Insert
  <1>6. QED
    BY <1>2, <1>3, <1>4, <1>5, QueuedRow, FreeRowInv

LEMMA AnnounceInv ==
  ASSUME QueueInv, NEW j \in Jobs, Announce(j)
  PROVE  QueueInv'
  <1> DEFINE row == [job[j] EXCEPT !.status = "ANNOUNCED"]
  <1>1. /\ job[j] \in Job /\ logged[j] \in Logs /\ accepted[j] \in BOOLEAN
        /\ Write(j, row, logged[j], accepted[j])
    BY DEF Announce, Write, QueueInv, QueueTypeOK, Logs
  <1>2. job[j].owner = NoWorker /\ logged[j] = NoLog
    BY DEF Announce, QueueInv, QueueRow, Consistent
  <1>3. row \in Job /\ row.status = "ANNOUNCED" /\ row.owner = NoWorker
    BY <1>1, <1>2 DEF Job, JobStatuses
  <1>4. UNCHANGED <<orgVars, faults, worker>> /\ UNCHANGED quarantined
    BY DEF Announce
  <1> HIDE DEF row
  <1>5. Consistent(row, logged[j], accepted[j])
    BY <1>2, <1>3 DEF Consistent
  <1>6. QED
    BY <1>1, <1>3, <1>4, <1>5, FreeRowInv

\* A retry empties the log with the row.
LEMMA RequeueInv ==
  ASSUME QueueInv, NEW j \in Jobs, Requeue(j)
  PROVE  QueueInv'
  <1>1. Consistent(QueuedJob, NoLog, FALSE)
    BY QueuedRow DEF Consistent
  <1>2. org # "GONE"
    BY DEF Requeue, QueueInv, NothingOutlivesOrganization
  <1>3. /\ UNCHANGED <<orgVars, faults, worker>> /\ UNCHANGED quarantined
        /\ Write(j, QueuedJob, NoLog, FALSE)
    BY DEF Requeue, Write
  <1>4. QED
    BY <1>1, <1>2, <1>3, QueuedRow, FreeRowInv

\* Only the clock of a row changes: its lease, or the time it is due.
LEMMA ClockInv ==
  ASSUME QueueInv, UNCHANGED orgVars, faults' \in 0..MaxFaults,
         UNCHANGED <<quarantined, logged, accepted>>,
         NEW j \in Jobs, NEW row \in Job,
         job' = [job EXCEPT ![j] = row],
         row.status = job[j].status, row.attempts = job[j].attempts,
         row.owner = job[j].owner,
         worker' \in [Workers -> Worker],
         \A v \in Workers : worker'[v] # worker[v] => QueueSweep(v)'
  PROVE  QueueInv'
  <1>1. /\ logged[j] \in Logs /\ accepted[j] \in BOOLEAN
        /\ Write(j, row, logged[j], accepted[j])
        /\ quarantined' \subseteq Subscribers /\ org' = org
    BY DEF QueueInv, QueueTypeOK, Logs, Write, orgVars
  <1>2. Consistent(row, logged[j], accepted[j])
    <2>1. Consistent(job[j], logged[j], accepted[j])
      BY DEF QueueInv, QueueRow
    <2>2. QED
      BY <2>1 DEF Consistent
  <1>3. org = "GONE" => row.status \in {"ABSENT", "ANNOUNCED"} /\ quarantined' = {}
    BY DEF QueueInv, NothingOutlivesOrganization
  <1>4. ASSUME NEW v \in Workers PROVE QueueSweep(v)'
    <2>1. CASE worker'[v] = worker[v]
      BY <1>1, <2>1, SweepKept
    <2>2. QED
      BY <2>1
  <1>5. QED
    BY <1>1, <1>2, <1>3, <1>4, RowStepInv

\* A lease: the sweep remembers the attempt after the row's counter.
LEMMA QueueLeaseInv ==
  ASSUME QueueInv, NEW w \in Workers, NEW j \in Jobs, Lease(w, j)
  PROVE  QueueInv'
  <1> DEFINE row == [job[j] EXCEPT !.status = "PROCESSING", !.owner = w, !.live = TRUE]
             sweep == [pc |-> "leased", job |-> j, attempt |-> job[j].attempts + 1,
                       outcome |-> "none"]
  <1>1. /\ job[j] \in Job /\ logged[j] \in Logs /\ accepted[j] \in BOOLEAN
        /\ Write(j, row, logged[j], accepted[j])
        /\ quarantined' \subseteq Subscribers
    BY DEF Lease, Write, QueueInv, QueueTypeOK, Logs
  <1>2. row \in Job /\ row.status = "PROCESSING" /\ row.owner = w /\ row.attempts = job[j].attempts
    BY <1>1 DEF Job, JobStatuses
  <1>3. /\ job' = [job EXCEPT ![j] = row] /\ worker' = [worker EXCEPT ![w] = sweep]
        /\ UNCHANGED <<orgVars, faults>> /\ org' = org
        /\ job[j].status \in {"PENDING", "PROCESSING"} /\ job[j].attempts < MaxAttempts
    BY DEF Lease, Leasable, orgVars
  <1>4. sweep \in Worker
    <2>1. job[j].attempts + 1 \in 0..MaxAttempts
      BY <1>1, <1>3 DEF Job
    <2>2. QED
      BY <2>1 DEF Worker, Pcs, Outcomes
  <1>5. Consistent(row, logged[j], accepted[j])
    <2>1. Consistent(job[j], logged[j], accepted[j])
      BY DEF QueueInv, QueueRow
    <2>2. w # NoWorker
      OBVIOUS
    <2> HIDE DEF row
    <2>3. QED
      BY <1>2, <1>3, <2>1, <2>2 DEF Consistent
  <1>6. org # "GONE"
    BY <1>3 DEF QueueInv, NothingOutlivesOrganization
  <1>7. worker' \in [Workers -> Worker] /\ faults' \in 0..MaxFaults /\ UNCHANGED orgVars
    BY <1>3, <1>4 DEF QueueInv, QueueTypeOK, OrgInv, OrgTypeOK
  <1> HIDE DEF row
  <1>8. ASSUME NEW v \in Workers PROVE QueueSweep(v)'
    <2>1. CASE v = w
      <3>1. worker'[v] = sweep /\ job'[j] = row
        BY <1>3, <2>1 DEF QueueInv, QueueTypeOK
      <3>2. QED
        BY <1>2, <3>1 DEF QueueSweep, Checked, Tried
    <2>2. CASE v # w
      <3>1. worker'[v] = worker[v] /\ row.owner # v
        BY <1>2, <1>3, <2>2 DEF QueueInv, QueueTypeOK
      <3>2. \A k \in Jobs : k # j => accepted'[k] = accepted[k]
        BY DEF Lease
      <3>3. QED
        BY <1>2, <1>3, <3>1, <3>2, SweepKept
    <2>3. QED
      BY <2>1, <2>2
  <1> HIDE DEF sweep
  <1>9. QED
    BY <1>1, <1>2, <1>3, <1>5, <1>6, <1>7, <1>8, RowStepInv

\* A renewal, with or without the sweep moving on to the commit.
LEMMA HeartbeatInv ==
  ASSUME QueueInv, NEW w \in Workers, Heartbeat(w) \/ Renew(w)
  PROVE  QueueInv'
  <1> DEFINE j == worker[w].job
             row == [job[j] EXCEPT !.live = TRUE]
             sweep == [worker[w] EXCEPT !.pc = "committing"]
  <1>1. CASE HoldsLease(w)
    <2>1. /\ j \in Jobs /\ job[j] \in Job /\ worker[w].pc # "idle"
          /\ job' = [job EXCEPT ![j] = row]
          /\ UNCHANGED orgVars /\ UNCHANGED <<quarantined, logged, accepted>>
          /\ faults' \in 0..MaxFaults
          /\ worker' = worker \/ worker' = [worker EXCEPT ![w] = sweep]
          /\ worker[w].pc \in {"delivering", "renewing"}
          /\ worker' = [worker EXCEPT ![w] = sweep] => worker[w].pc = "renewing"
      <3>1. /\ j \in Jobs /\ job[j] \in Job /\ worker[w] \in Worker
            /\ faults \in 0..MaxFaults
        BY <1>1 DEF HoldsLease, QueueInv, QueueTypeOK, OrgInv, OrgTypeOK
      <3>2. CASE Heartbeat(w)
        <4>1. sweep.pc = "committing"
          BY <3>1 DEF Worker
        <4>2. worker' = worker /\ worker[w].pc = "delivering"
          BY <3>2 DEF Heartbeat
        <4>3. worker' # [worker EXCEPT ![w] = sweep]
          BY <4>1, <4>2 DEF QueueInv, QueueTypeOK
        <4>4. QED
          BY <3>1, <3>2, <4>2, <4>3 DEF Heartbeat
      <3>3. CASE Renew(w)
        BY <1>1, <3>1, <3>3 DEF Renew, Goto
      <3>4. QED
        BY <3>2, <3>3
    <2>2. /\ row \in Job /\ row.status = job[j].status /\ row.attempts = job[j].attempts
          /\ row.owner = job[j].owner
      BY <2>1 DEF Job
    <2>3. sweep \in Worker /\ sweep.pc = "committing" /\ sweep.job = j
          /\ sweep.attempt = worker[w].attempt /\ sweep.outcome = worker[w].outcome
      BY DEF Worker, Pcs, QueueInv, QueueTypeOK
    <2>4. worker' \in [Workers -> Worker]
      BY <2>1, <2>3 DEF QueueInv, QueueTypeOK
    <2>5. ASSUME NEW v \in Workers, worker'[v] # worker[v] PROVE QueueSweep(v)'
      <3>1. v = w /\ worker'[v] = sweep /\ worker[w].pc = "renewing"
        BY <2>1, <2>5 DEF QueueInv, QueueTypeOK
      <3>2. job'[j].owner = job[j].owner /\ job'[j].attempts = job[j].attempts
        BY <2>1, <2>2 DEF QueueInv, QueueTypeOK
      <3>3. Active' = Active /\ accepted' = accepted
        BY <2>1 DEF Active, orgVars
      <3>4. QueueSweep(w)
        BY DEF QueueInv
      <3>5. QED
        BY <2>1, <2>3, <3>1, <3>2, <3>3, <3>4 DEF QueueSweep, Checked, Tried
    <2> HIDE DEF row, sweep, j
    <2>6. QED
      BY <2>1, <2>2, <2>4, <2>5, ClockInv
  <1>2. CASE ~HoldsLease(w)
    <2>1. /\ UNCHANGED orgVars /\ faults' \in 0..MaxFaults
          /\ UNCHANGED <<job, quarantined, logged, accepted>>
          /\ worker' = [worker EXCEPT ![w] = IdleWorker]
      BY <1>2 DEF Heartbeat, Renew, QueueInv, OrgInv, OrgTypeOK
    <2>2. IdleWorker \in Worker /\ IdleWorker.pc = "idle"
      BY DEF IdleWorker, Worker, Pcs, Outcomes
    <2>3. QED
      BY <2>1, <2>2, SweepStepInv
  <1>3. QED
    BY <1>1, <1>2

\* A sweep goes on after looking at the organization, or ends.
LEMMA GotoInv ==
  ASSUME QueueInv, UNCHANGED orgVars, faults' \in 0..MaxFaults,
         UNCHANGED <<job, quarantined, logged, accepted>>,
         NEW w \in Workers, worker[w].pc # "idle", NEW pc \in Pcs, Goto(w, pc),
         pc \in Checked => Active,
         pc \in Tried => worker[w].pc \in Tried
  PROVE  QueueInv'
  <1> DEFINE sweep == [worker[w] EXCEPT !.pc = pc]
  <1>1. /\ sweep \in Worker /\ sweep.pc = pc /\ sweep.job = worker[w].job
        /\ sweep.attempt = worker[w].attempt /\ sweep.outcome = worker[w].outcome
    BY DEF QueueInv, QueueTypeOK, Worker
  <1>2. worker' = [worker EXCEPT ![w] = sweep]
    BY DEF Goto
  <1> HIDE DEF sweep
  <1>3. QED
    BY <1>1, <1>2, SweepStepInv

LEMMA CheckInv ==
  ASSUME QueueInv, NEW w \in Workers, CheckActive(w) \/ RecheckActive(w) \/ CommitCheck(w)
  PROVE  QueueInv'
  <1>1. /\ UNCHANGED orgVars /\ faults' \in 0..MaxFaults
        /\ UNCHANGED <<job, quarantined, logged, accepted>>
        /\ worker[w].pc # "idle"
    BY DEF CheckActive, RecheckActive, CommitCheck, QueueInv, OrgInv, OrgTypeOK
  <1>2. CASE Active
    <2>1. PICK pc \in {"delivering", "renewing", "writing"} :
                 Goto(w, pc) /\ (pc \in Tried => worker[w].pc \in Tried)
      BY <1>2 DEF CheckActive, RecheckActive, CommitCheck, Tried
    <2>2. pc \in Pcs
      BY DEF Pcs
    <2>3. QED
      BY <1>1, <1>2, <2>1, <2>2, GotoInv
  <1>3. CASE ~Active
    <2>1. Goto(w, "blocking")
      BY <1>3 DEF CheckActive, RecheckActive, CommitCheck
    <2>2. "blocking" \in Pcs /\ "blocking" \notin Checked /\ "blocking" \notin Tried
      BY DEF Pcs, Checked, Tried
    <2>3. QED
      BY <1>1, <2>1, <2>2, GotoInv
  <1>4. QED
    BY <1>2, <1>3

LEMMA CrashInv ==
  ASSUME QueueInv, NEW w \in Workers, Crash(w)
  PROVE  QueueInv'
  <1>f. faults \in 0..MaxFaults /\ faults < MaxFaults /\ faults' = faults + 1
    BY DEF Crash, QueueInv, OrgInv, OrgTypeOK
  <1>1. /\ UNCHANGED orgVars /\ faults' \in 0..MaxFaults
        /\ UNCHANGED <<job, quarantined, logged, accepted>>
        /\ worker' = [worker EXCEPT ![w] = IdleWorker]
    BY <1>f DEF Crash
  <1>2. IdleWorker \in Worker /\ IdleWorker.pc = "idle"
    BY DEF IdleWorker, Worker, Pcs, Outcomes
  <1>3. QED
    BY <1>1, <1>2, SweepStepInv

\* The provider answers; only an acceptance marks the row.
LEMMA DeliverInv ==
  ASSUME QueueInv, NEW w \in Workers, NEW outcome \in Outcomes, Deliver(w, outcome)
  PROVE  QueueInv'
  <1> DEFINE j == worker[w].job
             taken == outcome = "sent" \/ accepted[j]
             sweep == [worker[w] EXCEPT !.pc = "delivered", !.outcome = outcome]
  <1>1. /\ j \in Jobs /\ job[j] \in Job /\ logged[j] \in Logs /\ worker[w].pc = "delivering"
        /\ worker[w] \in Worker /\ outcome # "none" /\ QueueSweep(w)
    BY DEF Deliver, QueueInv, QueueTypeOK, QueueSweep, Logs
  <1>2. taken \in BOOLEAN /\ (accepted[j] => taken) /\ (outcome = "sent" => taken)
    OBVIOUS
  <1>3. accepted' = [accepted EXCEPT ![j] = taken]
    <2>1. accepted[j] \in BOOLEAN /\ accepted \in [Jobs -> BOOLEAN]
      BY <1>1 DEF QueueInv, QueueTypeOK
    <2>2. CASE outcome = "sent"
      BY <2>2 DEF Deliver
    <2>3. CASE outcome # "sent"
      <3>1. taken = accepted[j]
        BY <2>1, <2>3
      <3> HIDE DEF taken
      <3>2. QED
        BY <2>1, <2>3, <3>1 DEF Deliver
    <2>4. QED
      BY <2>2, <2>3
  <1> HIDE DEF taken
  <1>4. Write(j, job[j], logged[j], taken)
    BY <1>1, <1>3 DEF Deliver, Write, QueueInv, QueueTypeOK
  <1>5. /\ UNCHANGED orgVars /\ faults' \in 0..MaxFaults /\ org' = org
        /\ quarantined' = quarantined /\ quarantined' \subseteq Subscribers
        /\ worker' = [worker EXCEPT ![w] = sweep] /\ job' = job
    BY DEF Deliver, orgVars, QueueInv, QueueTypeOK, OrgInv, OrgTypeOK
  <1>6. /\ sweep \in Worker /\ sweep.pc = "delivered" /\ sweep.job = j
        /\ sweep.attempt = worker[w].attempt /\ sweep.outcome = outcome
    BY <1>1 DEF Worker, Pcs
  <1>7. worker' \in [Workers -> Worker]
    BY <1>5, <1>6 DEF QueueInv, QueueTypeOK
  <1>8. Consistent(job[j], logged[j], taken)
    <2>1. Consistent(job[j], logged[j], accepted[j])
      BY <1>1 DEF QueueInv, QueueRow
    <2>2. QED
      BY <1>2, <2>1 DEF Consistent
  <1>9. org = "GONE" => job[j].status \in {"ABSENT", "ANNOUNCED"} /\ quarantined' = {}
    BY <1>1, <1>5 DEF QueueInv, NothingOutlivesOrganization
  <1> HIDE DEF sweep
  <1>10. ASSUME NEW v \in Workers PROVE QueueSweep(v)'
    <2>1. CASE v = w
      <3>1. worker'[v] = sweep /\ accepted'[j] = taken
        BY <1>1, <1>3, <1>5, <2>1 DEF QueueInv, QueueTypeOK
      <3>2. job'[j] = job[j] /\ (Active => Active')
        BY <1>5 DEF Active
      <3>3. QED
        BY <1>1, <1>2, <1>6, <2>1, <3>1, <3>2 DEF QueueSweep, Checked, Tried
    <2>2. CASE v # w
      <3>1. worker'[v] = worker[v]
        BY <1>5, <2>2 DEF QueueInv, QueueTypeOK
      <3>2. \A k \in Jobs : k # j => accepted'[k] = accepted[k]
        BY <1>3 DEF QueueInv, QueueTypeOK
      <3>3. (accepted[j] => accepted'[j]) /\ job' = [job EXCEPT ![j] = job[j]]
        BY <1>1, <1>2, <1>3, <1>4 DEF QueueInv, QueueTypeOK, Write
      <3>4. QED
        BY <1>1, <1>5, <3>1, <3>2, <3>3, SweepKept
    <2>3. QED
      BY <2>1, <2>2
  <1> HIDE DEF j
  <1>11. QED
    BY <1>1, <1>2, <1>4, <1>5, <1>7, <1>8, <1>9, <1>10, RowStepInv

\* The row that a sweep which holds the lease is about to write.
LEMMA HeldRow ==
  ASSUME QueueInv, NEW w \in Workers, worker[w].pc # "idle",
         job[worker[w].job].owner = w
  PROVE  LET j == worker[w].job
         IN  /\ j \in Jobs /\ job[j] \in Job /\ logged[j] \in Logs /\ accepted[j] \in BOOLEAN
             /\ job[j].status = "PROCESSING" /\ job[j].attempts = logged[j].failed
             /\ job[j].attempts < MaxAttempts /\ logged[j].sent = 0
             /\ worker[w].attempt = job[j].attempts + 1
             /\ worker[w].attempt \in 1..MaxAttempts
             /\ org # "GONE"
  <1> DEFINE j == worker[w].job
  <1>1. j \in Jobs /\ QueueSweep(w)
    BY DEF QueueInv, QueueSweep
  <1>2. QueueRow(j) /\ job[j] \in Job /\ logged[j] \in Logs /\ accepted[j] \in BOOLEAN
    BY <1>1 DEF QueueInv, QueueTypeOK, Logs
  <1>3. job[j].status = "PROCESSING"
    BY <1>2 DEF QueueRow, Consistent
  <1>4. job[j].attempts = logged[j].failed /\ job[j].attempts < MaxAttempts /\ logged[j].sent = 0
    BY <1>2, <1>3 DEF QueueRow, Consistent
  <1>5. worker[w].attempt = job[j].attempts + 1
    BY <1>1 DEF QueueSweep
  <1>6. worker[w].attempt \in 1..MaxAttempts
    BY <1>2, <1>4, <1>5 DEF Job
  <1>7. org # "GONE"
    BY <1>1, <1>3 DEF QueueInv, NothingOutlivesOrganization
  <1>8. QED
    BY <1>1, <1>2, <1>3, <1>4, <1>5, <1>6, <1>7

Ends(w) == worker' = [worker EXCEPT ![w] = IdleWorker]

\* A sweep that ends lets its row go.
LEMMA ReleaseInv ==
  ASSUME QueueInv, UNCHANGED orgVars, UNCHANGED faults, NEW w \in Workers,
         NEW j \in Jobs, NEW row \in Job, NEW log \in Logs, NEW taken \in BOOLEAN,
         Write(j, row, log, taken),
         quarantined' \subseteq Subscribers,
         Ends(w),
         Consistent(row, log, taken),
         row.owner = NoWorker,
         org # "GONE"
  PROVE  QueueInv'
  <1>1. faults' \in 0..MaxFaults /\ org' = org /\ job' = [job EXCEPT ![j] = row]
    BY DEF QueueInv, OrgInv, OrgTypeOK, orgVars, Write
  <1>2. worker' \in [Workers -> Worker]
    BY DEF Ends, QueueInv, QueueTypeOK, IdleWorker, Worker, Pcs, Outcomes
  <1>3. ASSUME NEW v \in Workers PROVE QueueSweep(v)'
    <2>1. CASE v = w
      BY <2>1 DEF Ends, QueueSweep, IdleWorker, QueueInv, QueueTypeOK
    <2>2. CASE v # w
      <3>1. worker'[v] = worker[v] /\ row.owner # v
        BY <2>2 DEF Ends, QueueInv, QueueTypeOK
      <3>2. \A k \in Jobs : k # j => accepted'[k] = accepted[k]
        BY DEF QueueInv, QueueTypeOK, Write
      <3>3. QED
        BY <1>1, <3>1, <3>2, SweepKept
    <2>3. QED
      BY <2>1, <2>2
  <1>4. QED
    BY <1>1, <1>2, <1>3, RowStepInv

\* The commit: while the lease holds, the attempt it writes is the one after
\* the row's counter, so the counter and the log advance together.
LEMMA CommitInv ==
  ASSUME QueueInv, NEW w \in Workers, CommitOutcome(w)
  PROVE  QueueInv'
  <1> DEFINE j == worker[w].job
             outcome == worker[w].outcome
             attempt == worker[w].attempt
             terminal == outcome \in {"permanent", "bounced"} \/ attempt >= MaxAttempts
  <1>1. /\ worker[w].pc = "writing" /\ UNCHANGED orgVars /\ UNCHANGED faults
        /\ accepted' = accepted
    BY DEF CommitOutcome
  <1>2. CASE HoldsLease(w)
    <2>1. /\ j \in Jobs /\ job[j] \in Job /\ logged[j] \in Logs /\ accepted[j] \in BOOLEAN
          /\ job[j].status = "PROCESSING" /\ job[j].attempts = logged[j].failed
          /\ job[j].attempts < MaxAttempts /\ logged[j].sent = 0
          /\ attempt = job[j].attempts + 1 /\ attempt \in 1..MaxAttempts
          /\ org # "GONE"
      BY <1>1, <1>2, HeldRow DEF HoldsLease
    <2>2. /\ Ends(w)
          /\ quarantined' \subseteq Subscribers
          /\ outcome = "sent" => accepted[j]
      <3>1. Ends(w)
        BY <1>2 DEF CommitOutcome, Ends
      <3>2. quarantined' \subseteq Subscribers
        <4>1. quarantined \subseteq Subscribers
          BY DEF QueueInv, QueueTypeOK
        <4>2. {RecipientOf[j]} \ {NoSubscriber} \subseteq Subscribers
          BY <2>1
        <4>3. quarantined' = quarantined
              \/ quarantined' = quarantined \union ({RecipientOf[j]} \ {NoSubscriber})
          BY <1>2 DEF CommitOutcome
        <4>4. QED
          BY <4>1, <4>2, <4>3
      <3>3. outcome = "sent" => accepted[j]
        BY <1>1, <1>2 DEF QueueInv, QueueSweep, HoldsLease, Tried
      <3>4. QED
        BY <3>1, <3>2, <3>3
    <2>3. CASE outcome = "sent"
      <3> DEFINE row == Sent(job[j], attempt)
                 log == [logged[j] EXCEPT !.sent = @ + 1]
      <3>1. row \in Job /\ row.status = "SENT" /\ row.attempts = attempt /\ row.owner = NoWorker
        <4>1. attempt \in 0..MaxAttempts
          BY <2>1
        <4> HIDE DEF attempt
        <4>2. QED
          BY <2>1, <4>1 DEF Sent, Job, JobStatuses
      <3>2. log \in Logs /\ log.sent = 1 /\ log.failed = logged[j].failed
        BY <2>1 DEF Logs
      <3>3. Write(j, row, log, accepted[j])
        BY <1>1, <1>2, <2>1, <2>3 DEF CommitOutcome, Write, QueueInv, QueueTypeOK
      <3> HIDE DEF row, log
      <3>4. Consistent(row, log, accepted[j])
        BY <2>1, <2>2, <2>3, <3>1, <3>2 DEF Consistent
      <3> HIDE DEF j
      <3>5. QED
        BY <1>1, <2>1, <2>2, <3>1, <3>2, <3>3, <3>4, ReleaseInv
    <2>4. CASE outcome # "sent"
      <3> DEFINE row == Failed(job[j], attempt, terminal)
                 log == [logged[j] EXCEPT !.failed = @ + 1]
      <3>1. /\ row \in Job /\ row.owner = NoWorker
            /\ terminal => row.status = "DEAD_LETTER" /\ row.attempts = MaxAttempts
            /\ ~terminal => row.status = "PENDING" /\ row.attempts = attempt
        <4> HIDE DEF terminal
        <4>1. attempt \in 0..MaxAttempts /\ MaxAttempts \in 0..MaxAttempts
          BY <2>1
        <4> HIDE DEF attempt
        <4>2. CASE terminal
          BY <2>1, <4>1, <4>2 DEF Failed, Job, JobStatuses
        <4>3. CASE ~terminal
          BY <2>1, <4>1, <4>3 DEF Failed, Job, JobStatuses
        <4>4. QED
          BY <4>2, <4>3
      <3>2. log \in Logs /\ log.sent = 0 /\ log.failed = logged[j].failed + 1
        BY <2>1 DEF Logs
      <3>3. Write(j, row, log, accepted[j])
        BY <1>1, <1>2, <2>1, <2>4 DEF CommitOutcome, Write, QueueInv, QueueTypeOK
      <3>4. ~terminal => attempt < MaxAttempts
        BY <2>1
      <3> HIDE DEF row, log, terminal
      <3>5. log.failed = attempt
        BY <2>1, <3>2
      <3> HIDE DEF attempt
      <3>6. Consistent(row, log, accepted[j])
        <4>1. CASE terminal
          BY <2>1, <3>1, <3>2, <3>5, <4>1 DEF Consistent
        <4>2. CASE ~terminal
          BY <2>1, <3>1, <3>2, <3>4, <3>5, <4>2 DEF Consistent
        <4>3. QED
          BY <4>1, <4>2
      <3> HIDE DEF j
      <3>7. QED
        BY <1>1, <2>1, <2>2, <3>1, <3>2, <3>3, <3>6, ReleaseInv
    <2>5. QED
      BY <2>3, <2>4
  <1>3. CASE ~HoldsLease(w)
    <2>1. Goto(w, "blocking") /\ UNCHANGED <<job, quarantined, logged, accepted>>
      BY <1>1, <1>3 DEF CommitOutcome
    <2>2. "blocking" \in Pcs /\ "blocking" \notin Checked /\ "blocking" \notin Tried
      BY DEF Pcs, Checked, Tried
    <2>3. faults' \in 0..MaxFaults
      BY <1>1 DEF QueueInv, OrgInv, OrgTypeOK
    <2>4. QED
      BY <1>1, <2>1, <2>2, <2>3, GotoInv
  <1>4. QED
    BY <1>2, <1>3

\* A row is set aside by its owner only, which implies that it is PROCESSING.
LEMMA BlockInv ==
  ASSUME QueueInv, NEW w \in Workers, BlockInactive(w)
  PROVE  QueueInv'
  <1> DEFINE j == worker[w].job
             row == [job[j] EXCEPT !.status = "BLOCKED", !.owner = NoWorker,
                                   !.live = FALSE, !.hold = "inactive"]
  <1>1. /\ worker[w].pc = "blocking" /\ UNCHANGED orgVars /\ UNCHANGED faults
        /\ Ends(w) /\ UNCHANGED <<quarantined, logged, accepted>>
    BY DEF BlockInactive, Ends
  <1>2. CASE job[j].owner = w
    <2>1. /\ j \in Jobs /\ job[j] \in Job /\ logged[j] \in Logs /\ accepted[j] \in BOOLEAN
          /\ job[j].attempts = logged[j].failed
          /\ job[j].attempts < MaxAttempts /\ logged[j].sent = 0
          /\ org # "GONE"
      BY <1>1, <1>2, HeldRow
    <2>2. /\ row \in Job /\ row.owner = NoWorker /\ row.status = "BLOCKED"
          /\ row.attempts = job[j].attempts
      BY <2>1 DEF Job, JobStatuses, Holds
    <2>3. Write(j, row, logged[j], accepted[j])
      BY <1>1, <1>2, <2>1 DEF BlockInactive, Write, QueueInv, QueueTypeOK
    <2> HIDE DEF row
    <2>4. Consistent(row, logged[j], accepted[j])
      BY <2>1, <2>2 DEF Consistent
    <2>5. quarantined' \subseteq Subscribers
      BY <1>1 DEF QueueInv, QueueTypeOK
    <2> HIDE DEF j
    <2>6. QED
      BY <1>1, <2>1, <2>2, <2>3, <2>4, <2>5, ReleaseInv
  <1>3. CASE job[j].owner # w
    <2>1. UNCHANGED <<job, quarantined, logged, accepted>>
      BY <1>1, <1>3 DEF BlockInactive
    <2>2. IdleWorker \in Worker /\ IdleWorker.pc = "idle"
      BY DEF IdleWorker, Worker, Pcs, Outcomes
    <2>3. faults' \in 0..MaxFaults
      BY <1>1 DEF QueueInv, OrgInv, OrgTypeOK
    <2>4. QED
      BY <1>1, <2>1, <2>2, <2>3, SweepStepInv DEF Ends
  <1>4. QED
    BY <1>2, <1>3

\* Clocks.
LEMMA QueueTimeInv ==
  ASSUME QueueInv, NEW j \in Jobs, LeaseExpires(j) \/ BackoffElapses(j)
  PROVE  QueueInv'
  <1> DEFINE expired == [job[j] EXCEPT !.live = FALSE]
             elapsed == [job[j] EXCEPT !.due = TRUE]
  <1>1. /\ job[j] \in Job /\ UNCHANGED orgVars /\ worker' = worker
        /\ UNCHANGED <<quarantined, logged, accepted>>
        /\ job' = [job EXCEPT ![j] = expired] \/ job' = [job EXCEPT ![j] = elapsed]
    BY DEF LeaseExpires, BackoffElapses, QueueInv, QueueTypeOK
  <1>2. faults' \in 0..MaxFaults
    <2>1. faults \in 0..MaxFaults
      BY DEF QueueInv, OrgInv, OrgTypeOK
    <2>2. faults' = faults \/ (faults < MaxFaults /\ faults' = faults + 1)
      BY DEF LeaseExpires, BackoffElapses
    <2>3. QED
      BY <2>1, <2>2
  <1>3. /\ expired \in Job /\ expired.status = job[j].status
        /\ expired.attempts = job[j].attempts /\ expired.owner = job[j].owner
        /\ elapsed \in Job /\ elapsed.status = job[j].status
        /\ elapsed.attempts = job[j].attempts /\ elapsed.owner = job[j].owner
    BY <1>1 DEF Job
  <1>4. worker' \in [Workers -> Worker] /\ \A v \in Workers : worker'[v] = worker[v]
    BY <1>1 DEF QueueInv, QueueTypeOK
  <1> HIDE DEF expired, elapsed
  <1>5. PICK row \in {expired, elapsed} : job' = [job EXCEPT ![j] = row]
    BY <1>1
  <1>6. /\ row \in Job /\ row.status = job[j].status
        /\ row.attempts = job[j].attempts /\ row.owner = job[j].owner
    BY <1>3
  <1>7. QED
    BY <1>1, <1>2, <1>4, <1>5, <1>6, ClockInv

\* The quarantine of a subscriber: only while the organization is active.
LEMMA ToggleInv ==
  ASSUME QueueInv, NEW s \in Subscribers, ToggleQuarantine(s)
  PROVE  QueueInv'
  <1>1. /\ UNCHANGED orgVars /\ org' = org /\ org # "GONE"
        /\ UNCHANGED <<job, worker, logged, accepted>>
        /\ quarantined' \subseteq Subscribers /\ faults' \in 0..MaxFaults
    BY DEF ToggleQuarantine, Active, orgVars, QueueInv, QueueTypeOK, OrgInv, OrgTypeOK
  <1>2. OrgInv'
    BY <1>1, FaultInv DEF QueueInv
  <1>3. QED
    BY <1>1, <1>2 DEF QueueInv, QueueTypeOK, NothingOutlivesOrganization, QueueRow,
                      Consistent, QueueSweep, Active

-----------------------------------------------------------------------------
(* The life cycle of the organization.                                     *)

\* The purge neither wakes the organization nor, before its last transaction,
\* deletes it.
LEMMA PurgeKeepsActive ==
  ASSUME PurgeStep
  PROVE  /\ org' = "GONE" => org = "GONE"
         /\ Active' <=> Active
  BY DEF Active, PurgeStep, RequestPurge, CancelPurge, RetryPurge, PurgeLeaseExpires,
         PurgeBackoffElapses, LeasePurge, HeartbeatPurge, RemoveAssets, FencePurge,
         PurgeStepFails, FailPurge, CrashPurge

\* Suspension takes every lease away before a sweep can see it.
LEMMA SuspendInv == ASSUME QueueInv, Suspend PROVE QueueInv'
  <1> DEFINE held(j) == [job[j] EXCEPT !.status = "BLOCKED", !.owner = NoWorker,
                                       !.live = FALSE, !.hold = "suspended"]
  <1>1. OrgInv' /\ org' = "SUSPENDED" /\ UNCHANGED <<worker, quarantined, logged, accepted>>
    BY LifecycleInv DEF QueueInv, Suspend, SuspendOrg
  <1>2. \A j \in Jobs : job'[j] = IF job[j].status \in {"PENDING", "PROCESSING"}
                                   THEN held(j) ELSE job[j]
    BY DEF Suspend
  <1>3. ASSUME NEW j \in Jobs
        PROVE  /\ held(j) \in Job /\ held(j).status = "BLOCKED" /\ held(j).owner = NoWorker
               /\ held(j).attempts = job[j].attempts
    <2>1. job[j] \in Job
      BY DEF QueueInv, QueueTypeOK
    <2>2. QED
      BY <2>1 DEF Job, JobStatuses, Holds
  <1> HIDE DEF held
  <1>4. QueueTypeOK'
    <2>1. job' \in [Jobs -> Job]
      <3>1. \A j \in Jobs : job'[j] \in Job
        BY <1>2, <1>3 DEF QueueInv, QueueTypeOK
      <3>2. job' = [j \in Jobs |-> job'[j]]
        BY DEF Suspend
      <3>3. QED
        BY <3>1, <3>2
    <2>2. QED
      BY <1>1, <2>1 DEF QueueInv, QueueTypeOK
  <1>5. ASSUME NEW j \in Jobs PROVE QueueRow(j)' /\ job'[j].owner = NoWorker
    <2>1. QueueRow(j) /\ logged'[j] = logged[j] /\ accepted'[j] = accepted[j]
      BY <1>1 DEF QueueInv
    <2>2. CASE job[j].status \in {"PENDING", "PROCESSING"}
      BY <1>2, <1>3, <2>1, <2>2 DEF QueueRow, Consistent
    <2>3. CASE job[j].status \notin {"PENDING", "PROCESSING"}
      BY <1>2, <2>1, <2>3 DEF QueueRow, Consistent
    <2>4. QED
      BY <2>2, <2>3
  <1>6. ASSUME NEW w \in Workers PROVE QueueSweep(w)'
    <2>1. QueueSweep(w) /\ worker'[w] = worker[w] /\ w # NoWorker
      BY <1>1 DEF QueueInv
    <2>2. QED
      BY <1>5, <2>1 DEF QueueSweep
  <1>7. QED
    BY <1>1, <1>4, <1>5, <1>6 DEF QueueInv, NothingOutlivesOrganization

\* Reactivation releases rows that no sweep owns.
LEMMA ReactivateInv == ASSUME QueueInv, Reactivate PROVE QueueInv'
  <1> DEFINE freed(j) == [job[j] EXCEPT !.status = "PENDING", !.due = TRUE, !.hold = "none"]
  <1>1. OrgInv' /\ org' = "ACTIVE" /\ UNCHANGED <<worker, quarantined, logged, accepted>>
    BY LifecycleInv DEF QueueInv, Reactivate, ReactivateOrg
  <1>2. \A j \in Jobs : job'[j] = IF HeldBySuspension(job[j]) THEN freed(j) ELSE job[j]
    BY DEF Reactivate
  <1>3. ASSUME NEW j \in Jobs
        PROVE  /\ freed(j) \in Job /\ freed(j).status = "PENDING"
               /\ freed(j).owner = job[j].owner /\ freed(j).attempts = job[j].attempts
    <2>1. job[j] \in Job
      BY DEF QueueInv, QueueTypeOK
    <2>2. QED
      BY <2>1 DEF Job, JobStatuses, Holds
  <1> HIDE DEF freed
  <1>4. QueueTypeOK'
    <2>1. job' \in [Jobs -> Job]
      <3>1. \A j \in Jobs : job'[j] \in Job
        BY <1>2, <1>3 DEF QueueInv, QueueTypeOK
      <3>2. job' = [j \in Jobs |-> job'[j]]
        BY DEF Reactivate
      <3>3. QED
        BY <3>1, <3>2
    <2>2. QED
      BY <1>1, <2>1 DEF QueueInv, QueueTypeOK
  <1>5. ASSUME NEW j \in Jobs
        PROVE  QueueRow(j)' /\ job'[j].owner = job[j].owner /\ job'[j].attempts = job[j].attempts
    <2>1. QueueRow(j) /\ logged'[j] = logged[j] /\ accepted'[j] = accepted[j]
      BY <1>1 DEF QueueInv
    <2>2. CASE HeldBySuspension(job[j])
      BY <1>2, <1>3, <2>1, <2>2 DEF QueueRow, Consistent, HeldBySuspension
    <2>3. CASE ~HeldBySuspension(job[j])
      BY <1>2, <2>1, <2>3 DEF QueueRow, Consistent
    <2>4. QED
      BY <2>2, <2>3
  <1>6. ASSUME NEW w \in Workers PROVE QueueSweep(w)'
    <2>1. QueueSweep(w) /\ worker'[w] = worker[w]
      BY <1>1 DEF QueueInv
    <2>2. QED
      BY <1>1, <1>5, <2>1 DEF QueueSweep, Active
  <1>7. QED
    BY <1>1, <1>4, <1>5, <1>6 DEF QueueInv, NothingOutlivesOrganization

\* The deletion of the organization leaves no row for a sweep to own.
LEMMA EraseInv == ASSUME QueueInv, NEW p \in PurgeWorkers, Finalize(p) PROVE QueueInv'
  <1>1. OrgInv' /\ worker' = worker
    BY FinalizeInv DEF QueueInv, Finalize
  <1>2. CASE org' = "GONE"
    <2>1. /\ job' = [j \in Jobs |-> AbsentJob] /\ quarantined' = {}
          /\ logged' = [j \in Jobs |-> NoLog] /\ accepted' = [j \in Jobs |-> FALSE]
      BY <1>2 DEF Finalize
    <2>2. AbsentJob \in Job /\ AbsentJob.status = "ABSENT" /\ AbsentJob.owner = NoWorker
      <3>1. 0 \in 0..MaxAttempts
        OBVIOUS
      <3>2. QED
        BY <3>1 DEF AbsentJob, Job, JobStatuses, Holds
    <2>3. QueueTypeOK'
      BY <1>1, <2>1, <2>2, QueuedRow DEF QueueInv, QueueTypeOK, Logs
    <2>4. \A j \in Jobs : QueueRow(j)'
      BY <2>1, <2>2 DEF QueueRow, Consistent
    <2>5. ASSUME NEW w \in Workers PROVE QueueSweep(w)'
      <3>1. QueueSweep(w) /\ worker'[w] = worker[w] /\ w # NoWorker
        BY <1>1 DEF QueueInv
      <3>2. QED
        BY <2>1, <2>2, <3>1 DEF QueueSweep
    <2>6. NothingOutlivesOrganization'
      BY <2>1, <2>2 DEF NothingOutlivesOrganization
    <2>7. QED
      BY <1>1, <2>3, <2>4, <2>5, <2>6 DEF QueueInv
  <1>3. CASE org' # "GONE"
    <2>1. UNCHANGED <<job, quarantined, logged, accepted>>
      BY <1>3 DEF Finalize
    <2>2. org' = org
      BY <1>3 DEF Finalize, FinalizePurge
    <2>3. QED
      BY <1>1, <2>1, <2>2 DEF QueueInv, QueueTypeOK, NothingOutlivesOrganization, QueueRow,
                              Consistent, QueueSweep, Active
  <1>4. QED
    BY <1>2, <1>3

LEMMA PurgeQueueInv == ASSUME QueueInv, PurgeStep, UNCHANGED queueVars PROVE QueueInv'
  <1>1. OrgInv' /\ (org' = "GONE" => org = "GONE") /\ (Active' <=> Active)
    BY PurgeStepInv, PurgeKeepsActive DEF QueueInv
  <1>2. UNCHANGED <<job, worker, quarantined, logged, accepted>>
    BY DEF queueVars
  <1>3. ASSUME NEW w \in Workers PROVE QueueSweep(w)'
    <2>1. QueueSweep(w)
      BY DEF QueueInv
    <2>2. QED
      BY <1>1, <1>2, <2>1 DEF QueueSweep
  <1>4. ASSUME NEW j \in Jobs PROVE QueueRow(j)'
    BY <1>2 DEF QueueInv, QueueRow, Consistent
  <1>5. QED
    BY <1>1, <1>2, <1>3, <1>4 DEF QueueInv, QueueTypeOK, NothingOutlivesOrganization

-----------------------------------------------------------------------------
(* The invariant and what the rows say.                                    *)

LEMMA QueueInitInv == Init => QueueInv
  <1> SUFFICES ASSUME Init PROVE QueueInv
    OBVIOUS
  <1>1. OrgInv /\ org # "GONE"
    BY OrgInitInv DEF Init, OrgInit
  <1>2. AbsentJob \in Job /\ AbsentJob.status = "ABSENT" /\ AbsentJob.owner = NoWorker
    <2>1. 0 \in 0..MaxAttempts
      OBVIOUS
    <2>2. QED
      BY <2>1 DEF AbsentJob, Job, JobStatuses, Holds
  <1>3. IdleWorker \in Worker /\ IdleWorker.pc = "idle"
    BY DEF IdleWorker, Worker, Pcs, Outcomes
  <1>4. QueueTypeOK
    BY <1>2, <1>3, QueuedRow DEF Init, QueueInit, QueueTypeOK, Logs
  <1>5. ASSUME NEW j \in Jobs PROVE QueueRow(j)
    BY <1>2 DEF Init, QueueInit, QueueRow, Consistent
  <1>6. ASSUME NEW w \in Workers PROVE QueueSweep(w)
    BY <1>3 DEF Init, QueueInit, QueueSweep
  <1>7. QED
    BY <1>1, <1>4, <1>5, <1>6 DEF QueueInv, NothingOutlivesOrganization

LEMMA QueueStepInv == ASSUME QueueInv, QueueStep PROVE QueueInv'
  <1>1. ASSUME NEW j \in Jobs,
               DispatchFenced(j) \/ Announce(j) \/ DispatchUnfenced(j) \/ RetryDelivery(j)
                  \/ RetryNotificationJob(j) \/ LeaseExpires(j) \/ BackoffElapses(j)
        PROVE  QueueInv'
    <2>1. CASE DispatchFenced(j)
      BY <2>1, InsertInv DEF DispatchFenced, Active
    <2>2. CASE DispatchUnfenced(j)
      BY <2>2, InsertInv DEF DispatchUnfenced
    <2>3. QED
      BY <1>1, <2>1, <2>2, AnnounceInv, RequeueInv, QueueTimeInv
         DEF RetryDelivery, RetryNotificationJob
  <1>2. ASSUME NEW w \in Workers PROVE
          /\ \A j \in Jobs : Lease(w, j) => QueueInv'
          /\ Heartbeat(w) => QueueInv'
          /\ WorkerStep(w) => QueueInv'
          /\ Crash(w) => QueueInv'
    BY QueueLeaseInv, HeartbeatInv, CheckInv, DeliverInv, CommitInv, BlockInv, CrashInv
       DEF WorkerStep
  <1>3. QED
    BY <1>1, <1>2, ToggleInv DEF QueueStep

LEMMA QueueNextInv == QueueInv /\ [Next]_vars => QueueInv'
  <1> SUFFICES ASSUME QueueInv, [Next]_vars PROVE QueueInv'
    OBVIOUS
  <1>1. CASE Next
    BY <1>1, QueueStepInv, SuspendInv, ReactivateInv, PurgeQueueInv, EraseInv DEF Next
  <1>2. CASE UNCHANGED vars
    <2>1. UNCHANGED orgVars /\ UNCHANGED faults /\ org' = org
          /\ UNCHANGED <<job, worker, quarantined, logged, accepted>>
      BY <1>2 DEF vars, orgVars
    <2>2. OrgInv'
      BY <2>1, FaultInv DEF QueueInv, OrgInv, OrgTypeOK
    <2>3. QED
      BY <2>1, <2>2 DEF QueueInv, QueueTypeOK, NothingOutlivesOrganization, QueueRow,
                        Consistent, QueueSweep, Active
  <1>3. QED
    BY <1>1, <1>2

\* QueueInv is an invariant of the queue and of the organization under it.
THEOREM QueueInvariance == Spec => []QueueInv
  BY QueueInitInv, QueueNextInv, PTL DEF Spec

\* Rows, logs and marks tell what happened, whichever sweep wrote them: no
\* attempt is lost or counted twice, only an accepted message is SENT, and
\* nothing is left behind the deletion of the organization.
THEOREM RecordsStayTrue == Spec => []RecordsAreTrue
  <1>1. ASSUME QueueInv PROVE RecordsAreTrue
    <2>1. TypeOK /\ NothingOutlivesOrganization /\ \A j \in Jobs : QueueRow(j)
      BY <1>1 DEF QueueInv, OrgInv, TypeOK
    <2>2. AttemptsMatchLog
      BY <2>1 DEF AttemptsMatchLog, Unfinished, QueueRow, Consistent
    <2>3. SentWasAccepted
      BY <2>1 DEF SentWasAccepted, QueueRow, Consistent
    <2>4. QED
      BY <2>1, <2>2, <2>3 DEF RecordsAreTrue
  <1>2. QED
    BY <1>1, QueueInvariance, PTL

-----------------------------------------------------------------------------
(* The contract: every step of the queue is one of its steps, or none.     *)

\* Where a row stands for the callers.
LEMMA PhaseOf ==
  ASSUME NEW row
  PROVE  /\ row.status \in {"ABSENT", "ANNOUNCED"} => RowPhase(row) = "none"
         /\ row.status \in {"PENDING", "PROCESSING"} => RowPhase(row) = "queued"
         /\ row.status = "SENT" => RowPhase(row) = "sent"
         /\ row.status = "DEAD_LETTER" => RowPhase(row) = "dead"
         /\ HeldBySuspension(row) => RowPhase(row) = "held"
         /\ row.status = "BLOCKED" /\ row.hold # "suspended" => RowPhase(row) = "parked"
  <1>1. row.status \in {"ABSENT", "ANNOUNCED"} => RowPhase(row) = "none"
    BY DEF RowPhase, HeldBySuspension
  <1>2. row.status \in {"PENDING", "PROCESSING"} => RowPhase(row) = "queued"
    BY DEF RowPhase, HeldBySuspension
  <1>3. row.status = "SENT" => RowPhase(row) = "sent"
    BY DEF RowPhase, HeldBySuspension
  <1>4. row.status = "DEAD_LETTER" => RowPhase(row) = "dead"
    BY DEF RowPhase, HeldBySuspension
  <1>5. HeldBySuspension(row) => RowPhase(row) = "held"
    BY DEF RowPhase, HeldBySuspension
  <1>6. row.status = "BLOCKED" /\ row.hold # "suspended" => RowPhase(row) = "parked"
    BY DEF RowPhase, HeldBySuspension
  <1>7. QED
    BY <1>1, <1>2, <1>3, <1>4, <1>5, <1>6

\* What a caller sees of a step that writes one row.
LEMMA WriteSeen ==
  ASSUME QueueTypeOK, NEW j \in Jobs, NEW row, NEW log, NEW taken \in BOOLEAN,
         Write(j, row, log, taken)
  PROVE  /\ phase' = [phase EXCEPT ![j] = RowPhase(row)]
         /\ failures' = [failures EXCEPT ![j] = log.failed]
         /\ phase[j] = RowPhase(job[j])
         /\ failures[j] = logged[j].failed
  <1>1. job' = [job EXCEPT ![j] = row] /\ logged' = [logged EXCEPT ![j] = log]
        /\ job \in [Jobs -> Job] /\ logged \in [Jobs -> Logs]
    BY DEF Write, QueueTypeOK, Logs
  <1>2. phase' = [k \in Jobs |-> RowPhase(job'[k])] /\ phase = [k \in Jobs |-> RowPhase(job[k])]
    BY DEF phase
  <1>3. phase' = [phase EXCEPT ![j] = RowPhase(row)] /\ phase[j] = RowPhase(job[j])
    BY <1>1, <1>2
  <1>4. failures' = [failures EXCEPT ![j] = log.failed] /\ failures[j] = logged[j].failed
    BY <1>1 DEF failures
  <1>5. QED
    BY <1>3, <1>4

\* A step that leaves every row in its phase and every log alone is no step
\* of the contract.
Unseen ==
    /\ org' = org
    /\ logged' = logged
    /\ \A j \in Jobs : RowPhase(job'[j]) = RowPhase(job[j])

LEMMA UnseenStutters == ASSUME Unseen PROVE UNCHANGED Contract!contractVars
  <1>1. Active' = Active
    BY DEF Unseen, Active
  <1>2. phase' = phase
    <2>1. phase' = [j \in Jobs |-> RowPhase(job'[j])] /\ phase = [j \in Jobs |-> RowPhase(job[j])]
      BY DEF phase
    <2>2. QED
      BY <2>1 DEF Unseen
  <1>3. failures' = failures
    BY DEF Unseen, failures
  <1>4. QED
    BY <1>1, <1>2, <1>3 DEF Contract!contractVars

\* A dispatch is a request.
LEMMA AskStep ==
  ASSUME QueueInv, NEW j \in Jobs, Insert(j), org' = org,
         job[j].status \in {"ABSENT", "ANNOUNCED"}
  PROVE  Contract!Next
  <1>1. QueueTypeOK /\ logged[j] = NoLog /\ accepted[j] \in BOOLEAN
    BY DEF QueueInv, QueueTypeOK, QueueRow, Consistent
  <1>2. Write(j, QueuedJob, logged[j], accepted[j])
    BY <1>1 DEF Write, Insert, QueueTypeOK
  <1>3. phase[j] = "none" /\ phase' = [phase EXCEPT ![j] = "queued"]
    BY <1>1, <1>2, WriteSeen, PhaseOf, QueuedRow
  <1>4. failures' = failures
    BY DEF Insert, failures
  <1>5. Active' = Active
    BY DEF Active
  <1>6. Contract!Ask(j)
    BY <1>3, <1>4, <1>5 DEF Contract!Ask, Contract!Move
  <1>7. QED
    BY <1>6 DEF Contract!Next

LEMMA AgainStep ==
  ASSUME QueueInv, NEW j \in Jobs, Requeue(j)
  PROVE  Contract!Next
  <1>1. QueueTypeOK /\ Write(j, QueuedJob, NoLog, FALSE)
    BY DEF Write, Requeue, QueueInv
  <1>s. /\ phase' = [phase EXCEPT ![j] = RowPhase(QueuedJob)]
        /\ failures' = [failures EXCEPT ![j] = NoLog.failed]
        /\ phase[j] = RowPhase(job[j])
    <2>1. PICK taken \in BOOLEAN : Write(j, QueuedJob, NoLog, taken)
      BY <1>1
    <2>2. QED
      BY <1>1, <2>1, WriteSeen
  <1>2. phase[j] = "dead" /\ phase' = [phase EXCEPT ![j] = "queued"]
    BY <1>s, PhaseOf, QueuedRow DEF Requeue
  <1>3. failures' = [failures EXCEPT ![j] = 0]
    BY <1>s, QueuedRow
  <1>4. Active' = Active
    BY DEF Active, Requeue, orgVars
  <1>5. Contract!Again(j)
    BY <1>2, <1>3, <1>4 DEF Contract!Again, Contract!Move
  <1>6. QED
    BY <1>5 DEF Contract!Next

\* A commit under the lease records one outcome while the organization is
\* active; without the lease nothing is seen of it.
LEMMA CommitStep ==
  ASSUME QueueInv, NEW w \in Workers, CommitOutcome(w)
  PROVE  Contract!Next \/ UNCHANGED Contract!contractVars
  <1> DEFINE j == worker[w].job
             outcome == worker[w].outcome
             attempt == worker[w].attempt
             terminal == outcome \in {"permanent", "bounced"} \/ attempt >= MaxAttempts
  <1>1. worker[w].pc = "writing" /\ org' = org /\ accepted' = accepted /\ QueueTypeOK
    BY DEF CommitOutcome, orgVars, QueueInv
  <1>a. Active' = Active
    BY <1>1 DEF Active
  <1>2. CASE HoldsLease(w)
    <2>1. /\ j \in Jobs /\ job[j] \in Job /\ logged[j] \in Logs /\ accepted[j] \in BOOLEAN
          /\ job[j].status = "PROCESSING" /\ job[j].attempts = logged[j].failed
          /\ job[j].attempts < MaxAttempts
          /\ attempt = job[j].attempts + 1 /\ attempt \in 1..MaxAttempts
      BY <1>1, <1>2, HeldRow DEF HoldsLease
    <2>2. Active
      BY <1>1, <1>2 DEF QueueInv, QueueSweep, HoldsLease, Checked
    <2>3. RowPhase(job[j]) = "queued"
      BY <2>1, PhaseOf
    <2>4. CASE outcome = "sent"
      <3> DEFINE row == Sent(job[j], attempt)
                 log == [logged[j] EXCEPT !.sent = @ + 1]
      <3>1. row.status = "SENT" /\ log.failed = logged[j].failed
        BY <2>1 DEF Sent, Job, Logs
      <3>2. Write(j, row, log, accepted[j])
        BY <1>1, <1>2, <2>1, <2>4 DEF CommitOutcome, Write, QueueTypeOK
      <3> HIDE DEF row, log
      <3>3. phase[j] = "queued" /\ phase' = [phase EXCEPT ![j] = "sent"]
        BY <1>1, <2>1, <2>3, <3>1, <3>2, WriteSeen, PhaseOf
      <3>4. failures' = failures
        <4>1. failures' = [failures EXCEPT ![j] = log.failed] /\ failures[j] = logged[j].failed
          BY <1>1, <2>1, <3>2, WriteSeen
        <4>2. failures = [k \in Jobs |-> logged[k].failed]
          BY DEF failures
        <4>3. QED
          BY <2>1, <3>1, <4>1, <4>2
      <3>5. Contract!RecordSent(j)
        BY <1>a, <2>2, <3>3, <3>4 DEF Contract!RecordSent, Contract!Move
      <3>6. QED
        BY <2>1, <3>5 DEF Contract!Next
    <2>5. CASE outcome # "sent"
      <3> DEFINE row == Failed(job[j], attempt, terminal)
                 log == [logged[j] EXCEPT !.failed = @ + 1]
      <3>1. row.status = IF terminal THEN "DEAD_LETTER" ELSE "PENDING"
        <4> HIDE DEF terminal
        <4>1. QED
          BY <2>1 DEF Failed, Job
      <3>2. log.failed = logged[j].failed + 1
        BY <2>1 DEF Logs
      <3>3. Write(j, row, log, accepted[j])
        BY <1>1, <1>2, <2>1, <2>5 DEF CommitOutcome, Write, QueueTypeOK
      <3>4. ~terminal => attempt < MaxAttempts
        BY <2>1
      <3> HIDE DEF row, log, terminal
      <3>5. phase[j] = "queued" /\ phase' = [phase EXCEPT ![j] = RowPhase(row)]
        BY <1>1, <2>1, <2>3, <3>3, WriteSeen
      <3>6. /\ failures' = [failures EXCEPT ![j] = log.failed]
            /\ failures[j] = logged[j].failed
        BY <1>1, <2>1, <3>3, WriteSeen
      <3>7. failures' = [failures EXCEPT ![j] = failures[j] + 1] /\ failures[j] < MaxAttempts
        BY <2>1, <3>2, <3>6
      <3>8. \/ Contract!Move(j, "queued", "queued") /\ failures[j] + 1 < MaxAttempts
            \/ Contract!Move(j, "queued", "dead")
        <4>1. CASE terminal
          <5>1. RowPhase(row) = "dead"
            BY <3>1, <4>1, PhaseOf
          <5>2. QED
            BY <3>5, <5>1 DEF Contract!Move
        <4>2. CASE ~terminal
          <5>1. RowPhase(row) = "queued"
            BY <3>1, <4>2, PhaseOf
          <5>2. failures[j] + 1 < MaxAttempts
            BY <2>1, <3>4, <3>6, <4>2
          <5>3. QED
            BY <3>5, <5>1, <5>2 DEF Contract!Move
        <4>3. QED
          BY <4>1, <4>2
      <3> HIDE DEF j
      <3>9. Contract!RecordFailure(j)
        BY <1>a, <2>2, <3>7, <3>8 DEF Contract!RecordFailure
      <3>10. QED
        BY <2>1, <3>9 DEF Contract!Next
    <2>6. QED
      BY <2>4, <2>5
  <1>3. CASE ~HoldsLease(w)
    <2>1. job' = job /\ logged' = logged
      BY <1>1, <1>3 DEF CommitOutcome
    <2>2. QED
      BY <1>1, <2>1, UnseenStutters DEF Unseen
  <1>4. QED
    BY <1>2, <1>3

\* A row set aside is parked: its owner found it PROCESSING.
LEMMA ParkStep ==
  ASSUME QueueInv, NEW w \in Workers, BlockInactive(w)
  PROVE  Contract!Next \/ UNCHANGED Contract!contractVars
  <1> DEFINE j == worker[w].job
             row == [job[j] EXCEPT !.status = "BLOCKED", !.owner = NoWorker,
                                   !.live = FALSE, !.hold = "inactive"]
  <1>1. worker[w].pc = "blocking" /\ org' = org /\ UNCHANGED <<logged, accepted>> /\ QueueTypeOK
    BY DEF BlockInactive, orgVars, QueueInv
  <1>2. CASE job[j].owner = w
    <2>1. j \in Jobs /\ job[j] \in Job /\ job[j].status = "PROCESSING" /\ accepted[j] \in BOOLEAN
      BY <1>1, <1>2, HeldRow
    <2>2. row.status = "BLOCKED" /\ row.hold = "inactive"
      BY <2>1 DEF Job
    <2>3. Write(j, row, logged[j], accepted[j])
      BY <1>1, <1>2, <2>1 DEF BlockInactive, Write, QueueTypeOK
    <2> HIDE DEF row
    <2>4. phase[j] = "queued" /\ phase' = [phase EXCEPT ![j] = "parked"]
      BY <1>1, <2>1, <2>2, <2>3, WriteSeen, PhaseOf
    <2>5. failures' = failures
      BY <1>1 DEF failures
    <2>6. Active' = Active
      BY <1>1 DEF Active
    <2>7. Contract!Park(j)
      BY <2>4, <2>5, <2>6 DEF Contract!Park, Contract!Move
    <2>8. QED
      BY <2>1, <2>7 DEF Contract!Next
  <1>3. CASE job[j].owner # w
    <2>1. job' = job
      BY <1>3 DEF BlockInactive
    <2>2. QED
      BY <1>1, <2>1, UnseenStutters DEF Unseen
  <1>4. QED
    BY <1>2, <1>3

\* Leases, heartbeats, clocks and announcements are not seen.
LEMMA UnseenRowStep ==
  ASSUME QueueInv, NEW j \in Jobs,
         \/ \E w \in Workers : Lease(w, j)
         \/ \E w \in Workers : worker[w].job = j /\ Heartbeat(w)
         \/ \E w \in Workers : worker[w].job = j /\ Renew(w) /\ HoldsLease(w)
         \/ Announce(j) \/ LeaseExpires(j) \/ BackoffElapses(j)
  PROVE  UNCHANGED Contract!contractVars
  <1>1. QueueTypeOK /\ job[j] \in Job /\ org' = org /\ logged' = logged
    BY DEF QueueInv, QueueTypeOK, Lease, Heartbeat, Renew, Announce, LeaseExpires,
           BackoffElapses, orgVars
  <1>2. /\ \A k \in Jobs : k # j => job'[k] = job[k]
        /\ \/ job'[j].status = job[j].status /\ job'[j].hold = job[j].hold
           \/ /\ job[j].status \in {"PENDING", "PROCESSING"}
              /\ job'[j].status \in {"PENDING", "PROCESSING"}
           \/ job[j].status = "ABSENT" /\ job'[j].status = "ANNOUNCED"
    <2>1. CASE \E w \in Workers : Lease(w, j)
      <3>1. PICK w \in Workers : Lease(w, j)
        BY <2>1
      <3>2. job' = [job EXCEPT ![j] = [job[j] EXCEPT !.status = "PROCESSING", !.owner = w,
                                                    !.live = TRUE]]
        BY <3>1 DEF Lease
      <3>3. job'[j].status = "PROCESSING" /\ \A k \in Jobs : k # j => job'[k] = job[k]
        BY <1>1, <3>2 DEF QueueTypeOK, Job
      <3>4. job[j].status \in {"PENDING", "PROCESSING"}
        BY <3>1 DEF Lease, Leasable
      <3>5. QED
        BY <3>3, <3>4
    <2>2. CASE \/ \E w \in Workers : worker[w].job = j /\ Heartbeat(w)
               \/ \E w \in Workers : worker[w].job = j /\ Renew(w) /\ HoldsLease(w)
      <3>1. job' = [job EXCEPT ![j].live = TRUE]
        BY <2>2 DEF Heartbeat, Renew
      <3>2. QED
        BY <1>1, <3>1 DEF QueueTypeOK, Job
    <2>3. CASE Announce(j) \/ LeaseExpires(j) \/ BackoffElapses(j)
      BY <1>1, <2>3 DEF QueueTypeOK, Announce, LeaseExpires, BackoffElapses, Job
    <2>4. QED
      BY <2>1, <2>2, <2>3
  <1>3. RowPhase(job'[j]) = RowPhase(job[j])
    <2>1. CASE job'[j].status = job[j].status /\ job'[j].hold = job[j].hold
      BY <2>1 DEF RowPhase, HeldBySuspension
    <2>2. QED
      BY <1>2, <2>1, PhaseOf
  <1>4. QED
    BY <1>1, <1>2, <1>3, UnseenStutters DEF Unseen

\* A suspension holds what is queued, a reactivation releases what it held.
LEMMA PauseStep == ASSUME QueueInv, Suspend PROVE Contract!Next
  <1>1. Active /\ ~Active' /\ failures' = failures
    BY DEF Suspend, SuspendOrg, Active, failures
  <1>2. ASSUME NEW j \in Jobs
        PROVE  RowPhase(job'[j]) = IF RowPhase(job[j]) = "queued" THEN "held" ELSE RowPhase(job[j])
    <2>1. job[j] \in Job /\ job[j].status \in JobStatuses
      BY DEF QueueInv, QueueTypeOK, Job
    <2>2. CASE job[j].status \in {"PENDING", "PROCESSING"}
      <3>1. job'[j].status = "BLOCKED" /\ job'[j].hold = "suspended"
        BY <2>1, <2>2 DEF Suspend, Job
      <3>2. QED
        BY <2>2, <3>1, PhaseOf DEF HeldBySuspension
    <2>3. CASE job[j].status \notin {"PENDING", "PROCESSING"}
      <3>1. job'[j] = job[j]
        BY <2>3 DEF Suspend
      <3>2. RowPhase(job[j]) # "queued"
        BY <2>3 DEF RowPhase, HeldBySuspension
      <3>3. QED
        BY <3>1, <3>2
    <2>4. QED
      BY <2>2, <2>3
  <1>3. phase' = [j \in Jobs |-> IF phase[j] = "queued" THEN "held" ELSE phase[j]]
    <2>1. phase' = [j \in Jobs |-> RowPhase(job'[j])] /\ phase = [j \in Jobs |-> RowPhase(job[j])]
      BY DEF phase
    <2>2. QED
      BY <1>2, <2>1
  <1>4. Contract!Pause
    BY <1>1, <1>3 DEF Contract!Pause
  <1>5. QED
    BY <1>4 DEF Contract!Next

LEMMA ResumeStep == ASSUME QueueInv, Reactivate PROVE Contract!Next
  <1>1. ~Active /\ Active' /\ failures' = failures
    BY DEF Reactivate, ReactivateOrg, Active, failures
  <1>2. ASSUME NEW j \in Jobs
        PROVE  RowPhase(job'[j]) = IF RowPhase(job[j]) = "held" THEN "queued" ELSE RowPhase(job[j])
    <2>1. job[j] \in Job /\ job[j].status \in JobStatuses
      BY DEF QueueInv, QueueTypeOK, Job
    <2>2. CASE HeldBySuspension(job[j])
      <3>1. job'[j].status = "PENDING"
        BY <2>1, <2>2 DEF Reactivate, Job
      <3>2. QED
        BY <2>2, <3>1, PhaseOf
    <2>3. CASE ~HeldBySuspension(job[j])
      <3>1. job'[j] = job[j]
        BY <2>3 DEF Reactivate
      <3>2. RowPhase(job[j]) # "held"
        BY <2>3 DEF RowPhase
      <3>3. QED
        BY <3>1, <3>2
    <2>4. QED
      BY <2>2, <2>3
  <1>3. phase' = [j \in Jobs |-> IF phase[j] = "held" THEN "queued" ELSE phase[j]]
    <2>1. phase' = [j \in Jobs |-> RowPhase(job'[j])] /\ phase = [j \in Jobs |-> RowPhase(job[j])]
      BY DEF phase
    <2>2. QED
      BY <1>2, <2>1
  <1>4. Contract!Resume
    BY <1>1, <1>3 DEF Contract!Resume
  <1>5. QED
    BY <1>4 DEF Contract!Next

\* The deletion erases every delivery, of an organization that was not active.
LEMMA EraseStep ==
  ASSUME QueueInv, NEW p \in PurgeWorkers, Finalize(p)
  PROVE  Contract!Next \/ UNCHANGED Contract!contractVars
  <1>1. CASE org' = "GONE"
    <2>1. ~Active
      <3>1. CASE org = "GONE"
        BY <3>1 DEF Active
      <3>2. CASE org # "GONE"
        <4>1. HoldsPurge(p)
          BY <1>1, <3>2 DEF Finalize, FinalizePurge
        <4>2. org = "DELETING"
          BY <4>1 DEF HoldsPurge, QueueInv, OrgInv, RowInv, Outstanding
        <4>3. QED
          BY <4>2 DEF Active
      <3>3. QED
        BY <3>1, <3>2
    <2>2. ~Active'
      BY <1>1 DEF Active
    <2>3. job' = [j \in Jobs |-> AbsentJob] /\ logged' = [j \in Jobs |-> NoLog]
      BY <1>1 DEF Finalize
    <2>4. phase' = [j \in Jobs |-> "none"]
      <3>1. RowPhase(AbsentJob) = "none"
        BY PhaseOf DEF AbsentJob
      <3>2. phase' = [j \in Jobs |-> RowPhase(job'[j])]
        BY DEF phase
      <3>3. QED
        BY <2>3, <3>1, <3>2
    <2>5. failures' = [j \in Jobs |-> 0]
      BY <2>3 DEF failures, NoLog
    <2>a. Active' = Active
      BY <2>1, <2>2 DEF Active
    <2>6. Contract!Erase
      BY <2>1, <2>a, <2>4, <2>5 DEF Contract!Erase
    <2>7. QED
      BY <2>6 DEF Contract!Next
  <1>2. CASE org' # "GONE"
    <2>1. job' = job /\ logged' = logged /\ org' = org
      BY <1>2 DEF Finalize, FinalizePurge
    <2>2. QED
      BY <2>1, UnseenStutters DEF Unseen
  <1>3. QED
    BY <1>1, <1>2

LEMMA PurgeUnseen ==
  ASSUME PurgeStep, UNCHANGED queueVars
  PROVE  UNCHANGED Contract!contractVars
  <1>1. Active' <=> Active
    BY PurgeKeepsActive
  <1>2. phase' = phase /\ failures' = failures
    BY DEF queueVars, phase, failures
  <1>3. Active' = Active
    BY <1>1 DEF Active
  <1>4. QED
    BY <1>2, <1>3 DEF Contract!contractVars

LEMMA InitSeen == Init => Contract!Init
  <1> SUFFICES ASSUME Init PROVE Contract!Init
    OBVIOUS
  <1>1. Active = TRUE
    BY DEF Init, OrgInit, Active
  <1>2. phase = [j \in Jobs |-> "none"]
    <2>1. RowPhase(AbsentJob) = "none"
      BY PhaseOf DEF AbsentJob
    <2>2. QED
      BY <2>1 DEF phase, Init, QueueInit
  <1>3. failures = [j \in Jobs |-> 0]
    BY DEF Init, QueueInit, failures, NoLog
  <1>4. QED
    BY <1>1, <1>2, <1>3 DEF Contract!Init

\* A sweep's step that touches no row.
LEMMA SweepUnseen ==
  ASSUME org' = org, job' = job, logged' = logged
  PROVE  UNCHANGED Contract!contractVars
  BY UnseenStutters DEF Unseen

LEMMA QueueStepSeen ==
  ASSUME QueueInv, QueueStep
  PROVE  Contract!Next \/ UNCHANGED Contract!contractVars
  <1> DEFINE Seen == Contract!Next \/ UNCHANGED Contract!contractVars
  <1>1. ASSUME NEW j \in Jobs,
               DispatchFenced(j) \/ Announce(j) \/ DispatchUnfenced(j) \/ RetryDelivery(j)
                  \/ RetryNotificationJob(j) \/ LeaseExpires(j) \/ BackoffElapses(j)
        PROVE  Seen
    <2>1. CASE DispatchFenced(j)
      BY <2>1, AskStep DEF DispatchFenced, orgVars
    <2>2. CASE DispatchUnfenced(j)
      BY <2>2, AskStep DEF DispatchUnfenced, orgVars
    <2>3. CASE RetryDelivery(j) \/ RetryNotificationJob(j)
      BY <2>3, AgainStep DEF RetryDelivery, RetryNotificationJob
    <2>4. CASE Announce(j) \/ LeaseExpires(j) \/ BackoffElapses(j)
      BY <2>4, UnseenRowStep
    <2>5. QED
      BY <1>1, <2>1, <2>2, <2>3, <2>4
  <1>2. ASSUME NEW s \in Subscribers, ToggleQuarantine(s) PROVE Seen
    BY <1>2, SweepUnseen DEF ToggleQuarantine, orgVars
  <1>3. ASSUME NEW w \in Workers, NEW j \in Jobs, Lease(w, j) PROVE Seen
    BY <1>3, UnseenRowStep
  <1>4. ASSUME NEW w \in Workers, Heartbeat(w) PROVE Seen
    <2>1. worker[w].job \in Jobs
      BY <1>4 DEF Heartbeat, HoldsLease
    <2>2. QED
      BY <1>4, <2>1, UnseenRowStep
  <1>5. ASSUME NEW w \in Workers, Renew(w) PROVE Seen
    <2>1. CASE HoldsLease(w)
      <3>1. worker[w].job \in Jobs
        BY <2>1 DEF HoldsLease
      <3>2. QED
        BY <1>5, <2>1, <3>1, UnseenRowStep
    <2>2. CASE ~HoldsLease(w)
      BY <1>5, <2>2, SweepUnseen DEF Renew, orgVars
    <2>3. QED
      BY <2>1, <2>2
  <1>6. ASSUME NEW w \in Workers,
               \/ CheckActive(w) \/ RecheckActive(w) \/ CommitCheck(w) \/ Crash(w)
               \/ \E outcome \in Outcomes : Deliver(w, outcome)
        PROVE  Seen
    <2>1. org' = org /\ job' = job /\ logged' = logged
      BY <1>6 DEF CheckActive, RecheckActive, CommitCheck, Crash, Deliver, orgVars
    <2>2. QED
      BY <2>1, SweepUnseen
  <1>7. ASSUME NEW w \in Workers, CommitOutcome(w) \/ BlockInactive(w) PROVE Seen
    BY <1>7, CommitStep, ParkStep
  <1> HIDE DEF Seen
  <1>8. ASSUME NEW w \in Workers, WorkerStep(w) PROVE Seen
    BY <1>5, <1>6, <1>7, <1>8 DEF WorkerStep
  <1>9. Seen
    BY <1>1, <1>2, <1>3, <1>4, <1>6, <1>8 DEF QueueStep
  <1>10. QED
    BY <1>9 DEF Seen

\* Every step of the queue is a step of the contract or invisible to it.
LEMMA NextSeen == QueueInv /\ [Next]_vars => [Contract!Next]_Contract!contractVars
  <1> SUFFICES ASSUME QueueInv, [Next]_vars
               PROVE  Contract!Next \/ UNCHANGED Contract!contractVars
    OBVIOUS
  <1>1. CASE Next
    BY <1>1, QueueStepSeen, PauseStep, ResumeStep, EraseStep, PurgeUnseen DEF Next
  <1>2. CASE UNCHANGED vars
    BY <1>2, SweepUnseen DEF vars
  <1>3. QED
    BY <1>1, <1>2

\* The queue implements the contract: callers see each delivery queued, held,
\* released, sent once or given up after its attempts, whatever the sweeps do.
THEOREM QueueImplementsContract == Spec => ImplementsContract
  <1>1. Init => Contract!Init
    BY InitSeen
  <1>2. QueueInv /\ [Next]_vars => [Contract!Next]_Contract!contractVars
    BY NextSeen
  <1>3. QED
    BY <1>1, <1>2, QueueInvariance, PTL DEF Spec, ImplementsContract, Contract!Spec
=============================================================================
