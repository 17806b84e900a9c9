--------------------------- MODULE MonitorPipeline ---------------------------
(***************************************************************************)
(* One monitor that is linked to a component, the sweeps that check it,    *)
(* the incidents it opens and closes by itself, and the operators who      *)
(* change it meanwhile.                                                    *)
(*                                                                         *)
(* worker/monitors.ts, with the parts of lib/domain/incidents.ts,          *)
(* lib/component-status.ts, lib/cascade.ts and                             *)
(* app/admin/(protected)/monitors/actions.ts that it meets.  processMonitor *)
(* is not one transaction: it leases a row, computes from that copy,       *)
(* commits the result, and only then opens or closes the incident, links   *)
(* it and reconciles the component, each in a transaction of its own.      *)
(***************************************************************************)
EXTENDS Integers, Sequences

CONSTANTS
    Workers,           \* the monitor sweeps that may run at the same time
    NoWorker,          \* leaseOwner IS NULL
    FailThreshold,     \* monitors.failThreshold
    RecoverThreshold,  \* monitors.recoverThreshold
    AutoIncident,      \* monitors.actionAutoIncident
    FlipStatus,        \* monitors.actionFlipStatus
    MaxDemands,        \* bound: times the monitor becomes due
    MaxEdits,          \* bound: operator actions on the monitor, and
                       \* suspensions of its organization
    MaxFaults          \* bound: crashes, stalls and failed statements

ASSUME MonitorWorkersAssumption == NoWorker \notin Workers
ASSUME ThresholdAssumption ==
    FailThreshold \in Nat \ {0} /\ RecoverThreshold \in Nat \ {0}
ASSUME AutomationAssumption == AutoIncident \in BOOLEAN /\ FlipStatus \in BOOLEAN
ASSUME MonitorBoundsAssumption ==
    {MaxDemands, MaxEdits, MaxFaults} \subseteq Nat

VARIABLES
    active,    \* the organization is ACTIVE and not suspended
    monitor,   \* the monitors row
    checks,    \* its monitorChecks rows: TRUE for a check that passed
    incident,  \* incidents the monitor has opened, oldest first
    other,     \* another source (manual, incident, maintenance) impairs the component
    impaired,  \* components.status is not OPERATIONAL
    worker,    \* each sweep: where it is and the copy of the row it works on
    used       \* how much of each bound has been spent

vars == <<active, monitor, checks, incident, other, impaired, worker, used>>

\* No monitor opens more incidents than it has checks.
MaxIncidents == MaxDemands + 1

Monitor == [exists : BOOLEAN, enabled : BOOLEAN, due : BOOLEAN,
            owner : Workers \union {NoWorker}, live : BOOLEAN,
            fails : Nat, oks : Nat, down : BOOLEAN, incident : 0..MaxIncidents]

Pcs == {"idle", "leased", "checked", "committing", "opening", "undoing",
        "linking", "resolving", "unlinking", "reconciling", "releasing"}

\* ok, fails, oks and down are the result of the check; wasDown and incident
\* come from the leased copy.
Sweep == [pc : Pcs, ok : BOOLEAN, fails : Nat, oks : Nat, down : BOOLEAN,
          incident : 0..MaxIncidents]

IdleSweep == [pc |-> "idle", ok |-> TRUE, fails |-> 0, oks |-> 0, down |-> FALSE,
              incident |-> 0]

TypeOK ==
    /\ active \in BOOLEAN
    /\ monitor \in Monitor
    /\ checks \in Seq(BOOLEAN)
    /\ incident \in Seq({"open", "resolved"})
    /\ Len(checks) <= MaxDemands + 1
    /\ Len(incident) <= MaxIncidents
    /\ other \in BOOLEAN
    /\ impaired \in BOOLEAN
    /\ worker \in [Workers -> Sweep]
    /\ used \in [demands : 0..MaxDemands, edits : 0..MaxEdits,
                 suspensions : 0..MaxEdits, faults : 0..MaxFaults]

Init ==
    /\ active = TRUE
    /\ monitor = [exists |-> TRUE, enabled |-> TRUE, due |-> TRUE, owner |-> NoWorker,
                  live |-> FALSE, fails |-> 0, oks |-> 0, down |-> FALSE, incident |-> 0]
    /\ checks = <<>>
    /\ incident = <<>>
    /\ other = FALSE
    /\ impaired = FALSE
    /\ worker = [w \in Workers |-> IdleSweep]
    /\ used = [demands |-> 0, edits |-> 0, suspensions |-> 0, faults |-> 0]

-----------------------------------------------------------------------------
(* Component status: calculateReconciledStatus, reduced to whether the     *)
(* worst source is OPERATIONAL.                                            *)

Open == {i \in DOMAIN incident : incident[i] = "open"}

\* Mutant: open incidents are not among the sources.
WorstButIncidents(mon, inc, oth) ==
    \/ oth
    \/ FlipStatus /\ mon.exists /\ mon.enabled /\ mon.down

Worst(mon, inc, oth) ==
    \/ oth
    \/ \E i \in DOMAIN inc : inc[i] = "open"
    \/ FlipStatus /\ mon.exists /\ mon.enabled /\ mon.down

\* reconcileInTransaction inside the transaction of its caller, from the rows
\* as that transaction leaves them.
ReconcileComponent == impaired' = Worst(monitor', incident', other')

-----------------------------------------------------------------------------
(* The sweep.                                                              *)

Goto(w, pc) == worker' = [worker EXCEPT ![w].pc = pc]

\* WHERE id = monitor AND lease_owner = worker.
Holds(w) == monitor.exists /\ monitor.owner = w

\* Mutant: a monitor is leased only after its last lease was released.
LeasableOnceReleased ==
    monitor.exists /\ monitor.enabled /\ monitor.due /\ monitor.owner = NoWorker

Leasable == monitor.exists /\ monitor.enabled /\ monitor.due /\ ~monitor.live

\* leaseDueMonitors: the sweep works on this copy of the row from here on.
Lease(w) ==
    /\ worker[w].pc = "idle"
    /\ Leasable
    /\ monitor' = [monitor EXCEPT !.owner = w, !.live = TRUE]
    /\ worker' = [worker EXCEPT ![w] = [pc |-> "leased", ok |-> TRUE,
                     fails |-> monitor.fails, oks |-> monitor.oks,
                     down |-> monitor.down, incident |-> monitor.incident]]
    /\ UNCHANGED <<active, checks, incident, other, impaired, used>>

\* An inactive organization releases the lease at once; otherwise the check
\* runs, outside any transaction.
RunCheck(w, ok) ==
    /\ worker[w].pc = "leased"
    /\ worker' = [worker EXCEPT ![w].pc = IF active THEN "checked" ELSE "releasing",
                                ![w].ok = ok]
    /\ UNCHANGED <<active, monitor, checks, incident, other, impaired, used>>

\* The organization is read again and the lease renewed; a lost lease throws.
ProveLease(w) ==
    /\ worker[w].pc = "checked"
    /\ IF active /\ Holds(w)
       THEN /\ monitor' = [monitor EXCEPT !.live = TRUE]
            /\ Goto(w, "committing")
       ELSE /\ monitor' = monitor
            /\ Goto(w, "releasing")
    /\ UNCHANGED <<active, checks, incident, other, impaired, used>>

\* The new counters and state of a row, from the copy and the result.
NextFails(s) == IF s.ok THEN 0 ELSE s.fails + 1
NextOks(s) == IF s.ok THEN s.oks + 1 ELSE 0

\* Mutant: down one failure too early.
DownTooEarly(s) == IF s.ok THEN s.down /\ NextOks(s) < RecoverThreshold
                           ELSE s.down \/ NextFails(s) + 1 >= FailThreshold

NextDown(s) == IF s.ok THEN s.down /\ NextOks(s) < RecoverThreshold
                       ELSE s.down \/ NextFails(s) >= FailThreshold

\* What remains once the incident side is done.
Afterwards == IF FlipStatus THEN "reconciling" ELSE "releasing"

\* commitMonitorResult: organization locked FOR SHARE, row guarded by the
\* lease owner, the check inserted.
Commit(w) ==
    /\ worker[w].pc = "committing"
    /\ LET s == worker[w]
           becameDown == ~s.down /\ NextDown(s)
           becameUp == s.down /\ ~NextDown(s)
       IN  IF active /\ Holds(w)
           THEN /\ monitor' = [monitor EXCEPT !.fails = NextFails(s), !.oks = NextOks(s),
                                              !.down = NextDown(s), !.due = FALSE]
                /\ checks' = Append(checks, s.ok)
                /\ Goto(w, CASE becameDown /\ AutoIncident      -> "opening"
                             [] becameUp /\ s.incident # 0      -> "resolving"
                             [] OTHER                           -> Afterwards)
           ELSE /\ UNCHANGED <<monitor, checks>>
                /\ Goto(w, "releasing")
    /\ UNCHANGED <<active, incident, other, impaired, used>>

\* createIncident: fenced, and it reconciles the component.  A fence that
\* throws leads to the undo.
OpenIncident(w) ==
    /\ worker[w].pc = "opening"
    /\ IF active
       THEN /\ incident' = Append(incident, "open")
            /\ worker' = [worker EXCEPT ![w].pc = "linking",
                                        ![w].incident = Len(incident) + 1]
            /\ UNCHANGED <<monitor, other>>
            /\ ReconcileComponent
       ELSE /\ Goto(w, "undoing")
            /\ UNCHANGED <<monitor, incident, other, impaired>>
    /\ UNCHANGED <<active, checks, used>>

\* Mutant: createIncident's failure is not handled.
UndoNothing(w) ==
    /\ worker[w].pc = "undoing"
    /\ Goto(w, "releasing")
    /\ UNCHANGED <<active, monitor, checks, incident, other, impaired, used>>

\* The catch handler of createIncident.
UndoDown(w) ==
    /\ worker[w].pc = "undoing"
    /\ monitor' = IF Holds(w) THEN [monitor EXCEPT !.down = FALSE] ELSE monitor
    /\ Goto(w, "releasing")
    /\ UNCHANGED <<active, checks, incident, other, impaired, used>>

LinkIncident(w) ==
    /\ worker[w].pc = "linking"
    /\ monitor' = IF Holds(w) THEN [monitor EXCEPT !.incident = worker[w].incident]
                              ELSE monitor
    /\ Goto(w, Afterwards)
    /\ UNCHANGED <<active, checks, incident, other, impaired, used>>

\* addIncidentUpdate with status RESOLVED: an incident that is resolved
\* already throws, and so does the fence; processMonitor gives up then.
ResolveIncident(w) ==
    /\ worker[w].pc = "resolving"
    /\ LET i == worker[w].incident
       IN  IF active /\ incident[i] = "open"
           THEN /\ incident' = [incident EXCEPT ![i] = "resolved"]
                /\ Goto(w, "unlinking")
                /\ UNCHANGED <<monitor, other>>
                /\ ReconcileComponent
           ELSE /\ Goto(w, "releasing")
                /\ UNCHANGED <<monitor, incident, other, impaired>>
    /\ UNCHANGED <<active, checks, used>>

UnlinkIncident(w) ==
    /\ worker[w].pc = "unlinking"
    /\ monitor' = IF Holds(w) THEN [monitor EXCEPT !.incident = 0] ELSE monitor
    /\ Goto(w, Afterwards)
    /\ UNCHANGED <<active, checks, incident, other, impaired, used>>

\* reconcileComponentStatus in its own, fenced transaction.
Reconcile(w) ==
    /\ worker[w].pc = "reconciling"
    /\ UNCHANGED <<monitor, incident, other>>
    /\ IF active THEN ReconcileComponent ELSE impaired' = impaired
    /\ Goto(w, "releasing")
    /\ UNCHANGED <<active, checks, used>>

\* The finally block.
Release(w) ==
    /\ worker[w].pc = "releasing"
    /\ monitor' = IF Holds(w) THEN [monitor EXCEPT !.owner = NoWorker, !.live = FALSE]
                              ELSE monitor
    /\ worker' = [worker EXCEPT ![w] = IdleSweep]
    /\ UNCHANGED <<active, checks, incident, other, impaired, used>>

Heartbeat(w) ==
    /\ worker[w].pc \notin {"idle", "releasing"}
    /\ Holds(w)
    /\ ~monitor.live
    /\ monitor' = [monitor EXCEPT !.live = TRUE]
    /\ UNCHANGED <<active, checks, incident, other, impaired, worker, used>>

-----------------------------------------------------------------------------
(* Operators.  Each action is fenced on the active organization.           *)

Spend(bound, limit) ==
    /\ used[bound] < limit
    /\ used' = [used EXCEPT ![bound] = @ + 1]

MayEdit == used.edits + used.suspensions < MaxEdits

\* runMonitorNow, the bulk run, and updateMonitor when it keeps the automation
\* settings: the monitor becomes due and whoever holds the lease loses it.
RunNow ==
    /\ active
    /\ monitor.exists
    /\ used.demands < MaxDemands
    /\ MayEdit
    /\ used' = [used EXCEPT !.demands = @ + 1, !.edits = @ + 1]
    /\ monitor' = [monitor EXCEPT !.due = TRUE, !.owner = NoWorker, !.live = FALSE]
    /\ UNCHANGED <<active, checks, incident, other, impaired, worker>>

\* toggleMonitorEnabled and the bulk pause and resume; the component is not
\* reconciled.  Whether a paused monitor is due is looked at by nobody.
ToggleEnabled ==
    /\ active
    /\ monitor.exists
    /\ MayEdit
    /\ monitor.enabled \/ used.demands < MaxDemands
    /\ used' = [used EXCEPT !.edits = @ + 1,
                            !.demands = IF monitor.enabled THEN @ ELSE @ + 1]
    /\ monitor' = [monitor EXCEPT !.enabled = ~@, !.due = ~monitor.enabled,
                                  !.owner = NoWorker, !.live = FALSE]
    /\ UNCHANGED <<active, checks, incident, other, impaired, worker>>

\* deleteMonitorCascade: the row and its checks go, its incidents stay and the
\* component is not reconciled.
DeleteMonitor ==
    /\ active
    /\ monitor.exists
    /\ MayEdit /\ Spend("edits", MaxEdits)
    /\ monitor' = [monitor EXCEPT !.exists = FALSE, !.owner = NoWorker, !.live = FALSE]
    /\ checks' = <<>>
    /\ UNCHANGED <<active, incident, other, impaired, worker>>

\* An operator resolves an incident the monitor opened (addIncidentUpdate).
ResolveByHand(i) ==
    /\ active
    /\ incident[i] = "open"
    /\ incident' = [incident EXCEPT ![i] = "resolved"]
    /\ UNCHANGED <<monitor, other>>
    /\ ReconcileComponent
    /\ UNCHANGED <<active, checks, worker, used>>

\* setComponentStatus, or another incident or maintenance of the component.
ChangeOtherSource ==
    /\ active
    /\ MayEdit /\ Spend("edits", MaxEdits)
    /\ other' = ~other
    /\ UNCHANGED <<monitor, incident>>
    /\ ReconcileComponent
    /\ UNCHANGED <<active, checks, worker>>

Suspend ==
    /\ active
    /\ MayEdit /\ Spend("suspensions", MaxEdits)
    /\ active' = FALSE
    /\ UNCHANGED <<monitor, checks, incident, other, impaired, worker>>

Reactivate ==
    /\ ~active
    /\ active' = TRUE
    /\ UNCHANGED <<monitor, checks, incident, other, impaired, worker, used>>

-----------------------------------------------------------------------------
(* The environment.                                                        *)

\* intervalSec has passed since the last check.
BecomesDue ==
    /\ monitor.exists
    /\ ~monitor.due
    /\ Spend("demands", MaxDemands)
    /\ monitor' = [monitor EXCEPT !.due = TRUE]
    /\ UNCHANGED <<active, checks, incident, other, impaired, worker>>

Attended == \E w \in Workers : worker[w].pc # "idle" /\ monitor.owner = w

LeaseExpires ==
    /\ monitor.live
    /\ IF Attended THEN Spend("faults", MaxFaults) ELSE used' = used
    /\ monitor' = [monitor EXCEPT !.live = FALSE]
    /\ UNCHANGED <<active, checks, incident, other, impaired, worker>>

\* The process dies.
Crash(w) ==
    /\ worker[w].pc # "idle"
    /\ Spend("faults", MaxFaults)
    /\ worker' = [worker EXCEPT ![w] = IdleSweep]
    /\ UNCHANGED <<active, monitor, checks, incident, other, impaired>>

\* A statement fails (connection lost, deadlock victim): createIncident runs
\* its catch handler, every other step goes straight to the finally block.
\* The read before the try block and the release itself have no handler: the
\* lease stays, as after a crash.
StepFails(w) ==
    /\ worker[w].pc \notin {"idle", "leased", "releasing"}
    /\ Spend("faults", MaxFaults)
    /\ Goto(w, IF worker[w].pc = "opening" THEN "undoing" ELSE "releasing")
    /\ UNCHANGED <<active, monitor, checks, incident, other, impaired>>

-----------------------------------------------------------------------------

WorkerStep(w) ==
    \/ \E ok \in BOOLEAN : RunCheck(w, ok)
    \/ ProveLease(w) \/ Commit(w)
    \/ OpenIncident(w) \/ UndoDown(w) \/ LinkIncident(w)
    \/ ResolveIncident(w) \/ UnlinkIncident(w)
    \/ Reconcile(w) \/ Release(w)

Next ==
    \/ \E w \in Workers :
          Lease(w) \/ WorkerStep(w) \/ Heartbeat(w) \/ Crash(w) \/ StepFails(w)
    \/ RunNow \/ ToggleEnabled \/ DeleteMonitor \/ ChangeOtherSource
    \/ \E i \in DOMAIN incident : ResolveByHand(i)
    \/ Suspend \/ Reactivate
    \/ BecomesDue \/ LeaseExpires

Spec == Init /\ [][Next]_vars

\* The sweep task reschedules itself before it works, so some sweep leases a
\* due monitor whenever one stays leasable; a sweep that works goes on; an
\* unattended lease runs out.
Fairness ==
    /\ \A w \in Workers : WF_vars(WorkerStep(w))
    /\ WF_vars(\E w \in Workers : Lease(w))
    /\ WF_vars(~Attended /\ LeaseExpires)

FairSpec == Spec /\ Fairness

-----------------------------------------------------------------------------
(* Properties.                                                             *)

\* Length of the run of equal results that ends the history.
Trailing(result) ==
    LET runs == {n \in 0..Len(checks) :
                   \A i \in (Len(checks) - n + 1)..Len(checks) : checks[i] = result}
    IN  CHOOSE n \in runs : \A m \in runs : m <= n

\* The counters are computed from the copy a sweep leased, possibly long before
\* it writes them; they nevertheless always describe the checks the monitor
\* has on record: none is skipped, repeated or overwritten.
CountersMatchChecks ==
    monitor.exists =>
        /\ monitor.fails = Trailing(FALSE)
        /\ monitor.oks = Trailing(TRUE)

\* The state a monitor should be in after its checks: down from the check that
\* completes FailThreshold failures in a row until the one that completes
\* RecoverThreshold passes in a row.
Hysteresis ==
    \E n \in FailThreshold..Len(checks) :
        /\ \A i \in (n - FailThreshold + 1)..n : ~checks[i]
        /\ \A m \in (n + RecoverThreshold)..Len(checks) :
              \E i \in (m - RecoverThreshold + 1)..m : ~checks[i]

\* A monitor is down only if its recorded checks say so; and exactly then as
\* long as no suspension or fault made a sweep take the transition back.
DownFollowsChecks ==
    monitor.exists =>
        /\ monitor.down => Hysteresis
        /\ used.suspensions = 0 /\ used.faults = 0 => monitor.down = Hysteresis

\* What the row says of the monitor is what its checks say.
StateFollowsChecks == CountersMatchChecks /\ DownFollowsChecks

\* lib/help-content.ts: "recovering from one source never clears another that
\* is still active": while an incident is open, or another source is active,
\* the component is not shown as operational, at any instant.
ActiveSourceIsShown == other \/ Open # {} => impaired

Settled == \A w \in Workers : worker[w].pc = "idle"

\* worker/monitors.ts wants to avoid "leaving the monitor down with no
\* incident": when no sweep is at work, a monitor that is down has one.
DownHasIncident ==
    Settled /\ AutoIncident /\ monitor.exists /\ monitor.down => monitor.incident # 0

\* Suspensions alone, between any two of a sweep's transactions, do not lead
\* there: the down transition is taken back when the incident is refused.
\* Edits and faults do: a lease that an operator cleared loses the link.
UndoneOrHasIncident ==
    used.edits = 0 /\ used.faults = 0 => DownHasIncident

\* When nobody interferes, the only incident a monitor leaves open is the one
\* it is linked to, so that its recovery can close it.
NoOrphanIncident ==
    Settled /\ used.edits = 0 /\ used.faults = 0 /\ used.suspensions = 0 =>
        Open \subseteq {monitor.incident}

\* A monitor and its incident stay tied to each other, in both directions.
IncidentsAreTied == TypeOK /\ UndoneOrHasIncident /\ NoOrphanIncident

\* A monitor that is due is checked, unless it is paused or deleted or its
\* organization suspended: neither a crash nor a lost lease strands it.
DueIsChecked ==
    monitor.due ~> ~monitor.due \/ ~monitor.enabled \/ ~monitor.exists \/ ~active
=============================================================================
