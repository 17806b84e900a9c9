----------------------------- MODULE StatusBoard -----------------------------
(***************************************************************************)
(* The incidents, maintenance windows and component statuses of one page:  *)
(* the operators and API clients who change them and the maintenance sweep *)
(* of the worker.                                                          *)
(*                                                                         *)
(* lib/domain/incidents.ts, lib/domain/maintenance.ts,                     *)
(* lib/component-status.ts, lib/incident-validation.ts and                 *)
(* app/admin/(protected)/incidents/actions.ts.  Every change is one        *)
(* transaction that passes fenceActiveOrganizationMutation, an update of   *)
(* the organization's row: from the fence to the commit it is alone.  Some *)
(* transactions lock the incident or the component before the fence, the   *)
(* others after it, so that two of them can wait for each other.  The      *)
(* sweep reads its candidates outside any transaction and works through    *)
(* them later.  MonitorPipeline has the monitors, which are left out here. *)
(***************************************************************************)
EXTENDS Integers, Sequences, SequencesExt, FiniteSets

CONSTANTS
    Components,        \* the services of the page
    ComponentStatuses, \* the statuses used, a part of COMPONENT_STATUSES
    Operators,         \* console users and API clients
    Sweep,             \* the task maintenance.sweep; its queue runs one at a time
    None,              \* no row
    Windows,           \* records [start, end, lead]; lead 0: no reminder
    MaxTime,           \* bound: the clock stops here
    MaxEvents,         \* bound: incidents and windows created
    MaxActions         \* bound: operations of operators, suspensions and crashes

\* SEVERITY_RANK.
Severity == [OPERATIONAL |-> 0, UNDER_MAINTENANCE |-> 1, DEGRADED_PERFORMANCE |-> 2,
             PARTIAL_OUTAGE |-> 3, MAJOR_OUTAGE |-> 4]

ASSUME StatusesAssumption ==
    {"OPERATIONAL", "UNDER_MAINTENANCE"} \subseteq ComponentStatuses
        /\ ComponentStatuses \subseteq DOMAIN Severity
ASSUME ProcessAssumption == Sweep \notin Operators
ASSUME WindowAssumption ==
    \A w \in Windows : {w.start, w.end, w.lead} \subseteq Nat /\ w.start < w.end
ASSUME BoardBoundsAssumption ==
    {MaxTime, MaxEvents, MaxActions} \subseteq Nat

VARIABLES
    active,     \* the organization is ACTIVE and not suspended
    time,       \* the clock
    component,  \* the components rows, with the flag of their open status event
    event,      \* the incidents rows, windows included, in order of creation
    tx,         \* the transaction (or the open form) of each process
    sweep,      \* the candidates the sweep has read
    used        \* how much of MaxActions has been spent

vars == <<active, time, component, event, tx, sweep, used>>

Processes == Operators \union {Sweep}

\* IDENTIFIED is treated like INVESTIGATING throughout.
IncidentStatuses == {"INVESTIGATING", "MONITORING", "RESOLVED"}
Stages == {"SCHEDULED", "IN_PROGRESS", "VERIFYING", "COMPLETED"}

\* incidentComponents: the linked components, with newStatus.  An incident
\* does not give UNDER_MAINTENANCE, unless it is a backfill: there newStatus
\* has no effect.
Links == UNION {[S -> ComponentStatuses \ {"UNDER_MAINTENANCE"}] : S \in SUBSET Components}

\* An update and how often it was edited (editedAt as a version).
Update == [status : IncidentStatuses, edits : Nat]
\* Incidents here have an impact and are not page-wide: the fields impact and
\* pageWide only relax Valid below.
Incident == [kind : {"incident"}, status : IncidentStatuses, links : Links,
             timeline : Seq(Update)]

\* What was posted on a window, in order, and by whom.
Post == [by : {"operator", "sweep"}, what : Stages \union {"REMINDER"}]
Maintenance == [kind : {"maintenance"}, stage : Stages,
                window : Windows, auto : BOOLEAN, reminded : BOOLEAN,
                links : SUBSET Components, posts : Seq(Post)]
Deleted == [kind |-> "deleted"]

\* The operations that lock their row before the fence, and the forms an
\* operator opens before the transaction starts.
RowFirst == {"update", "transition", "remind", "status"}
Forms == {"details", "timeline"}

\* n and edits: the update a form shows, and its version.
Transaction == [op : RowFirst \union Forms \union {"none"},
                event : 0..MaxEvents, component : Components \union {None},
                n : 0..(MaxActions + 1), edits : 0..MaxActions]

Idle == [op |-> "none", event |-> 0, component |-> None, n |-> 0, edits |-> 0]

Queries == {"remind", "start", "complete"}
Candidate == [id : 1..MaxEvents, stage : Stages]
SweepState == [now : 0..MaxTime, todo : [Queries -> SUBSET Candidate]]

AtRest == [now |-> 0, todo |-> [q \in Queries |-> {}]]

TypeOK ==
    /\ active \in BOOLEAN
    /\ time \in 0..MaxTime
    /\ component \in [Components -> [manual : ComponentStatuses, status : ComponentStatuses,
                                     excluded : BOOLEAN]]
    /\ event \in Seq(Incident \union Maintenance \union {Deleted})
    /\ Len(event) <= MaxEvents
    /\ tx \in [Processes -> Transaction]
    /\ sweep \in SweepState
    /\ used \in 0..MaxActions

Init ==
    /\ active = TRUE
    /\ time = 0
    /\ component = [c \in Components |-> [manual |-> "OPERATIONAL", status |-> "OPERATIONAL",
                                          excluded |-> FALSE]]
    /\ event = <<>>
    /\ tx = [p \in Processes |-> Idle]
    /\ sweep = AtRest
    /\ used = 0

-----------------------------------------------------------------------------
(* Component status (component-status.ts).                                 *)

IsOpen(r) == r.kind = "incident" /\ r.status # "RESOLVED"
IsRunning(r) == r.kind = "maintenance" /\ r.stage \in {"IN_PROGRESS", "VERIFYING"}

MaintenanceActive(c, rows) ==
    \E e \in DOMAIN rows : IsRunning(rows[e]) /\ c \in rows[e].links

\* The sources of calculateReconciledStatus.
Sources(c, rows, manual) ==
    {manual}
    \union {rows[e].links[c] : e \in {i \in DOMAIN rows :
               IsOpen(rows[i]) /\ c \in DOMAIN rows[i].links}}
    \union (IF MaintenanceActive(c, rows) THEN {"UNDER_MAINTENANCE"} ELSE {})

\* worstStatus
WorstStatus(c, rows, manual) ==
    LET sources == Sources(c, rows, manual)
    IN  CHOOSE s \in sources : \A t \in sources : Severity[t] <= Severity[s]

\* reconcileInTransaction: a status event is opened, with its isMaintenance
\* flag, only when the status changes.
Reconciled(row, c, rows) ==
    LET worst == WorstStatus(c, rows, row.manual)
    IN  IF worst = row.status THEN row
        ELSE [row EXCEPT !.status = worst,
                         !.excluded = \/ MaintenanceActive(c, rows)
                                      \/ worst = "UNDER_MAINTENANCE"
                                         /\ row.manual = "UNDER_MAINTENANCE"]

\* reconcileComponents for the components cs.
Reconcile(cs, rows) ==
    component' = [c \in Components |->
                     IF c \in cs THEN Reconciled(component[c], c, rows) ELSE component[c]]

-----------------------------------------------------------------------------
(* Transactions.  What follows the fence needs no steps of its own: nobody  *)
(* else passes the fence before the commit.                                *)

\* WHERE status = 'ACTIVE' AND suspended = false.
FenceHolds == active

\* No other transaction holds the event or one of the components.  One that
\* does is waiting for the fence: a deadlock, which PostgreSQL ends by aborting
\* either.
Free(p, e, cs) ==
    \A q \in Processes \ {p} :
        /\ tx[q].op \in RowFirst => e = 0 \/ tx[q].event # e
        /\ tx[q].component \notin cs

SpendAction ==
    /\ used < MaxActions
    /\ used' = used + 1

Begin(o, op, e, c, n, edits) ==
    /\ tx[o].op = "none"
    /\ SpendAction
    /\ tx' = [tx EXCEPT ![o] = [op |-> op, event |-> e, component |-> c, n |-> n,
                                edits |-> edits]]
    /\ UNCHANGED <<active, time, component, event, sweep>>

\* addIncidentUpdate and setMaintenanceStatus lock the incident.
BeginRow(o, op, e) ==
    /\ \/ op = "update" /\ IsOpen(event[e])
       \/ op = "transition" /\ event[e].kind = "maintenance"
    /\ Free(o, e, {})
    /\ Begin(o, op, e, None, 0, 0)

\* setComponentStatus locks the component.
BeginStatus(o, c) ==
    /\ Free(o, 0, {c})
    /\ Begin(o, "status", 0, c, 0, 0)

\* The operator opens the form of editIncidentDetails (the latest update) or
\* of editIncidentUpdate (any update), which remembers what it shows.
OpenForm(o, op, e, n) ==
    /\ event[e].kind = "incident"
    /\ n \in DOMAIN event[e].timeline
    /\ op = "details" => n = Len(event[e].timeline)
    /\ Begin(o, op, e, None, n, event[e].timeline[n].edits)

\* The fence or a check throws, a statement fails, the transaction is the
\* victim of a deadlock, or the form is left: nothing is written.
Abort(o) ==
    /\ tx[o].op # "none"
    /\ tx' = [tx EXCEPT ![o] = Idle]
    /\ UNCHANGED <<active, time, component, event, sweep, used>>

\* The fence and the rest of a transaction: rows are the incidents as it
\* leaves them, cs the components it reconciles.
Commit(o, op, rows, cs) ==
    /\ tx[o].op = op
    /\ FenceHolds
    /\ Free(o, tx[o].event, cs)
    /\ event' = rows
    /\ Reconcile(cs, rows)
    /\ tx' = [tx EXCEPT ![o] = Idle]
    /\ UNCHANGED <<active, time, sweep, used>>

-----------------------------------------------------------------------------
(* Incidents.                                                              *)

\* stateSchema, the part about incidents that are not resolved; a resolved one
\* passes.
Valid(r) ==
    r.status # "RESOLVED" =>
        LET shown == {r.links[c] : c \in DOMAIN r.links}
        IN  /\ shown # {}
            /\ r.status # "MONITORING" => shown # {"OPERATIONAL"}

\* createIncident; RESOLVED is a backfill and reconciles nothing.
CreateIncident(o) ==
    \E status \in IncidentStatuses, links \in Links :
       LET r == [kind |-> "incident", status |-> status, links |-> links,
                 timeline |-> <<[status |-> status, edits |-> 0]>>]
       IN  /\ Len(event) < MaxEvents
           /\ Valid(r)
           /\ DOMAIN links # {}
           /\ tx[o].op = "none"
           /\ SpendAction
           /\ FenceHolds
           /\ Free(o, 0, DOMAIN links)
           /\ event' = Append(event, r)
           /\ Reconcile(DOMAIN links, event')
           /\ UNCHANGED <<active, time, tx, sweep>>

\* addIncidentUpdate, of the console, the API and the monitors.
AddIncidentUpdate(o) ==
    LET e == tx[o].event
    IN  \E status \in IncidentStatuses :
           LET r == [event[e] EXCEPT !.status = status,
                        !.timeline = Append(@, [status |-> status, edits |-> 0])]
           IN  /\ Valid(r)
               /\ Commit(o, "update", [event EXCEPT ![e] = r], DOMAIN r.links)

\* Mutant: what the form showed is not compared with the row.
SawAnything(o) == TRUE

\* latestUpdateId and expectedEditedAt.
SawLatest(o) ==
    LET timeline == event[tx[o].event].timeline
    IN  /\ tx[o].op = "details" => tx[o].n = Len(timeline)
        /\ timeline[tx[o].n].edits = tx[o].edits

\* assertIncidentEditAllowed.
DetailsEditAllowed(r, next) ==
    /\ r.status = "RESOLVED" => next.status = "RESOLVED"
    /\ "RESOLVED" \in {r.status, next.status} => next.links = r.links

\* Mutant: only the components the incident has now are reconciled.
TouchedNow(r, next) == DOMAIN next.links

Touched(r, next) == DOMAIN r.links \union DOMAIN next.links

\* editIncidentDetails; on a resolved incident only the message changes.
EditIncidentDetails(o) ==
    \E status \in IncidentStatuses, links \in Links :
       LET e == tx[o].event
           r == event[e]
           latest == Len(r.timeline)
           next == [r EXCEPT !.status = status, !.links = links,
                             !.timeline[latest] = [status |-> status, edits |-> @.edits + 1]]
           prose == [r EXCEPT !.timeline[latest].edits = @ + 1]
       IN  /\ Valid(next)
           /\ DetailsEditAllowed(r, next)
           /\ SawLatest(o)
           /\ IF r.status = "RESOLVED"
              THEN Commit(o, "details", [event EXCEPT ![e] = prose], {})
              ELSE Commit(o, "details", [event EXCEPT ![e] = next], Touched(r, next))

\* Mutant: a historical entry may become a resolution.
AllowedWhileOpen(r, saved, status, newest) ==
    r.status = "RESOLVED" => status = saved

\* assertTimelineEditAllowed.
TimelineEditAllowed(r, saved, status, newest) ==
    /\ r.status = "RESOLVED" => status = saved
    /\ ~newest => (saved = "RESOLVED" <=> status = "RESOLVED")

\* editIncidentUpdate; the newest update carries the incident with it.
EditIncidentUpdate(o) ==
    \E status \in IncidentStatuses :
       LET e == tx[o].event
           n == tx[o].n
           r == event[e]
           newest == n = Len(r.timeline)
           edited == [r EXCEPT !.timeline[n] = [status |-> status, edits |-> @.edits + 1]]
           next == [edited EXCEPT !.status = status]
       IN  /\ TimelineEditAllowed(r, r.timeline[n].status, status, newest)
           /\ SawLatest(o)
           /\ newest => Valid(next)
           /\ IF newest /\ r.status # "RESOLVED"
              THEN Commit(o, "timeline", [event EXCEPT ![e] = next], DOMAIN r.links)
              ELSE Commit(o, "timeline", [event EXCEPT ![e] = edited], {})

\* setComponentStatus.
SetComponentStatus(o) ==
    \E status \in ComponentStatuses :
       LET c == tx[o].component
           row == [component[c] EXCEPT !.manual = status]
       IN  /\ tx[o].op = "status"
           /\ FenceHolds
           /\ component' = [component EXCEPT ![c] = Reconciled(row, c, event)]
           /\ tx' = [tx EXCEPT ![o] = Idle]
           /\ UNCHANGED <<active, time, event, sweep, used>>

-----------------------------------------------------------------------------
(* Maintenance windows.                                                    *)

\* createMaintenance; without a component the window is page-wide.
CreateMaintenance(o) ==
    \E w \in Windows, auto \in BOOLEAN, S \in SUBSET Components :
       LET r == [kind |-> "maintenance", stage |-> "SCHEDULED",
                 window |-> w, auto |-> auto, reminded |-> FALSE,
                 links |-> S,
                 posts |-> <<[by |-> "operator", what |-> "SCHEDULED"]>>]
       IN  /\ Len(event) < MaxEvents
           /\ tx[o].op = "none"
           /\ SpendAction
           /\ FenceHolds
           /\ Free(o, 0, S)
           /\ event' = Append(event, r)
           /\ UNCHANGED <<active, time, component, tx, sweep>>

\* allowedTransitions.
MayMove(from, to) ==
    to \in CASE from = "SCHEDULED"   -> {"SCHEDULED", "IN_PROGRESS", "COMPLETED"}
             [] from = "IN_PROGRESS" -> {"IN_PROGRESS", "VERIFYING", "COMPLETED"}
             [] from = "VERIFYING"   -> {"VERIFYING", "IN_PROGRESS", "COMPLETED"}
             [] from = "COMPLETED"   -> {"COMPLETED"}

Moved(r, by, stage) ==
    [r EXCEPT !.stage = stage, !.posts = Append(@, [by |-> by, what |-> stage])]

\* transitionMaintenance as an operator calls it: no expected status.
SetMaintenanceStatus(o) ==
    LET e == tx[o].event
    IN  \E stage \in Stages :
           /\ MayMove(event[e].stage, stage)
           /\ Commit(o, "transition", [event EXCEPT ![e] = Moved(@, "operator", stage)],
                    event[e].links)

\* deleteMaintenance passes the fence before it locks the window: if the sweep
\* has locked it, one of the two is aborted, and here it is the sweep.
DeleteMaintenance(o, e) ==
    LET holder == {p \in Processes : tx[p].op \in RowFirst /\ tx[p].event = e}
        cs == event[e].links
    IN  /\ tx[o].op = "none"
        /\ event[e].kind = "maintenance"
        /\ SpendAction
        /\ FenceHolds
        /\ holder \subseteq {Sweep}
        /\ Free(o, 0, cs)
        /\ event' = [event EXCEPT ![e] = Deleted]
        /\ Reconcile(cs, event')
        /\ IF Sweep \in holder
           THEN tx' = [tx EXCEPT ![Sweep] = Idle] /\ sweep' = AtRest
           ELSE UNCHANGED <<tx, sweep>>
        /\ UNCHANGED <<active, time>>

-----------------------------------------------------------------------------
(* The maintenance sweep: runMaintenanceTransitions.                       *)

\* isMaintenanceReminderDue.
ReminderDue(r, now) ==
    /\ r.stage = "SCHEDULED"
    /\ r.window.start > now
    /\ ~r.reminded
    /\ r.window.lead # 0
    /\ r.window.start - r.window.lead <= now

StartDue(r, now) == r.auto /\ r.stage = "SCHEDULED" /\ r.window.start <= now

\* Mutant: a window in VERIFYING is forgotten.
EndDueInProgress(r, now) == r.auto /\ r.stage = "IN_PROGRESS" /\ r.window.end <= now

EndDue(r, now) == r.auto /\ r.stage \in {"IN_PROGRESS", "VERIFYING"} /\ r.window.end <= now

Due(q, r, now) ==
    /\ r.kind = "maintenance"
    /\ CASE q = "remind"   -> ReminderDue(r, now)
         [] q = "start"    -> StartDue(r, now)
         [] q = "complete" -> EndDue(r, now)

\* The three queries, taken as one: no window satisfies two of them, and every
\* candidate is looked at again under its lock.  A sweep that finds nothing
\* changes nothing and is left out.
SweepStart ==
    /\ sweep = AtRest
    /\ sweep' = [now |-> time, todo |-> [q \in Queries |->
                    {[id |-> e, stage |-> event[e].stage] :
                        e \in {i \in DOMAIN event : Due(q, event[i], time)}}]]
    /\ sweep'.todo # AtRest.todo
    /\ UNCHANGED <<active, time, component, event, tx, used>>

\* The candidate the sweep is at: reminders, then starts, then completions.
Current(q, x) ==
    /\ x \in sweep.todo[q]
    /\ q = "start" => sweep.todo["remind"] = {}
    /\ q = "complete" => sweep.todo["remind"] = {} /\ sweep.todo["start"] = {}

Drop(q, x) ==
    LET rest == [sweep.todo EXCEPT ![q] = @ \ {x}]
    IN  sweep' = IF rest = AtRest.todo THEN AtRest ELSE [sweep EXCEPT !.todo = rest]

\* The conditions of the SELECT ... FOR UPDATE that opens the transaction.
StillThere(q, r) ==
    /\ r.kind = "maintenance"
    /\ q = "remind" => r.stage = "SCHEDULED" /\ r.window.start > sweep.now
                       /\ ~r.reminded

SweepBegin(q, x) ==
    /\ Current(q, x)
    /\ tx[Sweep].op = "none"
    /\ Free(Sweep, x.id, {})
    /\ IF StillThere(q, event[x.id])
       THEN /\ tx' = [tx EXCEPT ![Sweep].op = IF q = "remind" THEN "remind" ELSE "transition",
                                ![Sweep].event = x.id]
            /\ sweep' = sweep
       ELSE /\ Drop(q, x)
            /\ tx' = tx
    /\ UNCHANGED <<active, time, component, event, used>>

\* An inactive organization is passed over.
SweepRefused(q, x) ==
    /\ Current(q, x)
    /\ tx[Sweep].event = x.id
    /\ ~FenceHolds
    /\ tx' = [tx EXCEPT ![Sweep] = Idle]
    /\ Drop(q, x)
    /\ UNCHANGED <<active, time, component, event, used>>

\* sendMaintenanceReminder.
SendReminder(x) ==
    /\ Current("remind", x)
    /\ tx[Sweep].op = "remind"
    /\ tx[Sweep].event = x.id
    /\ FenceHolds
    /\ event' = [event EXCEPT ![x.id].reminded = TRUE,
                              ![x.id].posts = Append(@, [by |-> "sweep", what |-> "REMINDER"])]
    /\ tx' = [tx EXCEPT ![Sweep] = Idle]
    /\ Drop("remind", x)
    /\ UNCHANGED <<active, time, component, used>>

\* Mutant: expectedStatus is not compared.
ExpectedAnything(x) == TRUE

AsExpected(x) == event[x.id].stage = x.stage

\* transitionMaintenance with the status that was read as the expected one.
\* A forbidden transition throws, and the throw ends the sweep.
SweepTransition(q, x) ==
    LET to == IF q = "start" THEN "IN_PROGRESS" ELSE "COMPLETED"
        r == event[x.id]
    IN  /\ Current(q, x)
        /\ tx[Sweep].op = "transition"
        /\ tx[Sweep].event = x.id
        /\ FenceHolds
        /\ tx' = [tx EXCEPT ![Sweep] = Idle]
        /\ IF ~MayMove(r.stage, to)
           THEN sweep' = AtRest /\ UNCHANGED <<event, component>>
           ELSE /\ Drop(q, x)
                /\ IF AsExpected(x)
                   THEN /\ Free(Sweep, x.id, r.links)
                        /\ event' = [event EXCEPT ![x.id] = Moved(@, "sweep", to)]
                        /\ Reconcile(r.links, event')
                   ELSE UNCHANGED <<event, component>>
        /\ UNCHANGED <<active, time, used>>

\* setComponentStatus holds a component of the window and waits for the fence,
\* the sweep has passed it and waits for the component.  PostgreSQL aborts the
\* sweep's transaction; the error ends the sweep.
SweepVictim ==
    /\ tx[Sweep].op = "transition"
    /\ FenceHolds
    /\ ~Free(Sweep, 0, event[tx[Sweep].event].links)
    /\ tx' = [tx EXCEPT ![Sweep] = Idle]
    /\ sweep' = AtRest
    /\ UNCHANGED <<active, time, component, event, used>>

-----------------------------------------------------------------------------
(* The environment.                                                        *)

Suspend ==
    /\ active
    /\ SpendAction
    /\ active' = FALSE
    /\ UNCHANGED <<time, component, event, tx, sweep>>

Reactivate ==
    /\ ~active
    /\ active' = TRUE
    /\ UNCHANGED <<time, component, event, tx, sweep, used>>

Tick ==
    /\ time < MaxTime
    /\ time' = time + 1
    /\ UNCHANGED <<active, component, event, tx, sweep, used>>

\* The worker dies; its transaction is rolled back.
Crash ==
    /\ sweep # AtRest
    /\ SpendAction
    /\ tx' = [tx EXCEPT ![Sweep] = Idle]
    /\ sweep' = AtRest
    /\ UNCHANGED <<active, time, component, event>>

-----------------------------------------------------------------------------

OperatorBegins(o) ==
    \/ \E e \in DOMAIN event, op \in {"update", "transition"} : BeginRow(o, op, e)
    \/ \E c \in Components : BeginStatus(o, c)
    \/ \E e \in DOMAIN event, op \in Forms, n \in 1..(MaxActions + 1) :
          OpenForm(o, op, e, n)

OperatorCommits(o) ==
    \/ tx[o].op = "update" /\ AddIncidentUpdate(o)
    \/ tx[o].op = "details" /\ EditIncidentDetails(o)
    \/ tx[o].op = "timeline" /\ EditIncidentUpdate(o)
    \/ tx[o].op = "transition" /\ SetMaintenanceStatus(o)
    \/ SetComponentStatus(o)

OperatorActs(o) ==
    \/ CreateIncident(o)
    \/ CreateMaintenance(o)
    \/ \E e \in DOMAIN event : DeleteMaintenance(o, e)

SweepStep ==
    \/ SweepStart \/ SweepVictim
    \/ \E q \in Queries : \E x \in sweep.todo[q] :
          SweepBegin(q, x) \/ SweepRefused(q, x) \/ SweepTransition(q, x)
    \/ \E x \in sweep.todo["remind"] : SendReminder(x)

Next ==
    \/ \E o \in Operators : OperatorBegins(o) \/ OperatorCommits(o) \/ OperatorActs(o) \/ Abort(o)
    \/ SweepStep
    \/ Suspend \/ Reactivate \/ Tick \/ Crash

Spec == Init /\ [][Next]_vars

\* The sweep task schedules its successor before it works, so that the sweep
\* goes on for ever.  A transaction that holds a lock ends, if need be because
\* PostgreSQL detects the deadlock it is in: Abort is possible for as long as
\* it runs, so that this asks only that it ends in one way or the other.
Fairness ==
    /\ WF_vars(SweepStep)
    /\ \A o \in Operators : WF_vars(tx[o].op \in RowFirst /\ Abort(o))

FairSpec == Spec /\ Fairness

-----------------------------------------------------------------------------
(* Properties.                                                             *)

\* lib/help-content.ts: "the worst of them wins, and recovering from one source
\* never clears another that is still active".  Whatever the order in which
\* incidents, windows and the manual value change, every component shows the
\* worst of them: each transaction reconciles every component it touches.
StatusIsWorst ==
    \A c \in Components :
        component[c].status = WorstStatus(c, event, component[c].manual)

\* An incident has the status of its newest update, and no earlier update is a
\* resolution: posts, edits of the incident and edits of any update together
\* never put the two out of step.
TimelineAgrees ==
    \A e \in DOMAIN event : event[e].kind = "incident" =>
        LET timeline == event[e].timeline
        IN  /\ Last(timeline).status = event[e].status
            /\ \A i \in 1..(Len(timeline) - 1) : timeline[i].status # "RESOLVED"

\* What the creation form insists on (incident-validation.ts) holds for as long
\* as the incident is open: it names what it affects, and it does not claim an
\* impact that none of its components shows.
OpenIncidentsAreValid ==
    \A e \in DOMAIN event : IsOpen(event[e]) =>
        LET shown == {event[e].links[c] : c \in DOMAIN event[e].links}
        IN  /\ shown # {}
            /\ shown = {"OPERATIONAL"} => event[e].status = "MONITORING"

\* What the public page tells of an incident is consistent and complete.
IncidentsAreSound == TypeOK /\ TimelineAgrees /\ OpenIncidentsAreValid

\* README.md: "keep resolved history intact".  A resolved incident keeps its
\* status, its scope and the status of each of its updates.
Statuses(r) == [i \in DOMAIN r.timeline |-> r.timeline[i].status]

ResolvedIsFinal ==
    \A e \in DOMAIN event :
        event[e].kind = "incident" /\ event[e].status = "RESOLVED" =>
           /\ event'[e].status = "RESOLVED"
           /\ event'[e].links = event[e].links
           /\ Statuses(event'[e]) = Statuses(event[e])

\* Two operators with the same form open: an update that is edited had exactly
\* the version its editor was looking at, so no correction is lost.
NoEditIsOverwritten ==
    \A e \in DOMAIN event : event[e].kind = "incident" =>
        \A n \in DOMAIN event[e].timeline :
           event'[e].timeline[n] # event[e].timeline[n] =>
              \E o \in Operators :
                 /\ tx[o].event = e /\ tx[o].n = n
                 /\ tx'[o] = Idle
                 /\ tx[o].edits = event[e].timeline[n].edits

\* organization-mutation.ts: the fence orders a change and a suspension.  While
\* the organization is suspended nothing on its board moves, transactions and
\* sweeps that were under way included.
FrozenWhileSuspended == ~active => UNCHANGED <<component, event>>

\* No step loses a correction, rewrites resolved history or changes the board of
\* a suspended organization.
EditsAreSafe == [][ResolvedIsFinal /\ NoEditIsOverwritten /\ FrozenWhileSuspended]_vars

\* What a window posts tells one story, although the sweep acts on rows it read
\* before an operator changed them: a reminder comes once and before any work,
\* an automatic start only when nobody has started or finished the window, and
\* nothing but a remark of an operator follows the completion.
PostsTellOneStory ==
    \A e \in DOMAIN event : event[e].kind = "maintenance" =>
        LET posts == event[e].posts
            before(i) == {posts[j].what : j \in 1..(i - 1)}
        IN  \A i \in DOMAIN posts :
               /\ posts[i].what = "REMINDER" => before(i) \subseteq {"SCHEDULED"}
               /\ posts[i] = [by |-> "sweep", what |-> "IN_PROGRESS"] =>
                     before(i) \subseteq {"SCHEDULED", "REMINDER"}
               /\ "COMPLETED" \in before(i) =>
                     posts[i] = [by |-> "operator", what |-> "COMPLETED"]

Overdue(e) ==
    /\ e \in DOMAIN event
    /\ event[e].kind = "maintenance"
    /\ event[e].auto
    /\ event[e].window.end <= time
    /\ event[e].stage # "COMPLETED"

\* docs/features.md: "automatic start and completion from the window".  A window
\* past its end gets completed, unless it is deleted or the organization is
\* suspended; races, deadlocks, crashes and the throw that ends a sweep only
\* delay it.
WindowsComplete == \A e \in 1..MaxEvents : Overdue(e) ~> ~active \/ ~Overdue(e)
=============================================================================
