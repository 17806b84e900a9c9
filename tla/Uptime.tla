-------------------------------- MODULE Uptime --------------------------------
(***************************************************************************)
(* The uptime a status page publishes.  Services change their status and   *)
(* keep a log of status intervals, the retention sweep deletes old         *)
(* intervals, and the page computes from what is left one bar per day, an  *)
(* average per service and an average per group.                           *)
(*                                                                         *)
(* lib/status.ts (computeDailyUptime, weightedUptime), component-status.ts *)
(* (reconcileInTransaction), groupDailyUptime of ComponentList.tsx and the *)
(* interval deletion of lib/retention.ts.  Percentages are exact: a share  *)
(* of n in d is the pair <<n, d>>.                                         *)
(***************************************************************************)
EXTENDS Integers, Sequences, FiniteSets, FiniteSetsExt, Functions

CONSTANTS
    Components,
    Statuses,       \* the COMPONENT_STATUSES that occur
    Day,            \* length of a day
    UptimeDays,     \* days the page shows (30, 60 or 90)
    RetentionDays,  \* resolvedIncidentsDays (30 to 3650)
    Skew,           \* how far a writer's clock may be behind
    MaxTime,        \* bound: how far time advances
    MaxChanges      \* bound: changes of a source

ASSUME DayAssumption == {Day, UptimeDays, RetentionDays} \subseteq Nat \ {0}
ASSUME UptimeBoundsAssumption == {Skew, MaxTime, MaxChanges} \subseteq Nat
ASSUME ComponentsAssumption == IsFiniteSet(Components)

VARIABLES
    now,        \* the time
    component,  \* the components rows with what their status comes from
    events,     \* the componentStatusEvents rows of each component
    changes,    \* changes of a source so far
    skewed,     \* a clock that was behind has written a timestamp
    steady,     \* history: no window has begun or ended since the status changed
    lived       \* history: what each component was in each unit of time

uptimeVars == <<now, component, events, changes, skewed, steady, lived>>

Severity == [s \in {"OPERATIONAL", "UNDER_MAINTENANCE", "DEGRADED_PERFORMANCE",
                    "PARTIAL_OUTAGE", "MAJOR_OUTAGE"} |->
               CASE s = "OPERATIONAL" -> 0 [] s = "UNDER_MAINTENANCE" -> 1
                 [] s = "DEGRADED_PERFORMANCE" -> 2 [] s = "PARTIAL_OUTAGE" -> 3
                 [] s = "MAJOR_OUTAGE" -> 4]

ASSUME StatusAssumption ==
    {"OPERATIONAL", "UNDER_MAINTENANCE"} \subseteq Statuses /\ Statuses \subseteq DOMAIN Severity

\* worstStatus
Worst(ss) == IF ss = {} THEN "OPERATIONAL"
             ELSE CHOOSE s \in ss : \A t \in ss : Severity[t] <= Severity[s]

Times == 0..(Skew + MaxTime)
Open == -1      \* endedAt IS NULL
Unborn == -1    \* the component does not exist yet

\* outage: the worst of its incidents and monitors; maintenance: a window is
\* running.
Component == [created : Times \union {Unborn}, status : Statuses, manual : Statuses,
              outage : Statuses \ {"UNDER_MAINTENANCE"}, maintenance : BOOLEAN]

Event == [status : Statuses, start : Times, end : Times \union {Open}, excluded : BOOLEAN]

Moment == [status : Statuses, excluded : BOOLEAN, steady : BOOLEAN, alive : BOOLEAN]

NotLived == [status |-> "OPERATIONAL", excluded |-> FALSE, steady |-> TRUE, alive |-> FALSE]

\* One interval is open per existing component.
UptimeTypeOK ==
    /\ now \in Skew..(Skew + MaxTime)
    /\ component \in [Components -> Component]
    /\ events \in [Components -> SUBSET Event]
    /\ changes \in 0..MaxChanges
    /\ skewed \in BOOLEAN
    /\ steady \in [Components -> BOOLEAN]
    /\ lived \in [Components -> [Times -> Moment]]
    /\ \A c \in Components :
          IF component[c].created = Unborn THEN events[c] = {}
          ELSE \E e \in events[c] :
                  /\ e.status = component[c].status
                  /\ \A d \in events[c] : d.end = Open <=> d = e

UptimeInit ==
    /\ now = Skew
    /\ component = [c \in Components |->
                      [created |-> Unborn, status |-> "OPERATIONAL", manual |-> "OPERATIONAL",
                       outage |-> "OPERATIONAL", maintenance |-> FALSE]]
    /\ events = [c \in Components |-> {}]
    /\ changes = 0
    /\ skewed = FALSE
    /\ steady = [c \in Components |-> TRUE]
    /\ lived = [c \in Components |-> [t \in Times |-> NotLived]]

-----------------------------------------------------------------------------
(* The status log.                                                         *)

Exists(c) == component[c].created # Unborn

\* The open interval.
Current(c) == CHOOSE e \in events[c] : e.end = Open

\* What the component is, whatever its log says: a maintenance is a window that
\* runs, or a status an operator has set.
Present(c) ==
    [status |-> component[c].status,
     excluded |-> component[c].maintenance \/ component[c].status = "UNDER_MAINTENANCE",
     steady |-> steady[c], alive |-> TRUE]

Tick ==
    /\ now < Skew + MaxTime
    /\ now' = now + 1
    /\ lived' = [c \in Components |->
                   IF Exists(c) THEN [lived[c] EXCEPT ![now] = Present(c)] ELSE lived[c]]
    /\ UNCHANGED <<component, events, changes, skewed, steady>>

\* createComponent: with the status of the monitor that drives it, if any.
\* createdAt is the database's clock, startedAt the web process's.
CreateComponent(c, outage, at) ==
    /\ ~Exists(c)
    /\ component' = [component EXCEPT ![c] =
                       [created |-> now, status |-> outage, manual |-> "OPERATIONAL",
                        outage |-> outage, maintenance |-> FALSE]]
    /\ events' = [events EXCEPT ![c] = {[status |-> outage, start |-> at, end |-> Open,
                                         excluded |-> FALSE]}]
    /\ skewed' = (skewed \/ at # now)
    /\ UNCHANGED <<now, changes, steady, lived>>

\* calculateReconciledStatus
ReconciledStatus(row) ==
    Worst({row.manual, row.outage}
          \union (IF row.maintenance THEN {"UNDER_MAINTENANCE"} ELSE {}))

IsMaintenance(row, status) ==
    row.maintenance \/ (status = "UNDER_MAINTENANCE" /\ row.manual = "UNDER_MAINTENANCE")

Closed(log, at) == {IF e.end = Open THEN [e EXCEPT !.end = at] ELSE e : e \in log}

\* A source changes and reconcileInTransaction runs: if the status differs the
\* open interval is closed and the next one opened, at the writer's time.  If it
\* does not, the open interval stays as it is, its isMaintenance too.
Reconcile(c, row, at) ==
    LET status == ReconciledStatus(row)
    IN  IF status = component[c].status
        THEN /\ component' = [component EXCEPT ![c] = row]
             /\ steady' = [steady EXCEPT ![c] = @ /\ row.maintenance = component[c].maintenance]
             /\ UNCHANGED <<events, skewed>>
        ELSE /\ component' = [component EXCEPT ![c] = [row EXCEPT !.status = status]]
             /\ events' = [events EXCEPT ![c] =
                             Closed(@, at)
                             \union {[status |-> status, start |-> at, end |-> Open,
                                     excluded |-> IsMaintenance(row, status)]}]
             /\ steady' = [steady EXCEPT ![c] = TRUE]
             /\ skewed' = (skewed \/ at # now)

ChangeSource(c, at) ==
    /\ Exists(c)
    /\ changes < MaxChanges
    /\ changes' = changes + 1
    /\ \/ \E s \in Statuses \ {component[c].manual} :
             Reconcile(c, [component[c] EXCEPT !.manual = s], at)
       \/ \E s \in Statuses \ {component[c].outage, "UNDER_MAINTENANCE"} :
             Reconcile(c, [component[c] EXCEPT !.outage = s], at)
       \/ Reconcile(c, [component[c] EXCEPT !.maintenance = ~@], at)
    /\ UNCHANGED <<now, lived>>

\* Mutant: intervals that started before the cutoff.
ExpiredByStart(e) == e.end # Open /\ e.start < now - RetentionDays * Day

\* What the sweep deletes: intervals that ended before the cutoff.
Expired(e) == e.end # Open /\ e.end < now - RetentionDays * Day

\* runRetentionSweep
Sweep ==
    /\ \E c \in Components : \E e \in events[c] : Expired(e)
    /\ events' = [c \in Components |-> {e \in events[c] : ~Expired(e)}]
    /\ UNCHANGED <<now, component, changes, skewed, steady, lived>>

UptimeNext ==
    \/ Tick
    \/ Sweep
    \/ \E c \in Components, at \in (now - Skew)..now :
          \/ ChangeSource(c, at)
          \/ \E outage \in Statuses \ {"UNDER_MAINTENANCE"} : CreateComponent(c, outage, at)

UptimeSpec == UptimeInit /\ [][UptimeNext]_uptimeVars

-----------------------------------------------------------------------------
(* What the page computes: computeDailyUptime.  Day i is i days before     *)
(* today.                                                                  *)

ShownDays == 0..(UptimeDays - 1)

DayStart(i) == (now \div Day) * Day - i * Day
EffectiveEnd(i) == Min({DayStart(i) + Day, now})

EffectiveStart(c, i) == Max({DayStart(i), component[c].created})

Observed(c, i) == Max({0, EffectiveEnd(i) - EffectiveStart(c, i)})

\* An interval cut to the day.
Clipped(e, c, i) ==
    [status |-> e.status, excluded |-> e.excluded,
     start |-> Max({e.start, EffectiveStart(c, i)}),
     end |-> Min({IF e.end = Open THEN now ELSE e.end, EffectiveEnd(i)})]

\* Rows that are alike after the cut feed the bar as one.
InDay(c, i) == {e \in {Clipped(d, c, i) : d \in events[c]} : e.start < e.end}

IsOutage(e) == ~e.excluded /\ e.status # "OPERATIONAL"

Outages(c, i) == {e \in InDay(c, i) : IsOutage(e)}

\* The sort before the merge.
Before(d, e) == d.start < e.start \/ (d.start = e.start /\ d.end < e.end)

InOrder(intervals) ==
    CHOOSE q \in Bijection(1..Cardinality(intervals), intervals) :
        \A j, k \in DOMAIN q : j < k => ~Before(q[k], q[j])

\* Mutant: the lengths are added up without merging.
AddedUp(intervals) == MapThenSumSet(LAMBDA e : e.end - e.start, intervals)

\* The merge loop: down is the length of what is merged and left behind,
\* from..to the interval still growing.
Merged(intervals) ==
    LET q == InOrder(intervals)
        n == Cardinality(intervals)
        merged[k \in 1..n] ==
          IF k = 1 THEN [down |-> 0, from |-> q[k].start, to |-> q[k].end]
          ELSE LET m == merged[k - 1]
               IN  IF q[k].start <= m.to
                   THEN [m EXCEPT !.to = Max({@, q[k].end})]
                   ELSE [down |-> m.down + m.to - m.from, from |-> q[k].start, to |-> q[k].end]
        last == merged[n]
    IN  IF intervals = {} THEN 0 ELSE last.down + last.to - last.from

Down(c, i) == Merged(Outages(c, i))

\* The colour of the day: a maintenance colours it only as long as nothing is
\* worse.
DayStatus(c, i) ==
    Worst({"OPERATIONAL"} \union {IF e.excluded THEN "UNDER_MAINTENANCE" ELSE e.status :
                                    e \in InDay(c, i)})

\* A share <<n, d>>; Unknown is a null percentage.
Unknown == <<0, 0>>
Same(p, q) == p[1] * q[2] = q[1] * p[2] /\ (p = Unknown <=> q = Unknown)

\* Down is at most Observed, so the clamps to 0 and 100 have nothing to cut.
Bucket(c, i) ==
    LET observed == Observed(c, i)
    IN  [observed |-> observed, status |-> DayStatus(c, i),
         up |-> IF observed = 0 THEN Unknown ELSE <<observed - Down(c, i), observed>>]

\* s[1] + ... + s[n]
Total(n, s) ==
    LET sum[k \in 0..n] == IF k = 0 THEN 0 ELSE sum[k - 1] + s[k]
    IN  sum[n]

Plus(p, q) == <<p[1] * q[2] + q[1] * p[2], p[2] * q[2]>>

\* Mutant: every bucket counts the same.
Unweighed(s, b) ==
    IF b.up = Unknown THEN s ELSE [observed |-> s.observed + 1, up |-> Plus(s.up, b.up)]

\* The time observed, and the time up, with one bucket more.
Weighed(s, b) ==
    [observed |-> s.observed + b.observed,
     up |-> IF b.up = Unknown THEN s.up ELSE Plus(s.up, <<b.up[1] * b.observed, b.up[2]>>)]

\* The average of n buckets.
WeightedUptime(n, buckets) ==
    LET sum[k \in 0..n] ==
          IF k = 0 THEN [observed |-> 0, up |-> <<0, 1>>] ELSE Weighed(sum[k - 1], buckets[k])
        all == sum[n]
    IN  IF all.observed = 0 THEN Unknown ELSE <<all.up[1], all.up[2] * all.observed>>

\* groupDailyUptime, for the components cs in some order.
GroupBucket(cs, i) ==
    LET n == Len(cs)
        buckets == [k \in 1..n |-> Bucket(cs[k], i)]
    IN  [observed |-> Total(n, [k \in 1..n |-> buckets[k].observed]),
         status |-> Worst({b.status : b \in {x \in Range(buckets) : x.up # Unknown}}),
         up |-> WeightedUptime(n, buckets)]

GroupUptime(cs) ==
    WeightedUptime(UptimeDays, [k \in 1..UptimeDays |-> GroupBucket(cs, UptimeDays - k)])

-----------------------------------------------------------------------------
(* Properties.                                                             *)

Existing == {c \in Components : Exists(c)}

\* The units of time of the days shown.
Covered(c, i) == EffectiveStart(c, i)..(EffectiveEnd(i) - 1)

Counts(l) == ~l.excluded /\ l.status # "OPERATIONAL"

\* The log has the service down at t.
LoggedDown(c, t) ==
    \E e \in events[c] : IsOutage(e) /\ e.start <= t /\ (e.end = Open \/ t < e.end)

Shown == UNION {{c} \X Covered(c, i) : c \in Existing, i \in ShownDays}

\* Sorting, clipping and merging count each moment once: the downtime of a day
\* is the measure of the union of its outages, also where clocks that disagree
\* make intervals overlap, run backwards or end in the future.
DownIsCountedOnce ==
    \A c \in Existing, i \in ShownDays :
        Down(c, i) = Cardinality({t \in Covered(c, i) : LoggedDown(c, t)})

\* The average of a group, taken over its services and then over the days, is
\* the share of all the time its services were observed, in whatever order they
\* are listed and however short a day was observed.
AveragesAreShares ==
    LET shown == Cardinality(Shown)
        down == Cardinality({m \in Shown : LoggedDown(m[1], m[2])})
    IN  \A cs \in Bijection(1..Cardinality(Existing), Existing) :
           Same(GroupUptime(cs), <<shown - down, shown>>)

\* The log can vouch for a moment unless it is older than the retention, or a
\* window had begun or ended since the status last changed.
Vouched(c, t) == lived[c][t].steady /\ t >= now - RetentionDays * Day

\* With clocks that agree, no downtime is shown that the service did not have
\* unless a window began or ended in the middle of a status, and none it had is
\* missing where the log can vouch; a day it can vouch for has the colour of
\* the worst that lasted.
ShownIsWhatHappened ==
    ~skewed => \A c \in Existing, i \in ShownDays :
        /\ \A t \in Covered(c, i) :
              /\ lived[c][t].alive
              /\ LoggedDown(c, t) /\ lived[c][t].steady => Counts(lived[c][t])
              /\ Counts(lived[c][t]) /\ Vouched(c, t) => LoggedDown(c, t)
        /\ (\A t \in Covered(c, i) : Vouched(c, t)) =>
              DayStatus(c, i) = Worst({IF lived[c][t].excluded THEN "UNDER_MAINTENANCE"
                                       ELSE lived[c][t].status : t \in Covered(c, i)})

\* What the bars show is what the components lived, with two exceptions: days a
\* shorter retention has cut, and maintenance that begins or ends while the
\* component keeps its status.
BarsAreRight == UptimeTypeOK /\ DownIsCountedOnce /\ ShownIsWhatHappened

\* A sweep changes no day within the retention, and on an older one that is
\* still shown it can take downtime away only.
SweepOnlyForgets ==
    [][Sweep => \A c \in Existing, i \in ShownDays :
          /\ i < RetentionDays => Bucket(c, i)' = Bucket(c, i)
          /\ Down(c, i)' <= Down(c, i)]_uptimeVars
=============================================================================
