-------------------------- MODULE StatusBoard_proofs --------------------------
(***************************************************************************)
(* Safety of the board for every number of operators, components,          *)
(* incidents, windows and actions, and every choice of statuses.           *)
(*                                                                         *)
(* The rows keep what each of them says (Told) as long as a transaction    *)
(* that has locked a row still finds what it looked for (Awaits) and a     *)
(* form that is open shows a version that there was (SeesVersion); the     *)
(* rest is that every transaction reconciles the components whose sources  *)
(* it changes (Shows).                                                     *)
(***************************************************************************)
EXTENDS StatusBoard, SequenceTheorems, TLAPS

USE StatusesAssumption, ProcessAssumption, BoardBoundsAssumption

Row == Incident \union Maintenance \union {Deleted}
Component == [manual : ComponentStatuses, status : ComponentStatuses, excluded : BOOLEAN]

\* An incident agrees with its timeline, and no update has been edited more
\* often than actions were spent.
IncidentTold(r, spent) ==
    r.kind = "incident" =>
        /\ r.timeline # << >>
        /\ Last(r.timeline).status = r.status
        /\ \A i \in DOMAIN r.timeline :
              /\ r.timeline[i].edits <= spent
              /\ i < Len(r.timeline) => r.timeline[i].status # "RESOLVED"
        /\ Valid(r)

\* The posts of a window, and what they have to do with its row.
WindowTold(r) ==
    r.kind = "maintenance" =>
        /\ \A i \in DOMAIN r.posts :
              /\ r.stage = "SCHEDULED" => r.posts[i].what \in {"SCHEDULED", "REMINDER"}
              /\ ~r.reminded => r.posts[i].what # "REMINDER"
              /\ r.stage # "COMPLETED" => r.posts[i].what # "COMPLETED"
        /\ \A i, j \in DOMAIN r.posts : j < i =>
              /\ r.posts[i].what = "REMINDER" => r.posts[j].what = "SCHEDULED"
              /\ r.posts[i] = [by |-> "sweep", what |-> "IN_PROGRESS"] =>
                    r.posts[j].what \in {"SCHEDULED", "REMINDER"}
              /\ r.posts[j].what = "COMPLETED" =>
                    r.posts[i] = [by |-> "operator", what |-> "COMPLETED"]

Told(r, spent) == IncidentTold(r, spent) /\ WindowTold(r)

\* What a transaction still finds in the row that it has locked.
Awaits(t, r) ==
    /\ t.op = "update" => IsOpen(r)
    /\ t.op = "transition" => r.kind = "maintenance"
    /\ t.op = "remind" => r.kind = "maintenance" /\ r.stage = "SCHEDULED" /\ ~r.reminded

\* A form shows an update that there still is, in a version there was.
SeesVersion(t, r, spent) ==
    t.op \in Forms =>
        r.kind = "incident" /\ t.n \in DOMAIN r.timeline /\ t.edits < spent

TxFits(t, rows, spent) ==
    /\ t.op \in {"update", "transition", "remind"} \union Forms =>
          t.event \in DOMAIN rows /\ Awaits(t, rows[t.event])
                                  /\ SeesVersion(t, rows[t.event], spent)
    /\ t.op = "status" => t.component \in Components

BoardTyped ==
    /\ active \in BOOLEAN
    /\ time \in 0..MaxTime
    /\ used \in 0..MaxActions

RowsHold ==
    /\ event \in Seq(Row)
    /\ Len(event) <= MaxEvents
    /\ \A e \in DOMAIN event : Told(event[e], used)

ComponentsHold ==
    /\ component \in [Components -> Component]
    /\ StatusIsWorst

TxsHold ==
    /\ tx \in [Processes -> Transaction]
    /\ \A p \in Processes : TxFits(tx[p], event, used)
    /\ \A o \in Operators : tx[o].op # "remind"

\* What the sweep found, and how far it has come with it.
SweepHolds ==
    /\ sweep \in SweepState
    /\ \A q \in Queries : \A x \in sweep.todo[q] :
          /\ x.id \in DOMAIN event
          /\ q = "start" => x.stage = "SCHEDULED"
          /\ q = "complete" => x.stage \in {"IN_PROGRESS", "VERIFYING"}
    /\ tx[Sweep].op \in {"none", "remind", "transition"}
    /\ tx[Sweep].op = "transition" => sweep.todo["remind"] = {}
    /\ sweep = AtRest => tx[Sweep].op = "none"

BoardInv == BoardTyped /\ RowsHold /\ ComponentsHold /\ TxsHold /\ SweepHolds

-----------------------------------------------------------------------------
(* The sources of a component.                                             *)

LEMMA RowKinds ==
    ASSUME NEW r \in Row
    PROVE  /\ r.kind \in {"incident", "maintenance", "deleted"}
           /\ r.kind = "incident" <=> r \in Incident
           /\ r.kind = "maintenance" <=> r \in Maintenance
           /\ r.kind = "deleted" <=> r = Deleted
  BY DEF Row, Incident, Maintenance, Deleted

LEMMA RowAt ==
    ASSUME NEW rows \in Seq(Row), NEW e \in DOMAIN rows
    PROVE  rows[e] \in Row /\ e \in 1..Len(rows) /\ Len(rows) \in Nat
  <1>1. DOMAIN rows = 1..Len(rows) /\ Len(rows) \in Nat
    BY LenProperties
  <1>2. QED
    BY <1>1, ElementOfSeq

LEMMA LinkStatus ==
    ASSUME NEW r \in Incident, NEW c \in DOMAIN r.links
    PROVE  c \in Components /\ r.links[c] \in ComponentStatuses
  <1>1. r.links \in Links
    BY DEF Incident
  <1>2. PICK S \in SUBSET Components :
            r.links \in [S -> ComponentStatuses \ {"UNDER_MAINTENANCE"}]
    BY <1>1 DEF Links
  <1>3. QED
    BY <1>2

\* What a row adds to the sources of the component c.
Shows(r, c) ==
    (IF IsOpen(r) /\ c \in DOMAIN r.links THEN {r.links[c]} ELSE {})
    \union (IF IsRunning(r) /\ c \in r.links THEN {"UNDER_MAINTENANCE"} ELSE {})

LEMMA SourcesAreShown ==
    ASSUME NEW c, NEW rows, NEW manual
    PROVE  Sources(c, rows, manual) = {manual} \union UNION {Shows(rows[e], c) : e \in DOMAIN rows}
  BY DEF Sources, MaintenanceActive, Shows, IsOpen, IsRunning

LEMMA SourcesTyped ==
    ASSUME NEW c \in Components, NEW rows \in Seq(Row), NEW manual \in ComponentStatuses
    PROVE  Sources(c, rows, manual) \subseteq ComponentStatuses
  <1>1. ASSUME NEW e \in DOMAIN rows, IsOpen(rows[e]), c \in DOMAIN rows[e].links
        PROVE  rows[e].links[c] \in ComponentStatuses
    <2>1. rows[e] \in Incident
      BY <1>1, RowAt, RowKinds DEF IsOpen
    <2>2. QED
      BY <1>1, <2>1, LinkStatus
  <1>2. QED
    BY <1>1 DEF Sources

LEMMA WorstIsASource ==
    ASSUME NEW c, NEW rows, NEW manual, Sources(c, rows, manual) \subseteq ComponentStatuses
    PROVE  WorstStatus(c, rows, manual) \in ComponentStatuses
  <1> DEFINE S == Sources(c, rows, manual)
  <1>1. manual \in S
    BY DEF Sources
  <1>2. S \subseteq DOMAIN Severity
    OBVIOUS
  <1>3. DOMAIN Severity = {"OPERATIONAL", "UNDER_MAINTENANCE", "DEGRADED_PERFORMANCE",
                           "PARTIAL_OUTAGE", "MAJOR_OUTAGE"}
    BY DEF Severity
  <1>4. /\ Severity["OPERATIONAL"] = 0 /\ Severity["UNDER_MAINTENANCE"] = 1
        /\ Severity["DEGRADED_PERFORMANCE"] = 2 /\ Severity["PARTIAL_OUTAGE"] = 3
        /\ Severity["MAJOR_OUTAGE"] = 4
    BY DEF Severity
  <1> HIDE DEF S
  <1>5. \E s \in S : \A t \in S : Severity[t] <= Severity[s]
    <2>1. CASE "MAJOR_OUTAGE" \in S
      BY <1>2, <1>3, <1>4, <2>1
    <2>2. CASE "MAJOR_OUTAGE" \notin S /\ "PARTIAL_OUTAGE" \in S
      BY <1>2, <1>3, <1>4, <2>2
    <2>3. CASE /\ "MAJOR_OUTAGE" \notin S /\ "PARTIAL_OUTAGE" \notin S
               /\ "DEGRADED_PERFORMANCE" \in S
      BY <1>2, <1>3, <1>4, <2>3
    <2>4. CASE /\ "MAJOR_OUTAGE" \notin S /\ "PARTIAL_OUTAGE" \notin S
               /\ "DEGRADED_PERFORMANCE" \notin S /\ "UNDER_MAINTENANCE" \in S
      BY <1>2, <1>3, <1>4, <2>4
    <2>5. CASE S \subseteq {"OPERATIONAL"}
      BY <1>1, <1>4, <2>5
    <2>6. QED
      BY <1>2, <1>3, <2>1, <2>2, <2>3, <2>4, <2>5
  <1>6. (CHOOSE s \in S : \A t \in S : Severity[t] <= Severity[s]) \in S
    BY <1>5
  <1>7. QED
    BY <1>6 DEF WorstStatus, S

LEMMA ReconciledRow ==
    ASSUME NEW c \in Components, NEW rows \in Seq(Row), NEW row \in Component
    PROVE  /\ Reconciled(row, c, rows) \in Component
           /\ Reconciled(row, c, rows).manual = row.manual
           /\ Reconciled(row, c, rows).status = WorstStatus(c, rows, row.manual)
  <1> DEFINE worst == WorstStatus(c, rows, row.manual)
             next == Reconciled(row, c, rows)
  <1>1. worst \in ComponentStatuses
    BY SourcesTyped, WorstIsASource DEF Component
  <1>2. CASE worst = row.status
    BY <1>2 DEF Reconciled
  <1>3. CASE worst # row.status
    <2>1. MaintenanceActive(c, rows) \in BOOLEAN
      BY DEF MaintenanceActive
    <2>2. PICK flag \in BOOLEAN : next = [row EXCEPT !.status = worst, !.excluded = flag]
      BY <1>3 DEF Reconciled
    <2>3. QED
      BY <1>1, <2>2 DEF Component
  <1>4. QED
    BY <1>2, <1>3

\* Every component shows the worst of its sources after a transaction that
\* reconciles those whose sources it changes.
LEMMA ComponentsWritten ==
    ASSUME ComponentsHold, event' \in Seq(Row), NEW cs, Reconcile(cs, event'),
           \A c \in Components : c \in cs
              \/ \A m \in ComponentStatuses : Sources(c, event', m) = Sources(c, event, m)
    PROVE  ComponentsHold'
  <1>1. ASSUME NEW c \in Components
        PROVE  /\ component'[c] \in Component
               /\ component'[c].status = WorstStatus(c, event', component'[c].manual)
    <2>1. component[c] \in Component
      BY DEF ComponentsHold
    <2>2. CASE c \in cs
      <3>1. component'[c] = Reconciled(component[c], c, event')
        BY <2>2 DEF Reconcile
      <3>2. QED
        BY <2>1, <3>1, ReconciledRow
    <2>3. CASE c \notin cs
      <3>1. component'[c] = component[c]
        BY <2>3 DEF Reconcile
      <3>2. component[c].manual \in ComponentStatuses
        BY <2>1 DEF Component
      <3>3. WorstStatus(c, event', component[c].manual)
                = WorstStatus(c, event, component[c].manual)
        BY <2>3, <3>2 DEF WorstStatus
      <3>4. component[c].status = WorstStatus(c, event, component[c].manual)
        BY DEF ComponentsHold, StatusIsWorst
      <3>5. QED
        BY <2>1, <3>1, <3>3, <3>4
    <2>4. QED
      BY <2>2, <2>3
  <1>2. component' \in [Components -> Component]
    <2>1. component' = [c \in Components |-> component'[c]]
      BY DEF Reconcile
    <2>2. QED
      BY <1>1, <2>1
  <1>3. QED
    BY <1>1, <1>2 DEF ComponentsHold, StatusIsWorst

-----------------------------------------------------------------------------
(* The rows.                                                               *)

LEMMA ToldLonger ==
    ASSUME NEW r \in Row, NEW m \in Nat, NEW n \in Nat, m <= n, Told(r, m)
    PROVE  Told(r, n)
  <1>1. ASSUME r.kind = "incident" PROVE \A i \in DOMAIN r.timeline : r.timeline[i].edits \in Nat
    <2>1. r.timeline \in Seq(Update)
      BY <1>1, RowKinds DEF Incident
    <2>2. \A i \in DOMAIN r.timeline : r.timeline[i] \in Update
      BY <2>1, LenProperties, ElementOfSeq
    <2>3. QED
      BY <2>2 DEF Update
  <1>2. QED
    BY <1>1 DEF Told, IncidentTold

LEMMA SameSources ==
    ASSUME NEW rows, NEW next, NEW c, NEW m, DOMAIN next = DOMAIN rows,
           \A i \in DOMAIN rows : Shows(next[i], c) = Shows(rows[i], c)
    PROVE  Sources(c, next, m) = Sources(c, rows, m)
  <1>1. UNION {Shows(next[i], c) : i \in DOMAIN next} = UNION {Shows(rows[i], c) : i \in DOMAIN rows}
    OBVIOUS
  <1>2. QED
    BY <1>1, SourcesAreShown

LEMMA SourcesAppended ==
    ASSUME NEW rows \in Seq(Row), NEW r \in Row, NEW c, NEW m, Shows(r, c) = {}
    PROVE  Sources(c, Append(rows, r), m) = Sources(c, rows, m)
  <1> DEFINE next == Append(rows, r)
  <1>1. /\ DOMAIN rows = 1..Len(rows) /\ DOMAIN next = 1..(Len(rows) + 1)
        /\ next[Len(rows) + 1] = r /\ Len(rows) \in Nat
        /\ \A i \in 1..Len(rows) : next[i] = rows[i]
    BY AppendProperties, LenProperties
  <1> HIDE DEF next
  <1>2. \A i \in 1..(Len(rows) + 1) : i \in 1..Len(rows) \/ i = Len(rows) + 1
    BY <1>1
  <1>3. 1..Len(rows) \subseteq 1..(Len(rows) + 1)
    BY <1>1
  <1>4. UNION {Shows(next[i], c) : i \in DOMAIN next} = UNION {Shows(rows[i], c) : i \in DOMAIN rows}
    BY <1>1, <1>2, <1>3
  <1>5. Sources(c, next, m) = Sources(c, rows, m)
    BY <1>4, SourcesAreShown
  <1>6. QED
    BY <1>5 DEF next

LEMMA ShownByLinks ==
    ASSUME NEW r \in Row, NEW c
    PROVE  /\ r.kind = "incident" /\ (c \notin DOMAIN r.links \/ r.status = "RESOLVED")
                 => Shows(r, c) = {}
           /\ r.kind = "maintenance" /\ (c \notin r.links \/ ~IsRunning(r)) => Shows(r, c) = {}
           /\ r.kind = "deleted" => Shows(r, c) = {}
  BY RowKinds DEF Shows, IsOpen, IsRunning

LEMMA RowWritten ==
    ASSUME BoardInv, NEW e \in DOMAIN event, NEW r \in Row, NEW cs,
           event' = [event EXCEPT ![e] = r], Reconcile(cs, event'),
           \A c \in Components : c \in cs \/ Shows(r, c) = Shows(event[e], c),
           used' \in Nat, used <= used', Told(r, used')
    PROVE  /\ RowsHold' /\ ComponentsHold'
           /\ DOMAIN event' = DOMAIN event
           /\ \A f \in DOMAIN event : event'[f] = IF f = e THEN r ELSE event[f]
  <1>1. event \in Seq(Row) /\ Len(event) <= MaxEvents /\ DOMAIN event = 1..Len(event)
    BY LenProperties DEF BoardInv, RowsHold
  <1>2. /\ event' \in Seq(Row) /\ Len(event') = Len(event)
        /\ DOMAIN event' = DOMAIN event
        /\ \A f \in DOMAIN event : event'[f] = IF f = e THEN r ELSE event[f]
    BY <1>1, ExceptSeq, LenProperties
  <1>3. ASSUME NEW f \in DOMAIN event PROVE Told(event[f], used')
    <2>1. event[f] \in Row /\ Told(event[f], used) /\ used \in Nat
      BY <1>1, <1>3, RowAt DEF BoardInv, RowsHold, BoardTyped
    <2>2. QED
      BY <2>1, ToldLonger
  <1>4. RowsHold'
    BY <1>1, <1>2, <1>3 DEF RowsHold
  <1>5. ComponentsHold'
    <2>1. ASSUME NEW c \in Components, c \notin cs, NEW m \in ComponentStatuses
          PROVE  Sources(c, event', m) = Sources(c, event, m)
      <3>1. Shows(r, c) = Shows(event[e], c)
        BY <2>1
      <3>2. \A i \in DOMAIN event : Shows(event'[i], c) = Shows(event[i], c)
        BY <1>2, <3>1
      <3>3. DOMAIN event' = DOMAIN event
        BY <1>2
      <3>4. QED
        <4>1. \A next : DOMAIN next = DOMAIN event
                   /\ (\A i \in DOMAIN event : Shows(next[i], c) = Shows(event[i], c))
                 => Sources(c, next, m) = Sources(c, event, m)
          BY ONLY SameSources
        <4>2. QED
          BY ONLY <4>1, <3>2, <3>3
    <2>2. QED
      BY <1>2, <2>1, ComponentsWritten DEF BoardInv
  <1>6. QED
    BY <1>2, <1>4, <1>5

LEMMA RowAppended ==
    ASSUME BoardInv, NEW r \in Row, NEW cs,
           event' = Append(event, r), Reconcile(cs, event'), Len(event) < MaxEvents,
           \A c \in Components : c \in cs \/ Shows(r, c) = {},
           used' \in Nat, used <= used', Told(r, used')
    PROVE  /\ RowsHold' /\ ComponentsHold'
           /\ DOMAIN event \subseteq DOMAIN event'
           /\ \A f \in DOMAIN event : event'[f] = event[f]
  <1>1. event \in Seq(Row) /\ Len(event) \in Nat /\ DOMAIN event = 1..Len(event)
    BY LenProperties DEF BoardInv, RowsHold
  <1>2. /\ event' \in Seq(Row) /\ Len(event') = Len(event) + 1
        /\ DOMAIN event' = 1..(Len(event) + 1)
        /\ event'[Len(event) + 1] = r
        /\ \A f \in 1..Len(event) : event'[f] = event[f]
    BY <1>1, AppendProperties, LenProperties
  <1>3. ASSUME NEW f \in DOMAIN event PROVE Told(event[f], used')
    <2>1. event[f] \in Row /\ Told(event[f], used) /\ used \in Nat
      BY <1>1, <1>3, RowAt DEF BoardInv, RowsHold, BoardTyped
    <2>2. QED
      BY <2>1, ToldLonger
  <1>4. \A f \in 1..(Len(event) + 1) : f \in 1..Len(event) \/ f = Len(event) + 1
    BY <1>1
  <1>5. Len(event') <= MaxEvents
    BY <1>1, <1>2
  <1>6. RowsHold'
    BY <1>1, <1>2, <1>3, <1>4, <1>5 DEF RowsHold
  <1>7. ComponentsHold'
    <2>1. ASSUME NEW c \in Components, c \notin cs, NEW m \in ComponentStatuses
          PROVE  Sources(c, event', m) = Sources(c, event, m)
      BY <1>1, <2>1, SourcesAppended
    <2>2. QED
      BY <1>2, <2>1, ComponentsWritten DEF BoardInv
  <1>8. DOMAIN event \subseteq DOMAIN event'
    BY <1>1, <1>2
  <1>9. QED
    BY <1>1, <1>2, <1>6, <1>7, <1>8

\* Nothing changes on the board.
LEMMA BoardKept ==
    ASSUME BoardInv, UNCHANGED <<component, event>>, used' \in Nat, used <= used'
    PROVE  RowsHold' /\ ComponentsHold'
  <1>1. ASSUME NEW f \in DOMAIN event PROVE Told(event[f], used')
    <2>1. event[f] \in Row /\ Told(event[f], used) /\ used \in Nat
      BY <1>1, RowAt DEF BoardInv, RowsHold, BoardTyped
    <2>2. QED
      BY <2>1, ToldLonger
  <1>2. QED
    BY <1>1 DEF BoardInv, RowsHold, ComponentsHold, StatusIsWorst

-----------------------------------------------------------------------------
(* The transactions and the sweep.                                         *)

\* What a form shows stays there.
Grows(r, next) ==
    r.kind = "incident" =>
        next.kind = "incident" /\ DOMAIN r.timeline \subseteq DOMAIN next.timeline

\* The transactions that a step leaves open still fit the rows it leaves.
LEMMA TxsStay ==
    ASSUME BoardInv, tx' \in [Processes -> Transaction], used' \in Nat, used <= used',
           DOMAIN event \subseteq DOMAIN event',
           \A e \in DOMAIN event : event'[e] = event[e] \/ Grows(event[e], event'[e]),
           \A p \in Processes :
              \/ tx'[p] = Idle
              \/ /\ tx'[p] = tx[p]
                 /\ \A e \in DOMAIN event : tx[p].event = e =>
                       event'[e] = event[e] \/ Awaits(tx[p], event'[e])
              \/ /\ TxFits(tx'[p], event', used')
                 /\ p \in Operators => tx'[p].op # "remind"
    PROVE  TxsHold'
  <1>1. used \in Nat
    BY DEF BoardInv, BoardTyped
  <1>2. ASSUME NEW p \in Processes
        PROVE  /\ TxFits(tx'[p], event', used')
               /\ p \in Operators => tx'[p].op # "remind"
    <2>1. CASE tx'[p] = Idle
      BY <2>1 DEF TxFits, Idle, Forms
    <2>2. CASE /\ tx'[p] = tx[p]
               /\ \A e \in DOMAIN event : tx[p].event = e =>
                     event'[e] = event[e] \/ Awaits(tx[p], event'[e])
      <3> DEFINE t == tx[p]
      <3>1. TxFits(t, event, used) /\ t \in Transaction
        BY DEF BoardInv, TxsHold
      <3>2. p \in Operators => t.op # "remind"
        BY DEF BoardInv, TxsHold
      <3>3. t.op = "status" => t.component \in Components
        BY <3>1 DEF TxFits
      <3>4. ASSUME t.op \in {"update", "transition", "remind"} \union Forms
            PROVE  /\ t.event \in DOMAIN event' /\ Awaits(t, event'[t.event])
                   /\ SeesVersion(t, event'[t.event], used')
        <4>1. /\ t.event \in DOMAIN event /\ Awaits(t, event[t.event])
              /\ SeesVersion(t, event[t.event], used)
          BY <3>1, <3>4 DEF TxFits
        <4>2. Awaits(t, event'[t.event])
          BY <2>2, <4>1
        <4>3. t.op \in Forms => t.edits < used'
          BY <1>1, <3>1, <4>1 DEF SeesVersion, Transaction
        <4>4. event'[t.event] = event[t.event] \/ Grows(event[t.event], event'[t.event])
          BY <4>1
        <4>5. SeesVersion(t, event'[t.event], used')
          BY <4>1, <4>3, <4>4 DEF SeesVersion, Grows
        <4>6. QED
          BY <4>1, <4>2, <4>5
      <3>5. TxFits(t, event', used')
        BY <3>3, <3>4 DEF TxFits
      <3>6. QED
        BY <2>2, <3>2, <3>5
    <2>3. CASE /\ TxFits(tx'[p], event', used')
               /\ p \in Operators => tx'[p].op # "remind"
      BY <2>3
    <2>4. QED
      BY <2>1, <2>2, <2>3
  <1>3. Operators \subseteq Processes
    BY DEF Processes
  <1>4. QED
    BY <1>2, <1>3 DEF TxsHold

LEMMA IdleTyped == Idle \in Transaction
  BY DEF Idle, Transaction

\* The board and the transactions stay, and actions may be spent.
LEMMA TxsKept ==
    ASSUME BoardInv, UNCHANGED <<event, tx>>, used' \in Nat, used <= used'
    PROVE  TxsHold'
  <1>1. tx' \in [Processes -> Transaction]
    BY DEF BoardInv, TxsHold
  <1>2. QED
    BY <1>1, TxsStay

\* One transaction ends and the board stays.
LEMMA TxEnds ==
    ASSUME BoardInv, NEW p \in Processes, tx' = [tx EXCEPT ![p] = Idle],
           UNCHANGED event, used' \in Nat, used <= used'
    PROVE  TxsHold'
  <1>1. tx \in [Processes -> Transaction]
    BY DEF BoardInv, TxsHold
  <1>2. /\ tx' \in [Processes -> Transaction]
        /\ \A q \in Processes : tx'[q] = Idle \/ tx'[q] = tx[q]
    BY <1>1, IdleTyped
  <1>3. QED
    BY <1>2, TxsStay

LEMMA SweepStays ==
    ASSUME BoardInv, UNCHANGED sweep, tx'[Sweep] = tx[Sweep],
           DOMAIN event \subseteq DOMAIN event'
    PROVE  SweepHolds'
  BY DEF BoardInv, SweepHolds

LEMMA AtRestTyped == AtRest \in SweepState /\ \A q \in Queries : AtRest.todo[q] = {}
  BY DEF AtRest, SweepState, Queries

LEMMA SweepRests ==
    ASSUME sweep' = AtRest, tx'[Sweep].op = "none"
    PROVE  SweepHolds'
  BY AtRestTyped DEF SweepHolds, Queries

LEMMA SweepDrops ==
    ASSUME BoardInv, NEW q \in Queries, NEW x, Drop(q, x), tx'[Sweep].op = "none",
           DOMAIN event \subseteq DOMAIN event'
    PROVE  SweepHolds'
  <1> DEFINE rest == [sweep.todo EXCEPT ![q] = @ \ {x}]
  <1>1. CASE rest = AtRest.todo
    BY <1>1, SweepRests DEF Drop
  <1>2. CASE rest # AtRest.todo
    <2>1. sweep' = [sweep EXCEPT !.todo = rest]
      BY <1>2 DEF Drop
    <2>2. sweep \in SweepState
      BY DEF BoardInv, SweepHolds
    <2>3. /\ sweep' \in SweepState
          /\ \A p \in Queries : sweep'.todo[p] \subseteq sweep.todo[p]
      BY <2>1, <2>2 DEF SweepState
    <2>4. QED
      BY <2>3 DEF BoardInv, SweepHolds
  <1>3. QED
    BY <1>1, <1>2

-----------------------------------------------------------------------------
(* The rows that the operations write.                                     *)

LEMMA TimelineAt ==
    ASSUME NEW r \in Incident
    PROVE  /\ r.timeline \in Seq(Update) /\ Len(r.timeline) \in Nat
           /\ DOMAIN r.timeline = 1..Len(r.timeline)
           /\ \A i \in DOMAIN r.timeline : /\ r.timeline[i] \in Update
                                           /\ r.timeline[i].edits \in Nat
                                           /\ r.timeline[i].status \in IncidentStatuses
           /\ r.timeline # << >> => Len(r.timeline) \in DOMAIN r.timeline
  <1>1. r.timeline \in Seq(Update)
    BY DEF Incident
  <1>2. /\ Len(r.timeline) \in Nat /\ DOMAIN r.timeline = 1..Len(r.timeline)
        /\ \A i \in DOMAIN r.timeline : r.timeline[i] \in Update
    BY <1>1, LenProperties, ElementOfSeq
  <1>3. r.timeline # << >> => Len(r.timeline) \in 1..Len(r.timeline)
    BY <1>1, EmptySeq
  <1>4. QED
    BY <1>1, <1>2, <1>3 DEF Update

LEMMA ValidByLinks ==
    ASSUME NEW r, NEW next, next.status = r.status, next.links = r.links, Valid(r)
    PROVE  Valid(next)
  BY DEF Valid

\* A new update carries the incident with it.
LEMMA UpdateAppended ==
    ASSUME NEW r \in Incident, NEW next \in Incident, NEW u \in Update, NEW spent \in Nat,
           IncidentTold(r, spent), IsOpen(r), Valid(next), u.edits <= spent,
           next.timeline = Append(r.timeline, u), next.status = u.status
    PROVE  Told(next, spent) /\ Grows(r, next)
  <1> DEFINE n == Len(r.timeline)
  <1>1. r.kind = "incident" /\ next.kind = "incident" /\ r.status # "RESOLVED"
    BY DEF Incident, IsOpen
  <1>2. n \in Nat /\ DOMAIN r.timeline = 1..n /\ r.timeline \in Seq(Update)
    BY TimelineAt
  <1>3. /\ Len(next.timeline) = n + 1 /\ next.timeline # << >>
        /\ next.timeline[n + 1] = u
        /\ \A i \in 1..n : next.timeline[i] = r.timeline[i]
    BY <1>2, AppendProperties
  <1>4. DOMAIN next.timeline = 1..(n + 1)
    BY <1>3, TimelineAt
  <1>5. \A i \in 1..(n + 1) : i \in 1..n \/ i = n + 1
    BY <1>2
  <1>6. \A i \in 1..n : r.timeline[i].status # "RESOLVED"
    <2>1. r.timeline[n].status = r.status
      BY <1>1 DEF IncidentTold, Last
    <2>2. \A i \in 1..n : i < n => r.timeline[i].status # "RESOLVED"
      BY <1>1, <1>2 DEF IncidentTold
    <2>3. \A i \in 1..n : i < n \/ i = n
      BY <1>2
    <2>4. QED
      BY <1>1, <2>1, <2>2, <2>3
  <1>7. \A i \in 1..n : r.timeline[i].edits <= spent
    BY <1>1, <1>2 DEF IncidentTold
  <1>8. \A i \in DOMAIN next.timeline :
           /\ next.timeline[i].edits <= spent
           /\ i < Len(next.timeline) => next.timeline[i].status # "RESOLVED"
    <2>1. TAKE i \in DOMAIN next.timeline
    <2>2. CASE i \in 1..n
      BY <1>3, <1>6, <1>7, <2>2
    <2>3. CASE i = n + 1
      BY <1>2, <1>3, <2>3
    <2>4. QED
      BY <1>4, <1>5, <2>2, <2>3
  <1>9. Last(next.timeline).status = next.status
    BY <1>3 DEF Last
  <1>10. IncidentTold(next, spent)
    BY <1>3, <1>8, <1>9 DEF IncidentTold
  <1>11. Grows(r, next)
    BY <1>1, <1>2, <1>4 DEF Grows
  <1>12. QED
    BY <1>1, <1>10, <1>11 DEF Told, WindowTold

\* An update is edited; the newest carries the incident with it.
LEMMA UpdateEdited ==
    ASSUME NEW r \in Incident, NEW next \in Incident, NEW spent \in Nat,
           NEW n \in DOMAIN r.timeline, NEW u \in Update,
           IncidentTold(r, spent), Valid(next), u.edits <= spent,
           next.timeline = [r.timeline EXCEPT ![n] = u],
           n < Len(r.timeline) => u.status # "RESOLVED",
           next.status = IF n = Len(r.timeline) THEN u.status ELSE r.status
    PROVE  Told(next, spent) /\ Grows(r, next)
  <1>1. r.kind = "incident" /\ next.kind = "incident"
    BY DEF Incident
  <1>2. /\ r.timeline \in Seq(Update) /\ Len(r.timeline) \in Nat
        /\ DOMAIN r.timeline = 1..Len(r.timeline) /\ r.timeline # << >>
    BY <1>1, TimelineAt DEF IncidentTold
  <1>3. /\ Len(next.timeline) = Len(r.timeline) /\ DOMAIN next.timeline = DOMAIN r.timeline
        /\ \A i \in 1..Len(r.timeline) :
              next.timeline[i] = IF i = n THEN u ELSE r.timeline[i]
    BY <1>2, ExceptSeq
  <1>4. \A i \in DOMAIN r.timeline :
           /\ r.timeline[i].edits <= spent
           /\ i < Len(r.timeline) => r.timeline[i].status # "RESOLVED"
    BY <1>1 DEF IncidentTold
  <1>5. \A i \in DOMAIN next.timeline :
           /\ next.timeline[i].edits <= spent
           /\ i < Len(next.timeline) => next.timeline[i].status # "RESOLVED"
    BY <1>2, <1>3, <1>4
  <1>6. Len(r.timeline) \in 1..Len(r.timeline)
    BY <1>2, TimelineAt
  <1>7. r.timeline[Len(r.timeline)].status = r.status
    BY <1>1 DEF IncidentTold, Last
  <1>8. next.timeline[Len(next.timeline)].status = next.status
    BY <1>3, <1>6, <1>7
  <1>9. next.timeline # << >>
    BY <1>2, <1>3
  <1>10. IncidentTold(next, spent)
    BY <1>5, <1>8, <1>9 DEF IncidentTold, Last
  <1>11. Grows(r, next)
    BY <1>1, <1>3 DEF Grows
  <1>12. QED
    BY <1>1, <1>10, <1>11 DEF Told, WindowTold

\* A window posts that it moves.
LEMMA WindowMoved ==
    ASSUME NEW r \in Maintenance, NEW by \in {"operator", "sweep"}, NEW stage \in Stages,
           NEW spent \in Nat, WindowTold(r), MayMove(r.stage, stage),
           by = "sweep" => \/ r.stage = "SCHEDULED" /\ stage = "IN_PROGRESS"
                           \/ r.stage # "COMPLETED" /\ stage = "COMPLETED"
    PROVE  /\ Moved(r, by, stage) \in Maintenance
           /\ Told(Moved(r, by, stage), spent)
           /\ Moved(r, by, stage).links = r.links
  <1> DEFINE next == Moved(r, by, stage)
             p == [by |-> by, what |-> stage]
             n == Len(r.posts)
  <1>1. r.kind = "maintenance" /\ r.posts \in Seq(Post) /\ r.stage \in Stages
    BY DEF Maintenance
  <1>2. p \in Post
    BY DEF Post
  <1>3. Append(r.posts, p) \in Seq(Post)
    BY <1>1, <1>2, AppendProperties
  <1>4. /\ next \in Maintenance /\ next.kind = "maintenance" /\ next.stage = stage
        /\ next.reminded = r.reminded /\ next.links = r.links
        /\ next.posts = Append(r.posts, p)
    BY <1>3 DEF Moved, Maintenance
  <1>5. /\ n \in Nat /\ DOMAIN r.posts = 1..n /\ DOMAIN next.posts = 1..(n + 1)
        /\ next.posts[n + 1] = p
        /\ \A i \in 1..n : next.posts[i] = r.posts[i]
    <2>1. n \in Nat /\ DOMAIN r.posts = 1..n
      BY <1>1, LenProperties
    <2>2. /\ Len(Append(r.posts, p)) = n + 1 /\ Append(r.posts, p)[n + 1] = p
          /\ \A i \in 1..n : Append(r.posts, p)[i] = r.posts[i]
      BY <1>1, <1>2, AppendProperties
    <2>3. DOMAIN Append(r.posts, p) = 1..(n + 1)
      BY <1>3, <2>2, LenProperties
    <2>4. QED
      BY <1>4, <2>1, <2>2, <2>3
  <1>6. \A i \in 1..(n + 1) : i \in 1..n \/ i = n + 1
    BY <1>5
  <1>7. MayMove(r.stage, stage) => /\ stage = "SCHEDULED" => r.stage = "SCHEDULED"
                                   /\ r.stage = "COMPLETED" => stage = "COMPLETED"
    BY <1>1 DEF MayMove, Stages
  <1>8. \A i \in DOMAIN r.posts :
           /\ r.stage = "SCHEDULED" => r.posts[i].what \in {"SCHEDULED", "REMINDER"}
           /\ ~r.reminded => r.posts[i].what # "REMINDER"
           /\ r.stage # "COMPLETED" => r.posts[i].what # "COMPLETED"
    BY <1>1 DEF WindowTold
  <1>9. p.what = stage /\ p.by = by
    OBVIOUS
  <1> HIDE DEF next, p, n
  <1>10. ASSUME NEW i \in DOMAIN next.posts
         PROVE  /\ stage = "SCHEDULED" => next.posts[i].what \in {"SCHEDULED", "REMINDER"}
                /\ ~r.reminded => next.posts[i].what # "REMINDER"
                /\ stage # "COMPLETED" => next.posts[i].what # "COMPLETED"
    <2>1. CASE i \in 1..n
      BY <1>5, <1>7, <1>8, <2>1
    <2>2. CASE i = n + 1
      BY <1>5, <1>9, <2>2 DEF Stages
    <2>3. QED
      BY <1>5, <1>6, <1>10, <2>1, <2>2
  <1>11. ASSUME NEW i \in DOMAIN next.posts, NEW j \in DOMAIN next.posts, j < i
         PROVE  /\ next.posts[i].what = "REMINDER" => next.posts[j].what = "SCHEDULED"
                /\ next.posts[i] = [by |-> "sweep", what |-> "IN_PROGRESS"] =>
                      next.posts[j].what \in {"SCHEDULED", "REMINDER"}
                /\ next.posts[j].what = "COMPLETED" =>
                      next.posts[i] = [by |-> "operator", what |-> "COMPLETED"]
    <2>1. j \in 1..n
      BY <1>5, <1>6, <1>11
    <2>2. CASE i \in 1..n
      <3>1. /\ next.posts[i] = r.posts[i] /\ next.posts[j] = r.posts[j]
            /\ i \in DOMAIN r.posts /\ j \in DOMAIN r.posts
        BY <1>5, <2>1, <2>2
      <3>2. QED
        BY <1>1, <1>11, <3>1 DEF WindowTold
    <2>3. CASE i = n + 1
      <3>1. next.posts[i] = p /\ next.posts[j] = r.posts[j]
        BY <1>5, <2>1, <2>3
      <3>2. p.what # "REMINDER"
        BY <1>9 DEF Stages
      <3>3. p = [by |-> "sweep", what |-> "IN_PROGRESS"] => r.stage = "SCHEDULED"
        BY <1>9
      <3>4. r.posts[j].what = "COMPLETED" => r.stage = "COMPLETED"
        BY <1>5, <1>8, <2>1
      <3>5. r.stage = "COMPLETED" => by = "operator" /\ stage = "COMPLETED"
        BY <1>7
      <3>6. r.posts[j].what = "COMPLETED" => p = [by |-> "operator", what |-> "COMPLETED"]
        BY <3>4, <3>5 DEF p
      <3>7. QED
        BY <1>5, <1>8, <2>1, <3>1, <3>2, <3>3, <3>6
    <2>4. QED
      BY <1>5, <1>6, <1>11, <2>2, <2>3
  <1>12. Told(next, spent)
    BY <1>4, <1>10, <1>11 DEF Told, WindowTold, IncidentTold
  <1>13. QED
    BY <1>4, <1>12 DEF next

\* A window posts its reminder.
LEMMA WindowReminded ==
    ASSUME NEW r \in Maintenance, NEW next, NEW spent \in Nat, WindowTold(r),
           r.stage = "SCHEDULED", ~r.reminded,
           next = [r EXCEPT !.reminded = TRUE,
                            !.posts = Append(@, [by |-> "sweep", what |-> "REMINDER"])]
    PROVE  /\ next \in Maintenance /\ Told(next, spent)
           /\ next.kind = "maintenance" /\ next.stage = r.stage /\ next.links = r.links
  <1> DEFINE p == [by |-> "sweep", what |-> "REMINDER"]
             n == Len(r.posts)
  <1>1. r.kind = "maintenance" /\ r.posts \in Seq(Post)
    BY DEF Maintenance
  <1>2. p \in Post
    BY DEF Post
  <1>3. Append(r.posts, p) \in Seq(Post)
    BY <1>1, <1>2, AppendProperties
  <1>4. /\ next \in Maintenance /\ next.kind = "maintenance" /\ next.stage = r.stage
        /\ next.reminded /\ next.links = r.links /\ next.posts = Append(r.posts, p)
    BY <1>3 DEF Maintenance
  <1>5. /\ n \in Nat /\ DOMAIN r.posts = 1..n /\ DOMAIN next.posts = 1..(n + 1)
        /\ next.posts[n + 1] = p
        /\ \A i \in 1..n : next.posts[i] = r.posts[i]
    <2>1. n \in Nat /\ DOMAIN r.posts = 1..n
      BY <1>1, LenProperties
    <2>2. /\ Len(Append(r.posts, p)) = n + 1 /\ Append(r.posts, p)[n + 1] = p
          /\ \A i \in 1..n : Append(r.posts, p)[i] = r.posts[i]
      BY <1>1, <1>2, AppendProperties
    <2>3. DOMAIN Append(r.posts, p) = 1..(n + 1)
      BY <1>3, <2>2, LenProperties
    <2>4. QED
      BY <1>4, <2>1, <2>2, <2>3
  <1>6. \A i \in 1..(n + 1) : i \in 1..n \/ i = n + 1
    BY <1>5
  <1>7. \A i \in 1..n : r.posts[i].what = "SCHEDULED"
    BY <1>1, <1>5 DEF WindowTold
  <1> HIDE DEF n
  <1>8. \A i \in DOMAIN next.posts :
           \/ i \in 1..n /\ next.posts[i].what = "SCHEDULED"
           \/ i = n + 1 /\ next.posts[i] = p
    BY <1>5, <1>6, <1>7
  <1>9. \A i, j \in DOMAIN next.posts : j < i => next.posts[j].what = "SCHEDULED"
    BY <1>5, <1>8
  <1>10. Told(next, spent)
    BY <1>4, <1>8, <1>9 DEF Told, WindowTold, IncidentTold
  <1>11. QED
    BY <1>4, <1>10

-----------------------------------------------------------------------------
(* The steps of the operators.                                             *)

\* What a process knows of the row that its transaction is about.
LEMMA RowOfTx ==
    ASSUME BoardInv, NEW p \in Processes,
           tx[p].op \in {"update", "transition", "remind"} \union Forms
    PROVE  /\ tx[p].event \in DOMAIN event /\ event[tx[p].event] \in Row
           /\ tx[p].event # 0
           /\ Awaits(tx[p], event[tx[p].event])
           /\ SeesVersion(tx[p], event[tx[p].event], used)
           /\ Told(event[tx[p].event], used)
           /\ used \in Nat
  <1>1. /\ tx[p].event \in DOMAIN event /\ Awaits(tx[p], event[tx[p].event])
        /\ SeesVersion(tx[p], event[tx[p].event], used)
    BY DEF BoardInv, TxsHold, TxFits
  <1>2. event \in Seq(Row) /\ used \in Nat
    BY DEF BoardInv, RowsHold, BoardTyped
  <1>3. event[tx[p].event] \in Row /\ tx[p].event \in 1..Len(event) /\ Len(event) \in Nat
    BY <1>1, <1>2, RowAt
  <1>4. Told(event[tx[p].event], used)
    BY <1>1 DEF BoardInv, RowsHold
  <1>5. QED
    BY <1>1, <1>2, <1>3, <1>4

\* A transaction leaves a resolved incident resolved, and edits no update but
\* the one its form shows, in the version that the form shows.
Revises(t, r, next) ==
    r.kind = "incident" =>
        /\ r.status = "RESOLVED" =>
              /\ next.status = "RESOLVED"
              /\ next.links = r.links
              /\ Statuses(next) = Statuses(r)
        /\ \A i \in DOMAIN r.timeline :
              next.timeline[i] # r.timeline[i] => t.n = i /\ t.edits = r.timeline[i].edits

LEMMA RevisedByEdit ==
    ASSUME NEW r \in Incident, NEW next \in Incident, NEW n \in DOMAIN r.timeline,
           NEW u \in Update, NEW t, t.n = n, t.edits = r.timeline[n].edits,
           next.timeline = [r.timeline EXCEPT ![n] = u],
           r.status = "RESOLVED" => /\ next.status = "RESOLVED" /\ next.links = r.links
                                    /\ u.status = r.timeline[n].status
    PROVE  Revises(t, r, next)
  <1>1. /\ DOMAIN next.timeline = DOMAIN r.timeline
        /\ \A i \in DOMAIN r.timeline :
              next.timeline[i] = IF i = n THEN u ELSE r.timeline[i]
    BY TimelineAt, ExceptSeq
  <1>2. r.status = "RESOLVED" => Statuses(next) = Statuses(r)
    BY <1>1 DEF Statuses
  <1>3. QED
    BY <1>1, <1>2 DEF Revises

\* What an operator's transaction does to the board when it commits.
Writes(o) ==
    \E op \in {"update", "transition"} \union Forms : \E r \in Row : \E cs :
        /\ Commit(o, op, [event EXCEPT ![tx[o].event] = r], cs)
        /\ Told(r, used) /\ Grows(event[tx[o].event], r)
        /\ Revises(tx[o], event[tx[o].event], r)
        /\ \A c \in Components : c \in cs \/ Shows(r, c) = Shows(event[tx[o].event], c)

LEMMA Written ==
    ASSUME NEW o \in Operators, NEW op \in {"update", "transition"} \union Forms,
           NEW r \in Row, NEW cs,
           Commit(o, op, [event EXCEPT ![tx[o].event] = r], cs),
           Told(r, used), Grows(event[tx[o].event], r),
           Revises(tx[o], event[tx[o].event], r),
           \A c \in Components : c \in cs \/ Shows(r, c) = Shows(event[tx[o].event], c)
    PROVE  Writes(o)
  BY DEF Writes

\* An operator's transaction commits a new form of its row.
LEMMA CommitInv ==
    ASSUME BoardInv, NEW o \in Operators, NEW op \in {"update", "transition"} \union Forms,
           NEW r \in Row, NEW cs,
           Commit(o, op, [event EXCEPT ![tx[o].event] = r], cs),
           Told(r, used), Grows(event[tx[o].event], r),
           \A c \in Components : c \in cs \/ Shows(r, c) = Shows(event[tx[o].event], c)
    PROVE  BoardInv'
  <1> DEFINE e == tx[o].event
  <1>1. o \in Processes /\ Sweep \in Processes /\ o # Sweep
    BY DEF Processes
  <1>2. /\ tx[o].op = op /\ Free(o, e, cs)
        /\ event' = [event EXCEPT ![e] = r] /\ Reconcile(cs, event')
        /\ tx' = [tx EXCEPT ![o] = Idle] /\ UNCHANGED <<active, time, sweep, used>>
    BY DEF Commit
  <1>3. e \in DOMAIN event /\ e # 0 /\ used \in Nat
    BY <1>1, <1>2, RowOfTx
  <1> HIDE DEF e
  <1>4. \A c \in Components : c \in cs \/ Shows(r, c) = Shows(event[e], c)
    BY DEF e
  <1>5. /\ RowsHold' /\ ComponentsHold'
        /\ DOMAIN event' = DOMAIN event
        /\ \A f \in DOMAIN event : event'[f] = IF f = e THEN r ELSE event[f]
    <2>1. used' \in Nat /\ used <= used' /\ Told(r, used')
      BY <1>2, <1>3
    <2>2. event' = [event EXCEPT ![e] = r] /\ Reconcile(cs, event')
      BY <1>2
    <2>3. QED
      BY ONLY BoardInv, r \in Row, <1>3, <1>4, <2>1, <2>2, RowWritten
  <1>6. tx \in [Processes -> Transaction]
    BY DEF BoardInv, TxsHold
  <1>7. TxsHold'
    <2>1. tx' \in [Processes -> Transaction]
      BY <1>2, <1>6, IdleTyped
    <2>2. ASSUME NEW q \in Processes, q # o, tx[q].event = e PROVE Awaits(tx[q], r)
      BY <1>2, <1>3, <2>2 DEF Free, Awaits, RowFirst
    <2>3. \A q \in Processes :
             \/ tx'[q] = Idle
             \/ /\ tx'[q] = tx[q]
                /\ \A f \in DOMAIN event : tx[q].event = f =>
                      event'[f] = event[f] \/ Awaits(tx[q], event'[f])
      BY <1>2, <1>5, <1>6, <2>2
    <2>4. \A f \in DOMAIN event : event'[f] = event[f] \/ Grows(event[f], event'[f])
      BY <1>5 DEF e
    <2>5. QED
      BY <1>2, <1>3, <1>5, <2>1, <2>3, <2>4, TxsStay
  <1>8. SweepHolds'
    <2>1. tx'[Sweep] = tx[Sweep]
      BY <1>1, <1>2, <1>6
    <2>2. QED
      BY <1>2, <1>5, <2>1, SweepStays
  <1>9. QED
    BY <1>2, <1>5, <1>7, <1>8 DEF BoardInv, BoardTyped

LEMMA AddIncidentUpdateWrites ==
    ASSUME BoardInv, NEW o \in Operators, tx[o].op = "update", AddIncidentUpdate(o)
    PROVE  Writes(o)
  <1> DEFINE e == tx[o].event
             r == event[e]
  <1>1. PICK status \in IncidentStatuses :
           LET next == [r EXCEPT !.status = status,
                            !.timeline = Append(@, [status |-> status, edits |-> 0])]
           IN  /\ Valid(next)
               /\ Commit(o, "update", [event EXCEPT ![e] = next], DOMAIN next.links)
    BY DEF AddIncidentUpdate
  <1> DEFINE u == [status |-> status, edits |-> 0]
             next == [r EXCEPT !.status = status, !.timeline = Append(@, u)]
  <1>2. Valid(next) /\ Commit(o, "update", [event EXCEPT ![e] = next], DOMAIN next.links)
    BY <1>1
  <1>3. r \in Row /\ IsOpen(r) /\ Told(r, used) /\ used \in Nat
    BY RowOfTx DEF Processes, Awaits
  <1>4. r \in Incident
    BY <1>3, RowKinds DEF IsOpen
  <1>5. u \in Update
    BY DEF Update
  <1>6. Append(r.timeline, u) \in Seq(Update)
    BY <1>4, <1>5, TimelineAt, AppendProperties
  <1> HIDE DEF e, r, u
  <1>7. /\ next \in Incident /\ next.status = status /\ next.links = r.links
        /\ next.timeline = Append(r.timeline, u) /\ next.kind = "incident"
    BY <1>4, <1>6 DEF Incident
  <1> HIDE DEF next
  <1>8. Told(next, used) /\ Grows(r, next)
    <2>1. u.status = status /\ u.edits <= used
      BY <1>3 DEF u
    <2>2. IncidentTold(r, used)
      BY <1>3 DEF Told
    <2>3. QED
      BY <1>2, <1>3, <1>4, <1>5, <1>7, <2>1, <2>2, UpdateAppended
  <1>9. next \in Row /\ r.kind = "incident"
    BY <1>4, <1>7 DEF Row, Incident
  <1>10. \A c \in Components : c \in DOMAIN next.links \/ Shows(next, c) = Shows(r, c)
    BY <1>3, <1>7, <1>9, ShownByLinks
  <1>11. Revises(tx[o], r, next)
    <2>1. \A i \in DOMAIN r.timeline : next.timeline[i] = r.timeline[i]
      BY <1>4, <1>5, <1>7, TimelineAt, AppendProperties
    <2>2. QED
      BY <1>3, <2>1 DEF Revises, IsOpen
  <1>12. QED
    BY <1>2, <1>8, <1>9, <1>10, <1>11, Written DEF e, r

\* The two ways to write an edited update.
LEMMA EditedUpdate ==
    ASSUME NEW x \in Update, NEW status \in IncidentStatuses
    PROVE  /\ [status |-> status, edits |-> x.edits + 1] \in Update
           /\ [x EXCEPT !.edits = @ + 1] \in Update
           /\ [x EXCEPT !.edits = @ + 1].status = x.status
           /\ [x EXCEPT !.edits = @ + 1].edits = x.edits + 1
  BY DEF Update

LEMMA EditedTimeline ==
    ASSUME NEW r \in Incident, NEW n \in DOMAIN r.timeline, NEW u \in Update
    PROVE  [r.timeline EXCEPT ![n] = u] \in Seq(Update)
  <1>1. r.timeline \in Seq(Update) /\ n \in 1..Len(r.timeline)
    BY TimelineAt
  <1>2. QED
    BY ONLY <1>1, u \in Update, ExceptSeq

LEMMA EditIncidentDetailsWrites ==
    ASSUME BoardInv, NEW o \in Operators, tx[o].op = "details", EditIncidentDetails(o)
    PROVE  Writes(o)
  <1> DEFINE e == tx[o].event
             r == event[e]
             n == Len(r.timeline)
  <1>1. PICK status \in IncidentStatuses, links \in Links :
           LET next == [r EXCEPT !.status = status, !.links = links,
                           !.timeline[n] = [status |-> status, edits |-> @.edits + 1]]
               prose == [r EXCEPT !.timeline[n].edits = @ + 1]
           IN  /\ Valid(next)
               /\ SawLatest(o)
               /\ IF r.status = "RESOLVED"
                  THEN Commit(o, "details", [event EXCEPT ![e] = prose], {})
                  ELSE Commit(o, "details", [event EXCEPT ![e] = next], Touched(r, next))
    BY DEF EditIncidentDetails
  <1> DEFINE u == [status |-> status, edits |-> r.timeline[n].edits + 1]
             v == [r.timeline[n] EXCEPT !.edits = @ + 1]
             next == [r EXCEPT !.status = status, !.links = links,
                               !.timeline = [r.timeline EXCEPT ![n] = u]]
             prose == [r EXCEPT !.timeline = [r.timeline EXCEPT ![n] = v]]
  <1>2. o \in Processes
    BY DEF Processes
  <1>3. /\ r \in Row /\ Told(r, used) /\ used \in Nat
        /\ r.kind = "incident" /\ tx[o].n \in DOMAIN r.timeline /\ tx[o].edits < used
    BY <1>2, RowOfTx DEF SeesVersion, Forms
  <1>4. r \in Incident /\ IncidentTold(r, used)
    BY <1>3, RowKinds DEF Told
  <1>5. n \in DOMAIN r.timeline
    BY <1>3, <1>4, TimelineAt DEF IncidentTold
  <1>6. r.timeline[n].edits \in Nat /\ r.timeline[n].edits + 1 <= used
    <2>1. r.timeline[n].edits = tx[o].edits
      BY <1>1 DEF SawLatest
    <2>2. r.timeline[n].edits \in Nat
      BY <1>4, <1>5, TimelineAt
    <2>3. QED
      BY <1>3, <2>1, <2>2
  <1>7. /\ u \in Update /\ u.status = status /\ u.edits <= used
        /\ v \in Update /\ v.status = r.timeline[n].status /\ v.edits <= used
    <2>1. r.timeline[n] \in Update
      BY <1>4, <1>5, TimelineAt
    <2>2. /\ u \in Update /\ v \in Update /\ v.status = r.timeline[n].status
          /\ v.edits = r.timeline[n].edits + 1
      BY <2>1, EditedUpdate
    <2>3. QED
      BY <1>6, <2>2
  <1>8. /\ [r.timeline EXCEPT ![n] = u] \in Seq(Update)
        /\ [r.timeline EXCEPT ![n] = v] \in Seq(Update)
    BY <1>4, <1>5, <1>7, EditedTimeline
  <1>9. /\ next = [r EXCEPT !.status = status, !.links = links,
                      !.timeline[n] = [status |-> status, edits |-> @.edits + 1]]
        /\ prose = [r EXCEPT !.timeline[n].edits = @ + 1]
    BY <1>4, <1>5, TimelineAt DEF Incident, Update
  <1>10. /\ Valid(next)
         /\ r.status = "RESOLVED" => Commit(o, "details", [event EXCEPT ![e] = prose], {})
         /\ r.status # "RESOLVED" =>
               Commit(o, "details", [event EXCEPT ![e] = next], Touched(r, next))
    BY <1>1, <1>9
  <1>11. tx[o].n = n /\ tx[o].edits = r.timeline[n].edits
    BY <1>1 DEF SawLatest
  <1> HIDE DEF e, r, n, u, v
  <1>12. /\ next \in Incident /\ next.status = status /\ next.links = links
         /\ next.timeline = [r.timeline EXCEPT ![n] = u]
         /\ prose \in Incident /\ prose.status = r.status /\ prose.links = r.links
         /\ prose.timeline = [r.timeline EXCEPT ![n] = v]
         /\ next.kind = "incident" /\ prose.kind = "incident"
    BY <1>4, <1>8 DEF Incident
  <1> HIDE DEF next, prose
  <1>13. next \in Row /\ prose \in Row
    BY <1>12 DEF Row
  <1>14. n = Len(r.timeline) /\ n \in Nat /\ r.timeline[n].status = r.status
    BY <1>3, <1>4, TimelineAt DEF n, IncidentTold, Last
  <1>15. CASE r.status = "RESOLVED"
    <2>1. Valid(prose)
      BY <1>12, <1>15 DEF Valid
    <2>2. Told(prose, used) /\ Grows(r, prose)
      <3>1. /\ r \in Incident /\ IncidentTold(r, used) /\ used \in Nat
            /\ n \in DOMAIN r.timeline /\ v \in Update /\ v.edits <= used
        BY <1>3, <1>4, <1>5, <1>7
      <3>2. prose \in Incident /\ prose.timeline = [r.timeline EXCEPT ![n] = v]
        BY <1>12
      <3>3. /\ n < Len(r.timeline) => v.status # "RESOLVED"
            /\ prose.status = IF n = Len(r.timeline) THEN v.status ELSE r.status
        BY <1>7, <1>12, <1>14
      <3>4. QED
        BY ONLY <2>1, <3>1, <3>2, <3>3, UpdateEdited
    <2>3. \A c \in Components : c \in {} \/ Shows(prose, c) = Shows(r, c)
      <3>1. /\ r \in Row /\ r.kind = "incident" /\ r.status = "RESOLVED"
            /\ prose \in Row /\ prose.kind = "incident" /\ prose.status = "RESOLVED"
        BY <1>3, <1>12, <1>13, <1>15
      <3>2. QED
        BY ONLY <3>1, ShownByLinks
    <2>4. Revises(tx[o], r, prose)
      BY <1>4, <1>5, <1>7, <1>12, <1>15, <1>11, RevisedByEdit
    <2>5. QED
      BY <1>10, <1>13, <1>15, <2>2, <2>3, <2>4, Written DEF e, r, Forms
  <1>16. CASE r.status # "RESOLVED"
    <2>1. Told(next, used) /\ Grows(r, next)
      <3>1. /\ n < Len(r.timeline) => u.status # "RESOLVED"
            /\ next.status = IF n = Len(r.timeline) THEN u.status ELSE r.status
        BY <1>7, <1>12, <1>14
      <3>2. Valid(next)
        BY <1>10
      <3>3. QED
        <4>1. /\ r \in Incident /\ IncidentTold(r, used) /\ used \in Nat
              /\ n \in DOMAIN r.timeline /\ u \in Update /\ u.edits <= used
          BY <1>3, <1>4, <1>5, <1>7
        <4>2. next \in Incident /\ next.timeline = [r.timeline EXCEPT ![n] = u]
          BY <1>12
        <4>3. QED
          BY ONLY <3>1, <3>2, <4>1, <4>2, UpdateEdited
    <2>2. \A c \in Components : c \in Touched(r, next) \/ Shows(next, c) = Shows(r, c)
      <3>1. /\ r \in Row /\ r.kind = "incident"
            /\ next \in Row /\ next.kind = "incident"
        BY <1>3, <1>12, <1>13
      <3>2. QED
        BY ONLY <3>1, ShownByLinks DEF Touched
    <2>3. Revises(tx[o], r, next)
      BY <1>4, <1>5, <1>7, <1>12, <1>16, <1>11, RevisedByEdit
    <2>4. QED
      BY <1>10, <1>13, <1>16, <2>1, <2>2, <2>3, Written DEF e, r, Forms
  <1>17. QED
    BY <1>15, <1>16

LEMMA EditIncidentUpdateWrites ==
    ASSUME BoardInv, NEW o \in Operators, tx[o].op = "timeline", EditIncidentUpdate(o)
    PROVE  Writes(o)
  <1> DEFINE e == tx[o].event
             n == tx[o].n
             r == event[e]
             newest == n = Len(r.timeline)
  <1>1. PICK status \in IncidentStatuses :
           LET edited == [r EXCEPT !.timeline[n] = [status |-> status, edits |-> @.edits + 1]]
               next == [edited EXCEPT !.status = status]
           IN  /\ TimelineEditAllowed(r, r.timeline[n].status, status, newest)
               /\ SawLatest(o)
               /\ newest => Valid(next)
               /\ IF newest /\ r.status # "RESOLVED"
                  THEN Commit(o, "timeline", [event EXCEPT ![e] = next], DOMAIN r.links)
                  ELSE Commit(o, "timeline", [event EXCEPT ![e] = edited], {})
    BY DEF EditIncidentUpdate
  <1> DEFINE u == [status |-> status, edits |-> r.timeline[n].edits + 1]
             edited == [r EXCEPT !.timeline = [r.timeline EXCEPT ![n] = u]]
             next == [r EXCEPT !.timeline = [r.timeline EXCEPT ![n] = u], !.status = status]
  <1>2. o \in Processes
    BY DEF Processes
  <1>3. /\ r \in Row /\ Told(r, used) /\ used \in Nat
        /\ r.kind = "incident" /\ n \in DOMAIN r.timeline /\ tx[o].edits < used
    BY <1>2, RowOfTx DEF SeesVersion, Forms
  <1>4. r \in Incident /\ IncidentTold(r, used)
    BY <1>3, RowKinds DEF Told
  <1>5. r.timeline[n].edits \in Nat /\ r.timeline[n].edits + 1 <= used
    <2>1. r.timeline[n].edits = tx[o].edits
      BY <1>1 DEF SawLatest
    <2>2. r.timeline[n].edits \in Nat
      BY <1>3, <1>4, TimelineAt
    <2>3. QED
      BY <1>3, <2>1, <2>2
  <1>6. u \in Update /\ u.status = status /\ u.edits <= used
    <2>1. r.timeline[n] \in Update
      BY <1>3, <1>4, TimelineAt
    <2>2. u \in Update
      BY <2>1, EditedUpdate
    <2>3. QED
      BY <1>5, <2>2
  <1>7. [r.timeline EXCEPT ![n] = u] \in Seq(Update)
    BY <1>3, <1>4, <1>6, EditedTimeline
  <1>8. /\ edited = [r EXCEPT !.timeline[n] = [status |-> status, edits |-> @.edits + 1]]
        /\ next = [edited EXCEPT !.status = status]
    BY <1>3, <1>4, TimelineAt DEF Incident, Update
  <1>9. /\ TimelineEditAllowed(r, r.timeline[n].status, status, newest)
        /\ newest => Valid(next)
        /\ newest /\ r.status # "RESOLVED" =>
              Commit(o, "timeline", [event EXCEPT ![e] = next], DOMAIN r.links)
        /\ ~(newest /\ r.status # "RESOLVED") =>
              Commit(o, "timeline", [event EXCEPT ![e] = edited], {})
    BY <1>1, <1>8
  <1>10. tx[o].n = n /\ tx[o].edits = r.timeline[n].edits
    BY <1>1 DEF SawLatest
  <1> HIDE DEF e, r, n, u
  <1>11. /\ next \in Incident /\ next.status = status /\ next.links = r.links
         /\ next.timeline = [r.timeline EXCEPT ![n] = u]
         /\ edited \in Incident /\ edited.status = r.status /\ edited.links = r.links
         /\ edited.timeline = [r.timeline EXCEPT ![n] = u]
         /\ next.kind = "incident" /\ edited.kind = "incident"
    BY <1>4, <1>7 DEF Incident
  <1> HIDE DEF next, edited
  <1>12. next \in Row /\ edited \in Row
    BY <1>11 DEF Row
  <1>13. Len(r.timeline) \in Nat /\ n \in 1..Len(r.timeline)
    BY <1>3, <1>4, TimelineAt
  <1>14. newest => r.timeline[n].status = r.status
    BY <1>3, <1>4 DEF IncidentTold, Last
  <1>15. CASE newest /\ r.status # "RESOLVED"
    <2>1. Told(next, used) /\ Grows(r, next)
      <3>1. /\ n < Len(r.timeline) => u.status # "RESOLVED"
            /\ next.status = IF n = Len(r.timeline) THEN u.status ELSE r.status
        BY <1>6, <1>11, <1>13, <1>15
      <3>2. Valid(next)
        BY <1>9, <1>15
      <3>3. QED
        BY <1>3, <1>4, <1>6, <1>11, <3>1, <3>2, UpdateEdited
    <2>2. \A c \in Components : c \in DOMAIN r.links \/ Shows(next, c) = Shows(r, c)
      BY <1>3, <1>11, <1>12, ShownByLinks
    <2>3. Revises(tx[o], r, next)
      BY <1>3, <1>4, <1>6, <1>11, <1>15, <1>10, RevisedByEdit
    <2>4. QED
      BY <1>9, <1>12, <1>15, <2>1, <2>2, <2>3, Written DEF e, r, Forms
  <1>16. CASE ~(newest /\ r.status # "RESOLVED")
    <2>1. Valid(r)
      BY <1>3, <1>4 DEF IncidentTold
    <2>2. Valid(edited)
      BY <1>11, <2>1, ValidByLinks
    <2>3. n < Len(r.timeline) => u.status # "RESOLVED"
      BY <1>3, <1>4, <1>6, <1>9, <1>13 DEF IncidentTold, TimelineEditAllowed
    <2>4. edited.status = IF n = Len(r.timeline) THEN u.status ELSE r.status
      BY <1>6, <1>9, <1>11, <1>14, <1>16 DEF TimelineEditAllowed
    <2>5. Told(edited, used) /\ Grows(r, edited)
      BY <1>3, <1>4, <1>6, <1>11, <2>2, <2>3, <2>4, UpdateEdited
    <2>6. \A c \in Components : c \in {} \/ Shows(edited, c) = Shows(r, c)
      BY <1>3, <1>11, <1>12 DEF Shows, IsOpen, IsRunning
    <2>7. Revises(tx[o], r, edited)
      <3>1. r.status = "RESOLVED" => /\ edited.status = "RESOLVED" /\ edited.links = r.links
                                     /\ u.status = r.timeline[n].status
        BY <1>6, <1>9, <1>11 DEF TimelineEditAllowed
      <3>2. QED
        BY <1>3, <1>4, <1>6, <1>11, <1>10, <3>1, RevisedByEdit
    <2>8. QED
      BY <1>9, <1>12, <1>16, <2>5, <2>6, <2>7, Written DEF e, r, Forms
  <1>17. QED
    BY <1>15, <1>16

LEMMA Spent ==
    ASSUME BoardInv, SpendAction
    PROVE  /\ used' \in 0..MaxActions /\ used' \in Nat /\ used \in Nat /\ used < used'
           /\ used <= used'
  <1>1. used \in 0..MaxActions /\ MaxActions \in Nat
    BY DEF BoardInv, BoardTyped
  <1>2. QED
    BY <1>1 DEF SpendAction

\* A new row, which no transaction is about yet.
LEMMA CreateInv ==
    ASSUME BoardInv, NEW r \in Row, NEW cs, SpendAction, Len(event) < MaxEvents,
           event' = Append(event, r), Reconcile(cs, event'),
           UNCHANGED <<active, time, tx, sweep>>, Told(r, used'),
           \A c \in Components : c \in cs \/ Shows(r, c) = {}
    PROVE  BoardInv'
  <1>1. /\ used' \in 0..MaxActions /\ used' \in Nat /\ used \in Nat /\ used <= used'
    BY Spent
  <1>2. /\ RowsHold' /\ ComponentsHold'
        /\ DOMAIN event \subseteq DOMAIN event'
        /\ \A f \in DOMAIN event : event'[f] = event[f]
    BY ONLY BoardInv, r \in Row, event' = Append(event, r), Reconcile(cs, event'),
            Len(event) < MaxEvents, Told(r, used'),
            \A c \in Components : c \in cs \/ Shows(r, c) = {}, <1>1, RowAppended
  <1>3. tx' \in [Processes -> Transaction]
    BY DEF BoardInv, TxsHold
  <1>4. TxsHold'
    BY <1>1, <1>2, <1>3, TxsStay
  <1>5. SweepHolds'
    BY <1>2, SweepStays
  <1>6. QED
    BY <1>1, <1>2, <1>4, <1>5 DEF BoardInv, BoardTyped

LEMMA CreateIncidentInv ==
    ASSUME BoardInv, NEW o \in Operators, CreateIncident(o)
    PROVE  BoardInv'
  <1>1. PICK status \in IncidentStatuses, links \in Links :
           LET r == [kind |-> "incident", status |-> status, links |-> links,
                     timeline |-> <<[status |-> status, edits |-> 0]>>]
           IN  /\ Len(event) < MaxEvents /\ Valid(r) /\ SpendAction
               /\ event' = Append(event, r) /\ Reconcile(DOMAIN links, event')
               /\ UNCHANGED <<active, time, tx, sweep>>
    BY DEF CreateIncident
  <1> DEFINE u == [status |-> status, edits |-> 0]
             r == [kind |-> "incident", status |-> status, links |-> links,
                   timeline |-> <<u>>]
  <1>2. u \in Update /\ u.status = status /\ u.edits = 0
    BY DEF Update
  <1>3. <<u>> \in Seq(Update) /\ Len(<<u>>) = 1 /\ <<u>>[1] = u /\ DOMAIN <<u>> = 1..1
        /\ <<u>> # << >>
    BY <1>2
  <1>4. /\ r \in Incident /\ r.kind = "incident" /\ r.links = links /\ r.timeline = <<u>>
        /\ r.status = status
    BY <1>3 DEF Incident
  <1>5. used' \in Nat
    BY <1>1, Spent
  <1>6. Valid(r) /\ event' = Append(event, r)
    BY <1>1
  <1> HIDE DEF r
  <1>7. Told(r, used')
    <2>1. Last(r.timeline).status = r.status
      BY <1>2, <1>3, <1>4 DEF Last
    <2>2. \A i \in DOMAIN r.timeline : i = 1
      BY <1>3, <1>4
    <2>3. r.timeline[1].edits <= used' /\ Len(r.timeline) = 1
      BY <1>2, <1>3, <1>4, <1>5
    <2>4. \A i \in DOMAIN r.timeline :
             /\ r.timeline[i].edits <= used'
             /\ i < Len(r.timeline) => r.timeline[i].status # "RESOLVED"
      BY <2>2, <2>3
    <2>5. IncidentTold(r, used')
      BY <1>3, <1>4, <1>6, <2>1, <2>4 DEF IncidentTold
    <2>6. QED
      BY <1>4, <2>5 DEF Told, WindowTold
  <1>8. r \in Row
    BY <1>4 DEF Row
  <1>9. \A c \in Components : c \in DOMAIN links \/ Shows(r, c) = {}
    BY <1>4, <1>8, ShownByLinks
  <1>10. QED
    BY <1>1, <1>6, <1>7, <1>8, <1>9, CreateInv

LEMMA CreateMaintenanceInv ==
    ASSUME BoardInv, NEW o \in Operators, CreateMaintenance(o)
    PROVE  BoardInv'
  <1>1. PICK w \in Windows, auto \in BOOLEAN, S \in SUBSET Components :
           LET r == [kind |-> "maintenance", stage |-> "SCHEDULED",
                     window |-> w, auto |-> auto, reminded |-> FALSE, links |-> S,
                     posts |-> <<[by |-> "operator", what |-> "SCHEDULED"]>>]
           IN  /\ Len(event) < MaxEvents /\ SpendAction
               /\ event' = Append(event, r)
               /\ UNCHANGED <<active, time, component, tx, sweep>>
    BY DEF CreateMaintenance
  <1> DEFINE p == [by |-> "operator", what |-> "SCHEDULED"]
             r == [kind |-> "maintenance", stage |-> "SCHEDULED",
                   window |-> w, auto |-> auto, reminded |-> FALSE, links |-> S,
                   posts |-> <<p>>]
  <1>2. p \in Post
    BY DEF Post, Stages
  <1>3. <<p>> \in Seq(Post) /\ <<p>>[1] = p /\ DOMAIN <<p>> = 1..1
    BY <1>2
  <1>4. /\ r \in Maintenance /\ r.kind = "maintenance" /\ r.stage = "SCHEDULED"
        /\ r.posts = <<p>> /\ ~r.reminded
    BY <1>3 DEF Maintenance, Stages
  <1>5. event' = Append(event, r)
    BY <1>1
  <1> HIDE DEF r
  <1>6. Told(r, used')
    <2>1. \A i \in DOMAIN r.posts : i = 1 /\ r.posts[i] = p
      BY <1>3, <1>4
    <2>2. \A i, j \in DOMAIN r.posts : ~(j < i)
      BY <2>1
    <2>3. QED
      BY <1>4, <2>1, <2>2 DEF Told, WindowTold, IncidentTold
  <1>7. r \in Row
    BY <1>4 DEF Row
  <1>8. \A c \in Components : c \in {} \/ Shows(r, c) = {}
    BY <1>4, <1>7, ShownByLinks DEF IsRunning
  <1>9. Reconcile({}, event')
    <2>1. component \in [Components -> Component]
      BY DEF BoardInv, ComponentsHold
    <2>2. component' = [c \in Components |-> component[c]]
      BY <1>1, <2>1
    <2>3. QED
      BY <2>2 DEF Reconcile
  <1>10. QED
    BY <1>1, <1>5, <1>6, <1>7, <1>8, <1>9, CreateInv

LEMMA SetMaintenanceStatusWrites ==
    ASSUME BoardInv, NEW o \in Operators, tx[o].op = "transition", SetMaintenanceStatus(o)
    PROVE  Writes(o)
  <1> DEFINE e == tx[o].event
             r == event[e]
  <1>1. PICK stage \in Stages :
           /\ MayMove(r.stage, stage)
           /\ Commit(o, "transition", [event EXCEPT ![e] = Moved(@, "operator", stage)], r.links)
    BY DEF SetMaintenanceStatus
  <1> DEFINE next == Moved(r, "operator", stage)
  <1>2. r \in Row /\ r.kind = "maintenance" /\ Told(r, used) /\ used \in Nat /\ e \in DOMAIN event
    BY RowOfTx DEF Processes, Awaits
  <1>3. r \in Maintenance /\ WindowTold(r)
    BY <1>2, RowKinds DEF Told
  <1>4. Commit(o, "transition", [event EXCEPT ![e] = next], r.links)
    BY <1>1
  <1>5. next \in Maintenance /\ Told(next, used) /\ next.links = r.links
    BY <1>1, <1>2, <1>3, WindowMoved
  <1> HIDE DEF next, e, r
  <1>6. next \in Row /\ next.kind = "maintenance"
    BY <1>5 DEF Row, Maintenance
  <1>7. Grows(r, next)
    BY <1>2 DEF Grows
  <1>8. \A c \in Components : c \in r.links \/ Shows(next, c) = Shows(r, c)
    BY <1>2, <1>5, <1>6, ShownByLinks
  <1>9. Revises(tx[o], r, next)
    BY <1>2 DEF Revises
  <1>10. QED
    BY <1>4, <1>5, <1>6, <1>7, <1>8, <1>9, Written DEF e, r

LEMMA DeleteMaintenanceInv ==
    ASSUME BoardInv, NEW o \in Operators, NEW e \in DOMAIN event, DeleteMaintenance(o, e)
    PROVE  BoardInv'
  <1> DEFINE r == event[e]
             holder == {p \in Processes : tx[p].op \in RowFirst /\ tx[p].event = e}
  <1>1. /\ r.kind = "maintenance" /\ SpendAction /\ holder \subseteq {Sweep}
        /\ event' = [event EXCEPT ![e] = Deleted]
        /\ Reconcile(r.links, event') /\ UNCHANGED <<active, time>>
    BY DEF DeleteMaintenance
  <1>2. IF Sweep \in holder
        THEN tx' = [tx EXCEPT ![Sweep] = Idle] /\ sweep' = AtRest
        ELSE UNCHANGED <<tx, sweep>>
    BY DEF DeleteMaintenance
  <1>3. /\ used' \in 0..MaxActions /\ used' \in Nat /\ used \in Nat /\ used <= used'
    BY <1>1, Spent
  <1>4. event \in Seq(Row) /\ tx \in [Processes -> Transaction] /\ Sweep \in Processes
    BY DEF BoardInv, RowsHold, TxsHold, Processes
  <1>5. r \in Row /\ Deleted \in Row /\ Deleted.kind = "deleted"
    BY <1>4, RowAt DEF Row, Deleted
  <1>6. Told(Deleted, used')
    BY <1>5 DEF Told, IncidentTold, WindowTold
  <1>7. \A c \in Components : c \in r.links \/ Shows(Deleted, c) = Shows(r, c)
    BY <1>1, <1>5, ShownByLinks
  <1>8. /\ RowsHold' /\ ComponentsHold'
        /\ DOMAIN event' = DOMAIN event
        /\ \A f \in DOMAIN event : event'[f] = IF f = e THEN Deleted ELSE event[f]
    BY ONLY BoardInv, e \in DOMAIN event, <1>1, <1>3, <1>5, <1>6, <1>7, RowWritten
  <1>9. \A f \in DOMAIN event : event'[f] = event[f] \/ Grows(event[f], event'[f])
    BY <1>1, <1>8 DEF Grows
  <1>10. \A q \in Processes : q \notin holder /\ tx[q].event = e => Awaits(tx[q], Deleted)
    BY DEF Awaits, RowFirst
  <1>11. CASE Sweep \in holder
    <2>1. tx' = [tx EXCEPT ![Sweep] = Idle] /\ sweep' = AtRest
      BY <1>2, <1>11
    <2>2. tx' \in [Processes -> Transaction]
      BY <1>4, <2>1, IdleTyped
    <2>3. \A q \in Processes :
             \/ tx'[q] = Idle
             \/ /\ tx'[q] = tx[q]
                /\ \A f \in DOMAIN event : tx[q].event = f =>
                      event'[f] = event[f] \/ Awaits(tx[q], event'[f])
      BY <1>1, <1>4, <1>8, <1>10, <2>1
    <2>4. TxsHold'
      BY <1>3, <1>8, <1>9, <2>2, <2>3, TxsStay
    <2>5. tx'[Sweep].op = "none"
      BY <1>4, <2>1 DEF Idle
    <2>6. SweepHolds'
      BY <2>1, <2>5, SweepRests
    <2>7. QED
      BY <1>1, <1>3, <1>8, <2>4, <2>6 DEF BoardInv, BoardTyped
  <1>12. CASE Sweep \notin holder
    <2>1. UNCHANGED <<tx, sweep>>
      BY <1>2, <1>12
    <2>2. \A q \in Processes :
             /\ tx'[q] = tx[q]
             /\ \A f \in DOMAIN event : tx[q].event = f =>
                   event'[f] = event[f] \/ Awaits(tx[q], event'[f])
      BY <1>1, <1>8, <1>10, <1>12, <2>1
    <2>3. TxsHold'
      BY <1>3, <1>4, <1>8, <1>9, <2>1, <2>2, TxsStay
    <2>4. SweepHolds'
      BY <1>8, <2>1, SweepStays
    <2>5. QED
      BY <1>1, <1>3, <1>8, <2>3, <2>4 DEF BoardInv, BoardTyped
  <1>13. QED
    BY <1>11, <1>12

LEMMA SetComponentStatusInv ==
    ASSUME BoardInv, NEW o \in Operators, SetComponentStatus(o)
    PROVE  BoardInv'
  <1> DEFINE c == tx[o].component
  <1>1. PICK status \in ComponentStatuses :
           /\ tx[o].op = "status"
           /\ component' = [component EXCEPT
                 ![c] = Reconciled([component[c] EXCEPT !.manual = status], c, event)]
           /\ tx' = [tx EXCEPT ![o] = Idle]
           /\ UNCHANGED <<active, time, event, sweep, used>>
    BY DEF SetComponentStatus
  <1>2. o \in Processes /\ Sweep \in Processes /\ o # Sweep
    BY DEF Processes
  <1>3. /\ c \in Components /\ event \in Seq(Row)
        /\ component \in [Components -> Component] /\ used \in Nat
        /\ tx \in [Processes -> Transaction]
    BY <1>1, <1>2 DEF BoardInv, TxsHold, TxFits, RowsHold, ComponentsHold, BoardTyped
  <1> DEFINE row == [component[c] EXCEPT !.manual = status]
             next == Reconciled(row, c, event)
  <1>4. row \in Component
    BY <1>3 DEF Component
  <1> HIDE DEF c, row
  <1>5. next \in Component /\ next.status = WorstStatus(c, event, next.manual)
    BY <1>3, <1>4, ReconciledRow
  <1>6. component' = [component EXCEPT ![c] = next]
    BY <1>1 DEF c, row
  <1> HIDE DEF next
  <1>7. component' \in [Components -> Component]
    BY <1>3, <1>5, <1>6
  <1>8. ASSUME NEW d \in Components
        PROVE  component'[d].status = WorstStatus(d, event', component'[d].manual)
    <2>1. component[d].status = WorstStatus(d, event, component[d].manual)
      BY DEF BoardInv, ComponentsHold, StatusIsWorst
    <2>2. component'[d] = IF d = c THEN next ELSE component[d]
      BY <1>3, <1>6
    <2>3. event' = event
      BY <1>1
    <2>4. QED
      BY <1>5, <2>1, <2>2, <2>3
  <1>9. ComponentsHold'
    BY <1>7, <1>8 DEF ComponentsHold, StatusIsWorst
  <1>10. RowsHold'
    BY <1>1 DEF BoardInv, RowsHold
  <1>11. TxsHold'
    <2>1. UNCHANGED event /\ used' \in Nat /\ used <= used'
      BY <1>1, <1>2, <1>3
    <2>2. QED
      BY <1>1, <1>2, <2>1, TxEnds
  <1>12. SweepHolds'
    BY <1>1, <1>2, <1>3, SweepStays
  <1>13. QED
    BY <1>1, <1>9, <1>10, <1>11, <1>12 DEF BoardInv, BoardTyped

\* A transaction or a form begins with what it has found.
LEMMA BeginInv ==
    ASSUME BoardInv, NEW o \in Operators, NEW t \in Transaction, SpendAction,
           tx' = [tx EXCEPT ![o] = t], UNCHANGED <<active, time, component, event, sweep>>,
           TxFits(t, event, used'), t.op # "remind"
    PROVE  BoardInv'
  <1>1. /\ used' \in 0..MaxActions /\ used' \in Nat /\ used \in Nat /\ used <= used'
    BY Spent
  <1>2. o \in Processes /\ Sweep \in Processes /\ o # Sweep
    BY DEF Processes
  <1>3. tx \in [Processes -> Transaction]
    BY DEF BoardInv, TxsHold
  <1>4. TxsHold'
    <2>1. tx' \in [Processes -> Transaction]
      BY <1>3
    <2>2. \A p \in Processes : tx'[p] = tx[p] \/ (p = o /\ tx'[p] = t)
      BY <1>3
    <2>3. TxFits(t, event', used')
      OBVIOUS
    <2>4. QED
      BY <1>1, <2>1, <2>2, <2>3, TxsStay
  <1>5. RowsHold' /\ ComponentsHold'
    BY <1>1, BoardKept
  <1>6. SweepHolds'
    BY <1>2, <1>3, SweepStays
  <1>7. QED
    BY <1>1, <1>4, <1>5, <1>6 DEF BoardInv, BoardTyped

LEMMA OperatorBeginsInv ==
    ASSUME BoardInv, NEW o \in Operators, OperatorBegins(o)
    PROVE  BoardInv'
  <1>1. /\ event \in Seq(Row) /\ Len(event) \in Nat /\ Len(event) <= MaxEvents
        /\ DOMAIN event = 1..Len(event)
        /\ used \in 0..MaxActions /\ MaxActions \in Nat /\ MaxEvents \in Nat
    BY LenProperties DEF BoardInv, RowsHold, BoardTyped
  <1>2. /\ DOMAIN event \subseteq 0..MaxEvents /\ 0 \in 0..MaxEvents
        /\ 0 \in 0..(MaxActions + 1) /\ 0 \in 0..MaxActions
    BY <1>1
  <1>3. ASSUME NEW e \in DOMAIN event, NEW op \in {"update", "transition"}, BeginRow(o, op, e)
        PROVE  BoardInv'
    <2> DEFINE t == [op |-> op, event |-> e, component |-> None, n |-> 0, edits |-> 0]
    <2>1. /\ tx' = [tx EXCEPT ![o] = t] /\ SpendAction
          /\ UNCHANGED <<active, time, component, event, sweep>>
          /\ \/ op = "update" /\ IsOpen(event[e])
             \/ op = "transition" /\ event[e].kind = "maintenance"
      BY <1>3 DEF BeginRow, Begin
    <2>2. t \in Transaction
      BY <1>2 DEF Transaction, RowFirst
    <2>3. TxFits(t, event, used')
      BY <2>1 DEF TxFits, Awaits, SeesVersion, Forms
    <2>4. QED
      BY <2>1, <2>2, <2>3, BeginInv
  <1>4. ASSUME NEW c \in Components, BeginStatus(o, c)
        PROVE  BoardInv'
    <2> DEFINE t == [op |-> "status", event |-> 0, component |-> c, n |-> 0, edits |-> 0]
    <2>1. /\ tx' = [tx EXCEPT ![o] = t] /\ SpendAction
          /\ UNCHANGED <<active, time, component, event, sweep>>
      BY <1>4 DEF BeginStatus, Begin
    <2>2. t \in Transaction
      BY <1>2 DEF Transaction, RowFirst
    <2>3. TxFits(t, event, used')
      BY <2>1 DEF TxFits, Forms
    <2>4. QED
      BY <2>1, <2>2, <2>3, BeginInv
  <1>5. ASSUME NEW e \in DOMAIN event, NEW op \in Forms, NEW n \in 1..(MaxActions + 1),
               OpenForm(o, op, e, n)
        PROVE  BoardInv'
    <2> DEFINE edits == event[e].timeline[n].edits
               t == [op |-> op, event |-> e, component |-> None, n |-> n, edits |-> edits]
    <2>1. /\ tx' = [tx EXCEPT ![o] = t] /\ SpendAction
          /\ UNCHANGED <<active, time, component, event, sweep>>
          /\ event[e].kind = "incident" /\ n \in DOMAIN event[e].timeline
      BY <1>5 DEF OpenForm, Begin
    <2>2. event[e] \in Incident /\ Told(event[e], used)
      BY <1>1, <2>1, RowAt, RowKinds DEF BoardInv, RowsHold
    <2>3. edits \in Nat /\ edits <= used
      BY <2>1, <2>2, TimelineAt DEF Told, IncidentTold
    <2>4. used' \in Nat /\ used < used'
      BY <2>1, Spent
    <2>5. edits < used' /\ edits \in 0..MaxActions /\ n \in 0..(MaxActions + 1)
      BY <1>1, <2>3, <2>4
    <2> HIDE DEF edits
    <2>6. t \in Transaction
      BY <1>2, <2>5 DEF Transaction
    <2>7. TxFits(t, event, used')
      BY <2>1, <2>5 DEF TxFits, Awaits, SeesVersion, Forms
    <2>8. t.op # "remind"
      BY DEF Forms
    <2>9. QED
      BY <2>1, <2>6, <2>7, <2>8, BeginInv DEF edits
  <1>6. QED
    BY <1>3, <1>4, <1>5 DEF OperatorBegins

LEMMA AbortInv ==
    ASSUME BoardInv, NEW o \in Operators, Abort(o)
    PROVE  BoardInv'
  <1>1. tx' = [tx EXCEPT ![o] = Idle] /\ UNCHANGED <<active, time, component, event, sweep, used>>
    BY DEF Abort
  <1>2. /\ o \in Processes /\ Sweep \in Processes /\ o # Sweep /\ used \in Nat
        /\ tx \in [Processes -> Transaction]
    BY DEF Processes, BoardInv, BoardTyped, TxsHold
  <1>3. RowsHold' /\ ComponentsHold'
    BY <1>1, <1>2, BoardKept
  <1>4. TxsHold'
    <2>1. UNCHANGED event /\ used' \in Nat /\ used <= used'
      BY <1>1, <1>2
    <2>2. QED
      BY <1>1, <1>2, <2>1, TxEnds
  <1>5. SweepHolds'
    BY <1>1, <1>2, SweepStays
  <1>6. QED
    BY <1>1, <1>3, <1>4, <1>5 DEF BoardInv, BoardTyped

-----------------------------------------------------------------------------
(* The steps of the sweep.                                                 *)

LEMMA SweepKnown ==
    ASSUME BoardInv
    PROVE  /\ Sweep \in Processes /\ tx \in [Processes -> Transaction]
           /\ event \in Seq(Row) /\ DOMAIN event = 1..Len(event) /\ Len(event) \in Nat
           /\ Len(event) <= MaxEvents /\ MaxEvents \in Nat
           /\ used \in Nat /\ used <= used /\ time \in 0..MaxTime
           /\ sweep \in SweepState
  <1>1. event \in Seq(Row)
    BY DEF BoardInv, RowsHold
  <1>2. DOMAIN event = 1..Len(event) /\ Len(event) \in Nat
    BY <1>1, LenProperties
  <1>3. QED
    BY <1>1, <1>2 DEF Processes, BoardInv, BoardTyped, RowsHold, TxsHold, SweepHolds

LEMMA SweepStartInv == ASSUME BoardInv, SweepStart PROVE BoardInv'
  <1> DEFINE Found(q) == {[id |-> e, stage |-> event[e].stage] :
                             e \in {i \in DOMAIN event : Due(q, event[i], time)}}
  <1>1. /\ sweep = AtRest /\ sweep' = [now |-> time, todo |-> [q \in Queries |-> Found(q)]]
        /\ UNCHANGED <<active, time, component, event, tx, used>>
    BY DEF SweepStart
  <1>2. /\ event \in Seq(Row) /\ DOMAIN event = 1..Len(event) /\ Len(event) \in Nat
        /\ Len(event) <= MaxEvents /\ MaxEvents \in Nat /\ used \in Nat /\ time \in 0..MaxTime
    BY SweepKnown
  <1>3. ASSUME NEW q \in Queries, NEW x \in Found(q)
        PROVE  /\ x \in Candidate /\ x.id \in DOMAIN event
               /\ q = "start" => x.stage = "SCHEDULED"
               /\ q = "complete" => x.stage \in {"IN_PROGRESS", "VERIFYING"}
    <2>1. PICK e \in DOMAIN event :
             Due(q, event[e], time) /\ x = [id |-> e, stage |-> event[e].stage]
      OBVIOUS
    <2>2. event[e] \in Maintenance
      BY <1>2, <2>1, RowAt, RowKinds DEF Due
    <2>3. event[e].stage \in Stages
      BY <2>2 DEF Maintenance
    <2>4. x \in Candidate
      BY <1>2, <2>1, <2>3 DEF Candidate
    <2>5. QED
      BY <2>1, <2>4 DEF Due, StartDue, EndDue
  <1> HIDE DEF Found
  <1>4. sweep'.todo = [q \in Queries |-> Found(q)] /\ sweep'.now = time
    BY <1>1
  <1>5. sweep' \in SweepState
    BY <1>1, <1>2, <1>3 DEF SweepState
  <1>6. tx[Sweep].op = "none"
    BY <1>1 DEF BoardInv, SweepHolds
  <1>7. SweepHolds'
    BY <1>1, <1>3, <1>4, <1>5, <1>6 DEF SweepHolds
  <1>8. RowsHold' /\ ComponentsHold' /\ TxsHold'
    BY <1>1, <1>2, BoardKept, TxsKept
  <1>9. QED
    BY <1>1, <1>7, <1>8 DEF BoardInv, BoardTyped

LEMMA SweepBeginInv ==
    ASSUME BoardInv, NEW q \in Queries, NEW x \in sweep.todo[q], SweepBegin(q, x)
    PROVE  BoardInv'
  <1>1. /\ Current(q, x) /\ tx[Sweep].op = "none" /\ Free(Sweep, x.id, {})
        /\ UNCHANGED <<active, time, component, event, used>>
    BY DEF SweepBegin
  <1>2. /\ Sweep \in Processes /\ tx \in [Processes -> Transaction] /\ used \in Nat
        /\ used <= used /\ sweep \in SweepState
    BY SweepKnown
  <1>3. x.id \in DOMAIN event
    BY DEF BoardInv, SweepHolds
  <1>4. RowsHold' /\ ComponentsHold'
    BY <1>1, <1>2, BoardKept
  <1>5. CASE StillThere(q, event[x.id])
    <2> DEFINE op == IF q = "remind" THEN "remind" ELSE "transition"
               t == [tx[Sweep] EXCEPT !.op = op, !.event = x.id]
    <2>1. sweep' = sweep /\ tx' = [tx EXCEPT ![Sweep] = t]
      BY <1>2, <1>5 DEF SweepBegin
    <2>2. x.id \in 0..MaxEvents
      BY <1>3, SweepKnown
    <2>3. t \in Transaction /\ t.op = op /\ t.event = x.id
      BY <1>2, <2>2 DEF Transaction, RowFirst
    <2>4. TxFits(t, event, used)
      BY <1>3, <1>5, <2>3 DEF TxFits, Awaits, SeesVersion, StillThere, Forms
    <2> HIDE DEF t
    <2>5. TxsHold'
      <3>1. tx' \in [Processes -> Transaction]
        BY <1>2, <2>1, <2>3
      <3>2. \A p \in Processes : tx'[p] = tx[p] \/ (p = Sweep /\ tx'[p] = t)
        BY <1>2, <2>1
      <3>3. TxFits(t, event', used') /\ used' \in Nat /\ used <= used' /\ Sweep \notin Operators
        BY <1>1, <1>2, <2>4
      <3>4. DOMAIN event \subseteq DOMAIN event' /\ \A e \in DOMAIN event : event'[e] = event[e]
        BY <1>1
      <3>5. QED
        BY <3>1, <3>2, <3>3, <3>4, TxsStay
    <2>6. tx'[Sweep].op = op
      BY <1>2, <2>1, <2>3
    <2>7. op = "transition" => sweep.todo["remind"] = {}
      BY <1>1 DEF Current, Queries
    <2>8. sweep # AtRest
      BY AtRestTyped
    <2>9. SweepHolds'
      BY <1>1, <2>1, <2>6, <2>7, <2>8 DEF BoardInv, SweepHolds
    <2>10. QED
      BY <1>1, <1>4, <2>5, <2>9 DEF BoardInv, BoardTyped
  <1>6. CASE ~StillThere(q, event[x.id])
    <2>1. Drop(q, x) /\ tx' = tx
      BY <1>6 DEF SweepBegin
    <2>2. TxsHold'
      BY <1>1, <1>2, <2>1, TxsKept
    <2>3. SweepHolds'
      BY <1>1, <2>1, SweepDrops
    <2>4. QED
      BY <1>1, <1>4, <2>2, <2>3 DEF BoardInv, BoardTyped
  <1>7. QED
    BY <1>5, <1>6

\* The sweep gives up what it was about, on a board that stays.
LEMMA SweepGivesUp ==
    ASSUME BoardInv, tx' = [tx EXCEPT ![Sweep] = Idle],
           UNCHANGED <<active, time, component, event>>,
           used' \in 0..MaxActions, used' \in Nat, used <= used',
           sweep' = AtRest \/ \E q \in Queries : \E x \in sweep.todo[q] : Drop(q, x)
    PROVE  BoardInv'
  <1>1. Sweep \in Processes /\ tx \in [Processes -> Transaction]
    BY SweepKnown
  <1>2. RowsHold' /\ ComponentsHold'
    BY BoardKept
  <1>3. TxsHold'
    BY <1>1, TxEnds
  <1>4. tx'[Sweep].op = "none"
    BY <1>1 DEF Idle
  <1>5. SweepHolds'
    BY <1>4, SweepRests, SweepDrops
  <1>6. QED
    BY <1>2, <1>3, <1>5 DEF BoardInv, BoardTyped

LEMMA SweepRefusedInv ==
    ASSUME BoardInv, NEW q \in Queries, NEW x \in sweep.todo[q], SweepRefused(q, x)
    PROVE  BoardInv'
  <1>1. used \in Nat /\ used \in 0..MaxActions
    BY DEF BoardInv, BoardTyped
  <1>2. /\ tx' = [tx EXCEPT ![Sweep] = Idle] /\ Drop(q, x)
        /\ UNCHANGED <<active, time, component, event, used>>
    BY DEF SweepRefused
  <1>3. used' \in 0..MaxActions /\ used' \in Nat /\ used <= used'
    BY <1>1, <1>2
  <1>4. QED
    BY <1>2, <1>3, SweepGivesUp

LEMMA SweepVictimInv == ASSUME BoardInv, SweepVictim PROVE BoardInv'
  <1>1. used \in Nat /\ used \in 0..MaxActions
    BY DEF BoardInv, BoardTyped
  <1>2. /\ tx' = [tx EXCEPT ![Sweep] = Idle] /\ sweep' = AtRest
        /\ UNCHANGED <<active, time, component, event, used>>
    BY DEF SweepVictim
  <1>3. used' \in 0..MaxActions /\ used' \in Nat /\ used <= used'
    BY <1>1, <1>2
  <1>4. QED
    BY <1>2, <1>3, SweepGivesUp

LEMMA CrashInv == ASSUME BoardInv, Crash PROVE BoardInv'
  BY Spent, SweepGivesUp DEF Crash

\* The sweep commits a new form of the row that it has locked.
LEMMA SweepCommits ==
    ASSUME BoardInv, NEW q \in Queries, NEW x, NEW e \in DOMAIN event, NEW r \in Row, NEW cs,
           event' = [event EXCEPT ![e] = r], Reconcile(cs, event'), Drop(q, x),
           tx' = [tx EXCEPT ![Sweep] = Idle], UNCHANGED <<active, time, used>>,
           Told(r, used), Grows(event[e], r),
           \A c \in Components : c \in cs \/ Shows(r, c) = Shows(event[e], c),
           \A o \in Operators : tx[o].event = e => Awaits(tx[o], r)
    PROVE  BoardInv'
  <1>1. Sweep \in Processes /\ tx \in [Processes -> Transaction] /\ used \in Nat
    BY SweepKnown
  <1>2. used' \in Nat /\ used <= used' /\ Told(r, used')
    BY <1>1
  <1>3. /\ RowsHold' /\ ComponentsHold'
        /\ DOMAIN event' = DOMAIN event
        /\ \A f \in DOMAIN event : event'[f] = IF f = e THEN r ELSE event[f]
    BY ONLY BoardInv, e \in DOMAIN event, r \in Row, event' = [event EXCEPT ![e] = r],
            Reconcile(cs, event'),
            \A c \in Components : c \in cs \/ Shows(r, c) = Shows(event[e], c),
            <1>2, RowWritten
  <1>4. TxsHold'
    <2>1. tx' \in [Processes -> Transaction]
      BY <1>1, IdleTyped
    <2>2. \A p \in Processes : p = Sweep \/ p \in Operators
      BY DEF Processes
    <2>3. \A p \in Processes :
             \/ tx'[p] = Idle
             \/ /\ tx'[p] = tx[p]
                /\ \A f \in DOMAIN event : tx[p].event = f =>
                      event'[f] = event[f] \/ Awaits(tx[p], event'[f])
      BY <1>1, <1>3, <2>2
    <2>4. \A f \in DOMAIN event : event'[f] = event[f] \/ Grows(event[f], event'[f])
      BY <1>3
    <2>5. QED
      BY <1>2, <1>3, <2>1, <2>3, <2>4, TxsStay
  <1>5. tx'[Sweep].op = "none"
    BY <1>1 DEF Idle
  <1>6. SweepHolds'
    BY <1>3, <1>5, SweepDrops
  <1>7. QED
    BY <1>3, <1>4, <1>6 DEF BoardInv, BoardTyped

LEMMA SendReminderInv ==
    ASSUME BoardInv, NEW x \in sweep.todo["remind"], SendReminder(x)
    PROVE  BoardInv'
  <1> DEFINE e == x.id
             r == event[e]
             next == [r EXCEPT !.reminded = TRUE,
                               !.posts = Append(@, [by |-> "sweep", what |-> "REMINDER"])]
  <1>1. /\ tx[Sweep].op = "remind" /\ tx[Sweep].event = e
        /\ event' = [event EXCEPT ![e] = next]
        /\ tx' = [tx EXCEPT ![Sweep] = Idle] /\ Drop("remind", x)
        /\ UNCHANGED <<active, time, component, used>>
    <2>1. event' = [event EXCEPT ![e].reminded = TRUE,
                        ![e].posts = Append(@, [by |-> "sweep", what |-> "REMINDER"])]
      BY DEF SendReminder
    <2>2. e \in DOMAIN event
      BY DEF BoardInv, SweepHolds, Queries
    <2>3. event \in Seq(Row) /\ DOMAIN event = 1..Len(event)
      BY SweepKnown
    <2>4. event' = [event EXCEPT ![e] = next]
      BY <2>1, <2>2, <2>3
    <2>5. QED
      BY <2>4 DEF SendReminder
  <1>2. /\ e \in DOMAIN event /\ r \in Row /\ Told(r, used) /\ used \in Nat
        /\ r.kind = "maintenance" /\ r.stage = "SCHEDULED" /\ ~r.reminded
    BY <1>1, SweepKnown, RowOfTx DEF Awaits
  <1>3. r \in Maintenance /\ WindowTold(r)
    BY <1>2, RowKinds DEF Told
  <1>4. /\ next \in Maintenance /\ Told(next, used) /\ next.kind = "maintenance"
        /\ next.stage = r.stage /\ next.links = r.links
    BY <1>2, <1>3, WindowReminded
  <1> HIDE DEF next, e, r
  <1>5. next \in Row
    BY <1>4 DEF Row
  <1>6. Grows(r, next)
    BY <1>2 DEF Grows
  <1>7. \A c \in Components : c \in {} \/ Shows(next, c) = Shows(r, c)
    BY <1>2, <1>4, <1>5, ShownByLinks DEF IsRunning
  <1>8. Reconcile({}, event')
    <2>1. component \in [Components -> Component]
      BY DEF BoardInv, ComponentsHold
    <2>2. component' = [c \in Components |-> component[c]]
      BY <1>1, <2>1
    <2>3. QED
      BY <2>2 DEF Reconcile
  <1>9. ASSUME NEW o \in Operators, tx[o].event = e PROVE Awaits(tx[o], next)
    <2>1. tx[o].op # "remind"
      BY DEF BoardInv, TxsHold
    <2>2. tx[o].op # "update"
      <3>1. SUFFICES ASSUME tx[o].op = "update" PROVE FALSE
        OBVIOUS
      <3>2. Awaits(tx[o], r)
        BY <1>9, <3>1, RowOfTx DEF Processes, r
      <3>3. QED
        BY <1>2, <3>1, <3>2 DEF Awaits, IsOpen
    <2>3. QED
      BY <1>4, <2>1, <2>2 DEF Awaits
  <1>10. "remind" \in Queries
    BY DEF Queries
  <1>11. QED
    BY <1>1, <1>2, <1>4, <1>5, <1>6, <1>7, <1>8, <1>9, <1>10, SweepCommits DEF r

LEMMA SweepTransitionInv ==
    ASSUME BoardInv, NEW q \in Queries, NEW x \in sweep.todo[q], SweepTransition(q, x)
    PROVE  BoardInv'
  <1> DEFINE to == IF q = "start" THEN "IN_PROGRESS" ELSE "COMPLETED"
             e == x.id
             r == event[e]
             next == Moved(r, "sweep", to)
  <1>1. /\ tx[Sweep].op = "transition" /\ tx[Sweep].event = e
        /\ tx' = [tx EXCEPT ![Sweep] = Idle] /\ UNCHANGED <<active, time, used>>
    BY DEF SweepTransition
  <1>2. /\ e \in DOMAIN event /\ r \in Row /\ Told(r, used) /\ used \in Nat
        /\ r.kind = "maintenance"
    BY <1>1, SweepKnown, RowOfTx DEF Awaits
  <1>3. r \in Maintenance /\ WindowTold(r)
    BY <1>2, RowKinds DEF Told
  <1>4. used' \in 0..MaxActions /\ used' \in Nat /\ used <= used'
    BY <1>1 DEF BoardInv, BoardTyped
  <1>5. CASE UNCHANGED <<event, component>> /\ (sweep' = AtRest \/ Drop(q, x))
    BY <1>1, <1>4, <1>5, SweepGivesUp
  <1>6. CASE /\ MayMove(r.stage, to) /\ AsExpected(x) /\ Drop(q, x)
             /\ Free(Sweep, e, r.links)
             /\ event' = [event EXCEPT ![e] = Moved(@, "sweep", to)]
             /\ Reconcile(r.links, event')
    <2>1. event' = [event EXCEPT ![e] = next]
      BY <1>6
    <2>2. \/ r.stage = "SCHEDULED" /\ to = "IN_PROGRESS"
          \/ r.stage # "COMPLETED" /\ to = "COMPLETED"
      <3>1. q # "remind"
        BY <1>1 DEF BoardInv, SweepHolds
      <3>2. r.stage = x.stage
        BY <1>6 DEF AsExpected
      <3>3. /\ q = "start" => x.stage = "SCHEDULED"
            /\ q = "complete" => x.stage \in {"IN_PROGRESS", "VERIFYING"}
        BY DEF BoardInv, SweepHolds
      <3>4. QED
        BY <3>1, <3>2, <3>3 DEF Queries
    <2>3. to \in Stages
      BY DEF Stages
    <2> HIDE DEF to, r
    <2>4. next \in Maintenance /\ Told(next, used) /\ next.links = r.links
      BY <1>2, <1>3, <1>6, <2>2, <2>3, WindowMoved
    <2> HIDE DEF next
    <2>5. next \in Row /\ next.kind = "maintenance"
      BY <2>4 DEF Row, Maintenance
    <2>6. Grows(r, next)
      BY <1>2 DEF Grows
    <2>7. \A c \in Components : c \in r.links \/ Shows(next, c) = Shows(r, c)
      BY <1>2, <2>4, <2>5, ShownByLinks
    <2>8. ASSUME NEW o \in Operators, tx[o].event = e PROVE Awaits(tx[o], next)
      <3>1. tx[o].op \notin RowFirst
        <4>1. o \in Processes \ {Sweep}
          BY DEF Processes
        <4>2. e # 0
          BY <1>2, SweepKnown
        <4>3. QED
          BY <1>6, <2>8, <4>1, <4>2 DEF Free
      <3>2. QED
        BY <3>1 DEF Awaits, RowFirst
    <2>9. /\ q \in Queries /\ Drop(q, x) /\ Reconcile(r.links, event')
          /\ tx' = [tx EXCEPT ![Sweep] = Idle] /\ UNCHANGED <<active, time, used>>
      BY <1>1, <1>6
    <2>10. \A c \in Components : c \in r.links \/ Shows(next, c) = Shows(event[e], c)
      BY <2>7 DEF r
    <2>11. Grows(event[e], next) /\ Told(next, used) /\ e \in DOMAIN event
      BY <1>2, <2>4, <2>6 DEF r
    <2>12. QED
      BY ONLY BoardInv, <2>1, <2>5, <2>8, <2>9, <2>10, <2>11, SweepCommits
  <1>7. QED
    BY <1>5, <1>6 DEF SweepTransition

-----------------------------------------------------------------------------
(* The environment, and the next-state relation.                           *)

LEMMA EnvironmentInv ==
    ASSUME BoardInv, Suspend \/ Reactivate \/ Tick
    PROVE  BoardInv'
  <1>1. /\ UNCHANGED <<component, event, tx, sweep>>
        /\ used' \in 0..MaxActions /\ used' \in Nat /\ used <= used'
    <2>1. used \in 0..MaxActions /\ used \in Nat /\ MaxActions \in Nat
      BY DEF BoardInv, BoardTyped
    <2>2. CASE Suspend
      BY <2>2, Spent DEF Suspend
    <2>3. CASE Reactivate \/ Tick
      BY <2>1, <2>3 DEF Reactivate, Tick
    <2>4. QED
      BY <2>2, <2>3
  <1>2. active' \in BOOLEAN /\ time' \in 0..MaxTime
    <2>1. active \in BOOLEAN /\ time \in 0..MaxTime /\ MaxTime \in Nat
      BY DEF BoardInv, BoardTyped
    <2>2. CASE Suspend
      BY <2>1, <2>2 DEF Suspend
    <2>3. CASE Reactivate
      BY <2>1, <2>3 DEF Reactivate
    <2>4. CASE Tick
      <3>1. time < MaxTime /\ time' = time + 1 /\ active' = active
        BY <2>4 DEF Tick
      <3>2. QED
        BY <2>1, <3>1
    <2>5. QED
      BY <2>2, <2>3, <2>4
  <1>3. RowsHold' /\ ComponentsHold'
    BY <1>1, BoardKept
  <1>4. TxsHold'
    BY <1>1, TxsKept
  <1>5. SweepHolds'
    BY <1>1, SweepStays
  <1>6. QED
    BY <1>1, <1>2, <1>3, <1>4, <1>5 DEF BoardInv, BoardTyped

LEMMA OperatorCommitsWrites ==
    ASSUME BoardInv, NEW o \in Operators, OperatorCommits(o)
    PROVE  Writes(o) \/ SetComponentStatus(o)
  BY AddIncidentUpdateWrites, EditIncidentDetailsWrites, EditIncidentUpdateWrites,
     SetMaintenanceStatusWrites DEF OperatorCommits

LEMMA OperatorCommitsInv ==
    ASSUME BoardInv, NEW o \in Operators, OperatorCommits(o)
    PROVE  BoardInv'
  <1>1. ASSUME Writes(o) PROVE BoardInv'
    BY <1>1, CommitInv DEF Writes
  <1>2. QED
    BY <1>1, OperatorCommitsWrites, SetComponentStatusInv

LEMMA OperatorActsInv ==
    ASSUME BoardInv, NEW o \in Operators, OperatorActs(o)
    PROVE  BoardInv'
  BY CreateIncidentInv, CreateMaintenanceInv, DeleteMaintenanceInv DEF OperatorActs

LEMMA SweepStepInv == ASSUME BoardInv, SweepStep PROVE BoardInv'
  <1>1. ASSUME NEW q \in Queries, NEW x \in sweep.todo[q],
               SweepBegin(q, x) \/ SweepRefused(q, x) \/ SweepTransition(q, x)
        PROVE  BoardInv'
    BY <1>1, SweepBeginInv, SweepRefusedInv, SweepTransitionInv
  <1>2. ASSUME NEW x \in sweep.todo["remind"], SendReminder(x) PROVE BoardInv'
    BY <1>2, SendReminderInv
  <1>3. QED
    BY <1>1, <1>2, SweepStartInv, SweepVictimInv DEF SweepStep

LEMMA NextInv == ASSUME BoardInv, [Next]_vars PROVE BoardInv'
  <1>1. ASSUME UNCHANGED vars PROVE BoardInv'
    BY <1>1 DEF vars, BoardInv, BoardTyped, RowsHold, ComponentsHold, StatusIsWorst, TxsHold,
                SweepHolds
  <1>2. ASSUME NEW o \in Operators,
               OperatorBegins(o) \/ OperatorCommits(o) \/ OperatorActs(o) \/ Abort(o)
        PROVE  BoardInv'
    BY <1>2, OperatorBeginsInv, OperatorCommitsInv, OperatorActsInv, AbortInv
  <1>3. QED
    BY <1>1, <1>2, SweepStepInv, EnvironmentInv, CrashInv DEF Next

LEMMA InitInv == Init => BoardInv
  <1> SUFFICES ASSUME Init PROVE BoardInv
    OBVIOUS
  <1>1. 0 \in 0..MaxTime /\ 0 \in 0..MaxActions /\ 0 <= MaxEvents
    OBVIOUS
  <1>2. event = << >> /\ event \in Seq(Row) /\ Len(event) = 0 /\ DOMAIN event = {}
    BY DEF Init
  <1>3. RowsHold
    BY <1>1, <1>2 DEF RowsHold
  <1>4. ComponentsHold
    <2> DEFINE row == [manual |-> "OPERATIONAL", status |-> "OPERATIONAL", excluded |-> FALSE]
    <2>1. component = [c \in Components |-> row] /\ row \in Component
      BY DEF Init, Component
    <2>2. ASSUME NEW c \in Components
          PROVE  WorstStatus(c, event, "OPERATIONAL") = "OPERATIONAL"
      <3>1. Sources(c, event, "OPERATIONAL") = {"OPERATIONAL"}
        BY <1>2 DEF Sources, MaintenanceActive
      <3>2. Severity["OPERATIONAL"] <= Severity["OPERATIONAL"]
        BY DEF Severity
      <3>3. QED
        BY <3>1, <3>2 DEF WorstStatus
    <2>3. QED
      BY <2>1, <2>2 DEF ComponentsHold, StatusIsWorst
  <1>5. TxsHold
    BY IdleTyped DEF Init, TxsHold, TxFits, Idle, Forms, Processes
  <1>6. SweepHolds
    BY AtRestTyped DEF Init, SweepHolds, Idle, Processes
  <1>7. QED
    BY <1>1, <1>3, <1>4, <1>5, <1>6 DEF BoardInv, BoardTyped, Init

\* Every row of the board tells what happened to it, every transaction finds
\* what it has locked, and every component shows the worst of its sources.
THEOREM BoardInvariance == Spec => []BoardInv
  BY InitInv, NextInv, PTL DEF Spec

\* Recovering from one source never clears another one, whatever the order in
\* which lib/domain/incidents.ts and lib/domain/maintenance.ts change them.
THEOREM StatusStaysWorst == Spec => []StatusIsWorst
  <1>1. BoardInv => StatusIsWorst
    BY DEF BoardInv, ComponentsHold
  <1>2. QED
    BY <1>1, BoardInvariance, PTL
\* What the public page tells of an incident stays consistent and complete:
\* the checks of lib/incident-validation.ts hold after every operation, not
\* only after the one that makes them.
THEOREM IncidentsStaySound == Spec => []IncidentsAreSound
  <1>1. ASSUME BoardInv PROVE TypeOK
    <2>1. Row = Incident \union Maintenance \union {Deleted}
      BY DEF Row
    <2>2. QED
      BY <1>1, <2>1 DEF BoardInv, BoardTyped, RowsHold, ComponentsHold, TxsHold, SweepHolds,
                        TypeOK, Component
  <1>2. ASSUME BoardInv, NEW e \in DOMAIN event, event[e].kind = "incident"
        PROVE  /\ event[e] \in Incident /\ IncidentTold(event[e], used)
    BY <1>2, RowAt, RowKinds DEF BoardInv, RowsHold, Told
  <1>3. ASSUME BoardInv PROVE TimelineAgrees
    <2>1. ASSUME NEW e \in DOMAIN event, event[e].kind = "incident"
          PROVE  /\ Last(event[e].timeline).status = event[e].status
                 /\ \A i \in 1..(Len(event[e].timeline) - 1) :
                       event[e].timeline[i].status # "RESOLVED"
      <3> DEFINE r == event[e]
      <3>1. r \in Incident /\ IncidentTold(r, used) /\ r.kind = "incident"
        BY <1>2, <1>3, <2>1
      <3> HIDE DEF r
      <3>2. Len(r.timeline) \in Nat /\ DOMAIN r.timeline = 1..Len(r.timeline)
        BY <3>1, TimelineAt
      <3>3. \A i \in 1..(Len(r.timeline) - 1) : i \in DOMAIN r.timeline /\ i < Len(r.timeline)
        BY <3>2
      <3>4. /\ Last(r.timeline).status = r.status
            /\ \A i \in 1..(Len(r.timeline) - 1) : r.timeline[i].status # "RESOLVED"
        BY <3>1, <3>3 DEF IncidentTold
      <3>5. QED
        BY <3>4 DEF r
    <2>2. QED
      BY <2>1 DEF TimelineAgrees
  <1>4. ASSUME BoardInv PROVE OpenIncidentsAreValid
    <2>1. ASSUME NEW e \in DOMAIN event, IsOpen(event[e])
          PROVE  /\ {event[e].links[c] : c \in DOMAIN event[e].links} # {}
                 /\ {event[e].links[c] : c \in DOMAIN event[e].links} = {"OPERATIONAL"}
                       => event[e].status = "MONITORING"
      <3>1. event[e].kind = "incident" /\ event[e].status # "RESOLVED"
        BY <2>1 DEF IsOpen
      <3>2. Valid(event[e])
        BY <1>2, <1>4, <3>1 DEF IncidentTold
      <3>3. QED
        BY <3>1, <3>2 DEF Valid
    <2>2. QED
      BY <2>1 DEF OpenIncidentsAreValid
  <1>5. BoardInv => IncidentsAreSound
    BY <1>1, <1>3, <1>4 DEF IncidentsAreSound
  <1>6. QED
    BY <1>5, BoardInvariance, PTL

\* Whatever an operator does between the sweep's queries and its transactions,
\* the posts of a window tell one story: a reminder and an automatic start come
\* first or not at all, and a completion is final.
THEOREM PostsStayOneStory == Spec => []PostsTellOneStory
  <1>1. ASSUME BoardInv, NEW e \in DOMAIN event, event[e].kind = "maintenance"
        PROVE  LET posts == event[e].posts
                   before(i) == {posts[j].what : j \in 1..(i - 1)}
               IN  \A i \in DOMAIN posts :
                      /\ posts[i].what = "REMINDER" => before(i) \subseteq {"SCHEDULED"}
                      /\ posts[i] = [by |-> "sweep", what |-> "IN_PROGRESS"] =>
                            before(i) \subseteq {"SCHEDULED", "REMINDER"}
                      /\ "COMPLETED" \in before(i) =>
                            posts[i] = [by |-> "operator", what |-> "COMPLETED"]
    <2> DEFINE posts == event[e].posts
               before(i) == {posts[j].what : j \in 1..(i - 1)}
    <2>1. event[e] \in Maintenance /\ WindowTold(event[e])
      BY <1>1, RowAt, RowKinds DEF BoardInv, RowsHold, Told
    <2>2. DOMAIN posts = 1..Len(posts) /\ Len(posts) \in Nat
      BY <2>1, LenProperties DEF Maintenance
    <2>3. \A i, j \in DOMAIN posts : j < i =>
             /\ posts[i].what = "REMINDER" => posts[j].what = "SCHEDULED"
             /\ posts[i] = [by |-> "sweep", what |-> "IN_PROGRESS"] =>
                   posts[j].what \in {"SCHEDULED", "REMINDER"}
             /\ posts[j].what = "COMPLETED" =>
                   posts[i] = [by |-> "operator", what |-> "COMPLETED"]
      BY <1>1, <2>1 DEF WindowTold
    <2> HIDE DEF posts
    <2>4. \A i \in DOMAIN posts : \A j \in 1..(i - 1) : j \in DOMAIN posts /\ j < i
      BY <2>2
    <2>5. \A i \in DOMAIN posts :
             /\ posts[i].what = "REMINDER" => before(i) \subseteq {"SCHEDULED"}
             /\ posts[i] = [by |-> "sweep", what |-> "IN_PROGRESS"] =>
                   before(i) \subseteq {"SCHEDULED", "REMINDER"}
             /\ "COMPLETED" \in before(i) =>
                   posts[i] = [by |-> "operator", what |-> "COMPLETED"]
      BY <2>3, <2>4
    <2>6. QED
      BY <2>5 DEF posts
  <1>2. BoardInv => PostsTellOneStory
    BY <1>1 DEF PostsTellOneStory
  <1>3. QED
    BY <1>2, BoardInvariance, PTL
-----------------------------------------------------------------------------
(* What a single step may do to the rows.                                  *)

SafeStep == ResolvedIsFinal /\ NoEditIsOverwritten /\ FrozenWhileSuspended

LEMMA IncidentsKeptIsSafe ==
    ASSUME active \/ UNCHANGED <<component, event>>,
           \A e \in DOMAIN event : event[e].kind = "incident" => event'[e] = event[e]
    PROVE  SafeStep
  BY DEF SafeStep, ResolvedIsFinal, NoEditIsOverwritten, FrozenWhileSuspended

LEMMA WindowWrittenIsSafe ==
    ASSUME BoardInv, active, NEW e \in DOMAIN event, event[e].kind = "maintenance",
           NEW r, event' = [event EXCEPT ![e] = r]
    PROVE  SafeStep
  <1>1. event \in Seq(Row)
    BY DEF BoardInv, RowsHold
  <1>2. \A f \in DOMAIN event : f # e => event'[f] = event[f]
    BY <1>1
  <1>3. \A f \in DOMAIN event : event[f].kind = "incident" => event'[f] = event[f]
    BY <1>2
  <1>4. QED
    BY <1>3, IncidentsKeptIsSafe

LEMMA WritesAreSafe ==
    ASSUME BoardInv, NEW o \in Operators, Writes(o)
    PROVE  SafeStep
  <1> DEFINE e == tx[o].event
  <1>1. PICK op \in {"update", "transition"} \union Forms, r \in Row :
           /\ \E cs : Commit(o, op, [event EXCEPT ![e] = r], cs)
           /\ Revises(tx[o], event[e], r)
    BY DEF Writes
  <1>2. /\ tx[o].op = op /\ active
        /\ event' = [event EXCEPT ![e] = r] /\ tx' = [tx EXCEPT ![o] = Idle]
    BY <1>1 DEF Commit, FenceHolds
  <1>3. o \in Processes /\ tx \in [Processes -> Transaction] /\ event \in Seq(Row)
    BY DEF Processes, BoardInv, TxsHold, RowsHold
  <1>4. e \in DOMAIN event
    BY <1>2, <1>3, RowOfTx
  <1>5. tx'[o] = Idle
    BY <1>2, <1>3
  <1>6. \A f \in DOMAIN event : event'[f] = IF f = e THEN r ELSE event[f]
    BY <1>2, <1>3, <1>4
  <1>7. Revises(tx[o], event[e], r)
    BY <1>1
  <1>8. ResolvedIsFinal
    BY <1>6, <1>7 DEF Revises, ResolvedIsFinal
  <1>9. NoEditIsOverwritten
    <2>1. ASSUME NEW f \in DOMAIN event, event[f].kind = "incident",
                 NEW n \in DOMAIN event[f].timeline,
                 event'[f].timeline[n] # event[f].timeline[n]
          PROVE  /\ tx[o].event = f /\ tx[o].n = n
                 /\ tx[o].edits = event[f].timeline[n].edits
      <3>1. f = e
        BY <1>6, <2>1
      <3>2. event'[f] = r
        BY <1>6, <3>1
      <3>3. QED
        BY <1>7, <2>1, <3>1, <3>2 DEF Revises
    <2>2. QED
      BY <1>5, <2>1 DEF NoEditIsOverwritten
  <1>10. QED
    BY <1>2, <1>8, <1>9 DEF SafeStep, FrozenWhileSuspended

LEMMA OperatorActsIsSafe ==
    ASSUME BoardInv, NEW o \in Operators, OperatorActs(o)
    PROVE  SafeStep
  <1>1. event \in Seq(Row) /\ DOMAIN event = 1..Len(event)
    BY LenProperties DEF BoardInv, RowsHold
  <1>2. ASSUME NEW r \in Row, event' = Append(event, r), active
        PROVE  SafeStep
    <2>1. \A f \in DOMAIN event : event'[f] = event[f]
      BY <1>1, <1>2, AppendProperties
    <2>2. QED
      BY <1>2, <2>1, IncidentsKeptIsSafe
  <1>3. CASE CreateIncident(o)
    <2>1. PICK status \in IncidentStatuses, links \in Links :
             LET r == [kind |-> "incident", status |-> status, links |-> links,
                       timeline |-> <<[status |-> status, edits |-> 0]>>]
             IN  event' = Append(event, r) /\ active
      BY <1>3 DEF CreateIncident, FenceHolds
    <2> DEFINE r == [kind |-> "incident", status |-> status, links |-> links,
                     timeline |-> <<[status |-> status, edits |-> 0]>>]
    <2>2. r \in Row
      <3>1. [status |-> status, edits |-> 0] \in Update
        BY DEF Update
      <3>2. r \in Incident
        BY <3>1 DEF Incident
      <3>3. QED
        BY <3>2 DEF Row
    <2>3. QED
      BY <1>2, <2>1, <2>2
  <1>4. CASE CreateMaintenance(o)
    <2>1. PICK w \in Windows, auto \in BOOLEAN, S \in SUBSET Components :
             LET r == [kind |-> "maintenance", stage |-> "SCHEDULED",
                       window |-> w, auto |-> auto, reminded |-> FALSE, links |-> S,
                       posts |-> <<[by |-> "operator", what |-> "SCHEDULED"]>>]
             IN  event' = Append(event, r) /\ active
      BY <1>4 DEF CreateMaintenance, FenceHolds
    <2> DEFINE r == [kind |-> "maintenance", stage |-> "SCHEDULED",
                     window |-> w, auto |-> auto, reminded |-> FALSE, links |-> S,
                     posts |-> <<[by |-> "operator", what |-> "SCHEDULED"]>>]
    <2>2. r \in Row
      <3>1. [by |-> "operator", what |-> "SCHEDULED"] \in Post
        BY DEF Post, Stages
      <3>2. r \in Maintenance
        BY <3>1 DEF Maintenance, Stages
      <3>3. QED
        BY <3>2 DEF Row
    <2>3. QED
      BY <1>2, <2>1, <2>2
  <1>5. ASSUME NEW e \in DOMAIN event, DeleteMaintenance(o, e) PROVE SafeStep
    BY <1>5, WindowWrittenIsSafe DEF DeleteMaintenance, FenceHolds
  <1>6. QED
    BY <1>3, <1>4, <1>5 DEF OperatorActs

LEMMA SweepStepIsSafe == ASSUME BoardInv, SweepStep PROVE SafeStep
  <1>1. Sweep \in Processes
    BY DEF Processes
  <1>2. CASE UNCHANGED <<component, event>>
    BY <1>2, IncidentsKeptIsSafe
  <1>3. ASSUME NEW q \in Queries, NEW x \in sweep.todo[q], SweepTransition(q, x)
        PROVE  SafeStep
    <2>1. tx[Sweep].op = "transition" /\ tx[Sweep].event = x.id /\ active
      BY <1>3 DEF SweepTransition, FenceHolds
    <2>2. x.id \in DOMAIN event /\ event[x.id].kind = "maintenance"
      BY <1>1, <2>1, RowOfTx DEF Awaits
    <2>3. \/ UNCHANGED <<event, component>>
          \/ \E r : event' = [event EXCEPT ![x.id] = r]
      BY <1>3 DEF SweepTransition
    <2>4. QED
      BY <1>2, <2>1, <2>2, <2>3, WindowWrittenIsSafe
  <1>4. ASSUME NEW x \in sweep.todo["remind"], SendReminder(x) PROVE SafeStep
    <2>1. tx[Sweep].op = "remind" /\ tx[Sweep].event = x.id /\ active
      BY <1>4 DEF SendReminder, FenceHolds
    <2>2. x.id \in DOMAIN event /\ event[x.id].kind = "maintenance"
      BY <1>1, <2>1, RowOfTx DEF Awaits
    <2>3. \E r : event' = [event EXCEPT ![x.id] = r]
      BY <1>4, <2>2 DEF SendReminder
    <2>4. QED
      BY <2>1, <2>2, <2>3, WindowWrittenIsSafe
  <1>5. ASSUME NEW q \in Queries, NEW x \in sweep.todo[q],
               SweepBegin(q, x) \/ SweepRefused(q, x)
        PROVE  UNCHANGED <<component, event>>
    BY <1>5 DEF SweepBegin, SweepRefused
  <1>6. SweepStart \/ SweepVictim => UNCHANGED <<component, event>>
    BY DEF SweepStart, SweepVictim
  <1>7. QED
    BY <1>2, <1>3, <1>4, <1>5, <1>6 DEF SweepStep

LEMMA StepIsSafe == ASSUME BoardInv, [Next]_vars PROVE SafeStep
  <1>1. CASE UNCHANGED <<component, event>>
    BY <1>1, IncidentsKeptIsSafe
  <1>2. ASSUME NEW o \in Operators, OperatorBegins(o) \/ Abort(o)
        PROVE  UNCHANGED <<component, event>>
    BY <1>2 DEF OperatorBegins, BeginRow, BeginStatus, OpenForm, Begin, Abort
  <1>3. ASSUME NEW o \in Operators, SetComponentStatus(o) PROVE SafeStep
    BY <1>3, IncidentsKeptIsSafe DEF SetComponentStatus, FenceHolds
  <1>4. Suspend \/ Reactivate \/ Tick \/ Crash \/ UNCHANGED vars => UNCHANGED <<component, event>>
    BY DEF Suspend, Reactivate, Tick, Crash, vars
  <1>5. ASSUME NEW o \in Operators, OperatorCommits(o) \/ OperatorActs(o) PROVE SafeStep
    BY <1>3, <1>5, OperatorCommitsWrites, WritesAreSafe, OperatorActsIsSafe
  <1>6. QED
    BY <1>1, <1>2, <1>4, <1>5, SweepStepIsSafe DEF Next

\* No step, in any order of forms, posts, sweeps and suspensions, overwrites a
\* correction that its editor has not seen, reopens or rewrites what is
\* resolved, or changes the board of a suspended organization.
THEOREM EditsStaySafe == Spec => EditsAreSafe
  <1>1. BoardInv /\ [Next]_vars => ResolvedIsFinal /\ NoEditIsOverwritten /\ FrozenWhileSuspended
    BY StepIsSafe DEF SafeStep
  <1>2. QED
    BY <1>1, BoardInvariance, PTL DEF Spec, EditsAreSafe

=============================================================================
