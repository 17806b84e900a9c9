------------------------- MODULE MonitorPipeline_proofs -------------------------
(***************************************************************************)
(* Safety of the monitor pipeline for every number of sweeps, every pair   *)
(* of thresholds and every bound on what interferes.                       *)
(*                                                                         *)
(* A sweep computes the new counters from a copy it leased long before it  *)
(* writes them.  They are right because whoever still owns the lease has a *)
(* copy of the row as it is (CopiesAreFresh), and the write asks for the   *)
(* lease.  The incident side follows in transactions of its own, which ask *)
(* for nothing: what ties it to the row holds only as long as nobody       *)
(* interferes, and then because one sweep is at work at a time (Calm).     *)
(***************************************************************************)
EXTENDS MonitorPipeline, FiniteSetTheorems, TLAPS

USE MonitorWorkersAssumption, ThresholdAssumption, AutomationAssumption,
    MonitorBoundsAssumption

\* The types without the bounds; an incident that is referred to exists.
RowsTyped ==
    /\ active \in BOOLEAN /\ other \in BOOLEAN /\ impaired \in BOOLEAN
    /\ monitor \in Monitor
    /\ checks \in Seq(BOOLEAN)
    /\ incident \in Seq({"open", "resolved"})
    /\ worker \in [Workers -> Sweep]
    /\ used \in [demands : 0..MaxDemands, edits : 0..MaxEdits,
                 suspensions : 0..MaxEdits, faults : 0..MaxFaults]
    /\ monitor.incident <= Len(incident)
    /\ \A w \in Workers :
          /\ worker[w].incident <= Len(incident)
          /\ worker[w].pc \in {"linking", "resolving"} => worker[w].incident # 0

\* Every check used up one time at which the monitor was due, and every
\* incident, opened or about to be, one check.
Pending == IF monitor.exists /\ monitor.due THEN 1 ELSE 0
Openers == {w \in Workers : worker[w].pc = "opening"}

RoomIsLeft ==
    /\ Len(checks) + Pending <= used.demands + 1
    /\ IsFiniteSet(Openers)
    /\ Len(incident) + Cardinality(Openers) + Pending <= used.demands + 1

Uncommitted == {"leased", "checked", "committing"}

\* Who owns the lease works on the row as it is.
CopiesAreFresh ==
    \A w \in Workers : worker[w].pc \in Uncommitted /\ Holds(w) =>
        /\ monitor.due
        /\ worker[w].fails = monitor.fails /\ worker[w].oks = monitor.oks
        /\ worker[w].down = monitor.down /\ worker[w].incident = monitor.incident

\* n is the length of the run of equal results that ends the history.
EndsWith(result, n) ==
    /\ n \in 0..Len(checks)
    /\ \A i \in (Len(checks) - n + 1)..Len(checks) : checks[i] = result
    /\ n < Len(checks) => checks[Len(checks) - n] # result

RowFollowsChecks ==
    /\ monitor.exists => EndsWith(FALSE, monitor.fails) /\ EndsWith(TRUE, monitor.oks)
    /\ DownFollowsChecks

\* Only a suspension or a fault makes a sweep take a transition back.
UndoHasReason ==
    /\ ~active => used.suspensions # 0
    /\ \A w \in Workers : worker[w].pc = "undoing" => used.suspensions # 0 \/ used.faults # 0

Calm == used.edits = 0 /\ used.faults = 0

\* While nobody edits and nothing fails, who works has the lease, so that one
\* sweep is at work at a time, and the row and its incident say the same at
\* each of its steps.
CalmWork ==
    Calm =>
        /\ monitor.exists
        /\ \A w \in Workers :
              /\ worker[w].pc # "idle" => monitor.owner = w /\ monitor.live
              /\ worker[w].pc \in {"opening", "linking"} => monitor.down
              /\ worker[w].pc \in {"resolving", "unlinking"} => ~monitor.down
              /\ worker[w].pc = "resolving" => worker[w].incident = monitor.incident
        /\ AutoIncident /\ monitor.down /\ monitor.incident = 0 =>
              \E w \in Workers : worker[w].pc \in {"opening", "undoing", "linking"}

\* Without a suspension either, at most the incident of the row is open, and
\* that only while the monitor is down or its incident being closed.
CalmIncidents ==
    Calm /\ used.suspensions = 0 =>
        /\ \A i \in Open :
              \/ i = monitor.incident
              \/ \E w \in Workers : worker[w].pc = "linking" /\ worker[w].incident = i
        /\ \A w \in Workers :
              /\ worker[w].pc \in {"opening", "unlinking"} => Open = {}
              /\ worker[w].pc = "linking" => Open \subseteq {worker[w].incident}
        /\ Open # {} => monitor.down \/ \E w \in Workers : worker[w].pc = "resolving"

MonitorInv ==
    /\ RowsTyped /\ RoomIsLeft /\ CopiesAreFresh /\ RowFollowsChecks
    /\ ActiveSourceIsShown /\ UndoHasReason /\ CalmWork /\ CalmIncidents

-----------------------------------------------------------------------------
(* What the steps do to the sweeps.                                        *)

\* The sweep w goes on to pc with the copy it has.
Moved(w, pc) ==
    /\ worker' \in [Workers -> Sweep]
    /\ \A v \in Workers : v # w => worker'[v] = worker[v]
    /\ worker'[w].pc = pc
    /\ worker'[w].fails = worker[w].fails /\ worker'[w].oks = worker[w].oks
    /\ worker'[w].down = worker[w].down /\ worker'[w].incident = worker[w].incident

LEMMA Goes ==
  ASSUME RowsTyped, NEW w \in Workers, NEW pc \in Pcs, Goto(w, pc)
  PROVE  Moved(w, pc)
  <1>1. worker \in [Workers -> Sweep]
    BY DEF RowsTyped
  <1>2. worker' = [worker EXCEPT ![w] = [worker[w] EXCEPT !.pc = pc]]
    BY DEF Goto
  <1>3. worker[w] \in Sweep
    BY <1>1
  <1>4. [worker[w] EXCEPT !.pc = pc] \in Sweep
    BY <1>3 DEF Sweep
  <1>5. worker'[w] = [worker[w] EXCEPT !.pc = pc]
    BY <1>1, <1>2
  <1>6. QED
    BY <1>1, <1>2, <1>3, <1>4, <1>5 DEF Moved, Sweep

LEMMA Idles ==
  ASSUME RowsTyped, NEW w \in Workers, worker' = [worker EXCEPT ![w] = IdleSweep]
  PROVE  /\ worker' \in [Workers -> Sweep]
         /\ \A v \in Workers : v # w => worker'[v] = worker[v]
         /\ worker'[w] = IdleSweep
  <1>1. worker \in [Workers -> Sweep]
    BY DEF RowsTyped
  <1>2. IdleSweep \in Sweep
    BY DEF IdleSweep, Sweep, Pcs, MaxIncidents
  <1>3. QED
    BY <1>1, <1>2

\* One unit of a bound is spent.
LEMMA Spent ==
  ASSUME RowsTyped, NEW bound \in {"demands", "edits", "suspensions", "faults"},
         NEW limit, Spend(bound, limit),
         limit = IF bound = "demands" THEN MaxDemands
                 ELSE IF bound = "faults" THEN MaxFaults ELSE MaxEdits
  PROVE  /\ used' \in [demands : 0..MaxDemands, edits : 0..MaxEdits,
                       suspensions : 0..MaxEdits, faults : 0..MaxFaults]
         /\ used'.demands = IF bound = "demands" THEN used.demands + 1 ELSE used.demands
         /\ used'.edits = IF bound = "edits" THEN used.edits + 1 ELSE used.edits
         /\ used'.suspensions =
              IF bound = "suspensions" THEN used.suspensions + 1 ELSE used.suspensions
         /\ used'.faults = IF bound = "faults" THEN used.faults + 1 ELSE used.faults
  <1>1. used \in [demands : 0..MaxDemands, edits : 0..MaxEdits,
                  suspensions : 0..MaxEdits, faults : 0..MaxFaults]
    BY DEF RowsTyped
  <1>2. CASE bound = "demands"
    BY <1>1, <1>2 DEF Spend
  <1>3. CASE bound = "edits"
    BY <1>1, <1>3 DEF Spend
  <1>4. CASE bound = "suspensions"
    BY <1>1, <1>4 DEF Spend
  <1>5. CASE bound = "faults"
    BY <1>1, <1>5 DEF Spend
  <1>6. QED
    BY <1>2, <1>3, <1>4, <1>5

-----------------------------------------------------------------------------
(* What keeps the parts of the invariant.                                  *)

\* The row, but for the end of the lease.
SameRow ==
    /\ monitor' \in Monitor
    /\ monitor'.exists = monitor.exists /\ monitor'.due = monitor.due
    /\ monitor'.owner = monitor.owner /\ monitor'.fails = monitor.fails
    /\ monitor'.oks = monitor.oks /\ monitor'.down = monitor.down
    /\ monitor'.incident = monitor.incident

\* Nothing but the faults may be spent.
OnlyFaults ==
    /\ used' \in [demands : 0..MaxDemands, edits : 0..MaxEdits,
                  suspensions : 0..MaxEdits, faults : 0..MaxFaults]
    /\ used'.demands = used.demands /\ used'.edits = used.edits
    /\ used'.suspensions = used.suspensions /\ used'.faults >= used.faults

LEMMA RowKept ==
  ASSUME RowsTyped, RowFollowsChecks, checks' = checks,
         monitor'.exists => monitor.exists, monitor'.fails = monitor.fails,
         monitor'.oks = monitor.oks, monitor'.down = monitor.down,
         used'.suspensions = 0 => used.suspensions = 0,
         used'.faults = 0 => used.faults = 0
  PROVE  RowFollowsChecks'
  <1>2. Hysteresis' <=> Hysteresis
    BY DEF Hysteresis
  <1>3. Hysteresis \in BOOLEAN /\ Hysteresis' \in BOOLEAN
    BY DEF Hysteresis
  <1>4. monitor'.exists => EndsWith(FALSE, monitor.fails)' /\ EndsWith(TRUE, monitor.oks)'
    BY DEF RowFollowsChecks, EndsWith
  <1>5. Hysteresis' = Hysteresis
    BY <1>2, <1>3
  <1>6. DownFollowsChecks'
    BY <1>5 DEF RowFollowsChecks, DownFollowsChecks
  <1>7. QED
    BY <1>4, <1>6 DEF RowFollowsChecks

LEMMA FreshKept ==
  ASSUME CopiesAreFresh,
         \A v \in Workers : worker'[v].pc \in Uncommitted /\ Holds(v)' =>
            /\ worker[v].pc \in Uncommitted /\ Holds(v)
            /\ monitor'.due = monitor.due
            /\ worker'[v].fails = worker[v].fails /\ monitor'.fails = monitor.fails
            /\ worker'[v].oks = worker[v].oks /\ monitor'.oks = monitor.oks
            /\ worker'[v].down = worker[v].down /\ monitor'.down = monitor.down
            /\ worker'[v].incident = worker[v].incident
            /\ monitor'.incident = monitor.incident
  PROVE  CopiesAreFresh'
  BY DEF CopiesAreFresh

LEMMA Balance ==
  ASSUME NEW rows \in Nat, NEW rows1 \in Nat, NEW due \in Nat, NEW due1 \in Nat,
         NEW spent \in Nat, NEW spent1 \in Nat,
         rows + due <= spent + 1, rows1 <= rows, due1 + spent <= due + spent1
  PROVE  rows1 + due1 <= spent1 + 1
  OBVIOUS

LEMMA RoomKept ==
  ASSUME RowsTyped, RowsTyped', RoomIsLeft, Openers' \subseteq Openers,
         Len(checks') <= Len(checks), Len(incident') = Len(incident),
         Pending' + used.demands <= Pending + used'.demands
  PROVE  RoomIsLeft'
  <1>1. /\ IsFiniteSet(Openers') /\ Cardinality(Openers') <= Cardinality(Openers)
    BY FS_Subset DEF RoomIsLeft
  <1>2. Cardinality(Openers) \in Nat /\ Cardinality(Openers') \in Nat
    BY <1>1, FS_CardinalityType DEF RoomIsLeft
  <1>3. /\ Len(checks) \in Nat /\ Len(checks') \in Nat /\ Len(incident) \in Nat
        /\ used.demands \in Nat /\ used'.demands \in Nat /\ Pending \in Nat /\ Pending' \in Nat
    BY DEF RowsTyped, Pending
  <1>4. Len(checks') + Pending' <= used'.demands + 1
    BY <1>3, Balance DEF RoomIsLeft
  <1>5. Len(incident') + Cardinality(Openers') + Pending' <= used'.demands + 1
    <2>1. /\ Len(incident) + Cardinality(Openers) \in Nat
          /\ Len(incident') + Cardinality(Openers') \in Nat
          /\ Len(incident') + Cardinality(Openers') <= Len(incident) + Cardinality(Openers)
      BY <1>1, <1>2, <1>3
    <2>2. QED
      BY <1>3, <2>1, Balance DEF RoomIsLeft
  <1>6. QED
    BY <1>1, <1>4, <1>5 DEF RoomIsLeft

\* Somebody edited, or something failed: no more is said of the incidents.
LEMMA Disturbed ==
  ASSUME ~Calm', RowsTyped', RoomIsLeft', CopiesAreFresh', RowFollowsChecks',
         ActiveSourceIsShown', UndoHasReason'
  PROVE  MonitorInv'
  BY DEF MonitorInv, CalmWork, CalmIncidents

\* A sweep that goes on without an incident to open, link or close.
LEMMA GoesOn ==
  ASSUME MonitorInv, NEW w \in Workers, NEW pc \in Pcs,
         worker' \in [Workers -> Sweep],
         \A v \in Workers : v # w => worker'[v] = worker[v],
         worker'[w].pc = pc, worker'[w].incident \in {0, worker[w].incident},
         pc \in Uncommitted =>
            /\ worker[w].pc \in Uncommitted
            /\ worker'[w].fails = worker[w].fails /\ worker'[w].oks = worker[w].oks
            /\ worker'[w].down = worker[w].down /\ worker'[w].incident = worker[w].incident,
         pc \notin {"opening", "linking", "resolving", "unlinking"},
         pc # "idle" => worker[w].pc # "idle",
         pc = "undoing" => used.suspensions # 0 \/ used'.faults # 0,
         Calm' /\ worker[w].pc \in {"opening", "undoing", "linking"} => pc = "undoing",
         Calm' /\ used.suspensions = 0 /\ worker[w].pc = "resolving" => Open = {},
         SameRow, monitor.live => monitor'.live, OnlyFaults,
         UNCHANGED <<active, checks, incident, other>>,
         impaired' \in BOOLEAN, ActiveSourceIsShown'
  PROVE  MonitorInv'
  <1>1. RowsTyped /\ RoomIsLeft /\ CopiesAreFresh /\ RowFollowsChecks /\ UndoHasReason
    BY DEF MonitorInv
  <1>2. RowsTyped'
    BY <1>1 DEF RowsTyped, SameRow, OnlyFaults
  <1>3. RoomIsLeft'
    <2>1. Openers' \subseteq Openers
      BY DEF Openers
    <2>2. Pending' = Pending /\ used'.demands = used.demands
      BY DEF Pending, SameRow, OnlyFaults
    <2>3. Len(checks) \in Nat /\ used.demands \in Nat /\ Pending \in Nat
      BY <1>1 DEF RowsTyped, Pending
    <2>4. QED
      BY <1>1, <1>2, <2>1, <2>2, <2>3, RoomKept
  <1>4. CopiesAreFresh'
    <2>1. SUFFICES ASSUME NEW v \in Workers, worker'[v].pc \in Uncommitted, Holds(v)'
                   PROVE  /\ worker[v].pc \in Uncommitted
                          /\ worker'[v].fails = worker[v].fails
                          /\ worker'[v].oks = worker[v].oks
                          /\ worker'[v].down = worker[v].down
                          /\ worker'[v].incident = worker[v].incident
      BY <1>1, FreshKept DEF SameRow, Holds
    <2>2. QED
      BY <2>1
  <1>5. RowFollowsChecks'
    <2>1. used'.faults = 0 => used.faults = 0
      BY <1>1 DEF OnlyFaults, RowsTyped
    <2>2. QED
      BY <1>1, <2>1, RowKept DEF SameRow, OnlyFaults
  <1>6. UndoHasReason'
    <2>1. used'.faults = 0 => used.faults = 0
      BY <1>1 DEF OnlyFaults, RowsTyped
    <2>2. QED
      BY <1>1, <2>1 DEF UndoHasReason, OnlyFaults
  <1>7. CASE Calm'
    <2>1. Calm /\ used.faults = 0 /\ used'.faults = 0
      BY <1>1, <1>7 DEF Calm, OnlyFaults, RowsTyped
    <2>2. CalmWork'
      <3>1. /\ monitor'.exists
            /\ \A v \in Workers :
                  /\ worker'[v].pc # "idle" => monitor'.owner = v /\ monitor'.live
                  /\ worker'[v].pc \in {"opening", "linking"} => monitor'.down
                  /\ worker'[v].pc \in {"resolving", "unlinking"} => ~monitor'.down
                  /\ worker'[v].pc = "resolving" => worker'[v].incident = monitor'.incident
        BY <2>1 DEF MonitorInv, CalmWork, SameRow, RowsTyped, Monitor
      <3>2. ASSUME AutoIncident, monitor'.down, monitor'.incident = 0
            PROVE  \E v \in Workers : worker'[v].pc \in {"opening", "undoing", "linking"}
        <4>1. PICK v \in Workers : worker[v].pc \in {"opening", "undoing", "linking"}
          BY <2>1, <3>2 DEF MonitorInv, CalmWork, SameRow
        <4>2. worker'[v].pc \in {"opening", "undoing", "linking"}
          BY <1>7, <4>1
        <4>3. QED
          BY <4>2
      <3>3. QED
        BY <3>1, <3>2 DEF CalmWork
    <2>3. CalmIncidents'
      <3>1. CASE used.suspensions = 0
        <4>2. worker[w].pc # "linking" /\ (worker[w].pc = "resolving" => Open = {})
          BY <1>7, <2>1, <3>1
        <4>3. Open' = Open
          BY DEF Open
        <4>4. /\ \A v \in Workers : worker'[v].pc = "linking" \/ worker[v].pc = "linking" =>
                    worker'[v] = worker[v]
              /\ \A v \in Workers : worker[v].pc = "resolving" => worker'[v] = worker[v] \/ Open = {}
          BY <4>2
        <4>5. CalmIncidents
          BY DEF MonitorInv
        <4>6. \A i \in Open :
                 \/ i = monitor'.incident
                 \/ \E v \in Workers : worker'[v].pc = "linking" /\ worker'[v].incident = i
          BY <2>1, <3>1, <4>4, <4>5 DEF CalmIncidents, SameRow
        <4>7. \A v \in Workers :
                 /\ worker'[v].pc \in {"opening", "unlinking"} => Open = {}
                 /\ worker'[v].pc = "linking" => Open \subseteq {worker'[v].incident}
          BY <2>1, <3>1, <4>4, <4>5 DEF CalmIncidents
        <4>8. Open # {} => monitor'.down \/ \E v \in Workers : worker'[v].pc = "resolving"
          BY <2>1, <3>1, <4>4, <4>5 DEF CalmIncidents, SameRow
        <4>9. QED
          BY <4>3, <4>6, <4>7, <4>8 DEF CalmIncidents
      <3>2. CASE used.suspensions # 0
        BY <3>2 DEF CalmIncidents, OnlyFaults
      <3>3. QED
        BY <3>1, <3>2
    <2>4. QED
      BY <1>2, <1>3, <1>4, <1>5, <1>6, <2>2, <2>3 DEF MonitorInv
  <1>8. CASE ~Calm'
    BY <1>2, <1>3, <1>4, <1>5, <1>6, <1>8, Disturbed
  <1>9. QED
    BY <1>7, <1>8

LEMMA Shown ==
  ASSUME MonitorInv
  PROVE  /\ UNCHANGED <<other, incident, impaired>> =>
               impaired' \in BOOLEAN /\ ActiveSourceIsShown'
         /\ ReconcileComponent => impaired' \in BOOLEAN /\ ActiveSourceIsShown'
  <1>1. ASSUME UNCHANGED <<other, incident, impaired>>
        PROVE  impaired' \in BOOLEAN /\ ActiveSourceIsShown'
    BY <1>1 DEF MonitorInv, RowsTyped, ActiveSourceIsShown, Open
  <1>2. ASSUME ReconcileComponent PROVE impaired' \in BOOLEAN /\ ActiveSourceIsShown'
    BY <1>2 DEF ReconcileComponent, Worst, ActiveSourceIsShown, Open
  <1>3. QED
    BY <1>1, <1>2

LEMMA Stays ==
  ASSUME MonitorInv
  PROVE  /\ monitor' = monitor => SameRow
         /\ used' = used => OnlyFaults
         /\ Spend("faults", MaxFaults) => OnlyFaults /\ used'.faults # 0
  <1>1. monitor' = monitor => SameRow
    BY DEF MonitorInv, RowsTyped, SameRow
  <1>2. used' = used => OnlyFaults
    BY DEF MonitorInv, RowsTyped, OnlyFaults
  <1>3. Spend("faults", MaxFaults) => OnlyFaults /\ used'.faults # 0
    <2> SUFFICES ASSUME Spend("faults", MaxFaults) PROVE OnlyFaults /\ used'.faults # 0
      OBVIOUS
    <2>1. /\ used' \in [demands : 0..MaxDemands, edits : 0..MaxEdits,
                        suspensions : 0..MaxEdits, faults : 0..MaxFaults]
          /\ used'.demands = used.demands /\ used'.edits = used.edits
          /\ used'.suspensions = used.suspensions /\ used'.faults = used.faults + 1
      BY Spent DEF MonitorInv
    <2>2. used.faults \in Nat
      BY DEF MonitorInv, RowsTyped
    <2>3. QED
      BY <2>1, <2>2 DEF OnlyFaults
  <1>4. QED
    BY <1>1, <1>2, <1>3

\* The lease is renewed.
LEMMA Renewed ==
  ASSUME MonitorInv, monitor' = [monitor EXCEPT !.live = TRUE]
  PROVE  SameRow /\ monitor'.live
  BY DEF MonitorInv, RowsTyped, SameRow, Monitor

-----------------------------------------------------------------------------
(* The sweep without its incident.                                         *)

LEMMA RunCheckInv ==
  ASSUME MonitorInv, NEW w \in Workers, NEW ok \in BOOLEAN, RunCheck(w, ok)
  PROVE  MonitorInv'
  <1> DEFINE pc == IF active THEN "checked" ELSE "releasing"
  <1>1. worker \in [Workers -> Sweep] /\ worker[w] \in Sweep
    BY DEF MonitorInv, RowsTyped
  <1>2. worker' = [worker EXCEPT ![w] = [worker[w] EXCEPT !.pc = pc, !.ok = ok]]
    BY DEF RunCheck
  <1>3. pc \in Pcs
    BY DEF Pcs
  <1>4. [worker[w] EXCEPT !.pc = pc, !.ok = ok] \in Sweep
    BY <1>1, <1>3 DEF Sweep
  <1>5. worker'[w] = [worker[w] EXCEPT !.pc = pc, !.ok = ok]
    BY <1>1, <1>2
  <1>6. Moved(w, pc)
    BY <1>1, <1>2, <1>4, <1>5 DEF Moved, Sweep
  <1>7. /\ worker[w].pc = "leased" /\ pc \in {"checked", "releasing"}
        /\ UNCHANGED <<active, monitor, checks, incident, other, impaired, used>>
    BY DEF RunCheck
  <1>8. SameRow /\ OnlyFaults /\ impaired' \in BOOLEAN /\ ActiveSourceIsShown'
    BY <1>7, Stays, Shown
  <1> HIDE DEF pc
  <1>9. QED
    BY <1>3, <1>6, <1>7, <1>8, GoesOn DEF Moved, Uncommitted

LEMMA ProveLeaseInv ==
  ASSUME MonitorInv, NEW w \in Workers, ProveLease(w)
  PROVE  MonitorInv'
  <1>1. worker[w].pc = "checked" /\ UNCHANGED <<active, checks, incident, other, impaired, used>>
    BY DEF ProveLease
  <1>2. PICK pc \in {"committing", "releasing"} : Goto(w, pc)
    BY DEF ProveLease
  <1>3. pc \in Pcs
    BY <1>2 DEF Pcs
  <1>4. Moved(w, pc)
    BY <1>2, <1>3, Goes DEF MonitorInv
  <1>5. SameRow /\ (monitor.live => monitor'.live)
    BY Stays, Renewed DEF ProveLease
  <1>6. OnlyFaults /\ impaired' \in BOOLEAN /\ ActiveSourceIsShown'
    BY <1>1, Stays, Shown
  <1>7. QED
    BY <1>1, <1>2, <1>3, <1>4, <1>5, <1>6, GoesOn DEF Moved, Uncommitted

LEMMA ReconcileInv ==
  ASSUME MonitorInv, NEW w \in Workers, Reconcile(w)
  PROVE  MonitorInv'
  <1>1. /\ worker[w].pc = "reconciling" /\ Goto(w, "releasing") /\ "releasing" \in Pcs
        /\ UNCHANGED <<active, monitor, checks, incident, other, used>>
    BY DEF Reconcile, Pcs
  <1>2. Moved(w, "releasing")
    BY <1>1, Goes DEF MonitorInv
  <1>3. impaired' \in BOOLEAN /\ ActiveSourceIsShown'
    BY <1>1, Shown DEF Reconcile
  <1>4. SameRow /\ OnlyFaults
    BY <1>1, Stays
  <1>5. QED
    BY <1>1, <1>2, <1>3, <1>4, GoesOn DEF Moved, Uncommitted

LEMMA StepFailsInv ==
  ASSUME MonitorInv, NEW w \in Workers, StepFails(w)
  PROVE  MonitorInv'
  <1>1. /\ worker[w].pc # "idle" /\ Spend("faults", MaxFaults)
        /\ UNCHANGED <<active, monitor, checks, incident, other, impaired>>
    BY DEF StepFails
  <1>2. PICK pc \in {"undoing", "releasing"} : Goto(w, pc)
    BY DEF StepFails
  <1>3. pc \in Pcs
    BY <1>2 DEF Pcs
  <1>4. Moved(w, pc)
    BY <1>2, <1>3, Goes DEF MonitorInv
  <1>5. SameRow /\ OnlyFaults /\ used'.faults # 0
    BY <1>1, Stays
  <1>6. impaired' \in BOOLEAN /\ ActiveSourceIsShown'
    BY <1>1, Shown
  <1>7. QED
    BY <1>1, <1>2, <1>3, <1>4, <1>5, <1>6, GoesOn DEF Moved, Uncommitted, Calm

LEMMA CrashInv ==
  ASSUME MonitorInv, NEW w \in Workers, Crash(w)
  PROVE  MonitorInv'
  <1>1. /\ worker[w].pc # "idle" /\ Spend("faults", MaxFaults)
        /\ worker' = [worker EXCEPT ![w] = IdleSweep]
        /\ UNCHANGED <<active, monitor, checks, incident, other, impaired>>
    BY DEF Crash
  <1>2. /\ worker' \in [Workers -> Sweep]
        /\ \A v \in Workers : v # w => worker'[v] = worker[v]
        /\ worker'[w].pc = "idle" /\ worker'[w].incident = 0 /\ "idle" \in Pcs
    BY <1>1, Idles DEF MonitorInv, IdleSweep, Pcs
  <1>3. SameRow /\ OnlyFaults /\ used'.faults # 0
    BY <1>1, Stays
  <1>4. impaired' \in BOOLEAN /\ ActiveSourceIsShown'
    BY <1>1, Shown
  <1>5. QED
    BY <1>1, <1>2, <1>3, <1>4, GoesOn DEF Uncommitted, Calm

-----------------------------------------------------------------------------
(* One more check.                                                         *)

LEMMA Longer ==
  ASSUME checks \in Seq(BOOLEAN), NEW ok \in BOOLEAN, checks' = Append(checks, ok)
  PROVE  /\ Len(checks) \in Nat /\ Len(checks') = Len(checks) + 1
         /\ checks' \in Seq(BOOLEAN)
         /\ checks'[Len(checks) + 1] = ok
         /\ \A i \in 1..Len(checks) : checks'[i] = checks[i] /\ checks[i] \in BOOLEAN
  OBVIOUS

LEMMA RunGrows ==
  ASSUME checks \in Seq(BOOLEAN), NEW ok \in BOOLEAN, checks' = Append(checks, ok),
         NEW result \in BOOLEAN, NEW n, EndsWith(result, n)
  PROVE  /\ ok = result => EndsWith(result, n + 1)'
         /\ ok # result => EndsWith(result, 0)'
  <1> DEFINE L == Len(checks)
  <1>1. /\ L \in Nat /\ Len(checks') = L + 1 /\ checks'[L + 1] = ok
        /\ \A i \in 1..L : checks'[i] = checks[i]
    BY Longer
  <1>2. /\ n \in 0..L /\ \A i \in (L - n + 1)..L : checks[i] = result
        /\ n < L => checks[L - n] # result
    BY DEF EndsWith
  <1> HIDE DEF L
  <1>3. ASSUME ok = result
        PROVE  /\ n + 1 \in 0..(L + 1)
               /\ \A i \in ((L + 1) - (n + 1) + 1)..(L + 1) : checks'[i] = result
               /\ n + 1 < L + 1 => checks'[(L + 1) - (n + 1)] # result
    <2>1. n + 1 \in 0..(L + 1)
      BY <1>1, <1>2
    <2>2. ASSUME NEW i \in ((L + 1) - (n + 1) + 1)..(L + 1) PROVE checks'[i] = result
      <3>1. i = L + 1 \/ (i \in (L - n + 1)..L /\ i \in 1..L)
        BY <1>1, <1>2
      <3>2. QED
        BY <1>1, <1>2, <1>3, <3>1
    <2>3. ASSUME n + 1 < L + 1 PROVE checks'[(L + 1) - (n + 1)] # result
      <3>1. (L + 1) - (n + 1) = L - n /\ L - n \in 1..L /\ n < L
        BY <1>1, <1>2, <2>3
      <3>2. QED
        BY <1>1, <1>2, <3>1
    <2>4. QED
      BY <2>1, <2>2, <2>3
  <1>4. ASSUME ok # result
        PROVE  /\ 0 \in 0..(L + 1)
               /\ \A i \in ((L + 1) - 0 + 1)..(L + 1) : checks'[i] = result
               /\ 0 < L + 1 => checks'[(L + 1) - 0] # result
    <2>1. (L + 1) - 0 = L + 1 /\ 0 \in 0..(L + 1) /\ ((L + 1) - 0 + 1)..(L + 1) = {}
      BY <1>1
    <2>2. QED
      BY <1>1, <1>4, <2>1
  <1>5. QED
    BY <1>1, <1>3, <1>4 DEF EndsWith

\* The counters say when the state changes.
LEMMA StateGrows ==
  ASSUME checks \in Seq(BOOLEAN), NEW ok \in BOOLEAN, checks' = Append(checks, ok),
         NEW f, EndsWith(FALSE, f), NEW o, EndsWith(TRUE, o)
  PROVE  Hysteresis' <=> IF ok THEN Hysteresis /\ o + 1 < RecoverThreshold
                         ELSE Hysteresis \/ f + 1 >= FailThreshold
  <1> DEFINE L == Len(checks)
             F == FailThreshold
             R == RecoverThreshold
  <1>1. /\ L \in Nat /\ Len(checks') = L + 1 /\ checks'[L + 1] = ok
        /\ \A i \in 1..L : checks'[i] = checks[i]
        /\ \A i \in 1..L : checks[i] \in BOOLEAN
    BY Longer
  <1>2. F \in Nat /\ F >= 1 /\ R \in Nat /\ R >= 1
    OBVIOUS
  <1>3. /\ f \in 0..L /\ \A i \in (L - f + 1)..L : checks[i] = FALSE
        /\ f < L => checks[L - f] # FALSE
    BY DEF EndsWith
  <1>4. /\ o \in 0..L /\ \A i \in (L - o + 1)..L : checks[i] = TRUE
        /\ o < L => checks[L - o] # TRUE
    BY DEF EndsWith
  <1>5. Hysteresis <=> \E n \in F..L : /\ \A i \in (n - F + 1)..n : ~checks[i]
                                       /\ \A m \in (n + R)..L :
                                             \E i \in (m - R + 1)..m : ~checks[i]
    BY DEF Hysteresis
  <1>6. Hysteresis' <=> \E n \in F..(L + 1) : /\ \A i \in (n - F + 1)..n : ~checks'[i]
                                              /\ \A m \in (n + R)..(L + 1) :
                                                    \E i \in (m - R + 1)..m : ~checks'[i]
    BY <1>1 DEF Hysteresis
  <1> HIDE DEF L, F, R
  \* A failure run or a pass run inside the old history.
  <1>7. ASSUME NEW n \in F..L
        PROVE  (\A i \in (n - F + 1)..n : ~checks'[i]) <=> \A i \in (n - F + 1)..n : ~checks[i]
    <2>1. \A i \in (n - F + 1)..n : i \in 1..L
      BY <1>1, <1>2
    <2>2. QED
      BY <1>1, <2>1
  <1>8. ASSUME NEW n \in F..L, NEW m \in (n + R)..L
        PROVE  (\E i \in (m - R + 1)..m : ~checks'[i]) <=> \E i \in (m - R + 1)..m : ~checks[i]
    <2>1. \A i \in (m - R + 1)..m : i \in 1..L
      BY <1>1, <1>2
    <2>2. QED
      BY <1>1, <2>1
  <1>9. CASE ok
    <2>1. ASSUME Hysteresis' PROVE Hysteresis /\ o + 1 < R
      <3>1. PICK n \in F..(L + 1) : /\ \A i \in (n - F + 1)..n : ~checks'[i]
                                    /\ \A m \in (n + R)..(L + 1) :
                                          \E i \in (m - R + 1)..m : ~checks'[i]
        BY <1>6, <2>1
      <3>2. n \in (n - F + 1)..n /\ n \in Nat
        BY <1>1, <1>2
      <3>3. ~checks'[n]
        BY <3>1, <3>2
      <3>4. n # L + 1
        BY <1>1, <1>9, <3>3
      <3>5. n \in F..L /\ n \in 1..L
        BY <1>1, <1>2, <3>4
      <3>6. \A i \in (n - F + 1)..n : ~checks[i]
        BY <1>7, <3>1, <3>5
      <3>7. \A m \in (n + R)..L : \E i \in (m - R + 1)..m : ~checks[i]
        <4> SUFFICES ASSUME NEW m \in (n + R)..L PROVE \E i \in (m - R + 1)..m : ~checks[i]
          OBVIOUS
        <4>1. m \in (n + R)..(L + 1)
          BY <1>1, <1>2, <3>5
        <4>2. QED
          BY <1>8, <3>1, <3>5, <4>1
      <3>8. Hysteresis
        BY <1>5, <3>5, <3>6, <3>7
      <3>9. ASSUME ~(o + 1 < R) PROVE FALSE
        <4>1. ~checks[n]
          BY <1>1, <3>3, <3>5
        <4>2. n \notin (L - o + 1)..L
          BY <1>4, <4>1
        <4>3. L + 1 \in (n + R)..(L + 1)
          BY <1>1, <1>2, <1>4, <3>5, <3>9, <4>2
        <4>4. PICK i \in ((L + 1) - R + 1)..(L + 1) : ~checks'[i]
          BY <3>1, <4>3
        <4>5. i = L + 1 \/ (i \in (L - o + 1)..L /\ i \in 1..L)
          BY <1>1, <1>2, <1>4, <3>5, <3>9, <4>3
        <4>6. QED
          BY <1>1, <1>4, <1>9, <4>4, <4>5
      <3>10. QED
        BY <3>8, <3>9
    <2>2. ASSUME Hysteresis, o + 1 < R PROVE Hysteresis'
      <3>1. PICK n \in F..L : /\ \A i \in (n - F + 1)..n : ~checks[i]
                              /\ \A m \in (n + R)..L :
                                    \E i \in (m - R + 1)..m : ~checks[i]
        BY <1>5, <2>2
      <3>2. n \in F..(L + 1)
        BY <1>1, <1>2
      <3>3. \A i \in (n - F + 1)..n : ~checks'[i]
        BY <1>7, <3>1
      <3>4. ASSUME NEW m \in (n + R)..(L + 1) PROVE \E i \in (m - R + 1)..m : ~checks'[i]
        <4>1. CASE m \in (n + R)..L
          BY <1>8, <3>1, <4>1
        <4>2. CASE m = L + 1
          <5>1. L - o \in (m - R + 1)..m /\ L - o \in 1..L /\ o < L
            BY <1>1, <1>2, <1>4, <2>2, <4>2
          <5>2. ~checks'[L - o]
            BY <1>1, <1>4, <5>1
          <5>3. QED
            BY <5>1, <5>2
        <4>3. QED
          BY <1>1, <1>2, <4>1, <4>2
      <3>5. QED
        BY <1>6, <3>2, <3>3, <3>4
    <2>3. QED
      BY <1>9, <2>1, <2>2 DEF R
  <1>10. CASE ~ok
    <2>1. ASSUME Hysteresis' PROVE Hysteresis \/ f + 1 >= F
      <3>1. PICK n \in F..(L + 1) : /\ \A i \in (n - F + 1)..n : ~checks'[i]
                                    /\ \A m \in (n + R)..(L + 1) :
                                          \E i \in (m - R + 1)..m : ~checks'[i]
        BY <1>6, <2>1
      <3>2. CASE n \in F..L
        <4>1. \A i \in (n - F + 1)..n : ~checks[i]
          BY <1>7, <3>1, <3>2
        <4>2. \A m \in (n + R)..L : \E i \in (m - R + 1)..m : ~checks[i]
          <5> SUFFICES ASSUME NEW m \in (n + R)..L PROVE \E i \in (m - R + 1)..m : ~checks[i]
            OBVIOUS
          <5>1. m \in (n + R)..(L + 1)
            BY <1>1, <1>2, <3>2
          <5>2. QED
            BY <1>8, <3>1, <3>2, <5>1
        <4>3. QED
          BY <1>5, <3>2, <4>1, <4>2
      <3>3. CASE n = L + 1
        <4>1. SUFFICES ASSUME ~(f + 1 >= F) PROVE FALSE
          OBVIOUS
        <4>2. f < L /\ L - f \in (n - F + 1)..n /\ L - f \in 1..L
          BY <1>1, <1>2, <1>3, <3>3, <4>1
        <4>3. ~checks'[L - f]
          BY <3>1, <4>2
        <4>4. QED
          BY <1>1, <1>3, <4>2, <4>3
      <3>4. QED
        BY <1>1, <1>2, <3>2, <3>3
    <2>2. ASSUME Hysteresis PROVE Hysteresis'
      <3>1. PICK n \in F..L : /\ \A i \in (n - F + 1)..n : ~checks[i]
                              /\ \A m \in (n + R)..L :
                                    \E i \in (m - R + 1)..m : ~checks[i]
        BY <1>5, <2>2
      <3>2. n \in F..(L + 1)
        BY <1>1, <1>2
      <3>3. \A i \in (n - F + 1)..n : ~checks'[i]
        BY <1>7, <3>1
      <3>4. ASSUME NEW m \in (n + R)..(L + 1) PROVE \E i \in (m - R + 1)..m : ~checks'[i]
        <4>1. CASE m \in (n + R)..L
          BY <1>8, <3>1, <4>1
        <4>2. CASE m = L + 1
          <5>1. L + 1 \in (m - R + 1)..m
            BY <1>1, <1>2, <4>2
          <5>2. QED
            BY <1>1, <1>10, <5>1
        <4>3. QED
          BY <1>1, <1>2, <4>1, <4>2
      <3>5. QED
        BY <1>6, <3>2, <3>3, <3>4
    <2>3. ASSUME f + 1 >= F PROVE Hysteresis'
      <3>1. L + 1 \in F..(L + 1)
        BY <1>1, <1>2, <1>3, <2>3
      <3>2. ASSUME NEW i \in ((L + 1) - F + 1)..(L + 1) PROVE ~checks'[i]
        <4>1. i = L + 1 \/ (i \in (L - f + 1)..L /\ i \in 1..L)
          BY <1>1, <1>2, <1>3, <2>3
        <4>2. QED
          BY <1>1, <1>3, <1>10, <4>1
      <3>3. ((L + 1) + R)..(L + 1) = {}
        BY <1>1, <1>2
      <3>4. QED
        BY <1>6, <3>1, <3>2, <3>3
    <2>4. QED
      BY <1>10, <2>1, <2>2, <2>3 DEF F
  <1>11. QED
    BY <1>9, <1>10

\* The counters are the lengths that CountersMatchChecks speaks of.
LEMMA TrailingRun ==
  ASSUME checks \in Seq(BOOLEAN), NEW result \in BOOLEAN, NEW n, EndsWith(result, n)
  PROVE  Trailing(result) = n
  <1> DEFINE L == Len(checks)
             runs == {k \in 0..L : \A i \in (L - k + 1)..L : checks[i] = result}
  <1>1. /\ L \in Nat /\ n \in 0..L /\ \A i \in (L - n + 1)..L : checks[i] = result
        /\ n < L => checks[L - n] # result
    BY DEF EndsWith
  <1>2. n \in runs
    BY <1>1
  <1>3. ASSUME NEW m \in runs PROVE m <= n
    <2>1. SUFFICES ASSUME m > n PROVE FALSE
      BY <1>1
    <2>2. L - n \in (L - m + 1)..L /\ n < L
      BY <1>1, <2>1
    <2>3. QED
      BY <1>1, <2>2
  <1>4. Trailing(result) = CHOOSE k \in runs : \A m \in runs : m <= k
    BY DEF Trailing
  <1>5. \A k \in runs : (\A m \in runs : m <= k) => k = n
    <2>1. \A k \in runs : k \in Nat
      OBVIOUS
    <2> HIDE DEF runs
    <2>2. QED
      BY <1>1, <1>2, <1>3, <2>1
  <1> HIDE DEF runs
  <1>6. QED
    BY <1>2, <1>3, <1>4, <1>5

-----------------------------------------------------------------------------
(* The check is recorded.                                                  *)

LEMMA CommitRefused ==
  ASSUME MonitorInv, NEW w \in Workers, Commit(w), ~(active /\ Holds(w))
  PROVE  MonitorInv'
  <1>1. /\ worker[w].pc = "committing" /\ Goto(w, "releasing") /\ "releasing" \in Pcs
        /\ UNCHANGED <<active, monitor, checks, incident, other, impaired, used>>
    BY DEF Commit, Pcs
  <1>2. Moved(w, "releasing")
    BY <1>1, Goes DEF MonitorInv
  <1>3. SameRow /\ OnlyFaults /\ impaired' \in BOOLEAN /\ ActiveSourceIsShown'
    BY <1>1, Stays, Shown
  <1>4. QED
    BY <1>1, <1>2, <1>3, GoesOn DEF Moved, Uncommitted

\* The copy that is written was the row, so the counters follow the checks.
LEMMA CommitAccepted ==
  ASSUME MonitorInv, NEW w \in Workers, Commit(w), active, Holds(w)
  PROVE  MonitorInv'
  <1> DEFINE s == worker[w]
             f == NextFails(s)
             o == NextOks(s)
             d == NextDown(s)
             pc == CASE (~s.down /\ d) /\ AutoIncident            -> "opening"
                     [] (s.down /\ ~d) /\ s.incident # 0 -> "resolving"
                     [] OTHER                                     -> Afterwards
  <1>1. /\ s.pc = "committing"
        /\ monitor' = [monitor EXCEPT !.fails = f, !.oks = o, !.down = d, !.due = FALSE]
        /\ checks' = Append(checks, s.ok) /\ Goto(w, pc)
        /\ UNCHANGED <<active, incident, other, impaired, used>>
    BY DEF Commit
  <1>2. /\ RowsTyped /\ RoomIsLeft /\ CopiesAreFresh /\ RowFollowsChecks /\ UndoHasReason
        /\ CalmWork /\ CalmIncidents
    BY DEF MonitorInv
  <1>3. s \in Sweep /\ monitor \in Monitor /\ checks \in Seq(BOOLEAN)
    BY <1>2 DEF RowsTyped
  <1>4. /\ monitor.due /\ monitor.exists /\ monitor.owner = w
        /\ s.fails = monitor.fails /\ s.oks = monitor.oks
        /\ s.down = monitor.down /\ s.incident = monitor.incident
    BY <1>1, <1>2 DEF CopiesAreFresh, Holds, Uncommitted
  <1>5. s.ok \in BOOLEAN /\ s.down \in BOOLEAN /\ s.fails \in Nat /\ s.oks \in Nat
    BY <1>3 DEF Sweep
  <1>6. f \in Nat /\ o \in Nat /\ d \in BOOLEAN
    <2>1. f \in Nat /\ o \in Nat
      BY <1>5 DEF NextFails, NextOks
    <2>2. d \in BOOLEAN
      BY <1>5, Zenon DEF NextDown
    <2>3. QED
      BY <2>1, <2>2
  <1>7. pc \in {"opening", "resolving", "reconciling", "releasing"}
    BY DEF Afterwards
  <1>8. /\ pc = "opening" => ~s.down /\ d /\ AutoIncident
        /\ pc = "resolving" => s.down /\ ~d /\ s.incident # 0
        /\ ~s.down /\ d /\ AutoIncident => pc = "opening"
        /\ s.down /\ ~d /\ s.incident # 0 => pc = "resolving"
    BY DEF Afterwards
  <1>9. /\ f = IF s.ok THEN 0 ELSE s.fails + 1
        /\ o = IF s.ok THEN s.oks + 1 ELSE 0
        /\ d <=> IF s.ok THEN s.down /\ s.oks + 1 < RecoverThreshold
                 ELSE s.down \/ s.fails + 1 >= FailThreshold
    BY DEF NextFails, NextOks, NextDown
  <1> HIDE DEF f, o, d, pc
  <1>10. pc \in Pcs /\ pc \notin Uncommitted /\ pc # "idle"
    BY <1>7 DEF Pcs, Uncommitted
  <1>11. Moved(w, pc)
    BY <1>1, <1>2, <1>10, Goes
  <1>12. /\ monitor' \in Monitor /\ monitor'.exists = monitor.exists /\ monitor'.due = FALSE
         /\ monitor'.owner = monitor.owner /\ monitor'.live = monitor.live
         /\ monitor'.fails = f /\ monitor'.oks = o /\ monitor'.down = d
         /\ monitor'.incident = monitor.incident
    BY <1>1, <1>3, <1>6 DEF Monitor
  <1>13. /\ Len(checks) \in Nat /\ Len(checks') = Len(checks) + 1 /\ checks' \in Seq(BOOLEAN)
    BY <1>1, <1>3, <1>5, Longer
  <1>14. RowsTyped'
    <2>1. \A v \in Workers : worker'[v].pc \in {"linking", "resolving"} => worker'[v].incident # 0
      BY <1>2, <1>7, <1>8, <1>11 DEF RowsTyped, Moved
    <2>2. \A v \in Workers : worker'[v].incident <= Len(incident')
      BY <1>1, <1>2, <1>11 DEF RowsTyped, Moved
    <2>3. QED
      BY <1>1, <1>2, <1>11, <1>12, <1>13, <2>1, <2>2 DEF RowsTyped, Moved
  <1>15. RoomIsLeft'
    <2>1. Pending = 1 /\ Pending' = 0
      BY <1>4, <1>12 DEF Pending
    <2>2. w \notin Openers /\ Openers' \subseteq Openers \union {w}
      BY <1>1, <1>11 DEF Openers, Moved
    <2>3. IsFiniteSet(Openers \union {w}) /\ Cardinality(Openers) \in Nat
          /\ Cardinality(Openers \union {w}) = Cardinality(Openers) + 1
      BY <1>2, <2>2, FS_AddElement, FS_CardinalityType DEF RoomIsLeft
    <2>4. /\ IsFiniteSet(Openers') /\ Cardinality(Openers') \in Nat
          /\ Cardinality(Openers') <= Cardinality(Openers \union {w})
      BY <2>2, <2>3, FS_Subset, FS_CardinalityType
    <2>5. used'.demands = used.demands /\ used.demands \in Nat /\ Len(incident) \in Nat
          /\ Len(incident') = Len(incident)
      BY <1>1, <1>2 DEF RowsTyped
    <2>6. Len(checks') + Pending' <= used'.demands + 1
      BY <1>2, <1>13, <2>1, <2>5 DEF RoomIsLeft
    <2>7. Len(incident') + Cardinality(Openers') + Pending' <= used'.demands + 1
      BY <1>2, <2>1, <2>3, <2>4, <2>5 DEF RoomIsLeft
    <2>8. QED
      BY <2>4, <2>6, <2>7 DEF RoomIsLeft
  <1>16. CopiesAreFresh'
    <2>1. \A v \in Workers : Holds(v)' => v = w
      BY <1>4, <1>12 DEF Holds
    <2>2. QED
      BY <1>10, <1>11, <2>1 DEF CopiesAreFresh, Moved
  <1>17. RowFollowsChecks'
    <2>1. EndsWith(FALSE, s.fails) /\ EndsWith(TRUE, s.oks) /\ DownFollowsChecks
      BY <1>2, <1>4 DEF RowFollowsChecks
    <2>2. \A n : n = f => EndsWith(FALSE, n)'
      <3>1. CASE s.ok = TRUE
        BY <1>1, <1>3, <1>5, <1>9, <2>1, <3>1, RunGrows
      <3>2. CASE s.ok = FALSE
        BY <1>1, <1>3, <1>5, <1>9, <2>1, <3>2, RunGrows
      <3>3. QED
        BY <1>5, <3>1, <3>2
    <2>3. \A n : n = o => EndsWith(TRUE, n)'
      <3>1. CASE s.ok = TRUE
        BY <1>1, <1>3, <1>5, <1>9, <2>1, <3>1, RunGrows
      <3>2. CASE s.ok = FALSE
        BY <1>1, <1>3, <1>5, <1>9, <2>1, <3>2, RunGrows
      <3>3. QED
        BY <1>5, <3>1, <3>2
    <2>4. EndsWith(FALSE, monitor.fails)' /\ EndsWith(TRUE, monitor.oks)'
      BY <1>12, <2>2, <2>3 DEF EndsWith
    <2>5. Hysteresis' <=> IF s.ok THEN Hysteresis /\ s.oks + 1 < RecoverThreshold
                          ELSE Hysteresis \/ s.fails + 1 >= FailThreshold
      BY <1>1, <1>3, <1>5, <2>1, StateGrows
    <2>6. Hysteresis \in BOOLEAN /\ Hysteresis' \in BOOLEAN
      BY DEF Hysteresis
    <2>7. (s.down => Hysteresis) => (d => Hysteresis')
      BY <1>5, <1>9, <2>5
    <2>8. s.down = Hysteresis => d = Hysteresis'
      BY <1>5, <1>6, <1>9, <2>5, <2>6
    <2>9. DownFollowsChecks'
      BY <1>1, <1>4, <1>12, <2>1, <2>7, <2>8 DEF DownFollowsChecks
    <2>10. QED
      BY <2>4, <2>9 DEF RowFollowsChecks
  <1>18. ActiveSourceIsShown'
    BY <1>1, Shown
  <1>19. UndoHasReason'
    BY <1>1, <1>2, <1>7, <1>11 DEF UndoHasReason, Moved
  <1>20. Calm => \A v \in Workers : v # w => worker[v].pc = "idle"
    BY <1>2, <1>4 DEF CalmWork
  <1>21. CalmWork'
    <2> SUFFICES ASSUME Calm' PROVE CalmWork'
      BY DEF CalmWork
    <2>1. Calm
      BY <1>1 DEF Calm
    <2>2. \A v \in Workers : v # w => worker'[v].pc = "idle"
      BY <1>11, <1>20, <2>1 DEF Moved
    <2>3. monitor.live
      BY <1>1, <1>2, <2>1 DEF CalmWork
    <2>4. ASSUME AutoIncident, d, monitor.incident = 0
          PROVE  \E v \in Workers : worker'[v].pc \in {"opening", "undoing", "linking"}
      <3>1. CASE ~s.down
        BY <1>8, <1>11, <2>4, <3>1 DEF Moved
      <3>2. CASE s.down
        <4>1. PICK v \in Workers : worker[v].pc \in {"opening", "undoing", "linking"}
          BY <1>2, <1>4, <2>1, <2>4, <3>2 DEF CalmWork
        <4>2. QED
          BY <1>1, <1>20, <2>1, <4>1
      <3>3. QED
        BY <3>1, <3>2
    <2>5. QED
      BY <1>4, <1>7, <1>8, <1>11, <1>12, <2>2, <2>3, <2>4 DEF CalmWork, Moved
  <1>22. CalmIncidents'
    <2> SUFFICES ASSUME Calm', used'.suspensions = 0 PROVE CalmIncidents'
      BY DEF CalmIncidents
    <2>1. Calm /\ used.suspensions = 0
      BY <1>1 DEF Calm
    <2>2. /\ \A v \in Workers : v # w => worker'[v].pc = "idle" /\ worker[v].pc = "idle"
          /\ worker'[w].pc \notin {"linking", "unlinking"}
      BY <1>7, <1>11, <1>20, <2>1 DEF Moved
    <2>3. Open' = Open
      BY <1>1 DEF Open
    <2>4. \A i \in Open : i = monitor.incident
      BY <1>1, <1>2, <2>1, <2>2 DEF CalmIncidents
    <2>5. Open # {} => s.down
      BY <1>1, <1>2, <1>4, <2>1, <2>2 DEF CalmIncidents
    <2>6. 0 \notin Open
      BY <1>2 DEF Open, RowsTyped
    <2>7. Open # {} => d \/ pc = "resolving"
      BY <1>4, <1>8, <2>4, <2>5, <2>6
    <2>8. worker'[w].pc = "opening" => Open = {}
      BY <1>8, <1>11, <2>5 DEF Moved
    <2>9. QED
      BY <1>11, <1>12, <2>2, <2>3, <2>4, <2>7, <2>8 DEF CalmIncidents, Moved
  <1>23. QED
    BY <1>14, <1>15, <1>16, <1>17, <1>18, <1>19, <1>21, <1>22 DEF MonitorInv

-----------------------------------------------------------------------------
(* The incident side.                                                      *)

\* While nobody interferes one sweep is at work.
LEMMA OneAtWork ==
  ASSUME MonitorInv, Calm, NEW w \in Workers, worker[w].pc # "idle"
  PROVE  /\ Holds(w) /\ monitor.exists /\ monitor.owner = w /\ monitor.live
         /\ \A v \in Workers : v # w => worker[v].pc = "idle"
  BY DEF MonitorInv, CalmWork, Holds

LEMMA OpenIncidentInv ==
  ASSUME MonitorInv, NEW w \in Workers, OpenIncident(w)
  PROVE  MonitorInv'
  <1>1. CASE ~active
    <2>1. /\ worker[w].pc = "opening" /\ Goto(w, "undoing") /\ "undoing" \in Pcs
          /\ UNCHANGED <<active, monitor, checks, incident, other, impaired, used>>
      BY <1>1 DEF OpenIncident, Pcs
    <2>2. Moved(w, "undoing")
      BY <2>1, Goes DEF MonitorInv
    <2>3. SameRow /\ OnlyFaults /\ impaired' \in BOOLEAN /\ ActiveSourceIsShown'
      BY <2>1, Stays, Shown
    <2>4. used.suspensions # 0
      BY <1>1 DEF MonitorInv, UndoHasReason
    <2>5. QED
      BY <2>1, <2>2, <2>3, <2>4, GoesOn DEF Moved, Uncommitted
  <1>2. CASE active
    <2> DEFINE n == Len(incident) + 1
               row == [worker[w] EXCEPT !.pc = "linking", !.incident = n]
    <2>1. /\ worker[w].pc = "opening" /\ incident' = Append(incident, "open")
          /\ worker' = [worker EXCEPT ![w] = row]
          /\ UNCHANGED <<active, monitor, checks, other, used>> /\ ReconcileComponent
      BY <1>2 DEF OpenIncident
    <2>2. /\ RowsTyped /\ RoomIsLeft /\ CopiesAreFresh /\ RowFollowsChecks /\ UndoHasReason
          /\ CalmWork /\ CalmIncidents
      BY DEF MonitorInv
    <2>3. /\ incident \in Seq({"open", "resolved"}) /\ worker \in [Workers -> Sweep]
          /\ worker[w] \in Sweep
      BY <2>2 DEF RowsTyped
    <2>4. /\ Len(incident) \in Nat /\ Len(incident') = n
          /\ incident' \in Seq({"open", "resolved"})
          /\ incident'[n] = "open"
          /\ \A i \in 1..Len(incident) : incident'[i] = incident[i]
      BY <2>1, <2>3
    <2>5. /\ w \in Openers /\ IsFiniteSet(Openers) /\ Cardinality(Openers) \in Nat
          /\ Cardinality(Openers \ {w}) = Cardinality(Openers) - 1
          /\ Cardinality(Openers \ {w}) \in Nat /\ IsFiniteSet(Openers \ {w})
      <3>1. w \in Openers /\ IsFiniteSet(Openers)
        BY <2>1, <2>2 DEF Openers, RoomIsLeft
      <3>2. IsFiniteSet(Openers \ {w})
        BY <3>1, FS_Subset
      <3>3. QED
        BY <3>1, <3>2, FS_RemoveElement, FS_CardinalityType
    <2>6. /\ used.demands \in 0..MaxDemands /\ MaxDemands \in Nat /\ Pending \in Nat
      BY <2>2 DEF RowsTyped, Pending
    <2>7. n \in 0..MaxIncidents
      BY <2>2, <2>4, <2>5, <2>6 DEF RoomIsLeft, MaxIncidents
    <2>8. row \in Sweep
      BY <2>3, <2>7 DEF Sweep, Pcs
    <2>9. /\ worker' \in [Workers -> Sweep]
          /\ \A v \in Workers : v # w => worker'[v] = worker[v]
          /\ worker'[w].pc = "linking" /\ worker'[w].incident = n
      BY <2>1, <2>3, <2>8 DEF Sweep
    <2>10. impaired' \in BOOLEAN /\ ActiveSourceIsShown'
      BY <2>1, Shown
    <2>11. RowsTyped'
      <3>1. ASSUME NEW v \in Workers PROVE worker'[v].incident <= Len(incident')
        <4>1. worker[v].incident \in Nat /\ worker[v].incident <= Len(incident)
          BY <2>2, <2>3 DEF RowsTyped, Sweep, MaxIncidents
        <4>2. worker[v].incident <= n
          BY <2>4, <4>1
        <4>3. QED
          BY <2>4, <2>9, <4>2
      <3>2. \A v \in Workers : worker'[v].pc \in {"linking", "resolving"} => worker'[v].incident # 0
        BY <2>2, <2>4, <2>9 DEF RowsTyped
      <3>3. monitor'.incident <= Len(incident')
        BY <2>1, <2>2, <2>4 DEF RowsTyped, Monitor
      <3>4. QED
        BY <2>1, <2>2, <2>4, <2>9, <2>10, <3>1, <3>2, <3>3 DEF RowsTyped
    <2>12. RoomIsLeft'
      <3>1. Openers' = Openers \ {w}
        BY <2>9 DEF Openers
      <3>2. Pending' = Pending
        BY <2>1 DEF Pending
      <3>3. Len(incident') + Cardinality(Openers') + Pending' <= used'.demands + 1
        BY <2>1, <2>2, <2>4, <2>5, <2>6, <3>1, <3>2 DEF RoomIsLeft
      <3>4. QED
        BY <2>1, <2>2, <2>5, <3>1, <3>2, <3>3 DEF RoomIsLeft
    <2>13. CopiesAreFresh'
      BY <2>1, <2>2, <2>9, FreshKept DEF Holds, Uncommitted
    <2>14. RowFollowsChecks'
      BY <2>1, <2>2, RowKept
    <2>15. UndoHasReason'
      BY <2>1, <2>2, <2>9 DEF UndoHasReason
    <2>16. Calm => \A v \in Workers : v # w => worker[v].pc = "idle"
      BY <2>1, OneAtWork
    <2>17. CalmWork'
      <3> SUFFICES ASSUME Calm' PROVE CalmWork'
        BY DEF CalmWork
      <3>1. Calm
        BY <2>1 DEF Calm
      <3>2. QED
        BY <2>1, <2>2, <2>9, <2>16, <3>1 DEF CalmWork
    <2>18. CalmIncidents'
      <3> SUFFICES ASSUME Calm', used'.suspensions = 0 PROVE CalmIncidents'
        BY DEF CalmIncidents
      <3>1. Calm /\ used.suspensions = 0
        BY <2>1 DEF Calm
      <3>2. Open = {} /\ monitor.down
        BY <2>1, <2>2, <3>1 DEF CalmIncidents, CalmWork
      <3>3. Open' = {n}
        <4>1. DOMAIN incident = 1..Len(incident) /\ DOMAIN incident' = 1..n
          BY <2>3, <2>4
        <4>2. \A i \in 1..Len(incident) : incident[i] # "open"
          BY <3>2, <4>1 DEF Open
        <4>3. \A i \in 1..n : incident'[i] = "open" <=> i = n
          BY <2>4, <4>2
        <4>4. n \in 1..n
          BY <2>4
        <4>5. QED
          BY <4>1, <4>3, <4>4 DEF Open
      <3> HIDE DEF n
      <3>4. QED
        BY <2>1, <2>9, <2>16, <3>1, <3>2, <3>3 DEF CalmIncidents
    <2>19. QED
      BY <2>10, <2>11, <2>12, <2>13, <2>14, <2>15, <2>17, <2>18 DEF MonitorInv
  <1>3. QED
    BY <1>1, <1>2

\* A sweep writes the link or the state of a row whose lease it owns, or
\* nothing.
LEMMA RowWritten ==
  ASSUME MonitorInv, NEW w \in Workers, NEW pc \in {"reconciling", "releasing"},
         Moved(w, pc), worker[w].pc # "idle",
         UNCHANGED <<active, checks, incident, other, impaired, used>>,
         monitor' \in Monitor, monitor' = monitor \/ Holds(w),
         monitor'.exists = monitor.exists, monitor'.due = monitor.due,
         monitor'.owner = monitor.owner, monitor'.live = monitor.live,
         monitor'.fails = monitor.fails, monitor'.oks = monitor.oks,
         monitor'.incident <= Len(incident),
         RowFollowsChecks', CalmIncidents',
         Calm /\ AutoIncident /\ monitor'.down => monitor'.incident # 0
  PROVE  MonitorInv'
  <1>1. RowsTyped /\ RoomIsLeft /\ CopiesAreFresh /\ UndoHasReason /\ CalmWork
    BY DEF MonitorInv
  <1>2. RowsTyped'
    BY <1>1 DEF RowsTyped, Moved
  <1>3. RoomIsLeft'
    <2>1. Openers' \subseteq Openers
      BY DEF Openers, Moved
    <2>2. Pending' = Pending
      BY DEF Pending
    <2>3. Len(checks) \in Nat /\ used.demands \in Nat /\ Pending \in Nat
      BY <1>1 DEF RowsTyped, Pending
    <2>4. QED
      BY <1>1, <1>2, <2>1, <2>2, <2>3, RoomKept
  <1>4. CopiesAreFresh'
    <2>1. CASE monitor' = monitor
      BY <1>1, <2>1, FreshKept DEF Holds, Moved, Uncommitted
    <2>2. CASE Holds(w)
      <3>1. \A v \in Workers : Holds(v)' => v = w
        BY <2>2 DEF Holds
      <3>2. QED
        BY <3>1 DEF CopiesAreFresh, Moved, Uncommitted
    <2>3. QED
      BY <2>1, <2>2
  <1>5. ActiveSourceIsShown'
    BY Shown
  <1>6. UndoHasReason'
    BY <1>1 DEF UndoHasReason, Moved
  <1>7. CalmWork'
    <2> SUFFICES ASSUME Calm' PROVE CalmWork'
      BY DEF CalmWork
    <2>1. Calm
      BY DEF Calm
    <2>2. /\ \A v \in Workers : v # w => worker'[v].pc = "idle"
          /\ monitor'.exists /\ monitor'.owner = w /\ monitor'.live
      BY <2>1, OneAtWork DEF Moved
    <2>3. QED
      BY <2>1, <2>2 DEF CalmWork, Moved
  <1>8. QED
    BY <1>2, <1>3, <1>4, <1>5, <1>6, <1>7 DEF MonitorInv

LEMMA UndoDownInv ==
  ASSUME MonitorInv, NEW w \in Workers, UndoDown(w)
  PROVE  MonitorInv'
  <1>1. /\ worker[w].pc = "undoing" /\ Goto(w, "releasing") /\ "releasing" \in Pcs
        /\ monitor' = IF Holds(w) THEN [monitor EXCEPT !.down = FALSE] ELSE monitor
        /\ UNCHANGED <<active, checks, incident, other, impaired, used>>
    BY DEF UndoDown, Pcs
  <1>2. RowsTyped /\ RowFollowsChecks /\ UndoHasReason /\ monitor \in Monitor
    BY DEF MonitorInv, RowsTyped
  <1>3. Moved(w, "releasing")
    BY <1>1, <1>2, Goes
  <1>4. /\ monitor' \in Monitor /\ (monitor' = monitor \/ Holds(w))
        /\ monitor'.exists = monitor.exists /\ monitor'.due = monitor.due
        /\ monitor'.owner = monitor.owner /\ monitor'.live = monitor.live
        /\ monitor'.fails = monitor.fails /\ monitor'.oks = monitor.oks
        /\ monitor'.incident = monitor.incident
        /\ monitor'.down => monitor.down
        /\ Holds(w) => monitor'.down = FALSE
    BY <1>1, <1>2 DEF Monitor
  <1>5. used.suspensions # 0 \/ used.faults # 0
    BY <1>1, <1>2 DEF UndoHasReason
  <1>6. RowFollowsChecks'
    <2>1. monitor'.exists => EndsWith(FALSE, monitor.fails)' /\ EndsWith(TRUE, monitor.oks)'
      BY <1>1, <1>2, <1>4 DEF RowFollowsChecks, EndsWith
    <2>2. Hysteresis' <=> Hysteresis
      BY <1>1 DEF Hysteresis
    <2>3. DownFollowsChecks'
      BY <1>1, <1>2, <1>4, <1>5, <2>2 DEF RowFollowsChecks, DownFollowsChecks
    <2>4. QED
      BY <2>1, <2>3 DEF RowFollowsChecks
  <1>7. CalmIncidents'
    <2> SUFFICES ASSUME Calm', used'.suspensions = 0 PROVE FALSE
      BY DEF CalmIncidents
    <2>1. QED
      BY <1>1, <1>5 DEF Calm
  <1>8. Calm => ~monitor'.down
    BY <1>1, <1>4, OneAtWork
  <1>9. QED
    BY <1>1, <1>2, <1>3, <1>4, <1>6, <1>7, <1>8, RowWritten DEF RowsTyped

LEMMA LinkIncidentInv ==
  ASSUME MonitorInv, NEW w \in Workers, LinkIncident(w)
  PROVE  MonitorInv'
  <1> DEFINE i == worker[w].incident
  <1>1. /\ worker[w].pc = "linking"
        /\ monitor' = IF Holds(w) THEN [monitor EXCEPT !.incident = i] ELSE monitor
        /\ UNCHANGED <<active, checks, incident, other, impaired, used>>
    BY DEF LinkIncident
  <1>2. PICK pc \in {"reconciling", "releasing"} : Goto(w, pc)
    BY DEF LinkIncident, Afterwards
  <1>3. pc \in Pcs
    BY <1>2 DEF Pcs
  <1>4. /\ RowsTyped /\ RowFollowsChecks /\ CalmWork /\ CalmIncidents
        /\ monitor \in Monitor /\ worker[w] \in Sweep
        /\ i # 0 /\ i <= Len(incident) /\ monitor.incident <= Len(incident)
    BY <1>1 DEF MonitorInv, RowsTyped
  <1>5. Moved(w, pc)
    BY <1>2, <1>3, <1>4, Goes
  <1>6. /\ monitor' \in Monitor /\ (monitor' = monitor \/ Holds(w))
        /\ monitor'.exists = monitor.exists /\ monitor'.due = monitor.due
        /\ monitor'.owner = monitor.owner /\ monitor'.live = monitor.live
        /\ monitor'.fails = monitor.fails /\ monitor'.oks = monitor.oks
        /\ monitor'.down = monitor.down
        /\ monitor'.incident = IF Holds(w) THEN i ELSE monitor.incident
    BY <1>1, <1>4 DEF Monitor, Sweep
  <1>7. RowFollowsChecks'
    BY <1>1, <1>4, <1>6, RowKept
  <1>8. Calm => monitor'.incident = i /\ monitor'.down
    BY <1>1, <1>4, <1>6, OneAtWork DEF CalmWork
  <1>9. CalmIncidents'
    <2> SUFFICES ASSUME Calm', used'.suspensions = 0 PROVE CalmIncidents'
      BY DEF CalmIncidents
    <2>1. Calm /\ used.suspensions = 0
      BY <1>1 DEF Calm
    <2>2. \A v \in Workers : worker'[v].pc \in {"idle", "reconciling", "releasing"}
      BY <1>1, <1>2, <1>5, <2>1, OneAtWork DEF Moved
    <2>3. Open' = Open /\ Open \subseteq {i}
      BY <1>1, <1>4, <2>1 DEF Open, CalmIncidents
    <2> HIDE DEF i
    <2>4. QED
      BY <1>8, <2>1, <2>2, <2>3 DEF CalmIncidents
  <1>10. QED
    BY <1>1, <1>2, <1>4, <1>5, <1>6, <1>7, <1>8, <1>9, RowWritten

LEMMA UnlinkIncidentInv ==
  ASSUME MonitorInv, NEW w \in Workers, UnlinkIncident(w)
  PROVE  MonitorInv'
  <1>1. /\ worker[w].pc = "unlinking"
        /\ monitor' = IF Holds(w) THEN [monitor EXCEPT !.incident = 0] ELSE monitor
        /\ UNCHANGED <<active, checks, incident, other, impaired, used>>
    BY DEF UnlinkIncident
  <1>2. PICK pc \in {"reconciling", "releasing"} : Goto(w, pc)
    BY DEF UnlinkIncident, Afterwards
  <1>3. pc \in Pcs
    BY <1>2 DEF Pcs
  <1>4. /\ RowsTyped /\ RowFollowsChecks /\ CalmWork /\ CalmIncidents
        /\ monitor \in Monitor /\ monitor.incident <= Len(incident) /\ Len(incident) \in Nat
    BY DEF MonitorInv, RowsTyped
  <1>5. Moved(w, pc)
    BY <1>2, <1>3, <1>4, Goes
  <1>6. /\ monitor' \in Monitor /\ (monitor' = monitor \/ Holds(w))
        /\ monitor'.exists = monitor.exists /\ monitor'.due = monitor.due
        /\ monitor'.owner = monitor.owner /\ monitor'.live = monitor.live
        /\ monitor'.fails = monitor.fails /\ monitor'.oks = monitor.oks
        /\ monitor'.down = monitor.down
        /\ monitor'.incident = IF Holds(w) THEN 0 ELSE monitor.incident
    <2>1. 0 \in 0..MaxIncidents
      BY DEF MaxIncidents
    <2>2. QED
      BY <1>1, <1>4, <2>1 DEF Monitor
  <1>7. RowFollowsChecks'
    BY <1>1, <1>4, <1>6, RowKept
  <1>8. Calm => ~monitor'.down
    BY <1>1, <1>4, <1>6 DEF CalmWork
  <1>9. CalmIncidents'
    <2> SUFFICES ASSUME Calm', used'.suspensions = 0 PROVE CalmIncidents'
      BY DEF CalmIncidents
    <2>1. Calm /\ used.suspensions = 0
      BY <1>1 DEF Calm
    <2>2. \A v \in Workers : worker'[v].pc \in {"idle", "reconciling", "releasing"}
      BY <1>1, <1>2, <1>5, <2>1, OneAtWork DEF Moved
    <2>3. Open' = Open /\ Open = {}
      BY <1>1, <1>4, <2>1 DEF Open, CalmIncidents
    <2>4. QED
      BY <2>1, <2>2, <2>3 DEF CalmIncidents
  <1>10. monitor'.incident <= Len(incident)
    BY <1>4, <1>6
  <1>11. QED
    BY <1>1, <1>2, <1>4, <1>5, <1>6, <1>7, <1>8, <1>9, <1>10, RowWritten

\* An incident that is closed is the only one that was open, if nobody
\* interfered.
LEMMA Closed ==
  ASSUME RowsTyped, NEW i \in DOMAIN incident,
         incident' = [incident EXCEPT ![i] = "resolved"]
  PROVE  /\ incident' \in Seq({"open", "resolved"}) /\ Len(incident') = Len(incident)
         /\ Open' = Open \ {i}
  <1>1. incident \in Seq({"open", "resolved"})
    BY DEF RowsTyped
  <1>2. /\ incident' \in Seq({"open", "resolved"}) /\ Len(incident') = Len(incident)
        /\ DOMAIN incident' = DOMAIN incident
        /\ incident'[i] = "resolved"
        /\ \A j \in DOMAIN incident : j # i => incident'[j] = incident[j]
    BY <1>1
  <1>3. Open' = Open \ {i}
    BY <1>2 DEF Open
  <1>4. QED
    BY <1>2, <1>3

LEMMA ResolveIncidentInv ==
  ASSUME MonitorInv, NEW w \in Workers, ResolveIncident(w)
  PROVE  MonitorInv'
  <1> DEFINE i == worker[w].incident
  <1>t. /\ RowsTyped /\ RoomIsLeft /\ CopiesAreFresh /\ RowFollowsChecks /\ UndoHasReason
        /\ CalmWork /\ CalmIncidents
    BY DEF MonitorInv
  <1>0. worker[w].pc = "resolving" /\ UNCHANGED <<active, checks, used>>
    BY DEF ResolveIncident
  <1>1. i \in DOMAIN incident
    <2>1. /\ i # 0 /\ i <= Len(incident) /\ worker[w] \in Sweep
          /\ incident \in Seq({"open", "resolved"})
      BY <1>0, <1>t DEF RowsTyped
    <2>2. i \in Nat /\ DOMAIN incident = 1..Len(incident) /\ Len(incident) \in Nat
      BY <2>1 DEF Sweep, MaxIncidents
    <2>3. QED
      BY <2>1, <2>2
  <1>2. CASE ~(active /\ incident[i] = "open")
    <2>1. /\ Goto(w, "releasing") /\ "releasing" \in Pcs
          /\ UNCHANGED <<monitor, incident, other, impaired>>
      BY <1>2 DEF ResolveIncident, Pcs
    <2>2. Moved(w, "releasing")
      BY <1>t, <2>1, Goes
    <2>3. SameRow /\ OnlyFaults /\ impaired' \in BOOLEAN /\ ActiveSourceIsShown'
      BY <1>0, <2>1, Stays, Shown
    <2>4. ASSUME Calm', used.suspensions = 0 PROVE Open = {}
      <3>1. active /\ Calm
        BY <1>0, <1>t, <2>4 DEF UndoHasReason, Calm
      <3>2. i \notin Open
        BY <1>2, <3>1 DEF Open
      <3>3. i = monitor.incident /\ \A v \in Workers : v # w => worker[v].pc = "idle"
        BY <1>0, <1>t, <3>1, OneAtWork DEF CalmWork
      <3>4. \A j \in Open : j = i
        BY <1>0, <1>t, <2>4, <3>1, <3>3 DEF CalmIncidents
      <3>5. QED
        BY <3>2, <3>4
    <2>5. QED
      BY <1>0, <2>1, <2>2, <2>3, <2>4, GoesOn DEF Moved, Uncommitted
  <1>3. CASE active /\ incident[i] = "open"
    <2>1. /\ incident' = [incident EXCEPT ![i] = "resolved"]
          /\ Goto(w, "unlinking") /\ "unlinking" \in Pcs
          /\ UNCHANGED <<monitor, other>> /\ ReconcileComponent
      BY <1>3 DEF ResolveIncident, Pcs
    <2>2. Moved(w, "unlinking")
      BY <1>t, <2>1, Goes
    <2>3. /\ incident' \in Seq({"open", "resolved"}) /\ Len(incident') = Len(incident)
          /\ Open' = Open \ {i}
      BY <1>1, <1>t, <2>1, Closed
    <2>4. impaired' \in BOOLEAN /\ ActiveSourceIsShown'
      BY <2>1, Shown
    <2>5. RowsTyped'
      BY <1>0, <1>t, <2>1, <2>2, <2>3, <2>4 DEF RowsTyped, Moved
    <2>6. RoomIsLeft'
      <3>1. Openers' \subseteq Openers
        BY <2>2 DEF Openers, Moved
      <3>2. Pending' = Pending
        BY <2>1 DEF Pending
      <3>3. Len(checks) \in Nat /\ used.demands \in Nat /\ Pending \in Nat
        BY <1>t DEF RowsTyped, Pending
      <3>4. QED
        BY <1>0, <1>t, <2>3, <2>5, <3>1, <3>2, <3>3, RoomKept
    <2>7. CopiesAreFresh'
      BY <1>t, <2>1, <2>2, FreshKept DEF Holds, Moved, Uncommitted
    <2>8. RowFollowsChecks'
      BY <1>0, <1>t, <2>1, RowKept
    <2>9. UndoHasReason'
      BY <1>0, <1>t, <2>2 DEF UndoHasReason, Moved
    <2>10. CalmWork'
      <3> SUFFICES ASSUME Calm' PROVE CalmWork'
        BY DEF CalmWork
      <3>1. Calm
        BY <1>0 DEF Calm
      <3>2. \A v \in Workers : v # w => worker'[v].pc = "idle"
        BY <1>0, <2>2, <3>1, OneAtWork DEF Moved
      <3>3. ~monitor.down /\ monitor.exists /\ monitor.owner = w /\ monitor.live
        BY <1>0, <1>t, <3>1, OneAtWork DEF CalmWork
      <3>4. QED
        BY <2>1, <2>2, <3>2, <3>3 DEF CalmWork, Moved
    <2>11. CalmIncidents'
      <3> SUFFICES ASSUME Calm', used'.suspensions = 0 PROVE CalmIncidents'
        BY DEF CalmIncidents
      <3>1. Calm /\ used.suspensions = 0
        BY <1>0 DEF Calm
      <3>2. i = monitor.incident /\ \A v \in Workers : v # w => worker[v].pc = "idle"
        BY <1>0, <1>t, <3>1, OneAtWork DEF CalmWork
      <3>3. \A j \in Open : j = i
        BY <1>0, <1>t, <3>1, <3>2 DEF CalmIncidents
      <3>4. Open' = {}
        BY <2>3, <3>3
      <3>5. \A v \in Workers : worker'[v].pc \in {"idle", "unlinking"}
        BY <2>2, <3>2 DEF Moved
      <3>6. QED
        BY <3>4, <3>5 DEF CalmIncidents
    <2>12. QED
      BY <2>4, <2>5, <2>6, <2>7, <2>8, <2>9, <2>10, <2>11 DEF MonitorInv
  <1>4. QED
    BY <1>2, <1>3

-----------------------------------------------------------------------------
(* The lease.                                                              *)

LEMMA LeaseInv ==
  ASSUME MonitorInv, NEW w \in Workers, Lease(w)
  PROVE  MonitorInv'
  <1> DEFINE row == [pc |-> "leased", ok |-> TRUE, fails |-> monitor.fails,
                     oks |-> monitor.oks, down |-> monitor.down,
                     incident |-> monitor.incident]
  <1>1. /\ worker[w].pc = "idle" /\ Leasable
        /\ monitor' = [monitor EXCEPT !.owner = w, !.live = TRUE]
        /\ worker' = [worker EXCEPT ![w] = row]
        /\ UNCHANGED <<active, checks, incident, other, impaired, used>>
    BY DEF Lease
  <1>2. /\ RowsTyped /\ RoomIsLeft /\ CopiesAreFresh /\ RowFollowsChecks /\ UndoHasReason
        /\ CalmWork /\ CalmIncidents /\ monitor \in Monitor /\ worker \in [Workers -> Sweep]
    BY DEF MonitorInv, RowsTyped
  <1>3. row \in Sweep
    BY <1>2 DEF Monitor, Sweep, Pcs
  <1>4. /\ worker' \in [Workers -> Sweep] /\ worker'[w] = row
        /\ \A v \in Workers : v # w => worker'[v] = worker[v]
    BY <1>1, <1>2, <1>3
  <1>5. /\ monitor' \in Monitor /\ monitor'.exists = monitor.exists /\ monitor'.due = monitor.due
        /\ monitor'.owner = w /\ monitor'.live /\ monitor'.fails = monitor.fails
        /\ monitor'.oks = monitor.oks /\ monitor'.down = monitor.down
        /\ monitor'.incident = monitor.incident
    BY <1>1, <1>2 DEF Monitor
  <1>6. RowsTyped'
    <2>1. \A v \in Workers : worker'[v].incident <= Len(incident)
      BY <1>2, <1>4 DEF RowsTyped
    <2>2. \A v \in Workers : worker'[v].pc \in {"linking", "resolving"} => worker'[v].incident # 0
      BY <1>2, <1>4 DEF RowsTyped
    <2>3. QED
      BY <1>1, <1>2, <1>4, <1>5, <2>1, <2>2 DEF RowsTyped
  <1>7. RoomIsLeft'
    <2>1. Openers' \subseteq Openers
      BY <1>4 DEF Openers
    <2>2. Pending' = Pending
      BY <1>5 DEF Pending
    <2>3. Len(checks) \in Nat /\ used.demands \in Nat /\ Pending \in Nat
      BY <1>2 DEF RowsTyped, Pending
    <2>4. QED
      BY <1>1, <1>2, <1>6, <2>1, <2>2, <2>3, RoomKept
  <1>8. CopiesAreFresh'
    <2>1. \A v \in Workers : Holds(v)' => v = w
      BY <1>5 DEF Holds
    <2>2. monitor.due
      BY <1>1 DEF Leasable
    <2>3. QED
      BY <1>4, <1>5, <2>1, <2>2 DEF CopiesAreFresh
  <1>9. RowFollowsChecks'
    BY <1>1, <1>2, <1>5, RowKept
  <1>10. ActiveSourceIsShown'
    BY <1>1, Shown
  <1>11. UndoHasReason'
    BY <1>1, <1>2, <1>4 DEF UndoHasReason
  <1>12. Calm => \A v \in Workers : worker[v].pc = "idle"
    BY <1>1, <1>2 DEF CalmWork, Leasable
  <1>13. CalmWork'
    <2> SUFFICES ASSUME Calm' PROVE CalmWork'
      BY DEF CalmWork
    <2>1. Calm /\ monitor.exists
      BY <1>1 DEF Calm, Leasable
    <2>2. ~(AutoIncident /\ monitor.down /\ monitor.incident = 0)
      BY <1>2, <1>12, <2>1 DEF CalmWork
    <2>3. \A v \in Workers : v # w => worker'[v].pc = "idle"
      BY <1>4, <1>12, <2>1
    <2>4. QED
      BY <1>4, <1>5, <2>1, <2>2, <2>3 DEF CalmWork
  <1>14. CalmIncidents'
    <2> SUFFICES ASSUME Calm', used'.suspensions = 0 PROVE CalmIncidents'
      BY DEF CalmIncidents
    <2>1. Calm /\ used.suspensions = 0 /\ Open' = Open
      BY <1>1 DEF Calm, Open
    <2>2. /\ \A j \in Open : j = monitor.incident
          /\ Open # {} => monitor.down
      BY <1>2, <1>12, <2>1 DEF CalmIncidents
    <2>3. \A v \in Workers : worker'[v].pc \in {"idle", "leased"}
      BY <1>4, <1>12, <2>1
    <2>4. QED
      BY <1>5, <2>1, <2>2, <2>3 DEF CalmIncidents
  <1>15. QED
    BY <1>6, <1>7, <1>8, <1>9, <1>10, <1>11, <1>13, <1>14 DEF MonitorInv

LEMMA ReleaseInv ==
  ASSUME MonitorInv, NEW w \in Workers, Release(w)
  PROVE  MonitorInv'
  <1>1. /\ worker[w].pc = "releasing" /\ worker' = [worker EXCEPT ![w] = IdleSweep]
        /\ monitor' = IF Holds(w) THEN [monitor EXCEPT !.owner = NoWorker, !.live = FALSE]
                      ELSE monitor
        /\ UNCHANGED <<active, checks, incident, other, impaired, used>>
    BY DEF Release
  <1>2. /\ RowsTyped /\ RoomIsLeft /\ CopiesAreFresh /\ RowFollowsChecks /\ UndoHasReason
        /\ CalmWork /\ CalmIncidents /\ monitor \in Monitor
    BY DEF MonitorInv, RowsTyped
  <1>3. /\ worker' \in [Workers -> Sweep] /\ worker'[w].pc = "idle" /\ worker'[w].incident = 0
        /\ \A v \in Workers : v # w => worker'[v] = worker[v]
    BY <1>1, <1>2, Idles DEF IdleSweep
  <1>4. /\ monitor' \in Monitor /\ monitor'.exists = monitor.exists /\ monitor'.due = monitor.due
        /\ monitor'.owner \in {monitor.owner, NoWorker} /\ monitor'.fails = monitor.fails
        /\ monitor'.oks = monitor.oks /\ monitor'.down = monitor.down
        /\ monitor'.incident = monitor.incident
    BY <1>1, <1>2 DEF Monitor
  <1>5. RowsTyped'
    <2>1. Len(incident) \in Nat
      BY <1>2 DEF RowsTyped
    <2>2. \A v \in Workers : worker'[v].incident <= Len(incident)
      BY <1>2, <1>3, <2>1 DEF RowsTyped
    <2>3. \A v \in Workers : worker'[v].pc \in {"linking", "resolving"} => worker'[v].incident # 0
      BY <1>2, <1>3 DEF RowsTyped
    <2>4. QED
      BY <1>1, <1>2, <1>3, <1>4, <2>2, <2>3 DEF RowsTyped
  <1>6. RoomIsLeft'
    <2>1. Openers' \subseteq Openers
      BY <1>3 DEF Openers
    <2>2. Pending' = Pending
      BY <1>4 DEF Pending
    <2>3. Len(checks) \in Nat /\ used.demands \in Nat /\ Pending \in Nat
      BY <1>2 DEF RowsTyped, Pending
    <2>4. QED
      BY <1>1, <1>2, <1>5, <2>1, <2>2, <2>3, RoomKept
  <1>7. CopiesAreFresh'
    <2>1. SUFFICES ASSUME NEW v \in Workers, worker'[v].pc \in Uncommitted, Holds(v)'
                   PROVE  worker'[v] = worker[v] /\ Holds(v)
      BY <1>2, <1>4, FreshKept
    <2>2. v # w
      BY <1>3, <2>1 DEF Uncommitted
    <2>3. QED
      BY <1>3, <1>4, <2>1, <2>2 DEF Holds
  <1>8. RowFollowsChecks'
    BY <1>1, <1>2, <1>4, RowKept
  <1>9. ActiveSourceIsShown'
    BY <1>1, Shown
  <1>10. UndoHasReason'
    BY <1>1, <1>2, <1>3 DEF UndoHasReason
  <1>11. Calm => \A v \in Workers : worker'[v].pc = "idle"
    BY <1>1, <1>3, OneAtWork
  <1>12. Calm => \A v \in Workers : worker[v].pc \in {"idle", "releasing"}
    BY <1>1, OneAtWork
  <1>13. CalmWork'
    <2> SUFFICES ASSUME Calm' PROVE CalmWork'
      BY DEF CalmWork
    <2>1. Calm /\ monitor.exists
      BY <1>1, <1>2 DEF Calm, CalmWork
    <2>2. ~(AutoIncident /\ monitor.down /\ monitor.incident = 0)
      BY <1>2, <1>12, <2>1 DEF CalmWork
    <2>3. QED
      BY <1>4, <1>11, <2>1, <2>2 DEF CalmWork
  <1>14. CalmIncidents'
    <2> SUFFICES ASSUME Calm', used'.suspensions = 0 PROVE CalmIncidents'
      BY DEF CalmIncidents
    <2>1. Calm /\ used.suspensions = 0 /\ Open' = Open
      BY <1>1 DEF Calm, Open
    <2>2. /\ \A j \in Open : j = monitor.incident
          /\ Open # {} => monitor.down
      BY <1>2, <1>12, <2>1 DEF CalmIncidents
    <2>3. QED
      BY <1>4, <1>11, <2>1, <2>2 DEF CalmIncidents
  <1>15. QED
    BY <1>5, <1>6, <1>7, <1>8, <1>9, <1>10, <1>13, <1>14 DEF MonitorInv

\* The lease is renewed by who works, or runs out.
LEMMA LeaseTimed ==
  ASSUME MonitorInv, worker' = worker, SameRow, OnlyFaults,
         UNCHANGED <<active, checks, incident, other, impaired>>,
         Calm' => \/ monitor.live => monitor'.live
                  \/ \A w \in Workers : worker[w].pc = "idle"
  PROVE  MonitorInv'
  <1>1. /\ RowsTyped /\ RoomIsLeft /\ CopiesAreFresh /\ RowFollowsChecks /\ UndoHasReason
        /\ CalmWork /\ CalmIncidents
    BY DEF MonitorInv
  <1>2. /\ used.faults \in Nat /\ used'.faults \in Nat /\ used'.faults >= used.faults
        /\ used'.edits = used.edits /\ used'.suspensions = used.suspensions
        /\ used'.demands = used.demands
    BY <1>1 DEF RowsTyped, OnlyFaults
  <1>3. used'.faults = 0 => used.faults = 0
    BY <1>2
  <1>4. RowsTyped'
    BY <1>1 DEF RowsTyped, SameRow, OnlyFaults
  <1>5. RoomIsLeft'
    BY <1>1, <1>2 DEF RoomIsLeft, Openers, Pending, SameRow
  <1>6. CopiesAreFresh'
    BY <1>1, FreshKept DEF SameRow, Holds
  <1>7. RowFollowsChecks'
    BY <1>1, <1>2, <1>3, RowKept DEF SameRow
  <1>8. ActiveSourceIsShown'
    BY Shown
  <1>9. UndoHasReason'
    BY <1>1, <1>2, <1>3 DEF UndoHasReason
  <1>10. CalmWork'
    <2> SUFFICES ASSUME Calm' PROVE CalmWork'
      BY DEF CalmWork
    <2>1. Calm
      BY <1>2, <1>3 DEF Calm
    <2>2. \A w \in Workers : worker[w].pc # "idle" => monitor.live /\ monitor'.live
      BY <1>1, <2>1 DEF CalmWork
    <2>3. QED
      BY <1>1, <2>1, <2>2 DEF CalmWork, SameRow
  <1>11. CalmIncidents'
    <2> SUFFICES ASSUME Calm', used'.suspensions = 0 PROVE CalmIncidents'
      BY DEF CalmIncidents
    <2>1. Calm /\ used.suspensions = 0 /\ Open' = Open
      BY <1>2, <1>3 DEF Calm, Open
    <2>2. QED
      BY <1>1, <2>1 DEF CalmIncidents, SameRow
  <1>12. QED
    BY <1>4, <1>5, <1>6, <1>7, <1>8, <1>9, <1>10, <1>11 DEF MonitorInv

LEMMA HeartbeatInv ==
  ASSUME MonitorInv, NEW w \in Workers, Heartbeat(w)
  PROVE  MonitorInv'
  <1>1. /\ monitor' = [monitor EXCEPT !.live = TRUE]
        /\ UNCHANGED <<active, checks, incident, other, impaired, worker, used>>
    BY DEF Heartbeat
  <1>2. SameRow /\ monitor'.live /\ OnlyFaults
    BY <1>1, Renewed, Stays
  <1>3. QED
    BY <1>1, <1>2, LeaseTimed

LEMMA LeaseExpiresInv ==
  ASSUME MonitorInv, LeaseExpires
  PROVE  MonitorInv'
  <1>1. /\ monitor' = [monitor EXCEPT !.live = FALSE]
        /\ UNCHANGED <<active, checks, incident, other, impaired, worker>>
        /\ IF Attended THEN Spend("faults", MaxFaults) ELSE used' = used
    BY DEF LeaseExpires
  <1>2. SameRow
    BY <1>1 DEF MonitorInv, RowsTyped, SameRow, Monitor
  <1>3. OnlyFaults /\ (used'.faults = 0 => ~Attended /\ used' = used)
    BY <1>1, Stays
  <1>4. ASSUME Calm' PROVE \A w \in Workers : worker[w].pc = "idle"
    <2>1. Calm /\ ~Attended
      BY <1>3, <1>4 DEF Calm
    <2>2. QED
      BY <2>1, OneAtWork DEF Attended
  <1>5. QED
    BY <1>1, <1>2, <1>3, <1>4, LeaseTimed

-----------------------------------------------------------------------------
(* Operators.                                                              *)

\* An edit of the row takes the lease from whoever has it.
LEMMA Edited ==
  ASSUME MonitorInv, UNCHANGED <<active, incident, other, impaired, worker>>,
         monitor' \in Monitor, monitor'.owner = NoWorker,
         monitor'.incident = monitor.incident, checks' \in Seq(BOOLEAN),
         Len(checks') <= Len(checks),
         used' \in [demands : 0..MaxDemands, edits : 0..MaxEdits,
                    suspensions : 0..MaxEdits, faults : 0..MaxFaults],
         used'.edits = used.edits + 1, used'.suspensions = used.suspensions,
         used'.faults = used.faults, Pending' + used.demands <= Pending + used'.demands,
         RowFollowsChecks'
  PROVE  MonitorInv'
  <1>1. RowsTyped /\ RoomIsLeft /\ UndoHasReason
    BY DEF MonitorInv
  <1>2. RowsTyped'
    BY <1>1 DEF RowsTyped
  <1>3. RoomIsLeft'
    <2>1. Openers' = Openers
      BY DEF Openers
    <2>2. QED
      BY <1>1, <1>2, <2>1, RoomKept
  <1>4. CopiesAreFresh'
    BY DEF CopiesAreFresh, Holds
  <1>5. ActiveSourceIsShown'
    BY Shown
  <1>6. UndoHasReason'
    BY <1>1 DEF UndoHasReason
  <1>7. ~Calm'
    BY <1>1 DEF RowsTyped, Calm
  <1>8. QED
    BY <1>2, <1>3, <1>4, <1>5, <1>6, <1>7, Disturbed

LEMMA RunNowInv == ASSUME MonitorInv, RunNow PROVE MonitorInv'
  <1>1. /\ used' = [used EXCEPT !.demands = @ + 1, !.edits = @ + 1]
        /\ used.demands < MaxDemands /\ used.edits + used.suspensions < MaxEdits
        /\ monitor' = [monitor EXCEPT !.due = TRUE, !.owner = NoWorker, !.live = FALSE]
        /\ UNCHANGED <<active, checks, incident, other, impaired, worker>>
    BY DEF RunNow, MayEdit
  <1>2. RowsTyped /\ RowFollowsChecks /\ monitor \in Monitor /\ checks \in Seq(BOOLEAN)
    BY DEF MonitorInv, RowsTyped
  <1>3. /\ used' \in [demands : 0..MaxDemands, edits : 0..MaxEdits,
                      suspensions : 0..MaxEdits, faults : 0..MaxFaults]
        /\ used'.demands = used.demands + 1 /\ used'.edits = used.edits + 1
        /\ used'.suspensions = used.suspensions /\ used'.faults = used.faults
        /\ used.demands \in Nat
    <2>1. /\ used \in [demands : 0..MaxDemands, edits : 0..MaxEdits,
                        suspensions : 0..MaxEdits, faults : 0..MaxFaults]
          /\ used.demands \in 0..MaxDemands /\ used.edits \in 0..MaxEdits
          /\ used.suspensions \in 0..MaxEdits
      BY <1>2 DEF RowsTyped
    <2>2. used.edits + 1 \in 0..MaxEdits
      BY <1>1, <2>1, MonitorBoundsAssumption
    <2>3. used.demands + 1 \in 0..MaxDemands
      BY <1>1, <2>1, MonitorBoundsAssumption
    <2>4. used' = [demands |-> used.demands + 1,
                   edits |-> used.edits + 1, suspensions |-> used.suspensions,
                   faults |-> used.faults]
      BY <1>1, <2>1
    <2>5. /\ used'.demands = used.demands + 1
          /\ used'.edits = used.edits + 1 /\ used'.suspensions = used.suspensions
          /\ used'.faults = used.faults
      BY <2>4
    <2>6. used.demands \in Nat /\ used.faults \in 0..MaxFaults
      BY <2>1, MonitorBoundsAssumption
    <2>7. used' \in [demands : 0..MaxDemands, edits : 0..MaxEdits,
                     suspensions : 0..MaxEdits, faults : 0..MaxFaults]
      BY <2>1, <2>2, <2>3, <2>4, <2>6, Zenon
    <2>8. QED
      BY <2>5, <2>6, <2>7
  <1>4. /\ monitor' \in Monitor /\ monitor'.exists = monitor.exists /\ monitor'.due
        /\ monitor'.owner = NoWorker /\ monitor'.fails = monitor.fails
        /\ monitor'.oks = monitor.oks /\ monitor'.down = monitor.down
        /\ monitor'.incident = monitor.incident
    BY <1>1, <1>2 DEF Monitor
  <1>5. RowFollowsChecks'
    BY <1>1, <1>2, <1>3, <1>4, RowKept
  <1>6. Pending' + used.demands <= Pending + used'.demands
    <2>1. Pending \in {0, 1} /\ Pending' \in {0, 1}
      BY DEF Pending
    <2>2. QED
      BY <1>3, <2>1
  <1>7. Len(checks') <= Len(checks)
    BY <1>1, <1>2
  <1>8. QED
    BY <1>1, <1>2, <1>3, <1>4, <1>5, <1>6, <1>7, Edited

LEMMA ToggleEnabledInv == ASSUME MonitorInv, ToggleEnabled PROVE MonitorInv'
  <1>1. /\ used' = [used EXCEPT !.edits = @ + 1,
                                !.demands = IF monitor.enabled THEN @ ELSE @ + 1]
        /\ monitor.enabled \/ used.demands < MaxDemands
        /\ used.edits + used.suspensions < MaxEdits
        /\ monitor' = [monitor EXCEPT !.enabled = ~@, !.due = ~monitor.enabled,
                                      !.owner = NoWorker, !.live = FALSE]
        /\ UNCHANGED <<active, checks, incident, other, impaired, worker>>
    BY DEF ToggleEnabled, MayEdit
  <1>2. RowsTyped /\ RowFollowsChecks /\ monitor \in Monitor /\ checks \in Seq(BOOLEAN)
    BY DEF MonitorInv, RowsTyped
  <1>3. /\ used' \in [demands : 0..MaxDemands, edits : 0..MaxEdits,
                      suspensions : 0..MaxEdits, faults : 0..MaxFaults]
        /\ used'.demands = IF monitor.enabled THEN used.demands ELSE used.demands + 1
        /\ used'.edits = used.edits + 1
        /\ used'.suspensions = used.suspensions /\ used'.faults = used.faults
        /\ used.demands \in Nat
    <2>1. /\ used \in [demands : 0..MaxDemands, edits : 0..MaxEdits,
                        suspensions : 0..MaxEdits, faults : 0..MaxFaults]
          /\ used.demands \in 0..MaxDemands /\ used.edits \in 0..MaxEdits
          /\ used.suspensions \in 0..MaxEdits
      BY <1>2 DEF RowsTyped
    <2>2. used.edits + 1 \in 0..MaxEdits
      BY <1>1, <2>1, MonitorBoundsAssumption
    <2>3. (IF monitor.enabled THEN used.demands ELSE used.demands + 1) \in 0..MaxDemands
      BY <1>1, <2>1, MonitorBoundsAssumption
    <2>4. used' = [demands |-> IF monitor.enabled THEN used.demands ELSE used.demands + 1,
                   edits |-> used.edits + 1, suspensions |-> used.suspensions,
                   faults |-> used.faults]
      BY <1>1, <2>1
    <2>5. /\ used'.demands = IF monitor.enabled THEN used.demands ELSE used.demands + 1
          /\ used'.edits = used.edits + 1 /\ used'.suspensions = used.suspensions
          /\ used'.faults = used.faults
      BY <2>4
    <2>6. used.demands \in Nat /\ used.faults \in 0..MaxFaults
      BY <2>1, MonitorBoundsAssumption
    <2>7. used' \in [demands : 0..MaxDemands, edits : 0..MaxEdits,
                     suspensions : 0..MaxEdits, faults : 0..MaxFaults]
      BY <2>1, <2>2, <2>3, <2>4, <2>6, Zenon
    <2>8. QED
      BY <2>5, <2>6, <2>7
  <1>4. /\ monitor' \in Monitor /\ monitor'.exists = monitor.exists
        /\ monitor'.due = ~monitor.enabled
        /\ monitor'.owner = NoWorker /\ monitor'.fails = monitor.fails
        /\ monitor'.oks = monitor.oks /\ monitor'.down = monitor.down
        /\ monitor'.incident = monitor.incident
    BY <1>1, <1>2 DEF Monitor
  <1>5. RowFollowsChecks'
    BY <1>1, <1>2, <1>3, <1>4, RowKept
  <1>6. Pending' + used.demands <= Pending + used'.demands
    <2>1. Pending \in {0, 1} /\ Pending' \in {0, 1} /\ (monitor.enabled => Pending' = 0)
      BY <1>4 DEF Pending
    <2>2. QED
      BY <1>3, <2>1
  <1>7. Len(checks') <= Len(checks)
    BY <1>1, <1>2
  <1>8. QED
    BY <1>1, <1>2, <1>3, <1>4, <1>5, <1>6, <1>7, Edited

LEMMA DeleteMonitorInv == ASSUME MonitorInv, DeleteMonitor PROVE MonitorInv'
  <1>1. /\ Spend("edits", MaxEdits)
        /\ monitor' = [monitor EXCEPT !.exists = FALSE, !.owner = NoWorker, !.live = FALSE]
        /\ checks' = <<>>
        /\ UNCHANGED <<active, incident, other, impaired, worker>>
    BY DEF DeleteMonitor
  <1>2. RowsTyped /\ monitor \in Monitor /\ checks \in Seq(BOOLEAN)
    BY DEF MonitorInv, RowsTyped
  <1>3. /\ used' \in [demands : 0..MaxDemands, edits : 0..MaxEdits,
                      suspensions : 0..MaxEdits, faults : 0..MaxFaults]
        /\ used'.demands = used.demands /\ used'.edits = used.edits + 1
        /\ used'.suspensions = used.suspensions /\ used'.faults = used.faults
        /\ used.demands \in Nat
    BY <1>1, <1>2, Spent DEF RowsTyped
  <1>4. /\ monitor' \in Monitor /\ ~monitor'.exists
        /\ monitor'.owner = NoWorker /\ monitor'.incident = monitor.incident
    BY <1>1, <1>2 DEF Monitor
  <1>5. RowFollowsChecks'
    BY <1>4 DEF RowFollowsChecks, DownFollowsChecks
  <1>6. Pending' + used.demands <= Pending + used'.demands
    <2>1. Pending \in {0, 1} /\ Pending' = 0
      BY <1>4 DEF Pending
    <2>2. QED
      BY <1>3, <2>1
  <1>7. checks' \in Seq(BOOLEAN) /\ Len(checks') <= Len(checks)
    BY <1>1, <1>2
  <1>8. QED
    BY <1>1, <1>3, <1>4, <1>5, <1>6, <1>7, Edited

LEMMA BecomesDueInv == ASSUME MonitorInv, BecomesDue PROVE MonitorInv'
  <1>1. /\ monitor.exists /\ ~monitor.due /\ Spend("demands", MaxDemands)
        /\ monitor' = [monitor EXCEPT !.due = TRUE]
        /\ UNCHANGED <<active, checks, incident, other, impaired, worker>>
    BY DEF BecomesDue
  <1>2. /\ RowsTyped /\ RoomIsLeft /\ CopiesAreFresh /\ RowFollowsChecks /\ UndoHasReason
        /\ CalmWork /\ CalmIncidents /\ monitor \in Monitor
    BY DEF MonitorInv, RowsTyped
  <1>3. /\ used' \in [demands : 0..MaxDemands, edits : 0..MaxEdits,
                      suspensions : 0..MaxEdits, faults : 0..MaxFaults]
        /\ used'.demands = used.demands + 1 /\ used'.edits = used.edits
        /\ used'.suspensions = used.suspensions /\ used'.faults = used.faults
        /\ used.demands \in Nat
    BY <1>1, <1>2, Spent DEF RowsTyped
  <1>4. /\ monitor' \in Monitor /\ monitor'.exists = monitor.exists /\ monitor'.due
        /\ monitor'.owner = monitor.owner /\ monitor'.live = monitor.live
        /\ monitor'.fails = monitor.fails
        /\ monitor'.oks = monitor.oks /\ monitor'.down = monitor.down
        /\ monitor'.incident = monitor.incident
    BY <1>1, <1>2 DEF Monitor
  <1>5. RowsTyped'
    BY <1>1, <1>2, <1>3, <1>4 DEF RowsTyped
  <1>6. RoomIsLeft'
    <2>1. Pending \in {0, 1} /\ Pending' \in {0, 1} /\ Openers' = Openers
      BY <1>1 DEF Pending, Openers
    <2>2. Pending' + used.demands <= Pending + used'.demands
      BY <1>3, <2>1
    <2>3. Len(checks') <= Len(checks) /\ Len(incident') = Len(incident)
      BY <1>1, <1>2 DEF RowsTyped
    <2>4. QED
      BY <1>2, <1>5, <2>1, <2>2, <2>3, RoomKept
  <1>7. CopiesAreFresh'
    <2>1. \A w \in Workers : ~(worker[w].pc \in Uncommitted /\ Holds(w))
      BY <1>1, <1>2 DEF CopiesAreFresh
    <2>2. \A w \in Workers : Holds(w)' => Holds(w)
      BY <1>4 DEF Holds
    <2>3. QED
      BY <1>1, <2>1, <2>2 DEF CopiesAreFresh
  <1>8. RowFollowsChecks'
    BY <1>1, <1>2, <1>3, <1>4, RowKept
  <1>9. ActiveSourceIsShown'
    BY <1>1, Shown
  <1>10. UndoHasReason'
    BY <1>1, <1>2, <1>3 DEF UndoHasReason
  <1>11. Calm' <=> Calm
    BY <1>3 DEF Calm
  <1>12. CalmWork'
    BY <1>1, <1>2, <1>4, <1>11 DEF CalmWork
  <1>13. CalmIncidents'
    <2>1. Open' = Open
      BY <1>1 DEF Open
    <2>2. QED
      BY <1>1, <1>2, <1>3, <1>4, <1>11, <2>1 DEF CalmIncidents
  <1>14. QED
    BY <1>5, <1>6, <1>7, <1>8, <1>9, <1>10, <1>12, <1>13 DEF MonitorInv

LEMMA ResolveByHandInv ==
  ASSUME MonitorInv, NEW i \in DOMAIN incident, ResolveByHand(i)
  PROVE  MonitorInv'
  <1>1. /\ incident' = [incident EXCEPT ![i] = "resolved"] /\ ReconcileComponent
        /\ UNCHANGED <<monitor, other, active, checks, worker, used>>
    BY DEF ResolveByHand
  <1>2. /\ RowsTyped /\ RoomIsLeft /\ CopiesAreFresh /\ RowFollowsChecks /\ UndoHasReason
        /\ CalmWork /\ CalmIncidents
    BY DEF MonitorInv
  <1>3. /\ incident' \in Seq({"open", "resolved"}) /\ Len(incident') = Len(incident)
        /\ Open' = Open \ {i}
    BY <1>1, <1>2, Closed
  <1>4. impaired' \in BOOLEAN /\ ActiveSourceIsShown'
    BY <1>1, Shown
  <1>5. RowsTyped'
    BY <1>1, <1>2, <1>3, <1>4 DEF RowsTyped
  <1>6. RoomIsLeft'
    BY <1>1, <1>2, <1>3 DEF RoomIsLeft, Openers, Pending
  <1>7. CopiesAreFresh'
    BY <1>1, <1>2 DEF CopiesAreFresh, Holds
  <1>8. RowFollowsChecks'
    BY <1>1, <1>2, RowKept
  <1>9. UndoHasReason'
    BY <1>1, <1>2 DEF UndoHasReason
  <1>10. CalmWork'
    BY <1>1, <1>2 DEF CalmWork, Calm
  <1>11. CalmIncidents'
    BY <1>1, <1>2, <1>3 DEF CalmIncidents, Calm
  <1>12. QED
    BY <1>4, <1>5, <1>6, <1>7, <1>8, <1>9, <1>10, <1>11 DEF MonitorInv

LEMMA ChangeOtherSourceInv == ASSUME MonitorInv, ChangeOtherSource PROVE MonitorInv'
  <1>1. /\ Spend("edits", MaxEdits) /\ other' = ~other /\ ReconcileComponent
        /\ UNCHANGED <<monitor, incident, active, checks, worker>>
    BY DEF ChangeOtherSource
  <1>2. /\ RowsTyped /\ RoomIsLeft /\ CopiesAreFresh /\ RowFollowsChecks /\ UndoHasReason
    BY DEF MonitorInv
  <1>3. /\ used' \in [demands : 0..MaxDemands, edits : 0..MaxEdits,
                      suspensions : 0..MaxEdits, faults : 0..MaxFaults]
        /\ used'.demands = used.demands /\ used'.edits = used.edits + 1
        /\ used'.suspensions = used.suspensions /\ used'.faults = used.faults
        /\ used.edits \in Nat
    BY <1>1, <1>2, Spent DEF RowsTyped
  <1>4. impaired' \in BOOLEAN /\ ActiveSourceIsShown'
    BY <1>1, Shown
  <1>5. RowsTyped'
    BY <1>1, <1>2, <1>3, <1>4 DEF RowsTyped
  <1>6. RoomIsLeft'
    BY <1>1, <1>2, <1>3 DEF RoomIsLeft, Openers, Pending
  <1>7. CopiesAreFresh'
    BY <1>1, <1>2 DEF CopiesAreFresh, Holds
  <1>8. RowFollowsChecks'
    BY <1>1, <1>2, <1>3, RowKept
  <1>9. UndoHasReason'
    BY <1>1, <1>2, <1>3 DEF UndoHasReason
  <1>10. ~Calm'
    BY <1>3 DEF Calm
  <1>11. QED
    BY <1>4, <1>5, <1>6, <1>7, <1>8, <1>9, <1>10, Disturbed

LEMMA SuspendInv == ASSUME MonitorInv, Suspend \/ Reactivate PROVE MonitorInv'
  <1>1. /\ active' \in BOOLEAN
        /\ UNCHANGED <<monitor, checks, incident, other, impaired, worker>>
    BY DEF Suspend, Reactivate
  <1>2. /\ RowsTyped /\ RoomIsLeft /\ CopiesAreFresh /\ RowFollowsChecks /\ UndoHasReason
        /\ CalmWork /\ CalmIncidents
    BY DEF MonitorInv
  <1>3. /\ used' \in [demands : 0..MaxDemands, edits : 0..MaxEdits,
                      suspensions : 0..MaxEdits, faults : 0..MaxFaults]
        /\ used'.demands = used.demands /\ used'.edits = used.edits
        /\ used'.faults = used.faults
        /\ used'.suspensions \in {used.suspensions, used.suspensions + 1}
        /\ ~active' => used'.suspensions = used.suspensions + 1
        /\ used.suspensions \in Nat
    BY <1>2, Spent DEF Suspend, Reactivate, RowsTyped
  <1>4. used'.suspensions = 0 => used.suspensions = 0
    BY <1>3
  <1>5. ActiveSourceIsShown'
    BY <1>1, Shown
  <1>6. RowsTyped'
    BY <1>1, <1>2, <1>3 DEF RowsTyped
  <1>7. RoomIsLeft'
    BY <1>1, <1>2, <1>3 DEF RoomIsLeft, Openers, Pending
  <1>8. CopiesAreFresh'
    BY <1>1, <1>2 DEF CopiesAreFresh, Holds
  <1>9. RowFollowsChecks'
    BY <1>1, <1>2, <1>3, <1>4, RowKept
  <1>10. UndoHasReason'
    <2>1. ~active' => used'.suspensions # 0
      BY <1>3
    <2>2. QED
      BY <1>1, <1>2, <1>3, <1>4, <2>1 DEF UndoHasReason
  <1>11. CalmWork'
    BY <1>1, <1>2, <1>3 DEF CalmWork, Calm
  <1>12. CalmIncidents'
    <2>1. Open' = Open
      BY <1>1 DEF Open
    <2>2. QED
      BY <1>1, <1>2, <1>3, <1>4, <2>1 DEF CalmIncidents, Calm
  <1>13. QED
    BY <1>5, <1>6, <1>7, <1>8, <1>9, <1>10, <1>11, <1>12 DEF MonitorInv

-----------------------------------------------------------------------------
(* The theorems.                                                           *)

LEMMA InitInv == Init => MonitorInv
  <1> SUFFICES ASSUME Init PROVE MonitorInv
    OBVIOUS
  <1>1. RowsTyped
    <2>1. 0 \in 0..MaxDemands /\ 0 \in 0..MaxEdits /\ 0 \in 0..MaxFaults
          /\ 0 \in 0..MaxIncidents
      BY MonitorBoundsAssumption DEF MaxIncidents
    <2>2. monitor \in Monitor /\ monitor.incident = 0
      BY <2>1 DEF Init, Monitor
    <2>3. IdleSweep \in Sweep
      BY <2>1 DEF IdleSweep, Sweep, Pcs
    <2>4. worker \in [Workers -> Sweep]
      BY <2>3 DEF Init
    <2>5. \A w \in Workers : worker[w].incident = 0 /\ worker[w].pc = "idle"
      BY DEF Init, IdleSweep
    <2>6. used \in [demands : 0..MaxDemands, edits : 0..MaxEdits,
                    suspensions : 0..MaxEdits, faults : 0..MaxFaults]
      BY <2>1 DEF Init
    <2>7. checks = <<>> /\ incident = <<>>
      BY DEF Init
    <2>8. checks \in Seq(BOOLEAN) /\ incident \in Seq({"open", "resolved"})
      BY <2>7
    <2>9. Len(incident) = 0
      BY <2>7
    <2>10. active \in BOOLEAN /\ other \in BOOLEAN /\ impaired \in BOOLEAN
      BY DEF Init
    <2>11. QED
      BY <2>2, <2>4, <2>5, <2>6, <2>8, <2>9, <2>10 DEF RowsTyped
  <1>2. Openers = {} /\ Open = {}
    BY DEF Init, Openers, IdleSweep, Open
  <1>3. RoomIsLeft
    <2>1. IsFiniteSet({}) /\ Cardinality({}) = 0
      BY FS_EmptySet, Zenon
    <2>2. Len(checks) = 0 /\ Len(incident) = 0 /\ used.demands = 0 /\ Pending = 1
      BY DEF Init, Pending
    <2>3. QED
      BY <1>2, <2>1, <2>2 DEF RoomIsLeft
  <1>4. CopiesAreFresh
    BY DEF Init, CopiesAreFresh, IdleSweep, Uncommitted
  <1>5. RowFollowsChecks
    BY DEF Init, RowFollowsChecks, DownFollowsChecks, EndsWith, Hysteresis
  <1>6. ActiveSourceIsShown
    BY <1>2 DEF Init, ActiveSourceIsShown
  <1>7. UndoHasReason
    BY DEF Init, UndoHasReason, IdleSweep
  <1>8. CalmWork
    BY DEF Init, CalmWork, IdleSweep
  <1>9. CalmIncidents
    BY <1>2 DEF Init, CalmIncidents, IdleSweep
  <1>10. QED
    BY <1>1, <1>3, <1>4, <1>5, <1>6, <1>7, <1>8, <1>9 DEF MonitorInv

LEMMA NextInv == MonitorInv /\ [Next]_vars => MonitorInv'
  <1> SUFFICES ASSUME MonitorInv, [Next]_vars PROVE MonitorInv'
    OBVIOUS
  <1>1. CASE UNCHANGED vars
    <2>1. UNCHANGED <<active, monitor, checks, incident, other, impaired, worker, used>>
      BY <1>1 DEF vars
    <2>2. SameRow /\ OnlyFaults
      BY <2>1, Stays
    <2>3. QED
      BY <2>1, <2>2, LeaseTimed
  <1>2. ASSUME NEW w \in Workers, Lease(w) \/ Heartbeat(w) \/ Crash(w) \/ StepFails(w)
        PROVE  MonitorInv'
    BY <1>2, LeaseInv, HeartbeatInv, CrashInv, StepFailsInv
  <1>3. ASSUME NEW w \in Workers, WorkerStep(w) PROVE MonitorInv'
    <2>1. ASSUME NEW ok \in BOOLEAN, RunCheck(w, ok) PROVE MonitorInv'
      BY <2>1, RunCheckInv
    <2>2. CASE ProveLease(w) \/ OpenIncident(w) \/ UndoDown(w) \/ LinkIncident(w)
      BY <2>2, ProveLeaseInv, OpenIncidentInv, UndoDownInv, LinkIncidentInv
    <2>3. CASE Commit(w)
      BY <2>3, CommitRefused, CommitAccepted
    <2>4. CASE ResolveIncident(w) \/ UnlinkIncident(w) \/ Reconcile(w) \/ Release(w)
      BY <2>4, ResolveIncidentInv, UnlinkIncidentInv, ReconcileInv, ReleaseInv
    <2>5. QED
      BY <1>3, <2>1, <2>2, <2>3, <2>4 DEF WorkerStep
  <1>4. CASE RunNow \/ ToggleEnabled \/ DeleteMonitor \/ ChangeOtherSource
    BY <1>4, RunNowInv, ToggleEnabledInv, DeleteMonitorInv, ChangeOtherSourceInv
  <1>5. ASSUME NEW i \in DOMAIN incident, ResolveByHand(i) PROVE MonitorInv'
    BY <1>5, ResolveByHandInv
  <1>6. CASE Suspend \/ Reactivate \/ BecomesDue \/ LeaseExpires
    BY <1>6, SuspendInv, BecomesDueInv, LeaseExpiresInv
  <1>7. QED
    BY <1>1, <1>2, <1>3, <1>4, <1>5, <1>6 DEF Next

\* Whoever owns the lease of worker/monitors.ts works on the row as it is, and
\* while nobody interferes one sweep is at work at a time.
THEOREM MonitorInvariance == Spec => []MonitorInv
  <1>1. Init => MonitorInv
    BY InitInv
  <1>2. MonitorInv /\ [Next]_vars => MonitorInv'
    BY NextInv
  <1>3. QED
    BY <1>1, <1>2, PTL DEF Spec

\* The counters and the state that commitMonitorResult writes are those of the
\* checks on record, however many sweeps lost their lease in between.
THEOREM StateAlwaysFollowsChecks == Spec => []StateFollowsChecks
  <1>1. MonitorInv => StateFollowsChecks
    <2> SUFFICES ASSUME MonitorInv PROVE StateFollowsChecks
      OBVIOUS
    <2>1. checks \in Seq(BOOLEAN) /\ DownFollowsChecks
      BY DEF MonitorInv, RowsTyped, RowFollowsChecks
    <2>2. ASSUME monitor.exists
          PROVE  monitor.fails = Trailing(FALSE) /\ monitor.oks = Trailing(TRUE)
      <3>1. EndsWith(FALSE, monitor.fails) /\ EndsWith(TRUE, monitor.oks)
        BY <2>2 DEF MonitorInv, RowFollowsChecks
      <3>2. QED
        BY <2>1, <3>1, TrailingRun
    <2>3. QED
      BY <2>1, <2>2 DEF StateFollowsChecks, CountersMatchChecks
  <1>2. QED
    BY <1>1, MonitorInvariance, PTL

\* Suspensions alone never leave a monitor down without an incident, and while
\* nobody interferes at all its recovery can close what it opened.
THEOREM IncidentsStayTied == Spec => []IncidentsAreTied
  <1>1. MonitorInv => IncidentsAreTied
    <2> SUFFICES ASSUME MonitorInv PROVE IncidentsAreTied
      OBVIOUS
    <2>1. TypeOK
      <3>1. RowsTyped /\ RoomIsLeft
        BY DEF MonitorInv
      <3>2. /\ Cardinality(Openers) \in Nat /\ Pending \in Nat
            /\ Len(checks) \in Nat /\ Len(incident) \in Nat
            /\ used.demands \in 0..MaxDemands /\ MaxDemands \in Nat
        BY <3>1, FS_CardinalityType DEF RowsTyped, RoomIsLeft, Pending
      <3>3. Len(checks) <= MaxDemands + 1 /\ Len(incident) <= MaxDemands + 1
        BY <3>1, <3>2 DEF RoomIsLeft
      <3>4. QED
        BY <3>1, <3>3 DEF RowsTyped, TypeOK, MaxIncidents
    <2>2. UndoneOrHasIncident
      BY DEF MonitorInv, CalmWork, Calm, UndoneOrHasIncident, DownHasIncident, Settled
    <2>3. NoOrphanIncident
      BY DEF MonitorInv, CalmIncidents, Calm, NoOrphanIncident, Settled
    <2>4. QED
      BY <2>1, <2>2, <2>3 DEF IncidentsAreTied
  <1>2. QED
    BY <1>1, MonitorInvariance, PTL

\* Recovering from one source never clears another: every transaction that
\* changes a source of the component's status reconciles it.
THEOREM ActiveSourceAlwaysShown == Spec => []ActiveSourceIsShown
  <1>1. MonitorInv => ActiveSourceIsShown
    BY DEF MonitorInv
  <1>2. QED
    BY <1>1, MonitorInvariance, PTL
=============================================================================
