--------------------------- MODULE DeliveryContract ---------------------------
(***************************************************************************)
(* What the notification queue promises the code that dispatches to it and *)
(* the operator who watches it: the life of a delivery without sweeps,     *)
(* leases, heartbeats or clocks.  NotificationQueue implements it.         *)
(***************************************************************************)
EXTENDS Naturals

CONSTANTS Jobs, MaxAttempts

VARIABLES
    active,    \* the organization may send
    phase,     \* where each delivery stands
    failures   \* failures recorded since the delivery was last queued

contractVars == <<active, phase, failures>>

Phases == {"none", "queued", "held", "parked", "sent", "dead"}

Init ==
    /\ active = TRUE
    /\ phase = [j \in Jobs |-> "none"]
    /\ failures = [j \in Jobs |-> 0]

Move(j, from, to) ==
    /\ phase[j] = from
    /\ phase' = [phase EXCEPT ![j] = to]

\* An event asks for a delivery.
Ask(j) == Move(j, "none", "queued") /\ UNCHANGED <<active, failures>>

\* The delivery succeeds, once, while the organization is active.
RecordSent(j) == active /\ Move(j, "queued", "sent") /\ UNCHANGED <<active, failures>>

\* A failure is recorded: the delivery stays queued while attempts are left,
\* or is given up.
RecordFailure(j) ==
    /\ active
    /\ failures[j] < MaxAttempts
    /\ \/ Move(j, "queued", "queued") /\ failures[j] + 1 < MaxAttempts
       \/ Move(j, "queued", "dead")
    /\ failures' = [failures EXCEPT ![j] = @ + 1]
    /\ UNCHANGED active

\* Suspension holds everything that is queued, reactivation releases it.
Pause ==
    /\ active
    /\ active' = FALSE
    /\ phase' = [j \in Jobs |-> IF phase[j] = "queued" THEN "held" ELSE phase[j]]
    /\ UNCHANGED failures

Resume ==
    /\ ~active
    /\ active' = TRUE
    /\ phase' = [j \in Jobs |-> IF phase[j] = "held" THEN "queued" ELSE phase[j]]
    /\ UNCHANGED failures

\* A sweep that found the organization inactive sets the delivery aside for
\* good.
Park(j) == Move(j, "queued", "parked") /\ UNCHANGED <<active, failures>>

\* The operator retries a delivery that was given up.
Again(j) ==
    /\ Move(j, "dead", "queued")
    /\ failures' = [failures EXCEPT ![j] = 0]
    /\ UNCHANGED active

\* The organization is deleted with everything it owns.
Erase ==
    /\ ~active
    /\ phase' = [j \in Jobs |-> "none"]
    /\ failures' = [j \in Jobs |-> 0]
    /\ UNCHANGED active

Next ==
    \/ \E j \in Jobs : Ask(j) \/ RecordSent(j) \/ RecordFailure(j) \/ Park(j) \/ Again(j)
    \/ Pause
    \/ Resume
    \/ Erase

Spec == Init /\ [][Next]_contractVars
=============================================================================
