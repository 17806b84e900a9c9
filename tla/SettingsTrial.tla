---------------------------- MODULE SettingsTrial ----------------------------
(***************************************************************************)
(* Confirm-or-revert of the installation settings.                         *)
(*                                                                         *)
(* lib/settings/pending.ts, store.ts, apply.ts and review.ts,              *)
(* lib/proxy-trust-store.ts, and the actions of the Runtime page and of    *)
(* signalhubctl settings.  One row, platform_configuration "global", holds *)
(* the proxy trust, the saved settings and the change on trial.  A request *)
(* reads the row without a lock and takes the row's lock with its first    *)
(* write (or with FOR UPDATE): what it read may be old by then, and from   *)
(* the lock to the commit it is alone.  Each process keeps a copy of the   *)
(* row, which a timer refreshes.  A request that fails leaves the row but  *)
(* may leave its values in the copy of its process.                        *)
(***************************************************************************)
EXTENDS Naturals, FiniteSets

CONSTANTS
    Servers,     \* web and worker processes
    WebServers,  \* those that serve the console
    Actors,      \* requests of administrators and signalhubctl
    Keys,        \* the saved settings
    LockoutKeys, \* those the registry marks lockout
    RateLimits,  \* the key with an editor of its own
    Values,      \* their values
    Default,     \* the value of a setting that is not saved
    None,        \* no value, no change on trial
    Window,      \* CONFIRM_WINDOW_MS in ticks
    MaxRequests  \* bound: the requests that change a setting

ASSUME ServersAssumption == WebServers \subseteq Servers /\ WebServers # {}
ASSUME KeysAssumption == /\ LockoutKeys \subseteq Keys
                         /\ RateLimits \in Keys \ LockoutKeys
ASSUME ValuesAssumption == Default \in Values /\ None \notin Values \union Keys
ASSUME TrialBoundsAssumption == Window \in Nat \ {0} /\ MaxRequests \in Nat

VARIABLES
    row,       \* proxy trust and saved settings
    pending,   \* settingsPending: the snapshot to return to, the time left
    copy,      \* the copy of the row in each process
    timer,     \* where the timer of each process stands
    tx,        \* the request of each actor
    kept,      \* history: the lock-out-capable values last in force for good
    overtaken, \* history: a request wrote after another had overtaken its read
    spent      \* how much of MaxRequests has been spent

vars == <<row, pending, copy, timer, tx, kept, overtaken, spent>>

Snapshots == [proxy : Values, settings : [Keys -> Values]]
Pending == [previous : Snapshots, left : 0..Window]
Kinds == {"apply", "proxyTrust", "rateLimits", "confirm", "import", "resetKey"}

\* The column is null when nothing is on trial.
ASSUME NoneAssumption == None \notin Pending

\* What a request will write (None: left alone) and what it has read.
Idle == [pc |-> "idle", kind |-> None, server |-> None, proxy |-> None,
         key |-> None, value |-> None, before |-> None, existing |-> None,
         clean |-> TRUE]

\* The part of a snapshot that can lock the administrator out.
Lockout(snap) == <<snap.proxy, [k \in LockoutKeys |-> snap.settings[k]]>>

Defaults == [proxy |-> Default, settings |-> [k \in Keys |-> Default]]

Init ==
    /\ row = Defaults
    /\ pending = None
    /\ copy = [s \in Servers |-> Defaults]
    /\ timer = [s \in Servers |-> "waiting"]
    /\ tx = [a \in Actors |-> Idle]
    /\ kept = Lockout(Defaults)
    /\ overtaken = FALSE
    /\ spent = 0

-----------------------------------------------------------------------------
(***************************************************************************)
(* What the requests write                                                 *)
(***************************************************************************)

\* Mutant: a reset is stored as an undefined value.
MergedUndefined(settings, t) ==
    IF t.key = None THEN settings
    ELSE [settings EXCEPT ![t.key] = IF t.value = Default THEN None ELSE t.value]

\* saveSettings: the whole object is written, merged from what was read.
Merged(settings, t) ==
    IF t.key = None THEN settings ELSE [settings EXCEPT ![t.key] = t.value]

\* requiresConfirmation.
NeedsTrial(t) == t.proxy # None \/ t.key \in LockoutKeys

\* Mutant: the snapshot of the newest change replaces the older one.
NewestSnapshot(existing, before) == before

\* startPending: a change already on trial keeps its older snapshot.
TrialSnapshot(existing, before) ==
    IF existing = None THEN before ELSE existing.previous

StartPending(existing, before) ==
    [previous |-> TrialSnapshot(existing, before), left |-> Window]

\* A commit of actor a.  The others' unlocked reads are now old.
Commit(a, newRow, newPending) ==
    /\ row' = newRow
    /\ pending' = newPending
    /\ overtaken' = (overtaken \/ ~tx[a].clean)
    /\ tx' = [b \in Actors |->
                IF b = a THEN Idle
                ELSE IF <<newRow, newPending>> = <<row, pending>> THEN tx[b]
                ELSE [tx[b] EXCEPT !.clean = FALSE]]

\* The same for a process that has read nothing before its lock.
CommitLocked(newRow, newPending) ==
    /\ row' = newRow
    /\ pending' = newPending
    /\ tx' = [b \in Actors |->
                IF <<newRow, newPending>> = <<row, pending>> THEN tx[b]
                ELSE [tx[b] EXCEPT !.clean = FALSE]]
    /\ UNCHANGED overtaken

Spend == spent < MaxRequests /\ spent' = spent + 1

Start(a, request) == tx' = [tx EXCEPT ![a] = request]

-----------------------------------------------------------------------------
(***************************************************************************)
(* The Runtime page and the proxy form                                     *)
(***************************************************************************)

\* applyDeployment up to applyReview: a fresh copy, and the review of the
\* proposal against it.  What equals the value in force is not a change.
Review(a) ==
    /\ tx[a].pc = "idle"
    /\ Spend
    /\ \E s \in WebServers, p \in Values, k \in Keys \ {RateLimits}, v \in Values :
          LET proxy == IF p = row.proxy THEN None ELSE p
              key == IF v = row.settings[k] THEN None ELSE k
          IN /\ <<proxy, key>> # <<None, None>>
             /\ copy' = [copy EXCEPT ![s] = row]
             /\ Start(a, [Idle EXCEPT !.pc = "reviewed", !.kind = "apply", !.server = s,
                              !.proxy = proxy, !.key = key,
                              !.value = IF key = None THEN None ELSE v])
    /\ UNCHANGED <<row, pending, timer, kept, overtaken>>

\* applyReview reads the snapshot to return to.
ApplyRead(a) ==
    /\ tx[a].pc = "reviewed"
    /\ Start(a, [tx[a] EXCEPT !.pc = "read", !.before = row])
    /\ UNCHANGED <<row, pending, copy, timer, kept, overtaken, spent>>

\* saveProxyTrust, saveSettings, startPending and the commit.  saveSettings
\* reads before it writes: under the lock when saveProxyTrust took it.
ApplyWrite(a) ==
    LET t == tx[a]
        read == IF t.proxy = None THEN t.before.settings ELSE row.settings
        newRow == [proxy |-> IF t.proxy = None THEN row.proxy ELSE t.proxy,
                   settings |-> IF t.key = None THEN row.settings ELSE Merged(read, t)]
    IN /\ t.pc = "read" /\ t.kind = "apply"
       /\ Commit(a, newRow, IF NeedsTrial(t) THEN StartPending(pending, t.before)
                            ELSE pending)
       /\ copy' = [copy EXCEPT ![t.server] = newRow]
       /\ UNCHANGED <<timer, kept, spent>>

\* updateProxyTrust compares with the copy of its process; startPending reads
\* the row and the change on trial before the first write.
ProxyTrustRead(a) ==
    /\ tx[a].pc = "idle"
    /\ Spend
    /\ \E s \in WebServers, p \in Values :
          /\ p # copy[s].proxy
          /\ Start(a, [Idle EXCEPT !.pc = "read", !.kind = "proxyTrust", !.server = s,
                           !.proxy = p, !.before = row, !.existing = pending])
    /\ UNCHANGED <<row, pending, copy, timer, kept, overtaken>>

ProxyTrustWrite(a) ==
    LET t == tx[a]
    IN /\ t.pc = "read" /\ t.kind = "proxyTrust"
       /\ Commit(a, [row EXCEPT !.proxy = t.proxy], StartPending(t.existing, t.before))
       /\ copy' = [copy EXCEPT ![t.server].proxy = t.proxy]
       /\ UNCHANGED <<timer, kept, spent>>

\* saveRateLimits: no trial.
RateLimitsRead(a) ==
    /\ tx[a].pc = "idle"
    /\ Spend
    /\ \E s \in WebServers, v \in Values :
          Start(a, [Idle EXCEPT !.pc = "read", !.kind = "rateLimits", !.server = s,
                        !.key = RateLimits, !.value = v, !.before = row])
    /\ UNCHANGED <<row, pending, copy, timer, kept, overtaken>>

RateLimitsWrite(a) ==
    LET t == tx[a]
        next == Merged(t.before.settings, t)
    IN /\ t.pc = "read" /\ t.kind = "rateLimits"
       /\ Commit(a, [row EXCEPT !.settings = next], pending)
       /\ copy' = [copy EXCEPT ![t.server].settings = next]
       /\ UNCHANGED <<timer, kept, spent>>

\* confirmPending reads the change without a lock and does not look at its
\* deadline.
ConfirmRead(a) ==
    /\ tx[a].pc = "idle"
    /\ pending # None
    /\ Start(a, [Idle EXCEPT !.pc = "read", !.kind = "confirm"])
    /\ UNCHANGED <<row, pending, copy, timer, kept, overtaken, spent>>

ConfirmWrite(a) ==
    /\ tx[a].pc = "read" /\ tx[a].kind = "confirm"
    /\ Commit(a, row, None)
    /\ kept' = Lockout(row)
    /\ UNCHANGED <<copy, timer, spent>>

\* revertPendingNow locks the row before it reads.
RevertNow(a) ==
    /\ tx[a].pc = "idle"
    /\ pending # None
    /\ CommitLocked(pending.previous, None)
    /\ \E s \in WebServers : copy' = [copy EXCEPT ![s] = pending.previous]
    /\ UNCHANGED <<timer, kept, spent>>

\* A transaction that fails is rolled back.  The savers have already put
\* their values into the copy of the process; only applyReview reads it anew.
Fail(a) ==
    LET t == tx[a]
    IN /\ t.pc # "idle"
       /\ Start(a, Idle)
       /\ copy' = CASE t.kind = "apply" -> [copy EXCEPT ![t.server] = row]
                    [] t.kind = "proxyTrust" -> [copy EXCEPT ![t.server].proxy = t.proxy]
                    [] t.kind = "rateLimits" ->
                         [copy EXCEPT ![t.server].settings = Merged(t.before.settings, t)]
                    [] OTHER -> copy
       /\ UNCHANGED <<row, pending, timer, kept, overtaken, spent>>

-----------------------------------------------------------------------------
(***************************************************************************)
(* signalhubctl settings: an operator's explicit choice, kept at once      *)
(***************************************************************************)

\* import: a file with or without the proxy section, replacing all settings.
ImportRead(a) ==
    /\ tx[a].pc = "idle"
    /\ Spend
    /\ \E p \in Values \union {None}, k \in Keys, v \in Values :
          Start(a, [Idle EXCEPT !.pc = "read", !.kind = "import", !.proxy = p,
                        !.key = k, !.value = v, !.before = row])
    /\ UNCHANGED <<row, pending, copy, timer, kept, overtaken>>

ImportWrite(a) ==
    LET t == tx[a]
        newRow == [proxy |-> IF t.proxy = None THEN t.before.proxy ELSE t.proxy,
                   settings |-> Merged(Defaults.settings, t)]
    IN /\ t.pc = "read" /\ t.kind = "import"
       /\ Commit(a, newRow, None)
       /\ kept' = Lockout(newRow)
       /\ UNCHANGED <<copy, timer, spent>>

\* reset --key NAME.
ResetKeyRead(a) ==
    /\ tx[a].pc = "idle"
    /\ Spend
    /\ \E k \in Keys :
          Start(a, [Idle EXCEPT !.pc = "read", !.kind = "resetKey", !.key = k,
                        !.value = Default, !.before = row])
    /\ UNCHANGED <<row, pending, copy, timer, kept, overtaken>>

ResetKeyWrite(a) ==
    LET newRow == [row EXCEPT !.settings = Merged(tx[a].before.settings, tx[a])]
    IN /\ tx[a].pc = "read" /\ tx[a].kind = "resetKey"
       /\ Commit(a, newRow, None)
       /\ kept' = Lockout(newRow)
       /\ UNCHANGED <<copy, timer, spent>>

\* reset --all: the proxy first, so that the settings are read under the lock.
ResetAll(a) ==
    /\ tx[a].pc = "idle"
    /\ row # Defaults \/ pending # None
    /\ Spend
    /\ CommitLocked(Defaults, None)
    /\ kept' = Lockout(Defaults)
    /\ UNCHANGED <<copy, timer>>

-----------------------------------------------------------------------------
(***************************************************************************)
(* Time and the timer of each process                                      *)
(***************************************************************************)

Tick ==
    /\ pending # None
    /\ pending.left > 0
    /\ pending' = [pending EXCEPT !.left = @ - 1]
    /\ UNCHANGED <<row, copy, timer, tx, kept, overtaken, spent>>

Due(p) == p # None /\ p.left = 0

\* Mutant: the change stays on trial after its revert.
StillPending(p) == p

AfterRevert(p) == None

\* expireDuePending locks the row before it reads.
Expire(s) ==
    /\ timer[s] = "waiting"
    /\ timer' = [timer EXCEPT ![s] = "load"]
    /\ IF Due(pending)
       THEN CommitLocked(pending.previous, AfterRevert(pending))
       ELSE UNCHANGED <<row, pending, tx, overtaken>>
    /\ UNCHANGED <<copy, kept, spent>>

\* Mutant: the timer reads the settings and not the proxy trust.
SettingsOnly(old) == [old EXCEPT !.settings = row.settings]

\* loadSettings and loadProxyTrust.
Loaded(old) == row

Load(s) ==
    /\ timer[s] = "load"
    /\ copy' = [copy EXCEPT ![s] = Loaded(copy[s])]
    /\ timer' = [timer EXCEPT ![s] = "waiting"]
    /\ UNCHANGED <<row, pending, tx, kept, overtaken, spent>>

ActorStep(a) ==
    \/ Review(a) \/ ApplyRead(a) \/ ApplyWrite(a)
    \/ ProxyTrustRead(a) \/ ProxyTrustWrite(a)
    \/ RateLimitsRead(a) \/ RateLimitsWrite(a)
    \/ ConfirmRead(a) \/ ConfirmWrite(a) \/ RevertNow(a) \/ Fail(a)
    \/ ImportRead(a) \/ ImportWrite(a)
    \/ ResetKeyRead(a) \/ ResetKeyWrite(a) \/ ResetAll(a)

Next ==
    \/ \E a \in Actors : ActorStep(a)
    \/ \E s \in Servers : Expire(s) \/ Load(s)
    \/ Tick

Spec == Init /\ [][Next]_vars

\* Time passes and setInterval keeps firing in every process.
FairSpec ==
    /\ Spec
    /\ WF_vars(Tick)
    /\ \A s \in Servers : WF_vars(Expire(s)) /\ WF_vars(Load(s))

-----------------------------------------------------------------------------
(***************************************************************************)
(* Properties                                                              *)
(***************************************************************************)

\* Type invariant of the row, the copies and the requests.
TypeOK ==
    /\ row \in Snapshots
    /\ pending \in Pending \union {None}
    /\ copy \in [Servers -> Snapshots]
    /\ timer \in [Servers -> {"waiting", "load"}]
    /\ tx \in [Actors -> [pc : {"idle", "reviewed", "read"}, kind : Kinds \union {None},
                          server : WebServers \union {None},
                          proxy : Values \union {None}, key : Keys \union {None},
                          value : Values \union {None},
                          before : Snapshots \union {None},
                          existing : Pending \union {None}, clean : BOOLEAN]]
    /\ overtaken \in BOOLEAN
    /\ spent \in 0..MaxRequests

\* What a revert would bring back, or what is in force when nothing is on
\* trial.
AtRest == IF pending = None THEN row ELSE pending.previous

\* As long as no request wrote after its read had been overtaken, the proxy
\* trust and the lock-out-capable settings that are in force for good are
\* those somebody kept: a trial of any number of changes goes back to the last
\* confirmed state (startPending, restoreSnapshot).
LockoutIsKept == ~overtaken => Lockout(AtRest) = kept

\* Every trial ends, although it can be prolonged and whoever started it may
\* never come back: some process reverts it (startSettingsRefresh).
TrialEnds == (pending # None) ~> (pending = None)

\* In the end every process works with what is saved, also one whose own save
\* was rolled back after it had changed its copy.
ServersConverge == <>[](\A s \in Servers : copy[s] = row)

=============================================================================
