------------------------- MODULE SettingsTrial_proofs -------------------------
(***************************************************************************)
(* The confirm-or-revert of the settings, for every number of processes,   *)
(* administrators, settings, values and requests.                          *)
(*                                                                         *)
(* LockoutIsKept is about the row and the change on trial alone; what      *)
(* makes it inductive is what each request has read: as long as it is      *)
(* clean, its snapshot is the row and the change it saw is the one there   *)
(* is (TxInv).                                                             *)
(***************************************************************************)
EXTENDS SettingsTrial, TLAPS

\* The same change on trial, however long it has left.
SameTrial(p, q) == /\ p = None <=> q = None
                   /\ p # None => p.previous = q.previous

\* What a request has read, and that it is not old while it is clean.
TxInv(a) ==
    LET t == tx[a]
    IN  t.pc # "idle" =>
        /\ t.pc = "reviewed" => t.kind = "apply"
        /\ t.key # None => t.value \in Values
        /\ t.kind = "proxyTrust" => t.proxy \in Values
        /\ t.kind = "rateLimits" => t.key = RateLimits
        /\ t.pc = "read" /\ t.kind # "confirm" =>
              /\ t.before \in Snapshots
              /\ t.clean => t.before = row
              /\ t.clean /\ t.kind = "proxyTrust" => SameTrial(t.existing, pending)

TrialInv == TypeOK /\ LockoutIsKept /\ \A a \in Actors : TxInv(a)
USE ServersAssumption, KeysAssumption, ValuesAssumption, TrialBoundsAssumption, NoneAssumption

Requests == [pc : {"idle", "reviewed", "read"}, kind : Kinds \union {None},
             server : WebServers \union {None},
             proxy : Values \union {None}, key : Keys \union {None},
             value : Values \union {None},
             before : Snapshots \union {None},
             existing : Pending \union {None}, clean : BOOLEAN]

Stored == row \in Snapshots /\ pending \in Pending \union {None}

-----------------------------------------------------------------------------
(* What the requests write.                                                *)

LEMMA IdleType == Idle \in Requests /\ Idle.pc = "idle"
  BY DEF Idle, Requests

LEMMA DefaultsType == Defaults \in Snapshots
  BY DEF Defaults, Snapshots

\* One setting replaced, or none.
LEMMA MergedFacts ==
  ASSUME NEW settings \in [Keys -> Values], NEW t, t.key # None => t.value \in Values
  PROVE  /\ Merged(settings, t) \in [Keys -> Values]
         /\ \A k \in Keys : k # t.key => Merged(settings, t)[k] = settings[k]
  BY DEF Merged

\* Settings that cannot lock anyone out leave what is in force for good.
LEMMA SameLockout ==
  ASSUME NEW s, NEW u, s.proxy = u.proxy, \A k \in LockoutKeys : s.settings[k] = u.settings[k]
  PROVE  Lockout(s) = Lockout(u)
  BY DEF Lockout

\* The change that a write puts on trial.
LEMMA StartPendingFacts ==
  ASSUME NEW existing \in Pending \union {None}, NEW before \in Snapshots
  PROVE  /\ StartPending(existing, before) \in Pending
         /\ StartPending(existing, before).previous =
               IF existing = None THEN before ELSE existing.previous
  BY DEF StartPending, TrialSnapshot, Pending

-----------------------------------------------------------------------------
(* What a step leaves of the requests.                                     *)

\* A request that begins or goes on reading.
LEMMA StartInv ==
  ASSUME TrialInv, NEW a \in Actors, NEW t \in Requests, Start(a, t),
         UNCHANGED <<row, pending>>, TxInv(a)'
  PROVE  tx' \in [Actors -> Requests] /\ \A b \in Actors : TxInv(b)'
  <1>1. tx \in [Actors -> Requests] /\ \A b \in Actors : TxInv(b)
    BY DEF TrialInv, TypeOK, Requests
  <1>2. tx' \in [Actors -> Requests] /\ \A b \in Actors \ {a} : tx'[b] = tx[b]
    BY <1>1 DEF Start
  <1>3. ASSUME NEW b \in Actors \ {a} PROVE TxInv(b)'
    BY <1>1, <1>2 DEF TxInv
  <1>4. QED
    BY <1>2, <1>3

\* The others after a commit: where the row is what it was, they are as clean
\* as they were.
LEMMA OthersInv ==
  ASSUME TrialInv, NEW b \in Actors, row' \in Snapshots,
         tx'[b] = IF <<row', pending'>> = <<row, pending>> THEN tx[b]
                  ELSE [tx[b] EXCEPT !.clean = FALSE]
  PROVE  tx'[b] \in Requests /\ TxInv(b)'
  <1>1. tx[b] \in Requests /\ TxInv(b)
    BY DEF TrialInv, TypeOK, Requests
  <1>2. CASE <<row', pending'>> = <<row, pending>>
    <2>1. tx'[b] = tx[b] /\ row' = row /\ pending' = pending
      BY <1>2
    <2>2. QED
      BY <1>1, <2>1 DEF TxInv
  <1>3. CASE <<row', pending'>> # <<row, pending>>
    <2> DEFINE t == [tx[b] EXCEPT !.clean = FALSE]
    <2>1. tx'[b] = t
      BY <1>3
    <2>2. /\ t \in Requests /\ ~t.clean /\ t.pc = tx[b].pc /\ t.kind = tx[b].kind
          /\ t.key = tx[b].key /\ t.value = tx[b].value /\ t.proxy = tx[b].proxy
          /\ t.before = tx[b].before
      BY <1>1 DEF Requests
    <2> HIDE DEF t
    <2>3. QED
      BY <1>1, <2>1, <2>2 DEF TxInv
  <1>4. QED
    BY <1>2, <1>3

LEMMA CommitInv ==
  ASSUME TrialInv, NEW a \in Actors, NEW newRow \in Snapshots,
         NEW newPending \in Pending \union {None}, Commit(a, newRow, newPending)
  PROVE  /\ Stored' /\ overtaken' \in BOOLEAN
         /\ ~overtaken' => ~overtaken /\ tx[a].clean
         /\ tx' \in [Actors -> Requests] /\ \A b \in Actors : TxInv(b)'
  <1>1. overtaken \in BOOLEAN /\ tx[a].clean \in BOOLEAN
    BY DEF TrialInv, TypeOK
  <1>2. row' = newRow /\ pending' = newPending /\ overtaken' = (overtaken \/ ~tx[a].clean)
    BY DEF Commit
  <1>3. /\ tx' = [b \in Actors |-> tx'[b]] /\ tx'[a] = Idle
        /\ \A b \in Actors \ {a} :
              tx'[b] = IF <<row', pending'>> = <<row, pending>> THEN tx[b]
                       ELSE [tx[b] EXCEPT !.clean = FALSE]
    BY DEF Commit
  <1>4. tx'[a] \in Requests /\ TxInv(a)'
    BY <1>3, IdleType DEF TxInv
  <1>5. ASSUME NEW b \in Actors \ {a} PROVE tx'[b] \in Requests /\ TxInv(b)'
    BY <1>2, <1>3, OthersInv
  <1>6. tx' \in [Actors -> Requests]
    BY <1>3, <1>4, <1>5
  <1>7. Stored' /\ overtaken' \in BOOLEAN /\ (~overtaken' => ~overtaken /\ tx[a].clean)
    BY <1>1, <1>2 DEF Stored
  <1>8. QED
    BY <1>4, <1>5, <1>6, <1>7

LEMMA CommitLockedInv ==
  ASSUME TrialInv, NEW newRow \in Snapshots, NEW newPending \in Pending \union {None},
         CommitLocked(newRow, newPending)
  PROVE  /\ Stored' /\ overtaken' = overtaken
         /\ tx' \in [Actors -> Requests] /\ \A b \in Actors : TxInv(b)'
  <1>1. row' = newRow /\ pending' = newPending /\ overtaken' = overtaken
    BY DEF CommitLocked
  <1>2. /\ tx' = [b \in Actors |-> tx'[b]]
        /\ \A b \in Actors :
              tx'[b] = IF <<row', pending'>> = <<row, pending>> THEN tx[b]
                       ELSE [tx[b] EXCEPT !.clean = FALSE]
    BY DEF CommitLocked
  <1>3. ASSUME NEW b \in Actors PROVE tx'[b] \in Requests /\ TxInv(b)'
    BY <1>1, <1>2, OthersInv
  <1>4. tx' \in [Actors -> Requests]
    BY <1>2, <1>3
  <1>5. QED
    BY <1>1, <1>3, <1>4 DEF Stored

\* The parts of the invariant, put together again.
LEMMA StepInv ==
  ASSUME TrialInv, Stored', tx' \in [Actors -> Requests], \A b \in Actors : TxInv(b)',
         copy' \in [Servers -> Snapshots], timer' \in [Servers -> {"waiting", "load"}],
         overtaken' \in BOOLEAN, spent' \in 0..MaxRequests, LockoutIsKept'
  PROVE  TrialInv'
  BY DEF TrialInv, TypeOK, Stored, Requests

LEMMA Facts ==
  ASSUME TrialInv
  PROVE  /\ Stored /\ tx \in [Actors -> Requests] /\ \A b \in Actors : TxInv(b)
         /\ copy \in [Servers -> Snapshots] /\ timer \in [Servers -> {"waiting", "load"}]
         /\ overtaken \in BOOLEAN /\ spent \in 0..MaxRequests /\ LockoutIsKept
  BY DEF TrialInv, TypeOK, Stored, Requests

LEMMA SpendFacts == ASSUME TrialInv, Spend PROVE spent' \in 0..MaxRequests
  BY DEF TrialInv, TypeOK, Spend

\* Nothing stored and nothing kept changes.
LEMMA SameLockoutInv ==
  TrialInv /\ UNCHANGED <<row, pending, kept, overtaken>> => LockoutIsKept' /\ Stored'
  BY DEF TrialInv, TypeOK, LockoutIsKept, AtRest, Stored

-----------------------------------------------------------------------------
(* The requests.                                                           *)

LEMMA ReviewInv == ASSUME TrialInv, NEW a \in Actors, Review(a) PROVE TrialInv'
  <1>1. PICK s \in WebServers, p \in Values, k \in Keys \ {RateLimits}, v \in Values :
          LET proxy == IF p = row.proxy THEN None ELSE p
              key == IF v = row.settings[k] THEN None ELSE k
          IN  /\ copy' = [copy EXCEPT ![s] = row]
              /\ Start(a, [Idle EXCEPT !.pc = "reviewed", !.kind = "apply", !.server = s,
                               !.proxy = proxy, !.key = key,
                               !.value = IF key = None THEN None ELSE v])
    BY DEF Review
  <1> DEFINE proxy == IF p = row.proxy THEN None ELSE p
             key == IF v = row.settings[k] THEN None ELSE k
             t == [Idle EXCEPT !.pc = "reviewed", !.kind = "apply", !.server = s,
                       !.proxy = proxy, !.key = key,
                       !.value = IF key = None THEN None ELSE v]
  <1>2. UNCHANGED <<row, pending, timer, kept, overtaken>> /\ spent' \in 0..MaxRequests
    BY SpendFacts DEF Review
  <1>3. copy' = [copy EXCEPT ![s] = row] /\ Start(a, t)
    BY <1>1
  <1>4. proxy \in Values \union {None} /\ key \in Keys \union {None}
    OBVIOUS
  <1> HIDE DEF proxy, key
  <1>5. /\ t \in Requests /\ t.pc = "reviewed" /\ t.kind = "apply"
        /\ t.key # None => t.value \in Values
    BY <1>4 DEF Requests, Kinds, Idle
  <1> HIDE DEF t
  <1>6. tx'[a] = t
    BY <1>3, Facts DEF Start
  <1>7. TxInv(a)'
    BY <1>5, <1>6 DEF TxInv
  <1>8. copy' \in [Servers -> Snapshots]
    BY <1>3, Facts DEF Stored
  <1>9. QED
    BY <1>2, <1>3, <1>5, <1>7, <1>8, Facts, StartInv, SameLockoutInv, StepInv

LEMMA ApplyReadInv == ASSUME TrialInv, NEW a \in Actors, ApplyRead(a) PROVE TrialInv'
  <1> DEFINE t == [tx[a] EXCEPT !.pc = "read", !.before = row]
  <1>1. /\ tx[a].pc = "reviewed" /\ Start(a, t)
        /\ UNCHANGED <<row, pending, copy, timer, kept, overtaken, spent>>
    BY DEF ApplyRead
  <1>2. tx[a] \in Requests /\ TxInv(a) /\ row \in Snapshots
    BY Facts DEF Stored
  <1>3. /\ t \in Requests /\ t.pc = "read" /\ t.kind = tx[a].kind /\ t.key = tx[a].key
        /\ t.value = tx[a].value /\ t.before = row
    BY <1>2 DEF Requests
  <1> HIDE DEF t
  <1>4. tx'[a] = t
    BY <1>1, Facts DEF Start
  <1>5. tx[a].kind = "apply" /\ (tx[a].key # None => tx[a].value \in Values)
    BY <1>1, <1>2 DEF TxInv
  <1>6. TxInv(a)'
    BY <1>1, <1>2, <1>3, <1>4, <1>5 DEF TxInv
  <1>7. QED
    BY <1>1, <1>3, <1>6, Facts, StartInv, SameLockoutInv, StepInv

\* A read of the others that write.
LEMMA ReadInv ==
  ASSUME TrialInv, NEW a \in Actors, NEW t \in Requests, Start(a, t), Spend, t.pc = "read",
         t.kind # "confirm" => t.before = row,
         t.key # None => t.value \in Values,
         t.kind = "proxyTrust" => t.proxy \in Values /\ t.existing = pending,
         t.kind = "rateLimits" => t.key = RateLimits,
         UNCHANGED <<row, pending, copy, timer, kept, overtaken>>
  PROVE  TrialInv'
  <1>1. tx'[a] = t
    BY Facts DEF Start
  <1>2. TxInv(a)'
    BY <1>1, Facts DEF TxInv, SameTrial, Stored
  <1>3. spent' \in 0..MaxRequests
    BY SpendFacts
  <1>4. QED
    BY <1>2, <1>3, Facts, StartInv, SameLockoutInv, StepInv

LEMMA ProxyTrustReadInv == ASSUME TrialInv, NEW a \in Actors, ProxyTrustRead(a) PROVE TrialInv'
  <1>1. PICK s \in WebServers, p \in Values :
          Start(a, [Idle EXCEPT !.pc = "read", !.kind = "proxyTrust", !.server = s,
                        !.proxy = p, !.before = row, !.existing = pending])
    BY DEF ProxyTrustRead
  <1> DEFINE t == [Idle EXCEPT !.pc = "read", !.kind = "proxyTrust", !.server = s,
                       !.proxy = p, !.before = row, !.existing = pending]
  <1>2. /\ t \in Requests /\ t.pc = "read" /\ t.kind = "proxyTrust" /\ t.before = row
        /\ t.key = None /\ t.proxy = p /\ t.existing = pending
    BY Facts DEF Requests, Kinds, Idle, Stored
  <1> HIDE DEF t
  <1>3. Start(a, t)
    BY <1>1 DEF t
  <1>4. Spend /\ UNCHANGED <<row, pending, copy, timer, kept, overtaken>>
    BY DEF ProxyTrustRead
  <1>5. QED
    BY <1>2, <1>3, <1>4, ReadInv

LEMMA RateLimitsReadInv == ASSUME TrialInv, NEW a \in Actors, RateLimitsRead(a) PROVE TrialInv'
  <1>1. PICK s \in WebServers, v \in Values :
          Start(a, [Idle EXCEPT !.pc = "read", !.kind = "rateLimits", !.server = s,
                        !.key = RateLimits, !.value = v, !.before = row])
    BY DEF RateLimitsRead
  <1> DEFINE t == [Idle EXCEPT !.pc = "read", !.kind = "rateLimits", !.server = s,
                       !.key = RateLimits, !.value = v, !.before = row]
  <1>2. /\ t \in Requests /\ t.pc = "read" /\ t.kind = "rateLimits" /\ t.before = row
        /\ t.key = RateLimits /\ t.value = v
    BY Facts DEF Requests, Kinds, Idle, Stored
  <1> HIDE DEF t
  <1>3. Start(a, t)
    BY <1>1 DEF t
  <1>4. Spend /\ UNCHANGED <<row, pending, copy, timer, kept, overtaken>>
    BY DEF RateLimitsRead
  <1>5. QED
    BY <1>2, <1>3, <1>4, ReadInv

LEMMA ImportReadInv == ASSUME TrialInv, NEW a \in Actors, ImportRead(a) PROVE TrialInv'
  <1>1. PICK p \in Values \union {None}, k \in Keys, v \in Values :
          Start(a, [Idle EXCEPT !.pc = "read", !.kind = "import", !.proxy = p,
                        !.key = k, !.value = v, !.before = row])
    BY DEF ImportRead
  <1> DEFINE t == [Idle EXCEPT !.pc = "read", !.kind = "import", !.proxy = p,
                       !.key = k, !.value = v, !.before = row]
  <1>2. /\ t \in Requests /\ t.pc = "read" /\ t.kind = "import" /\ t.before = row
        /\ t.value = v
    BY Facts DEF Requests, Kinds, Idle, Stored
  <1> HIDE DEF t
  <1>3. Start(a, t)
    BY <1>1 DEF t
  <1>4. Spend /\ UNCHANGED <<row, pending, copy, timer, kept, overtaken>>
    BY DEF ImportRead
  <1>5. QED
    BY <1>2, <1>3, <1>4, ReadInv

LEMMA ResetKeyReadInv == ASSUME TrialInv, NEW a \in Actors, ResetKeyRead(a) PROVE TrialInv'
  <1>1. PICK k \in Keys :
          Start(a, [Idle EXCEPT !.pc = "read", !.kind = "resetKey", !.key = k,
                        !.value = Default, !.before = row])
    BY DEF ResetKeyRead
  <1> DEFINE t == [Idle EXCEPT !.pc = "read", !.kind = "resetKey", !.key = k,
                       !.value = Default, !.before = row]
  <1>2. /\ t \in Requests /\ t.pc = "read" /\ t.kind = "resetKey" /\ t.before = row
        /\ t.value = Default
    BY Facts DEF Requests, Kinds, Idle, Stored
  <1> HIDE DEF t
  <1>3. Start(a, t)
    BY <1>1 DEF t
  <1>4. Spend /\ UNCHANGED <<row, pending, copy, timer, kept, overtaken>>
    BY DEF ResetKeyRead
  <1>5. QED
    BY <1>2, <1>3, <1>4, ReadInv

LEMMA ConfirmReadInv == ASSUME TrialInv, NEW a \in Actors, ConfirmRead(a) PROVE TrialInv'
  <1> DEFINE t == [Idle EXCEPT !.pc = "read", !.kind = "confirm"]
  <1>1. /\ t \in Requests /\ t.pc = "read" /\ t.kind = "confirm" /\ t.key = None
    BY DEF Requests, Kinds, Idle
  <1>2. Start(a, t) /\ UNCHANGED <<row, pending, copy, timer, kept, overtaken, spent>>
    BY DEF ConfirmRead
  <1> HIDE DEF t
  <1>3. tx'[a] = t
    BY <1>2, Facts DEF Start
  <1>4. TxInv(a)'
    BY <1>1, <1>3 DEF TxInv
  <1>5. QED
    BY <1>1, <1>2, <1>4, Facts, StartInv, SameLockoutInv, StepInv

LEMMA FailInv == ASSUME TrialInv, NEW a \in Actors, Fail(a) PROVE TrialInv'
  <1> DEFINE t == tx[a]
  <1>1. t.pc # "idle" /\ Start(a, Idle) /\ UNCHANGED <<row, pending, timer, kept, overtaken, spent>>
    BY DEF Fail
  <1>2. t \in Requests /\ TxInv(a) /\ row \in Snapshots /\ copy \in [Servers -> Snapshots]
    BY Facts DEF Stored
  <1>3. copy' \in [Servers -> Snapshots]
    <2>1. CASE t.kind = "apply"
      BY <1>2, <2>1 DEF Fail
    <2>2. CASE t.kind = "proxyTrust"
      <3>1. copy' = [copy EXCEPT ![t.server].proxy = t.proxy] /\ t.proxy \in Values
        BY <1>1, <1>2, <2>2 DEF Fail, TxInv
      <3>2. QED
        BY <1>2, <3>1 DEF Snapshots
    <2>3. CASE t.kind = "rateLimits"
      <3>1. copy' = [copy EXCEPT ![t.server].settings = Merged(t.before.settings, t)]
        BY <1>1, <1>2, <2>3 DEF Fail
      <3>2. t.pc = "read" /\ t.before \in Snapshots /\ (t.key # None => t.value \in Values)
        BY <1>1, <1>2, <2>3 DEF TxInv, Requests
      <3>3. Merged(t.before.settings, t) \in [Keys -> Values]
        BY <3>2, MergedFacts DEF Snapshots
      <3>4. QED
        BY <1>2, <3>1, <3>3 DEF Snapshots
    <2>4. CASE t.kind \notin {"apply", "proxyTrust", "rateLimits"}
      BY <1>2, <2>4 DEF Fail
    <2>5. QED
      BY <2>1, <2>2, <2>3, <2>4
  <1>4. TxInv(a)'
    <2>1. tx'[a] = Idle
      BY <1>1, Facts DEF Start
    <2>2. QED
      BY <2>1, IdleType DEF TxInv
  <1>5. QED
    BY <1>1, <1>3, <1>4, IdleType, Facts, StartInv, SameLockoutInv, StepInv

\* A request that is clean when it writes has read what is there.
LEMMA CleanRead ==
  ASSUME TrialInv, NEW a \in Actors, tx[a].pc = "read", tx[a].kind # "confirm"
  PROVE  /\ tx[a].before \in Snapshots /\ (tx[a].key # None => tx[a].value \in Values)
         /\ tx[a].clean => tx[a].before = row
  BY Facts DEF TxInv

LEMMA ApplyWriteInv == ASSUME TrialInv, NEW a \in Actors, ApplyWrite(a) PROVE TrialInv'
  <1> DEFINE t == tx[a]
             read == IF t.proxy = None THEN t.before.settings ELSE row.settings
             newRow == [proxy |-> IF t.proxy = None THEN row.proxy ELSE t.proxy,
                        settings |-> IF t.key = None THEN row.settings ELSE Merged(read, t)]
             newPending == IF NeedsTrial(t) THEN StartPending(pending, t.before) ELSE pending
  <1>1. /\ t.pc = "read" /\ t.kind = "apply" /\ Commit(a, newRow, newPending)
        /\ copy' = [copy EXCEPT ![t.server] = newRow] /\ UNCHANGED <<timer, kept, spent>>
    BY DEF ApplyWrite
  <1>2. /\ t.before \in Snapshots /\ (t.key # None => t.value \in Values)
        /\ t.clean => t.before = row
    BY <1>1, CleanRead
  <1>3. t \in Requests /\ row \in Snapshots /\ pending \in Pending \union {None}
    BY Facts DEF Stored
  <1>4. t.proxy \in Values \union {None} /\ t.key \in Keys \union {None}
    BY <1>3 DEF Requests
  <1>5. /\ row.proxy \in Values /\ row.settings \in [Keys -> Values]
        /\ t.before.settings \in [Keys -> Values]
    BY <1>2, <1>3 DEF Snapshots
  <1>6. /\ Merged(read, t) \in [Keys -> Values]
        /\ \A k \in Keys : k # t.key => Merged(read, t)[k] = read[k]
    BY <1>2, <1>5, MergedFacts
  <1>7. newRow \in Snapshots
    BY <1>4, <1>5, <1>6 DEF Snapshots
  <1>8. /\ newPending \in Pending \union {None}
        /\ NeedsTrial(t) => newPending \in Pending /\
              newPending.previous = IF pending = None THEN t.before ELSE pending.previous
    BY <1>2, <1>3, StartPendingFacts
  <1>9. ASSUME t.clean, ~NeedsTrial(t) PROVE Lockout(newRow) = Lockout(row)
    <2>1. t.proxy = None /\ t.key \notin LockoutKeys
      BY <1>9 DEF NeedsTrial
    <2>2. read = row.settings
      BY <1>2, <1>9
    <2>3. \A k \in LockoutKeys : newRow.settings[k] = row.settings[k]
      BY <1>6, <2>1, <2>2
    <2>4. newRow.proxy = row.proxy
      BY <2>1
    <2> HIDE DEF newRow
    <2>5. QED
      BY <2>3, <2>4, SameLockout
  <1> HIDE DEF newRow, newPending
  <1>10. /\ Stored' /\ overtaken' \in BOOLEAN
         /\ ~overtaken' => ~overtaken /\ t.clean
         /\ tx' \in [Actors -> Requests] /\ \A b \in Actors : TxInv(b)'
    BY <1>1, <1>7, <1>8, CommitInv
  <1>11. row' = newRow /\ pending' = newPending
    BY <1>1 DEF Commit
  <1>12. LockoutIsKept'
    <2> SUFFICES ASSUME ~overtaken' PROVE Lockout(AtRest)' = kept
      BY <1>1 DEF LockoutIsKept
    <2>1. t.clean /\ Lockout(AtRest) = kept
      BY <1>10, Facts DEF LockoutIsKept
    <2>2. CASE NeedsTrial(t)
      <3>1. AtRest' = IF pending = None THEN t.before ELSE pending.previous
        BY <1>8, <1>11, <2>2 DEF AtRest
      <3>2. AtRest' = AtRest
        BY <1>2, <2>1, <3>1 DEF AtRest
      <3>3. QED
        BY <2>1, <3>2 DEF Lockout
    <2>3. CASE ~NeedsTrial(t)
      <3>1. pending' = pending
        BY <1>11, <2>3 DEF newPending
      <3>2. CASE pending = None
        BY <1>9, <1>11, <2>1, <2>3, <3>1, <3>2 DEF AtRest, Lockout
      <3>3. CASE pending # None
        BY <2>1, <3>1, <3>3 DEF AtRest, Lockout
      <3>4. QED
        BY <3>2, <3>3
    <2>4. QED
      BY <2>2, <2>3
  <1>13. copy' \in [Servers -> Snapshots]
    BY <1>1, <1>7, Facts
  <1>14. QED
    BY <1>1, <1>10, <1>12, <1>13, Facts, StepInv

LEMMA ProxyTrustWriteInv ==
  ASSUME TrialInv, NEW a \in Actors, ProxyTrustWrite(a) PROVE TrialInv'
  <1> DEFINE t == tx[a]
             newRow == [row EXCEPT !.proxy = t.proxy]
             newPending == StartPending(t.existing, t.before)
  <1>1. /\ t.pc = "read" /\ t.kind = "proxyTrust" /\ Commit(a, newRow, newPending)
        /\ copy' = [copy EXCEPT ![t.server].proxy = t.proxy] /\ UNCHANGED <<timer, kept, spent>>
    BY DEF ProxyTrustWrite
  <1>2. /\ t.before \in Snapshots /\ t.proxy \in Values
        /\ t.clean => t.before = row /\ SameTrial(t.existing, pending)
    BY <1>1, Facts DEF TxInv
  <1>3. t \in Requests /\ row \in Snapshots /\ pending \in Pending \union {None}
    BY Facts DEF Stored
  <1>4. t.existing \in Pending \union {None}
    BY <1>3 DEF Requests
  <1>5. newRow \in Snapshots
    BY <1>2, <1>3 DEF Snapshots
  <1>6. /\ newPending \in Pending
        /\ newPending.previous = IF t.existing = None THEN t.before ELSE t.existing.previous
    BY <1>2, <1>4, StartPendingFacts
  <1> HIDE DEF newRow, newPending
  <1>7. /\ Stored' /\ overtaken' \in BOOLEAN
        /\ ~overtaken' => ~overtaken /\ t.clean
        /\ tx' \in [Actors -> Requests] /\ \A b \in Actors : TxInv(b)'
    BY <1>1, <1>5, <1>6, CommitInv
  <1>8. LockoutIsKept'
    <2> SUFFICES ASSUME ~overtaken' PROVE Lockout(AtRest)' = kept
      BY <1>1 DEF LockoutIsKept
    <2>1. t.clean /\ Lockout(AtRest) = kept
      BY <1>7, Facts DEF LockoutIsKept
    <2>2. AtRest' = newPending.previous
      BY <1>1, <1>6 DEF AtRest, Commit
    <2>3. AtRest' = AtRest
      BY <1>2, <1>6, <2>1, <2>2 DEF AtRest, SameTrial
    <2>4. QED
      BY <2>1, <2>3 DEF Lockout
  <1>9. copy' \in [Servers -> Snapshots]
    <2>1. \A c \in Snapshots : [c EXCEPT !.proxy = t.proxy] \in Snapshots
      BY <1>2 DEF Snapshots
    <2>2. QED
      BY <1>1, <2>1, Facts
  <1>10. QED
    BY <1>1, <1>7, <1>8, <1>9, Facts, StepInv

LEMMA RateLimitsWriteInv ==
  ASSUME TrialInv, NEW a \in Actors, RateLimitsWrite(a) PROVE TrialInv'
  <1> DEFINE t == tx[a]
             next == Merged(t.before.settings, t)
             newRow == [row EXCEPT !.settings = next]
  <1>1. /\ t.pc = "read" /\ t.kind = "rateLimits" /\ Commit(a, newRow, pending)
        /\ copy' = [copy EXCEPT ![t.server].settings = next] /\ UNCHANGED <<timer, kept, spent>>
    BY DEF RateLimitsWrite
  <1>2. /\ t.before \in Snapshots /\ (t.key # None => t.value \in Values)
        /\ t.key = RateLimits /\ (t.clean => t.before = row)
    BY <1>1, Facts DEF TxInv
  <1>3. row \in Snapshots /\ pending \in Pending \union {None}
    BY Facts DEF Stored
  <1>4. /\ next \in [Keys -> Values]
        /\ \A k \in Keys : k # t.key => next[k] = t.before.settings[k]
    BY <1>2, MergedFacts DEF Snapshots
  <1> HIDE DEF next
  <1>5. newRow \in Snapshots /\ newRow.proxy = row.proxy /\ newRow.settings = next
    BY <1>3, <1>4 DEF Snapshots
  <1> HIDE DEF newRow
  <1>6. t.clean => Lockout(newRow) = Lockout(row)
    BY <1>2, <1>4, <1>5, SameLockout
  <1>7. /\ Stored' /\ overtaken' \in BOOLEAN
        /\ ~overtaken' => ~overtaken /\ t.clean
        /\ tx' \in [Actors -> Requests] /\ \A b \in Actors : TxInv(b)'
    BY <1>1, <1>3, <1>5, CommitInv
  <1>8. LockoutIsKept'
    <2> SUFFICES ASSUME ~overtaken' PROVE Lockout(AtRest)' = kept
      BY <1>1 DEF LockoutIsKept
    <2>1. t.clean /\ Lockout(AtRest) = kept /\ row' = newRow /\ pending' = pending
      BY <1>1, <1>7, Facts DEF LockoutIsKept, Commit
    <2>2. CASE pending = None
      BY <1>6, <2>1, <2>2 DEF AtRest, Lockout
    <2>3. CASE pending # None
      BY <2>1, <2>3 DEF AtRest, Lockout
    <2>4. QED
      BY <2>2, <2>3
  <1>9. copy' \in [Servers -> Snapshots]
    <2>1. \A c \in Snapshots : [c EXCEPT !.settings = next] \in Snapshots
      BY <1>4 DEF Snapshots
    <2>2. QED
      BY <1>1, <2>1, Facts
  <1>10. QED
    BY <1>1, <1>7, <1>8, <1>9, Facts, StepInv

\* A write that keeps what it leaves in force: nothing is on trial any more.
LEMMA KeepingInv ==
  ASSUME TrialInv, Stored', tx' \in [Actors -> Requests], \A b \in Actors : TxInv(b)',
         overtaken' \in BOOLEAN, pending' = None, kept' = Lockout(row'),
         spent' \in 0..MaxRequests, UNCHANGED <<copy, timer>>
  PROVE  TrialInv'
  <1>1. LockoutIsKept'
    BY DEF LockoutIsKept, AtRest, Lockout
  <1>2. QED
    BY <1>1, Facts, StepInv

LEMMA ConfirmWriteInv == ASSUME TrialInv, NEW a \in Actors, ConfirmWrite(a) PROVE TrialInv'
  <1>1. /\ Commit(a, row, None) /\ kept' = Lockout(row) /\ UNCHANGED <<copy, timer, spent>>
    BY DEF ConfirmWrite
  <1>2. row' = row /\ pending' = None
    BY <1>1 DEF Commit
  <1>3. row \in Snapshots
    BY Facts DEF Stored
  <1>4. QED
    BY <1>1, <1>2, <1>3, CommitInv, Facts, KeepingInv

LEMMA ImportWriteInv == ASSUME TrialInv, NEW a \in Actors, ImportWrite(a) PROVE TrialInv'
  <1> DEFINE t == tx[a]
             newRow == [proxy |-> IF t.proxy = None THEN t.before.proxy ELSE t.proxy,
                        settings |-> Merged(Defaults.settings, t)]
  <1>1. /\ t.pc = "read" /\ t.kind = "import" /\ Commit(a, newRow, None)
        /\ kept' = Lockout(newRow) /\ UNCHANGED <<copy, timer, spent>>
    BY DEF ImportWrite
  <1>2. t.before \in Snapshots /\ (t.key # None => t.value \in Values)
    BY <1>1, CleanRead
  <1>3. t.proxy \in Values \union {None}
    BY Facts DEF Requests
  <1>4. Merged(Defaults.settings, t) \in [Keys -> Values]
    BY <1>2, DefaultsType, MergedFacts DEF Snapshots
  <1>5. newRow \in Snapshots
    BY <1>2, <1>3, <1>4 DEF Snapshots
  <1> HIDE DEF newRow
  <1>6. row' = newRow /\ pending' = None
    BY <1>1 DEF Commit
  <1>7. QED
    BY <1>1, <1>5, <1>6, CommitInv, Facts, KeepingInv

LEMMA ResetKeyWriteInv == ASSUME TrialInv, NEW a \in Actors, ResetKeyWrite(a) PROVE TrialInv'
  <1> DEFINE t == tx[a]
             newRow == [row EXCEPT !.settings = Merged(t.before.settings, t)]
  <1>1. /\ t.pc = "read" /\ t.kind = "resetKey" /\ Commit(a, newRow, None)
        /\ kept' = Lockout(newRow) /\ UNCHANGED <<copy, timer, spent>>
    BY DEF ResetKeyWrite
  <1>2. t.before \in Snapshots /\ (t.key # None => t.value \in Values)
    BY <1>1, CleanRead
  <1>3. Merged(t.before.settings, t) \in [Keys -> Values]
    BY <1>2, MergedFacts DEF Snapshots
  <1>4. newRow \in Snapshots
    BY <1>3, Facts DEF Snapshots, Stored
  <1> HIDE DEF newRow
  <1>5. row' = newRow /\ pending' = None
    BY <1>1 DEF Commit
  <1>6. QED
    BY <1>1, <1>4, <1>5, CommitInv, Facts, KeepingInv

LEMMA ResetAllInv == ASSUME TrialInv, NEW a \in Actors, ResetAll(a) PROVE TrialInv'
  <1>1. /\ CommitLocked(Defaults, None) /\ kept' = Lockout(Defaults) /\ UNCHANGED <<copy, timer>>
        /\ spent' \in 0..MaxRequests
    BY SpendFacts DEF ResetAll
  <1>2. row' = Defaults /\ pending' = None
    BY <1>1 DEF CommitLocked
  <1>3. QED
    BY <1>1, <1>2, DefaultsType, CommitLockedInv, Facts, KeepingInv

\* Back to the snapshot: what is in force for good does not change.
LEMMA RevertLockout ==
  ASSUME TrialInv, pending # None, CommitLocked(pending.previous, None), UNCHANGED kept
  PROVE  /\ LockoutIsKept' /\ Stored' /\ overtaken' = overtaken
         /\ tx' \in [Actors -> Requests] /\ \A b \in Actors : TxInv(b)'
  <1>1. pending.previous \in Snapshots
    BY Facts DEF Stored, Pending
  <1>2. /\ Stored' /\ overtaken' = overtaken
        /\ tx' \in [Actors -> Requests] /\ \A b \in Actors : TxInv(b)'
    BY <1>1, CommitLockedInv
  <1>3. row' = pending.previous /\ pending' = None
    BY DEF CommitLocked
  <1>4. AtRest' = AtRest
    BY <1>3 DEF AtRest
  <1>5. LockoutIsKept'
    BY <1>2, <1>4, Facts DEF LockoutIsKept, Lockout
  <1>6. QED
    BY <1>2, <1>5

LEMMA RevertNowInv == ASSUME TrialInv, NEW a \in Actors, RevertNow(a) PROVE TrialInv'
  <1>1. /\ pending # None /\ CommitLocked(pending.previous, None)
        /\ \E s \in WebServers : copy' = [copy EXCEPT ![s] = pending.previous]
        /\ UNCHANGED <<timer, kept, spent>>
    BY DEF RevertNow
  <1>2. pending.previous \in Snapshots
    BY <1>1, Facts DEF Stored, Pending
  <1>3. copy' \in [Servers -> Snapshots]
    BY <1>1, <1>2, Facts
  <1>4. QED
    BY <1>1, <1>3, Facts, RevertLockout, StepInv

-----------------------------------------------------------------------------
(* Time and the timer of each process.                                     *)

LEMMA TickInv == ASSUME TrialInv, Tick PROVE TrialInv'
  <1> DEFINE p == [pending EXCEPT !.left = @ - 1]
  <1>1. /\ pending # None /\ pending.left > 0 /\ pending' = p
        /\ UNCHANGED <<row, copy, timer, tx, kept, overtaken, spent>>
    BY DEF Tick
  <1>2. pending \in Pending
    BY <1>1, Facts DEF Stored
  <1>3. p \in Pending /\ p.previous = pending.previous
    BY <1>1, <1>2 DEF Pending
  <1> HIDE DEF p
  <1>4. Stored' /\ SameTrial(pending, pending') /\ pending' # None
    BY <1>1, <1>2, <1>3, Facts DEF Stored, SameTrial
  <1>5. ASSUME NEW b \in Actors PROVE TxInv(b)'
    BY <1>1, <1>4, Facts DEF TxInv, SameTrial
  <1>6. LockoutIsKept'
    BY <1>1, <1>3, <1>4, Facts DEF LockoutIsKept, AtRest
  <1>7. QED
    BY <1>1, <1>4, <1>5, <1>6, Facts, StepInv

LEMMA ExpireInv == ASSUME TrialInv, NEW s \in Servers, Expire(s) PROVE TrialInv'
  <1>1. /\ timer' = [timer EXCEPT ![s] = "load"] /\ UNCHANGED <<copy, kept, spent>>
        /\ timer' \in [Servers -> {"waiting", "load"}]
    BY Facts DEF Expire
  <1>2. CASE Due(pending)
    <2>1. pending # None /\ CommitLocked(pending.previous, None)
      BY <1>2 DEF Expire, Due, AfterRevert
    <2>2. QED
      BY <1>1, <2>1, Facts, RevertLockout, StepInv
  <1>3. CASE ~Due(pending)
    <2>1. UNCHANGED <<row, pending, tx, overtaken>>
      BY <1>3 DEF Expire
    <2>2. \A b \in Actors : TxInv(b)'
      BY <2>1, Facts DEF TxInv
    <2>3. QED
      BY <1>1, <2>1, <2>2, Facts, SameLockoutInv, StepInv
  <1>4. QED
    BY <1>2, <1>3

LEMMA LoadInv == ASSUME TrialInv, NEW s \in Servers, Load(s) PROVE TrialInv'
  <1>1. /\ copy' = [copy EXCEPT ![s] = row] /\ timer' = [timer EXCEPT ![s] = "waiting"]
        /\ UNCHANGED <<row, pending, tx, kept, overtaken, spent>>
    BY DEF Load, Loaded
  <1>2. \A b \in Actors : TxInv(b)'
    BY <1>1, Facts DEF TxInv
  <1>3. copy' \in [Servers -> Snapshots] /\ timer' \in [Servers -> {"waiting", "load"}]
    BY <1>1, Facts DEF Stored
  <1>4. QED
    BY <1>1, <1>2, <1>3, Facts, SameLockoutInv, StepInv

-----------------------------------------------------------------------------
(* The properties.                                                         *)

LEMMA InitInv == Init => TrialInv
  <1> SUFFICES ASSUME Init PROVE TrialInv
    OBVIOUS
  <1>1. TypeOK
    <2>1. 0 \in 0..MaxRequests
      OBVIOUS
    <2>2. tx \in [Actors -> Requests]
      BY IdleType DEF Init
    <2>3. /\ row \in Snapshots /\ copy \in [Servers -> Snapshots]
          /\ timer \in [Servers -> {"waiting", "load"}]
      BY DefaultsType DEF Init
    <2>4. pending \in Pending \union {None} /\ overtaken \in BOOLEAN /\ spent = 0
      BY DEF Init
    <2>5. QED
      BY <2>1, <2>2, <2>3, <2>4 DEF TypeOK, Requests
  <1>2. LockoutIsKept
    BY DEF Init, LockoutIsKept, AtRest
  <1>3. \A a \in Actors : TxInv(a)
    BY IdleType DEF Init, TxInv
  <1>4. QED
    BY <1>1, <1>2, <1>3 DEF TrialInv

LEMMA NextInv == ASSUME TrialInv, [Next]_vars PROVE TrialInv'
  <1>1. CASE UNCHANGED vars
    <2>1. UNCHANGED <<row, pending, copy, timer, tx, kept, overtaken, spent>>
      BY <1>1 DEF vars
    <2>2. \A b \in Actors : TxInv(b)'
      BY <2>1, Facts DEF TxInv
    <2>3. QED
      BY <2>1, <2>2, Facts, SameLockoutInv, StepInv
  <1>2. ASSUME NEW a \in Actors, ActorStep(a) PROVE TrialInv'
    BY <1>2, ReviewInv, ApplyReadInv, ApplyWriteInv, ProxyTrustReadInv, ProxyTrustWriteInv,
       RateLimitsReadInv, RateLimitsWriteInv, ConfirmReadInv, ConfirmWriteInv, RevertNowInv,
       FailInv, ImportReadInv, ImportWriteInv, ResetKeyReadInv, ResetKeyWriteInv, ResetAllInv
       DEF ActorStep
  <1>3. ASSUME NEW s \in Servers, Expire(s) \/ Load(s) PROVE TrialInv'
    BY <1>3, ExpireInv, LoadInv
  <1>4. QED
    BY <1>1, <1>2, <1>3, TickInv DEF Next

\* The inductive invariant holds of every behaviour.
THEOREM TrialInvariance == Spec => []TrialInv
  BY InitInv, NextInv, PTL DEF Spec

\* The row, the change on trial, the copies and the requests have their types
\* (store.ts, pending.ts).
THEOREM SettingsTyped == Spec => []TypeOK
  BY TrialInvariance, PTL DEF TrialInv

\* As long as no request writes over one that overtook its read, a trial of
\* any number of changes goes back to what somebody last kept, whatever
\* expires, fails or is imported meanwhile (startPending, restoreSnapshot).
THEOREM LockoutStaysKept == Spec => []LockoutIsKept
  BY TrialInvariance, PTL DEF TrialInv
=============================================================================
