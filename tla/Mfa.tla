---------------------------------- MODULE Mfa ----------------------------------
(***************************************************************************)
(* One person's multi-factor authentication: devices, recovery codes,      *)
(* wrong codes and the requests to remove it all.                          *)
(*                                                                         *)
(* lib/mfa/service.ts, lib/mfa/requests.ts and lib/mfa/policy.ts.  A       *)
(* transaction begins with its locks and reads and ends with its writes;   *)
(* what runs without the user's row lock comes in between.  Sessions,      *)
(* trusted browsers and the arithmetic of codes are left out.              *)
(***************************************************************************)
EXTENDS Naturals, FiniteSets

CONSTANTS
    Devices,      \* bound: authenticators, each with its secret
    Txns,         \* bound: transactions open at a time
    None,         \* no codes, no transaction
    MaxDevices,   \* MAX_DEVICES (2)
    Threshold,    \* LOCKOUT_THRESHOLD (5)
    CodeCount,    \* RECOVERY_CODE_COUNT (10)
    EmailLimit,   \* REVEAL_EMAIL_LIMIT (3)
    MaxRequests   \* bound: requests filed; their ids are 1..MaxRequests

ASSUME DevicesAssumption == IsFiniteSet(Devices) /\ MaxDevices \in Nat \ {0}
ASSUME NoneAssumption == None \notin Nat
ASSUME LimitsAssumption ==
    /\ Threshold \in Nat \ {0} /\ CodeCount \in Nat
    /\ EmailLimit \in Nat /\ MaxRequests \in Nat

VARIABLES
    active,    \* mfaDevices, ACTIVE
    pending,   \* mfaDevices, PENDING
    late,      \* those whose pendingExpiresAt is over
    enrolled,  \* users.mfaEnrolledAt is set
    codes,     \* mfaRecoveryCodes: how many are unused, or that there are none
    reveal,    \* mfaRecoveryReveals: emailsSent, or no row
    attempts,  \* users.mfaFailedAttempts
    locked,    \* users.mfaLockedUntil is ahead
    requests,  \* mfaRequests; DUE is PENDING beyond expiresAt
    cooling,   \* the last rejection was less than a day ago
    txn,       \* the open transactions
    wrong,     \* history: wrong codes in a row
    mailed,    \* history: how often the present codes were mailed
    swept      \* history: a setup was swept away while it was confirmed

device == <<active, pending, late, enrolled, swept>>
code == <<codes, reveal, mailed>>
lockout == <<attempts, locked, wrong>>
request == <<requests, cooling>>
vars == <<device, code, lockout, request, txn>>

RequestIds == 1..MaxRequests
Closed == {"APPROVED", "REJECTED", "CANCELLED", "EXPIRED"}
Kinds == {"totp", "recovery", "wrong"}

\* What a transaction does, to which device or request or with which code, and
\* what it has read: the unfinished setups, or a count.
Txn == [op : {"start"}, arg : Devices, seen : SUBSET Devices]
       \union [op : {"confirm", "delete", "adminDelete"}, arg : Devices, seen : Nat]
       \union [op : {"verify"}, arg : Kinds, seen : Nat]
       \union [op : {"file", "approve"}, arg : RequestIds, seen : Nat]
       \union [op : {"regenerate", "email", "purge"}, arg : {None}, seen : Nat]

ASSUME TxnAssumption == None \notin Txn

Init ==
    /\ active = {} /\ pending = {} /\ late = {}
    /\ enrolled = FALSE /\ swept = FALSE
    /\ codes = None /\ reveal = None /\ mailed = 0
    /\ attempts = 0 /\ locked = FALSE /\ wrong = 0
    /\ requests = [r \in RequestIds |-> "ABSENT"] /\ cooling = FALSE
    /\ txn = [t \in Txns |-> None]

-----------------------------------------------------------------------------
(***************************************************************************)
(* Transactions and locks                                                  *)
(***************************************************************************)

Open == {t \in Txns : txn[t] # None}

\* Approving begins with the request, mailing with the reveal; all else with
\* the user.
HasUser(t) == txn[t].op \notin {"approve", "email"}
HasReveal(t) == txn[t].op = "email"
HasRequest(t, r) == txn[t].op = "approve" /\ txn[t].arg = r

\* Mutant: the row is read without FOR UPDATE.
NoWaiting(others) == TRUE

\* lockUser
UserFree(others) == \A t \in others : ~HasUser(t)
RevealFree(others) == \A t \in others : ~HasReveal(t)
RequestsFree(others, ids) == \A t \in others, r \in ids : ~HasRequest(t, r)

Unclosed == {r \in RequestIds : requests[r] \in {"PENDING", "DUE"}}

Begin(t, op, arg, seen) ==
    /\ txn[t] = None
    /\ txn' = [txn EXCEPT ![t] = [op |-> op, arg |-> arg, seen |-> seen]]
    /\ UNCHANGED <<device, code, lockout, request>>

BeginLocked(t, op, arg, seen) == UserFree(Open) /\ Begin(t, op, arg, seen)

End(t) == txn' = [txn EXCEPT ![t] = None]

\* A failed statement, a lost connection, the victim of a deadlock.
Rollback(t) ==
    /\ txn[t] # None
    /\ End(t)
    /\ UNCHANGED <<device, code, lockout, request>>

\* The rows that the writes of an open transaction lock in addition: those
\* that a purge deletes or cancels, a new set of codes replaces, or a new
\* request closes.
NeedsReveal(t) ==
    \/ txn[t].op \in {"approve", "purge", "regenerate"}
    \/ txn[t].op = "confirm" /\ txn[t].seen = 0

MayCommit(t, others) ==
    /\ txn[t].op = "approve" => UserFree(others)
    /\ txn[t].op \in {"purge", "file"} => RequestsFree(others, Unclosed)
    /\ NeedsReveal(t) => RevealFree(others)

Commits(t, op) ==
    /\ txn[t] # None
    /\ txn[t].op = op
    /\ MayCommit(t, Open \ {t})
    /\ End(t)

-----------------------------------------------------------------------------
(***************************************************************************)
(* Devices and recovery codes                                              *)
(***************************************************************************)

CanAddDevice(count) == count < MaxDevices

\* Starting again deletes the unfinished setup.
StartDevice(t, d) ==
    /\ d \notin active \union pending
    /\ CanAddDevice(Cardinality(active))
    /\ BeginLocked(t, "start", d, pending)

CommitStart(t) ==
    /\ Commits(t, "start")
    /\ pending' = (pending \ txn[t].seen) \union {txn[t].arg}
    /\ late' = late \ txn[t].seen
    /\ UNCHANGED <<active, enrolled, swept, code, lockout, request>>

ReplaceCodes ==
    /\ codes' = CodeCount
    /\ reveal' = 0
    /\ mailed' = 0

ResetLockout ==
    /\ attempts' = 0
    /\ locked' = FALSE
    /\ wrong' = 0

\* The right code for a setup that is not over.
ConfirmDevice(t, d) ==
    /\ d \in pending \ late
    /\ CanAddDevice(Cardinality(active))
    /\ BeginLocked(t, "confirm", d, Cardinality(active))

\* The update names the device by its id, whether it is still there or not.
CommitConfirm(t) ==
    /\ Commits(t, "confirm")
    /\ active' = active \union ({txn[t].arg} \intersect pending)
    /\ pending' = pending \ {txn[t].arg}
    /\ late' = late \ {txn[t].arg}
    /\ enrolled' = TRUE
    /\ swept' = (swept \/ txn[t].arg \notin pending)
    /\ IF txn[t].seen = 0 THEN ReplaceCodes ELSE UNCHANGED code
    /\ ResetLockout
    /\ UNCHANGED request

CanDeleteDevice(count) == count > 1

DeleteDevice(t, d) ==
    /\ d \in active
    /\ CanDeleteDevice(Cardinality(active))
    /\ BeginLocked(t, "delete", d, 0)

CommitDelete(t) ==
    /\ Commits(t, "delete")
    /\ active' = active \ {txn[t].arg}
    /\ UNCHANGED <<pending, late, enrolled, swept, code, lockout, request>>

RegenerateRecoveryCodes(t) ==
    /\ active # {}
    /\ BeginLocked(t, "regenerate", None, 0)

CommitRegenerate(t) ==
    /\ Commits(t, "regenerate")
    /\ ReplaceCodes
    /\ UNCHANGED <<device, lockout, request>>

RevealLocked == reveal # None /\ RevealFree(Open)

TakeRevealForEmail(t) ==
    /\ RevealLocked
    /\ reveal < EmailLimit
    /\ Begin(t, "email", None, reveal)

CommitEmail(t) ==
    /\ Commits(t, "email")
    /\ reveal' = txn[t].seen + 1
    /\ mailed' = mailed + 1
    /\ UNCHANGED <<codes, device, lockout, request>>

\* acknowledgeRecoveryCodes, and the sweep when fifteen minutes are over.
DropReveal ==
    /\ reveal # None
    /\ RevealFree(Open)
    /\ reveal' = None
    /\ UNCHANGED <<codes, mailed, device, lockout, request, txn>>

-----------------------------------------------------------------------------
(***************************************************************************)
(* Codes                                                                   *)
(***************************************************************************)

VerifyCode(t, kind) ==
    /\ ~locked
    /\ kind = "totp" => active # {}
    /\ kind = "recovery" => codes \notin {None, 0}
    /\ BeginLocked(t, "verify", kind, attempts)

\* afterFailedAttempt
Locks(seen) == seen + 1 >= Threshold

CommitVerify(t) ==
    /\ Commits(t, "verify")
    /\ IF txn[t].arg = "wrong"
       THEN /\ locked' = Locks(txn[t].seen)
            /\ attempts' = IF locked' THEN 0 ELSE txn[t].seen + 1
            /\ wrong' = wrong + 1
       ELSE ResetLockout
    /\ codes' = IF txn[t].arg = "recovery" THEN codes - 1 ELSE codes
    /\ UNCHANGED <<reveal, mailed, device, request>>

LockoutEnds ==
    /\ locked
    /\ ResetLockout
    /\ UNCHANGED <<device, code, request, txn>>

AdminClearLockout ==
    /\ UserFree(Open)
    /\ ResetLockout
    /\ UNCHANGED <<device, code, request, txn>>

-----------------------------------------------------------------------------
(***************************************************************************)
(* Requests and administrators                                             *)
(***************************************************************************)

CreateRequest(t, r) ==
    /\ requests[r] = "ABSENT"
    /\ \A q \in RequestIds : requests[q] # "PENDING"
    /\ ~cooling
    /\ BeginLocked(t, "file", r, 0)

\* One PENDING row per user (the unique index).
CommitFile(t) ==
    /\ Commits(t, "file")
    /\ \A q \in RequestIds : requests[q] # "PENDING"
    /\ requests' = [q \in RequestIds |->
                      IF q = txn[t].arg THEN "PENDING"
                      ELSE IF requests[q] = "DUE" THEN "EXPIRED" ELSE requests[q]]
    /\ UNCHANGED <<cooling, device, code, lockout>>

\* Mutant: the request was read, and is not looked at again.
StillListed(r) == requests[r] # "ABSENT" /\ RequestsFree(Open, {r})

\* The conditional UPDATE: status PENDING, not over, once the row is free.
Wins(r) == requests[r] = "PENDING" /\ RequestsFree(Open, {r})

Decide(r, status) ==
    /\ Wins(r)
    /\ requests' = [requests EXCEPT ![r] = status]
    /\ UNCHANGED <<device, code, lockout, txn>>

CancelRequest(r) == Decide(r, "CANCELLED") /\ UNCHANGED cooling
RejectRequest(r) == Decide(r, "REJECTED") /\ cooling' = TRUE

ApproveRequest(t, r) == Wins(r) /\ Begin(t, "approve", r, 0)

PurgeMfa ==
    /\ active' = {} /\ pending' = {} /\ late' = {} /\ enrolled' = FALSE
    /\ codes' = None /\ reveal' = None /\ mailed' = 0
    /\ ResetLockout
    /\ UNCHANGED <<swept, cooling>>

CommitApprove(t) ==
    /\ Commits(t, "approve")
    /\ PurgeMfa
    /\ requests' = [requests EXCEPT ![txn[t].arg] = "APPROVED"]

\* adminResetMfa, and an account that is disabled.
ResetMfa(t) == BeginLocked(t, "purge", None, 0)

CommitPurge(t) ==
    /\ Commits(t, "purge")
    /\ PurgeMfa
    /\ requests' = [q \in RequestIds |-> IF q \in Unclosed THEN "CANCELLED" ELSE requests[q]]

AdminDeleteDevice(t, d) ==
    /\ d \in active
    /\ BeginLocked(t, "adminDelete", d, 0)

CommitAdminDelete(t) ==
    LET none == active \subseteq {txn[t].arg}
    IN  /\ Commits(t, "adminDelete")
        /\ active' = active \ {txn[t].arg}
        /\ codes' = IF none THEN None ELSE codes
        /\ enrolled' = (enrolled /\ ~none)
        /\ UNCHANGED <<pending, late, swept, reveal, mailed, lockout, request>>

-----------------------------------------------------------------------------
(***************************************************************************)
(* Time, and expireMfaState of the maintenance sweep                       *)
(***************************************************************************)

SetupExpires(d) ==
    /\ d \in pending \ late
    /\ late' = late \union {d}
    /\ UNCHANGED <<active, pending, enrolled, swept, code, lockout, request, txn>>

RequestExpires(r) ==
    /\ requests[r] = "PENDING"
    /\ requests' = [requests EXCEPT ![r] = "DUE"]
    /\ UNCHANGED <<cooling, device, code, lockout, txn>>

CoolingEnds ==
    /\ cooling
    /\ cooling' = FALSE
    /\ UNCHANGED <<requests, device, code, lockout, txn>>

Due == {r \in RequestIds : requests[r] = "DUE"}

ExpireRequests ==
    /\ Due # {}
    /\ RequestsFree(Open, Due)
    /\ requests' = [r \in RequestIds |-> IF r \in Due THEN "EXPIRED" ELSE requests[r]]
    /\ UNCHANGED <<cooling, device, code, lockout, txn>>

\* Rows that a start deletes are locked; a confirmation has only read its own.
DropAbandoned ==
    /\ late # {}
    /\ \A t \in Open : txn[t].op = "start" => txn[t].seen \intersect late = {}
    /\ pending' = pending \ late
    /\ late' = {}
    /\ UNCHANGED <<active, enrolled, swept, code, lockout, request, txn>>

-----------------------------------------------------------------------------

Commit(t) ==
    \/ CommitStart(t) \/ CommitConfirm(t) \/ CommitDelete(t) \/ CommitRegenerate(t)
    \/ CommitEmail(t) \/ CommitVerify(t) \/ CommitFile(t) \/ CommitApprove(t)
    \/ CommitPurge(t) \/ CommitAdminDelete(t)

Next ==
    \/ \E t \in Txns :
          \/ Commit(t) \/ Rollback(t)
          \/ RegenerateRecoveryCodes(t) \/ TakeRevealForEmail(t) \/ ResetMfa(t)
          \/ \E d \in Devices : \/ StartDevice(t, d) \/ ConfirmDevice(t, d)
                                \/ DeleteDevice(t, d) \/ AdminDeleteDevice(t, d)
          \/ \E kind \in Kinds : VerifyCode(t, kind)
          \/ \E r \in RequestIds : CreateRequest(t, r) \/ ApproveRequest(t, r)
    \/ \E r \in RequestIds : CancelRequest(r) \/ RejectRequest(r) \/ RequestExpires(r)
    \/ \E d \in Devices : SetupExpires(d)
    \/ DropReveal \/ LockoutEnds \/ AdminClearLockout \/ CoolingEnds
    \/ ExpireRequests \/ DropAbandoned

Spec == Init /\ [][Next]_vars

-----------------------------------------------------------------------------
(***************************************************************************)
(* Properties                                                              *)
(***************************************************************************)

\* Type invariant of the rows, the open transactions and the histories.
TypeOK ==
    /\ active \subseteq Devices /\ pending \subseteq Devices
    /\ late \subseteq pending /\ active \intersect pending = {}
    /\ enrolled \in BOOLEAN /\ swept \in BOOLEAN /\ cooling \in BOOLEAN
    /\ codes \in 0..CodeCount \union {None}
    /\ reveal \in 0..EmailLimit \union {None}
    /\ attempts \in 0..(Threshold - 1) /\ locked \in BOOLEAN
    /\ requests \in [RequestIds -> Closed \union {"ABSENT", "PENDING", "DUE"}]
    /\ txn \in [Txns -> Txn \union {None}]

\* "At most 2 per person ... so double clicks, two tabs and simultaneous
\* requests cannot break it": activated, or being set up beside one.
DeviceCap ==
    /\ Cardinality(active) <= MaxDevices
    /\ Cardinality(pending) <= 1

\* "... and never fewer than 1 once enrolled", and no recovery codes without a
\* device, unless the sweep took a setup that was just being confirmed.
EnrolledHasDevice == (enrolled \/ codes # None) /\ ~swept => active # {}

\* Every wrong code counts, however many are tried at once: that many in a row
\* lock the account, and as long as it is not locked the counter is theirs.
WrongCodesCount == IF locked THEN wrong = Threshold ELSE wrong = attempts

\* The codes are mailed "at most three times", by two requests at once as well.
MailsAreLimited == mailed <= EmailLimit

\* What requests that run at once must not break: the devices, the count of
\* wrong codes and the mails.
LimitsHold ==
    TypeOK /\ DeviceCap /\ EnrolledHasDevice /\ WrongCodesCount /\ MailsAreLimited

\* "Exactly one wins": a request that was decided, expired or cancelled stays
\* as it is.
DecidedOnce ==
    [][\A r \in RequestIds : requests[r] \in Closed => requests'[r] = requests[r]]_vars

\* "... never fewer than 1 once enrolled, enforced under a database row lock"
NeverFewerThanOne == enrolled => active # {}

=============================================================================
