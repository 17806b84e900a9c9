------------------------------ MODULE Mfa_proofs ------------------------------
(***************************************************************************)
(* Safety of multi-factor authentication for every number of devices,      *)
(* transactions and requests and every limit.                              *)
(*                                                                         *)
(* A transaction decides on what it read when it began and writes when it  *)
(* commits.  The limits hold because what it read is still true then: the  *)
(* locks it holds keep out whoever could change it (Locks are exclusive,   *)
(* Knows), and what its writes need in addition is free (MayCommit).       *)
(***************************************************************************)
EXTENDS Mfa, FiniteSetTheorems, TLAPS

USE DevicesAssumption, NoneAssumption, LimitsAssumption, TxnAssumption

\* Two open transactions never hold the same lock.
LocksAreExclusive ==
    \A t, u \in Open :
        \/ t = u
        \/ /\ ~(HasUser(t) /\ HasUser(u))
           /\ ~(HasReveal(t) /\ HasReveal(u))
           /\ \A r \in RequestIds : ~(HasRequest(t, r) /\ HasRequest(u, r))

\* What a transaction has read is so until it ends.
Knows(x) ==
    /\ x.op = "start" => x.arg \notin active \union pending /\ x.seen = pending
    /\ x.op = "confirm" => x.seen = Cardinality(active) /\ x.seen < MaxDevices
    /\ x.op = "delete" => x.arg \in active /\ Cardinality(active) > 1
    /\ x.op = "regenerate" => active # {}
    /\ x.op = "email" => x.seen = reveal /\ reveal # None /\ reveal < EmailLimit
    /\ x.op = "verify" =>
          /\ ~locked
          /\ x.seen = attempts
          /\ x.arg = "recovery" => codes \notin {None, 0}
    /\ x.op = "file" => requests[x.arg] = "ABSENT"
    /\ x.op = "approve" => x.arg \in Unclosed
    /\ x.op = "adminDelete" => x.arg \in active

\* The limits, by the rows they are about.
DevicesHold ==
    /\ active \subseteq Devices /\ pending \subseteq Devices
    /\ late \subseteq pending /\ active \intersect pending = {}
    /\ enrolled \in BOOLEAN /\ swept \in BOOLEAN
    /\ codes \in 0..CodeCount \union {None}
    /\ DeviceCap /\ EnrolledHasDevice

LockoutHolds ==
    attempts \in 0..(Threshold - 1) /\ locked \in BOOLEAN /\ WrongCodesCount

\* The mails that went out are counted by the row, as long as it is there.
MailsHold ==
    /\ reveal \in 0..EmailLimit \union {None}
    /\ reveal # None => mailed = reveal
    /\ MailsAreLimited

RequestsHold ==
    /\ requests \in [RequestIds -> Closed \union {"ABSENT", "PENDING", "DUE"}]
    /\ cooling \in BOOLEAN

RowsHold == DevicesHold /\ LockoutHolds /\ MailsHold /\ RequestsHold

MfaInv ==
    /\ RowsHold
    /\ txn \in [Txns -> Txn \union {None}]
    /\ LocksAreExclusive
    /\ \A t \in Open : Knows(txn[t])

-----------------------------------------------------------------------------
(* Transactions begin and end.                                             *)

LEMMA OpenTxn ==
  ASSUME MfaInv, NEW t \in Open
  PROVE  t \in Txns /\ txn[t] \in Txn /\ Knows(txn[t])
  BY DEF MfaInv, Open

\* A transaction that begins knows what it has read and has its lock alone.
LEMMA BeginInv ==
  ASSUME MfaInv, NEW t \in Txns, NEW x \in Txn, Begin(t, x.op, x.arg, x.seen),
         Knows(x),
         x.op \notin {"approve", "email"} => UserFree(Open),
         x.op = "email" => RevealFree(Open),
         x.op = "approve" => RequestsFree(Open, {x.arg})
  PROVE  MfaInv'
  <1>1. x = [op |-> x.op, arg |-> x.arg, seen |-> x.seen]
    BY DEF Txn
  <1>2. /\ txn' = [txn EXCEPT ![t] = x] /\ txn[t] = None
        /\ UNCHANGED <<device, code, lockout, request>>
    BY <1>1 DEF Begin
  <1>3. txn' \in [Txns -> Txn \union {None}] /\ x # None
    BY <1>2 DEF MfaInv
  <1>4. txn'[t] = x /\ \A u \in Txns : u # t => txn'[u] = txn[u]
    BY <1>2 DEF MfaInv
  <1>5. Open' = Open \union {t} /\ t \notin Open
    BY <1>2, <1>3, <1>4 DEF Open
  <1>6. RowsHold'
    BY <1>2 DEF device, code, lockout, request, MfaInv, RowsHold, DevicesHold, LockoutHolds,
                MailsHold, RequestsHold, DeviceCap, EnrolledHasDevice, WrongCodesCount,
                MailsAreLimited
  <1>7. ASSUME NEW u \in Open' PROVE Knows(txn[u])'
    <2>1. Knows(txn'[u])
      BY <1>4, <1>5, OpenTxn
    <2>2. QED
      BY <1>2, <2>1 DEF device, code, lockout, request, Knows, Unclosed
  <1>8. LocksAreExclusive'
    <2>1. ASSUME NEW u \in Open
          PROVE  /\ ~(HasUser(t)' /\ HasUser(u))
                 /\ ~(HasReveal(t)' /\ HasReveal(u))
                 /\ \A r \in RequestIds : ~(HasRequest(t, r)' /\ HasRequest(u, r))
      BY <1>4 DEF UserFree, RevealFree, RequestsFree, HasUser, HasReveal, HasRequest
    <2>2. ASSUME NEW u \in Open
          PROVE  /\ HasUser(u)' <=> HasUser(u)
                 /\ HasReveal(u)' <=> HasReveal(u)
                 /\ \A r \in RequestIds : HasRequest(u, r)' <=> HasRequest(u, r)
      BY <1>4, <1>5, OpenTxn DEF HasUser, HasReveal, HasRequest
    <2>3. LocksAreExclusive
      BY DEF MfaInv
    <2>4. SUFFICES ASSUME NEW u \in Open', NEW v \in Open', u # v
                   PROVE  /\ ~(HasUser(u)' /\ HasUser(v)')
                          /\ ~(HasReveal(u)' /\ HasReveal(v)')
                          /\ \A r \in RequestIds : ~(HasRequest(u, r)' /\ HasRequest(v, r)')
      BY DEF LocksAreExclusive
    <2>5. CASE u \in Open /\ v \in Open
      BY <2>2, <2>3, <2>4, <2>5 DEF LocksAreExclusive
    <2>6. CASE u = t /\ v \in Open
      BY <2>1, <2>2, <2>6
    <2>7. CASE u \in Open /\ v = t
      BY <2>1, <2>2, <2>7
    <2>8. QED
      BY <1>5, <2>4, <2>5, <2>6, <2>7
  <1>9. QED
    BY <1>3, <1>6, <1>7, <1>8 DEF MfaInv

\* A transaction that ends leaves the others what they know and hold.
LEMMA EndInv ==
  ASSUME MfaInv, NEW t \in Open, End(t), RowsHold',
         \A u \in Open \ {t} : Knows(txn[u])'
  PROVE  MfaInv'
  <1>1. txn' \in [Txns -> Txn \union {None}]
    BY DEF MfaInv, End
  <1>2. Open' = Open \ {t} /\ \A u \in Open \ {t} : txn'[u] = txn[u]
    BY OpenTxn DEF MfaInv, End, Open
  <1>3. LocksAreExclusive'
    BY <1>2 DEF MfaInv, LocksAreExclusive, HasUser, HasReveal, HasRequest
  <1>4. QED
    BY <1>1, <1>2, <1>3 DEF MfaInv

\* A step of no transaction.
LEMMA QuietInv ==
  ASSUME MfaInv, txn' = txn, RowsHold', \A u \in Open : Knows(txn[u])'
  PROVE  MfaInv'
  <1>1. Open' = Open
    BY DEF Open
  <1>2. LocksAreExclusive'
    BY <1>1 DEF MfaInv, LocksAreExclusive, HasUser, HasReveal, HasRequest
  <1>3. QED
    BY <1>1, <1>2 DEF MfaInv

\* Whom the locks keep out while a transaction commits.
LEMMA KeptOut ==
  ASSUME MfaInv, NEW t \in Open, MayCommit(t, Open \ {t}), NEW u \in Open \ {t}
  PROVE  /\ ~HasReveal(t) => ~HasUser(u)
         /\ NeedsReveal(t) \/ HasReveal(t) => ~HasReveal(u)
         /\ txn[u].op = "approve" =>
               txn[t].op \notin {"purge", "file"} /\ ~HasRequest(t, txn[u].arg)
  <1>1. /\ ~(HasUser(t) /\ HasUser(u)) /\ ~(HasReveal(t) /\ HasReveal(u))
        /\ \A r \in RequestIds : ~(HasRequest(t, r) /\ HasRequest(u, r))
    BY DEF MfaInv, LocksAreExclusive
  <1>2. ~HasReveal(t) => ~HasUser(u)
    BY <1>1 DEF HasReveal, HasUser, MayCommit, UserFree
  <1>3. NeedsReveal(t) => ~HasReveal(u)
    BY DEF MayCommit, RevealFree
  <1>4. ASSUME txn[u].op = "approve"
        PROVE  txn[t].op \notin {"purge", "file"} /\ ~HasRequest(t, txn[u].arg)
    <2>1. txn[u].arg \in Unclosed /\ txn[u].arg \in RequestIds /\ HasRequest(u, txn[u].arg)
      BY <1>4, OpenTxn DEF Knows, Unclosed, HasRequest
    <2>2. QED
      BY <1>1, <2>1 DEF MayCommit, RequestsFree
  <1>5. QED
    BY <1>1, <1>2, <1>3, <1>4

\* A commit changes nothing that another open transaction has read.
LEMMA CommitKeeps ==
  ASSUME MfaInv, NEW t \in Open, MayCommit(t, Open \ {t}), End(t),
         HasReveal(t) => UNCHANGED <<active, pending, locked, attempts, codes, requests>>,
         ~NeedsReveal(t) /\ ~HasReveal(t) => reveal' = reveal,
         \A r \in Unclosed : txn[t].op \notin {"purge", "file"} /\ ~HasRequest(t, r) =>
                                requests'[r] = requests[r]
  PROVE  \A u \in Open \ {t} : Knows(txn[u])'
  <1> SUFFICES ASSUME NEW u \in Open \ {t} PROVE Knows(txn[u])'
    OBVIOUS
  <1>1. txn'[u] = txn[u] /\ Knows(txn[u]) /\ txn[u] \in Txn
    BY OpenTxn DEF End, MfaInv
  <1>2. /\ ~HasReveal(t) => ~HasUser(u)
        /\ NeedsReveal(t) \/ HasReveal(t) => ~HasReveal(u)
        /\ txn[u].op = "approve" =>
              txn[t].op \notin {"purge", "file"} /\ ~HasRequest(t, txn[u].arg)
    BY KeptOut
  <1>3. CASE HasReveal(u)
    BY <1>1, <1>2, <1>3 DEF Knows, HasReveal
  <1>4. CASE txn[u].op = "approve"
    BY <1>1, <1>2, <1>4 DEF Knows, Unclosed
  <1>5. CASE HasUser(u)
    BY <1>1, <1>2, <1>5 DEF Knows, HasUser
  <1>6. QED
    BY <1>3, <1>4, <1>5 DEF HasUser, HasReveal

-----------------------------------------------------------------------------
(* Transactions that begin.                                                *)

LEMMA BeginsInv ==
  ASSUME MfaInv, NEW t \in Txns,
         \/ RegenerateRecoveryCodes(t) \/ TakeRevealForEmail(t) \/ ResetMfa(t)
         \/ \E d \in Devices : \/ StartDevice(t, d) \/ ConfirmDevice(t, d)
                               \/ DeleteDevice(t, d) \/ AdminDeleteDevice(t, d)
         \/ \E kind \in Kinds : VerifyCode(t, kind)
         \/ \E r \in RequestIds : CreateRequest(t, r) \/ ApproveRequest(t, r)
  PROVE  MfaInv'
  <1>t. /\ pending \subseteq Devices /\ active \subseteq Devices /\ IsFiniteSet(active)
        /\ Cardinality(active) \in Nat
        /\ attempts \in Nat /\ (reveal # None => reveal \in Nat)
    <2>1. /\ pending \subseteq Devices /\ active \subseteq Devices
          /\ attempts \in Nat /\ (reveal # None => reveal \in Nat)
      BY DEF MfaInv, RowsHold, DevicesHold, LockoutHolds, MailsHold
    <2>2. IsFiniteSet(active)
      BY <2>1, FS_Subset
    <2>3. QED
      BY <2>1, <2>2, FS_CardinalityType
  <1>1. ASSUME RegenerateRecoveryCodes(t) PROVE MfaInv'
    <2> DEFINE x == [op |-> "regenerate", arg |-> None, seen |-> 0]
    <2>1. x \in Txn /\ Knows(x) /\ UserFree(Open) /\ Begin(t, x.op, x.arg, x.seen)
      BY <1>1 DEF Txn, Knows, RegenerateRecoveryCodes, BeginLocked
    <2>2. x.op \notin {"email", "approve"}
      OBVIOUS
    <2> HIDE DEF x
    <2>3. QED
      BY <2>1, <2>2, BeginInv
  <1>2. ASSUME TakeRevealForEmail(t) PROVE MfaInv'
    <2> DEFINE x == [op |-> "email", arg |-> None, seen |-> reveal]
    <2>1. x \in Txn /\ Knows(x) /\ RevealFree(Open) /\ Begin(t, x.op, x.arg, x.seen)
      BY <1>2, <1>t DEF Txn, Knows, TakeRevealForEmail, RevealLocked
    <2>2. x.op = "email"
      OBVIOUS
    <2> HIDE DEF x
    <2>3. QED
      BY <2>1, <2>2, BeginInv
  <1>3. ASSUME ResetMfa(t) PROVE MfaInv'
    <2> DEFINE x == [op |-> "purge", arg |-> None, seen |-> 0]
    <2>1. x \in Txn /\ Knows(x) /\ UserFree(Open) /\ Begin(t, x.op, x.arg, x.seen)
      BY <1>3 DEF Txn, Knows, ResetMfa, BeginLocked
    <2>2. x.op \notin {"email", "approve"}
      OBVIOUS
    <2> HIDE DEF x
    <2>3. QED
      BY <2>1, <2>2, BeginInv
  <1>4. ASSUME NEW d \in Devices, StartDevice(t, d) PROVE MfaInv'
    <2> DEFINE x == [op |-> "start", arg |-> d, seen |-> pending]
    <2>1. x \in Txn /\ Knows(x) /\ UserFree(Open) /\ Begin(t, x.op, x.arg, x.seen)
      BY <1>4, <1>t DEF Txn, Knows, StartDevice, BeginLocked
    <2>2. x.op \notin {"email", "approve"}
      OBVIOUS
    <2> HIDE DEF x
    <2>3. QED
      BY <2>1, <2>2, BeginInv
  <1>5. ASSUME NEW d \in Devices, ConfirmDevice(t, d) PROVE MfaInv'
    <2> DEFINE x == [op |-> "confirm", arg |-> d, seen |-> Cardinality(active)]
    <2>1. x \in Txn /\ Knows(x) /\ UserFree(Open) /\ Begin(t, x.op, x.arg, x.seen)
      BY <1>5, <1>t DEF Txn, Knows, ConfirmDevice, CanAddDevice, BeginLocked
    <2>2. x.op \notin {"email", "approve"}
      OBVIOUS
    <2> HIDE DEF x
    <2>3. QED
      BY <2>1, <2>2, BeginInv
  <1>6. ASSUME NEW d \in Devices, DeleteDevice(t, d) PROVE MfaInv'
    <2> DEFINE x == [op |-> "delete", arg |-> d, seen |-> 0]
    <2>1. x \in Txn /\ Knows(x) /\ UserFree(Open) /\ Begin(t, x.op, x.arg, x.seen)
      BY <1>6 DEF Txn, Knows, DeleteDevice, CanDeleteDevice, BeginLocked
    <2>2. x.op \notin {"email", "approve"}
      OBVIOUS
    <2> HIDE DEF x
    <2>3. QED
      BY <2>1, <2>2, BeginInv
  <1>7. ASSUME NEW d \in Devices, AdminDeleteDevice(t, d) PROVE MfaInv'
    <2> DEFINE x == [op |-> "adminDelete", arg |-> d, seen |-> 0]
    <2>1. x \in Txn /\ Knows(x) /\ UserFree(Open) /\ Begin(t, x.op, x.arg, x.seen)
      BY <1>7 DEF Txn, Knows, AdminDeleteDevice, BeginLocked
    <2>2. x.op \notin {"email", "approve"}
      OBVIOUS
    <2> HIDE DEF x
    <2>3. QED
      BY <2>1, <2>2, BeginInv
  <1>8. ASSUME NEW kind \in Kinds, VerifyCode(t, kind) PROVE MfaInv'
    <2> DEFINE x == [op |-> "verify", arg |-> kind, seen |-> attempts]
    <2>1. x \in Txn /\ Knows(x) /\ UserFree(Open) /\ Begin(t, x.op, x.arg, x.seen)
      BY <1>8, <1>t DEF Txn, Knows, VerifyCode, BeginLocked
    <2>2. x.op \notin {"email", "approve"}
      OBVIOUS
    <2> HIDE DEF x
    <2>3. QED
      BY <2>1, <2>2, BeginInv
  <1>9. ASSUME NEW r \in RequestIds, CreateRequest(t, r) PROVE MfaInv'
    <2> DEFINE x == [op |-> "file", arg |-> r, seen |-> 0]
    <2>1. x \in Txn /\ Knows(x) /\ UserFree(Open) /\ Begin(t, x.op, x.arg, x.seen)
      BY <1>9 DEF Txn, Knows, CreateRequest, BeginLocked
    <2>2. x.op \notin {"email", "approve"}
      OBVIOUS
    <2> HIDE DEF x
    <2>3. QED
      BY <2>1, <2>2, BeginInv
  <1>10. ASSUME NEW r \in RequestIds, ApproveRequest(t, r) PROVE MfaInv'
    <2> DEFINE x == [op |-> "approve", arg |-> r, seen |-> 0]
    <2>1. x \in Txn /\ Knows(x) /\ RequestsFree(Open, {r}) /\ Begin(t, x.op, x.arg, x.seen)
      BY <1>10 DEF Txn, Knows, ApproveRequest, Wins, Unclosed
    <2>2. x.op = "approve" /\ x.arg = r
      OBVIOUS
    <2> HIDE DEF x
    <2>3. QED
      BY <2>1, <2>2, BeginInv
  <1>11. QED
    BY <1>1, <1>2, <1>3, <1>4, <1>5, <1>6, <1>7, <1>8, <1>9, <1>10

-----------------------------------------------------------------------------
(* Transactions that commit.                                               *)

\* What is known of a transaction when it commits.
LEMMA Committing ==
  ASSUME MfaInv, NEW t \in Txns, NEW op, Commits(t, op)
  PROVE  /\ t \in Open /\ txn[t] \in Txn /\ txn[t].op = op /\ Knows(txn[t])
         /\ MayCommit(t, Open \ {t}) /\ End(t)
         /\ DevicesHold /\ LockoutHolds /\ MailsHold /\ RequestsHold
  BY OpenTxn DEF Commits, Open, MfaInv, RowsHold

\* What no step changes still holds.
LEMMA Unmoved ==
  ASSUME RowsHold
  PROVE  /\ UNCHANGED <<device, codes>> => DevicesHold'
         /\ UNCHANGED lockout => LockoutHolds'
         /\ UNCHANGED <<reveal, mailed>> => MailsHold'
         /\ UNCHANGED request => RequestsHold'
  <1>1. UNCHANGED <<device, codes>> => DevicesHold'
    BY DEF device, RowsHold, DevicesHold, DeviceCap, EnrolledHasDevice
  <1>2. UNCHANGED lockout => LockoutHolds'
    BY DEF lockout, RowsHold, LockoutHolds, WrongCodesCount
  <1>3. UNCHANGED <<reveal, mailed>> => MailsHold'
    BY DEF RowsHold, MailsHold, MailsAreLimited
  <1>4. UNCHANGED request => RequestsHold'
    BY DEF request, RowsHold, RequestsHold
  <1>5. QED
    BY <1>1, <1>2, <1>3, <1>4

\* Sets of devices.
LEMMA DeviceCount ==
  /\ \A S \in SUBSET Devices : IsFiniteSet(S) /\ Cardinality(S) \in Nat
  /\ \A S \in SUBSET Devices : Cardinality(S) = 0 <=> S = {}
  /\ \A S \in SUBSET Devices, d \in Devices :
        /\ Cardinality(S \union {d}) <= Cardinality(S) + 1
        /\ Cardinality(S \ {d}) <= Cardinality(S)
        /\ Cardinality(S) > 1 => S \ {d} # {}
  <1>1. ASSUME NEW S \in SUBSET Devices
        PROVE  IsFiniteSet(S) /\ Cardinality(S) \in Nat /\ (Cardinality(S) = 0 <=> S = {})
    <2>1. IsFiniteSet(S)
      BY FS_Subset
    <2>2. QED
      BY <2>1, FS_CardinalityType, FS_EmptySet
  <1>2. ASSUME NEW S \in SUBSET Devices, NEW d \in Devices
        PROVE  /\ Cardinality(S \union {d}) <= Cardinality(S) + 1
               /\ Cardinality(S \ {d}) <= Cardinality(S)
               /\ Cardinality(S) > 1 => S \ {d} # {}
    <2>1. IsFiniteSet(S) /\ Cardinality(S) \in Nat
      BY <1>1
    <2>2. Cardinality(S \union {d}) = IF d \in S THEN Cardinality(S) ELSE Cardinality(S) + 1
      BY <2>1, FS_AddElement
    <2>3. Cardinality(S \ {d}) = IF d \in S THEN Cardinality(S) - 1 ELSE Cardinality(S)
      BY <2>1, FS_RemoveElement
    <2>4. S \ {d} = {} => Cardinality(S \ {d}) = 0
      BY FS_EmptySet
    <2>5. QED
      BY <2>1, <2>2, <2>3, <2>4
  <1>3. QED
    BY <1>1, <1>2

LEMMA CommitStartInv == ASSUME MfaInv, NEW t \in Txns, CommitStart(t) PROVE MfaInv'
  <1> DEFINE d == txn[t].arg
  <1>1. /\ t \in Open /\ txn[t] \in Txn /\ txn[t].op = "start" /\ Knows(txn[t])
        /\ MayCommit(t, Open \ {t}) /\ End(t) /\ DevicesHold
    BY Committing DEF CommitStart
  <1>2. d \in Devices /\ d \notin active /\ txn[t].seen = pending
    BY <1>1 DEF Txn, Knows
  <1>3. /\ pending' = {d} /\ late' = {}
        /\ UNCHANGED <<active, enrolled, swept, codes>>
    BY <1>1, <1>2 DEF CommitStart, code, DevicesHold
  <1>4. DevicesHold'
    <2>1. Cardinality({d}) = 1
      BY FS_Singleton, Zenon
    <2>2. Cardinality(pending') <= 1
      BY <1>3, <2>1
    <2>3. QED
      BY <1>1, <1>2, <1>3, <2>2 DEF DevicesHold, DeviceCap, EnrolledHasDevice
  <1>5. RowsHold'
    BY <1>4, Unmoved DEF CommitStart, code, RowsHold, MfaInv
  <1>6. \A u \in Open \ {t} : Knows(txn[u])'
    BY <1>1, CommitKeeps DEF CommitStart, code, lockout, request, HasReveal
  <1>7. QED
    BY <1>1, <1>5, <1>6, EndInv

\* The first device brings its codes; another was counted under the lock.
LEMMA CommitConfirmInv == ASSUME MfaInv, NEW t \in Txns, CommitConfirm(t) PROVE MfaInv'
  <1> DEFINE d == txn[t].arg
  <1>1. /\ t \in Open /\ txn[t] \in Txn /\ txn[t].op = "confirm" /\ Knows(txn[t])
        /\ MayCommit(t, Open \ {t}) /\ End(t)
        /\ DevicesHold /\ LockoutHolds /\ MailsHold /\ RequestsHold
    BY Committing DEF CommitConfirm
  <1>2. d \in Devices /\ txn[t].seen = Cardinality(active) /\ Cardinality(active) < MaxDevices
    BY <1>1 DEF Txn, Knows
  <1>3. /\ active' = active \union ({d} \intersect pending) /\ pending' = pending \ {d}
        /\ late' = late \ {d} /\ enrolled' = TRUE
        /\ swept' = (swept \/ d \notin pending)
    BY DEF CommitConfirm
  <1>4. codes' \in 0..CodeCount \union {None}
    BY <1>1, <1>2 DEF CommitConfirm, ReplaceCodes, code, DevicesHold
  <1>5. DevicesHold'
    <2>1. Cardinality(active') <= MaxDevices
      <3>1. active' = active \/ active' = active \union {d}
        BY <1>3
      <3>2. /\ Cardinality(active) \in Nat /\ Cardinality(active \union {d}) \in Nat
            /\ Cardinality(active \union {d}) <= Cardinality(active) + 1
        <4>1. active \subseteq Devices /\ active \union {d} \subseteq Devices
          BY <1>1, <1>2 DEF DevicesHold
        <4>2. QED
          BY <1>2, <4>1, DeviceCount
      <3>3. \/ Cardinality(active') = Cardinality(active)
            \/ Cardinality(active') = Cardinality(active \union {d})
        BY <3>1, Zenon
      <3>4. QED
        BY <1>2, <3>2, <3>3
    <2>2. Cardinality(pending') <= 1
      <3>1. Cardinality(pending \ {d}) <= Cardinality(pending)
            /\ Cardinality(pending) \in Nat /\ Cardinality(pending \ {d}) \in Nat
        BY <1>1, <1>2, DeviceCount DEF DevicesHold
      <3>2. QED
        BY <1>1, <1>3, <3>1 DEF DevicesHold, DeviceCap
    <2>3. ~swept' => active' # {}
      BY <1>1, <1>3 DEF DevicesHold
    <2>4. /\ active' \subseteq Devices /\ pending' \subseteq Devices /\ late' \subseteq pending'
          /\ active' \intersect pending' = {} /\ enrolled' \in BOOLEAN /\ swept' \in BOOLEAN
      BY <1>1, <1>2, <1>3 DEF DevicesHold
    <2>5. QED
      BY <1>4, <2>1, <2>2, <2>3, <2>4 DEF DevicesHold, DeviceCap, EnrolledHasDevice
  <1>6. MailsHold'
    <2>1. CASE txn[t].seen = 0
      <3>1. reveal' = 0 /\ mailed' = 0 /\ 0 \in 0..EmailLimit
        BY <2>1 DEF CommitConfirm, ReplaceCodes
      <3>2. QED
        BY <3>1 DEF MailsHold, MailsAreLimited
    <2>2. CASE txn[t].seen # 0
      <3>1. UNCHANGED <<reveal, mailed>>
        BY <2>2 DEF CommitConfirm, code
      <3>2. QED
        BY <3>1, Unmoved DEF MfaInv
    <2>3. QED
      BY <2>1, <2>2
  <1>7. LockoutHolds'
    <2>1. attempts' = 0 /\ locked' = FALSE /\ wrong' = 0 /\ 0 \in 0..(Threshold - 1)
      BY DEF CommitConfirm, ResetLockout
    <2>2. QED
      BY <2>1 DEF LockoutHolds, WrongCodesCount
  <1>8. RequestsHold' /\ requests' = requests
    BY Unmoved DEF CommitConfirm, request, MfaInv
  <1>9. \A u \in Open \ {t} : Knows(txn[u])'
    <2>1. ~NeedsReveal(t) => reveal' = reveal
      BY <1>1 DEF NeedsReveal, CommitConfirm, code
    <2>2. QED
      BY <1>1, <1>8, <2>1, CommitKeeps DEF HasReveal
  <1>10. QED
    BY <1>1, <1>5, <1>6, <1>7, <1>8, <1>9, EndInv DEF RowsHold

\* One of two or more goes.
LEMMA CommitDeleteInv == ASSUME MfaInv, NEW t \in Txns, CommitDelete(t) PROVE MfaInv'
  <1> DEFINE d == txn[t].arg
  <1>1. /\ t \in Open /\ txn[t] \in Txn /\ txn[t].op = "delete" /\ Knows(txn[t])
        /\ MayCommit(t, Open \ {t}) /\ End(t) /\ DevicesHold
    BY Committing DEF CommitDelete
  <1>2. d \in active /\ d \in Devices /\ Cardinality(active) > 1
    BY <1>1 DEF Knows, DevicesHold
  <1>3. active' = active \ {d} /\ UNCHANGED <<pending, late, enrolled, swept, codes>>
    BY DEF CommitDelete, code
  <1>4. DevicesHold'
    <2>1. active \ {d} # {} /\ Cardinality(active \ {d}) <= Cardinality(active)
          /\ Cardinality(active) \in Nat /\ Cardinality(active \ {d}) \in Nat
      BY <1>1, <1>2, DeviceCount DEF DevicesHold
    <2>2. Cardinality(active') <= MaxDevices
      BY <1>1, <1>3, <2>1 DEF DevicesHold, DeviceCap
    <2>3. QED
      BY <1>1, <1>3, <2>1, <2>2 DEF DevicesHold, DeviceCap, EnrolledHasDevice
  <1>5. RowsHold'
    BY <1>4, Unmoved DEF CommitDelete, code, RowsHold, MfaInv
  <1>6. \A u \in Open \ {t} : Knows(txn[u])'
    BY <1>1, CommitKeeps DEF CommitDelete, code, request, HasReveal
  <1>7. QED
    BY <1>1, <1>5, <1>6, EndInv

LEMMA CommitRegenerateInv ==
  ASSUME MfaInv, NEW t \in Txns, CommitRegenerate(t) PROVE MfaInv'
  <1>1. /\ t \in Open /\ txn[t].op = "regenerate" /\ Knows(txn[t])
        /\ MayCommit(t, Open \ {t}) /\ End(t) /\ DevicesHold
    BY Committing DEF CommitRegenerate
  <1>2. /\ active # {} /\ codes' = CodeCount /\ reveal' = 0 /\ mailed' = 0
        /\ UNCHANGED device /\ UNCHANGED lockout /\ UNCHANGED request
    BY <1>1 DEF CommitRegenerate, ReplaceCodes, Knows
  <1>3. DevicesHold'
    <2>1. CodeCount \in 0..CodeCount
      OBVIOUS
    <2>2. QED
      BY <1>1, <1>2, <2>1 DEF device, DevicesHold, DeviceCap, EnrolledHasDevice
  <1>4. MailsHold'
    <2>1. 0 \in 0..EmailLimit
      OBVIOUS
    <2>2. QED
      BY <1>2, <2>1 DEF MailsHold, MailsAreLimited
  <1>5. RowsHold'
    BY <1>2, <1>3, <1>4, Unmoved DEF RowsHold, MfaInv
  <1>6. \A u \in Open \ {t} : Knows(txn[u])'
    BY <1>1, <1>2, CommitKeeps DEF request, NeedsReveal, HasReveal
  <1>7. QED
    BY <1>1, <1>5, <1>6, EndInv

\* The row was read under its lock, so no mail goes uncounted.
LEMMA CommitEmailInv == ASSUME MfaInv, NEW t \in Txns, CommitEmail(t) PROVE MfaInv'
  <1>1. /\ t \in Open /\ txn[t].op = "email" /\ Knows(txn[t])
        /\ MayCommit(t, Open \ {t}) /\ End(t) /\ MailsHold
    BY Committing DEF CommitEmail
  <1>2. /\ reveal' = reveal + 1 /\ mailed' = mailed + 1 /\ mailed = reveal
        /\ reveal \in Nat /\ reveal < EmailLimit
        /\ UNCHANGED <<codes, device, lockout, request>>
    BY <1>1 DEF CommitEmail, Knows, MailsHold
  <1>3. MailsHold'
    <2>1. reveal' \in 0..EmailLimit /\ mailed' = reveal' /\ mailed' <= EmailLimit
      BY <1>2
    <2>2. QED
      BY <2>1 DEF MailsHold, MailsAreLimited
  <1>4. RowsHold'
    BY <1>2, <1>3, Unmoved DEF RowsHold, MfaInv
  <1>5. UNCHANGED <<active, pending, locked, attempts, codes, requests>>
    BY <1>2 DEF device, lockout, request
  <1>6. \A u \in Open \ {t} : Knows(txn[u])'
    BY <1>1, <1>5, CommitKeeps DEF HasReveal
  <1>7. QED
    BY <1>1, <1>4, <1>6, EndInv

\* The counter was read under the lock, so no wrong code goes uncounted.
LEMMA CommitVerifyInv == ASSUME MfaInv, NEW t \in Txns, CommitVerify(t) PROVE MfaInv'
  <1>1. /\ t \in Open /\ txn[t] \in Txn /\ txn[t].op = "verify" /\ Knows(txn[t])
        /\ MayCommit(t, Open \ {t}) /\ End(t) /\ LockoutHolds /\ DevicesHold
    BY Committing DEF CommitVerify
  <1>2. /\ ~locked /\ txn[t].seen = attempts /\ wrong = attempts
        /\ attempts \in 0..(Threshold - 1)
        /\ txn[t].arg = "recovery" => codes \notin {None, 0}
        /\ UNCHANGED <<reveal, mailed, device, request>>
    BY <1>1 DEF Knows, LockoutHolds, WrongCodesCount, CommitVerify
  <1>3. LockoutHolds'
    <2>1. CASE txn[t].arg = "wrong"
      <3>1. /\ locked' = (attempts + 1 >= Threshold)
            /\ attempts' = IF locked' THEN 0 ELSE attempts + 1
            /\ wrong' = attempts + 1
        BY <1>2, <2>1 DEF CommitVerify, Locks
      <3>2. /\ 0 \in 0..(Threshold - 1)
            /\ IF attempts + 1 >= Threshold THEN attempts + 1 = Threshold
               ELSE attempts + 1 \in 0..(Threshold - 1)
        BY <1>2
      <3>3. CASE attempts + 1 >= Threshold
        <4>1. locked' = TRUE
          BY <3>1, <3>3, Zenon
        <4>2. attempts' = 0 /\ wrong' = Threshold
          BY <3>1, <3>2, <3>3, <4>1
        <4>3. QED
          BY <3>2, <4>1, <4>2 DEF LockoutHolds, WrongCodesCount
      <3>4. CASE ~(attempts + 1 >= Threshold)
        <4>1. locked' = FALSE
          <5>1. (attempts + 1 >= Threshold) = FALSE
            BY <3>4
          <5>2. QED
            BY <3>1, <5>1, Zenon
        <4>2. attempts' = attempts + 1 /\ wrong' = attempts + 1
          BY <3>1, <4>1, Zenon
        <4>3. QED
          BY <3>2, <3>4, <4>1, <4>2 DEF LockoutHolds, WrongCodesCount
      <3>5. QED
        BY <3>3, <3>4
    <2>2. CASE txn[t].arg # "wrong"
      <3>1. attempts' = 0 /\ locked' = FALSE /\ wrong' = 0 /\ 0 \in 0..(Threshold - 1)
        BY <2>2 DEF CommitVerify, ResetLockout
      <3>2. QED
        BY <3>1 DEF LockoutHolds, WrongCodesCount
    <2>3. QED
      BY <2>1, <2>2
  <1>4. DevicesHold'
    <2>1. codes' = codes \/ (codes \in 1..CodeCount /\ codes' = codes - 1)
      <3>1. CASE txn[t].arg = "recovery"
        <4>1. codes' = codes - 1 /\ codes \in 0..CodeCount /\ codes # 0
          BY <1>1, <1>2, <3>1 DEF CommitVerify, DevicesHold
        <4>2. QED
          BY <4>1
      <3>2. CASE txn[t].arg # "recovery"
        <4>1. codes' = codes
          BY <3>2, Zenon DEF CommitVerify
        <4>2. QED
          BY <4>1
      <3>3. QED
        BY <3>1, <3>2
    <2>2. codes' \in 0..CodeCount \union {None} /\ (codes = None => codes' = None)
      BY <1>1, <2>1 DEF DevicesHold
    <2>3. UNCHANGED <<active, pending, late, enrolled, swept>>
      BY <1>2 DEF device
    <2>4. QED
      BY <1>1, <2>2, <2>3 DEF DevicesHold, DeviceCap, EnrolledHasDevice
  <1>5. RowsHold'
    BY <1>2, <1>3, <1>4, Unmoved DEF RowsHold, MfaInv
  <1>6. \A u \in Open \ {t} : Knows(txn[u])'
    BY <1>1, <1>2, CommitKeeps DEF request, HasReveal
  <1>7. QED
    BY <1>1, <1>5, <1>6, EndInv

LEMMA CommitFileInv == ASSUME MfaInv, NEW t \in Txns, CommitFile(t) PROVE MfaInv'
  <1>1. /\ t \in Open /\ txn[t].op = "file"
        /\ MayCommit(t, Open \ {t}) /\ End(t) /\ RequestsHold
    BY Committing DEF CommitFile
  <1>2. /\ UNCHANGED <<cooling, device, code, lockout>>
        /\ requests' = [q \in RequestIds |->
                          IF q = txn[t].arg THEN "PENDING"
                          ELSE IF requests[q] = "DUE" THEN "EXPIRED" ELSE requests[q]]
    BY DEF CommitFile
  <1>3. RequestsHold'
    BY <1>1, <1>2 DEF RequestsHold, Closed
  <1>4. RowsHold'
    BY <1>2, <1>3, Unmoved DEF code, RowsHold, MfaInv
  <1>5. \A u \in Open \ {t} : Knows(txn[u])'
    BY <1>1, <1>2, CommitKeeps DEF code, HasReveal
  <1>6. QED
    BY <1>1, <1>4, <1>5, EndInv

\* Nothing is left of what a purge or an approval removes.
LEMMA PurgedHold ==
  ASSUME MfaInv, PurgeMfa
  PROVE  DevicesHold' /\ LockoutHolds' /\ MailsHold'
  <1>1. /\ active' = {} /\ pending' = {} /\ late' = {} /\ enrolled' = FALSE /\ swept' = swept
        /\ codes' = None /\ reveal' = None /\ mailed' = 0
        /\ attempts' = 0 /\ locked' = FALSE /\ wrong' = 0
        /\ 0 \in 0..(Threshold - 1)
    BY DEF PurgeMfa, ResetLockout
  <1>2. Cardinality({}) = 0
    BY FS_EmptySet, Zenon
  <1>3. DevicesHold'
    <2>1. DeviceCap'
      BY <1>1, <1>2 DEF DeviceCap
    <2>2. EnrolledHasDevice'
      BY <1>1 DEF EnrolledHasDevice
    <2>3. QED
      BY <1>1, <2>1, <2>2 DEF MfaInv, RowsHold, DevicesHold
  <1>4. LockoutHolds'
    BY <1>1 DEF LockoutHolds, WrongCodesCount
  <1>5. MailsHold'
    BY <1>1 DEF MailsHold, MailsAreLimited
  <1>6. QED
    BY <1>3, <1>4, <1>5

LEMMA CommitApproveInv == ASSUME MfaInv, NEW t \in Txns, CommitApprove(t) PROVE MfaInv'
  <1>1. /\ t \in Open /\ txn[t] \in Txn /\ txn[t].op = "approve"
        /\ MayCommit(t, Open \ {t}) /\ End(t) /\ RequestsHold
    BY Committing DEF CommitApprove
  <1>2. txn[t].arg \in RequestIds /\ requests' = [requests EXCEPT ![txn[t].arg] = "APPROVED"]
        /\ cooling' = cooling /\ PurgeMfa
    BY <1>1 DEF CommitApprove, PurgeMfa, Txn
  <1>3. RequestsHold'
    BY <1>1, <1>2 DEF RequestsHold, Closed
  <1>4. RowsHold'
    BY <1>2, <1>3, PurgedHold DEF RowsHold
  <1>5. \A r \in Unclosed : ~HasRequest(t, r) => requests'[r] = requests[r]
    BY <1>1, <1>2 DEF HasRequest, Unclosed, RequestsHold
  <1>6. \A u \in Open \ {t} : Knows(txn[u])'
    BY <1>1, <1>5, CommitKeeps DEF HasReveal, NeedsReveal
  <1>7. QED
    BY <1>1, <1>4, <1>6, EndInv

LEMMA CommitPurgeInv == ASSUME MfaInv, NEW t \in Txns, CommitPurge(t) PROVE MfaInv'
  <1>1. /\ t \in Open /\ txn[t].op = "purge"
        /\ MayCommit(t, Open \ {t}) /\ End(t) /\ RequestsHold
    BY Committing DEF CommitPurge
  <1>2. /\ cooling' = cooling /\ PurgeMfa
        /\ requests' = [q \in RequestIds |-> IF q \in Unclosed THEN "CANCELLED" ELSE requests[q]]
    BY DEF CommitPurge, PurgeMfa
  <1>3. RequestsHold'
    BY <1>1, <1>2 DEF RequestsHold, Closed
  <1>4. RowsHold'
    BY <1>2, <1>3, PurgedHold DEF RowsHold
  <1>5. \A u \in Open \ {t} : Knows(txn[u])'
    BY <1>1, CommitKeeps DEF HasReveal, NeedsReveal
  <1>6. QED
    BY <1>1, <1>4, <1>5, EndInv

\* With the last device the codes go, and the enrolment.
LEMMA CommitAdminDeleteInv ==
  ASSUME MfaInv, NEW t \in Txns, CommitAdminDelete(t) PROVE MfaInv'
  <1> DEFINE d == txn[t].arg
             none == active \subseteq {d}
  <1>1. /\ t \in Open /\ txn[t] \in Txn /\ txn[t].op = "adminDelete" /\ Knows(txn[t])
        /\ MayCommit(t, Open \ {t}) /\ End(t) /\ DevicesHold
    BY Committing DEF CommitAdminDelete
  <1>2. /\ d \in Devices /\ active' = active \ {d}
        /\ codes' = IF none THEN None ELSE codes
        /\ enrolled' = (enrolled /\ ~none)
        /\ UNCHANGED <<pending, late, swept, reveal, mailed, lockout, request>>
    BY <1>1 DEF Txn, CommitAdminDelete
  <1>3. DevicesHold'
    <2>1. Cardinality(active \ {d}) <= Cardinality(active)
          /\ Cardinality(active) \in Nat /\ Cardinality(active \ {d}) \in Nat
      BY <1>1, <1>2, DeviceCount DEF DevicesHold
    <2>2. Cardinality(active') <= MaxDevices
      BY <1>1, <1>2, <2>1 DEF DevicesHold, DeviceCap
    <2>3. EnrolledHasDevice'
      <3>1. CASE none
        BY <1>2, <3>1 DEF EnrolledHasDevice
      <3>2. CASE ~none
        BY <1>2, <3>2 DEF EnrolledHasDevice
      <3>3. QED
        BY <3>1, <3>2
    <2>4. enrolled' \in BOOLEAN /\ codes' \in 0..CodeCount \union {None}
      BY <1>1, <1>2 DEF DevicesHold
    <2> HIDE DEF none
    <2>5. QED
      BY <1>1, <1>2, <2>2, <2>3, <2>4 DEF DevicesHold, DeviceCap
  <1>4. RowsHold'
    BY <1>2, <1>3, Unmoved DEF RowsHold, MfaInv
  <1>5. \A u \in Open \ {t} : Knows(txn[u])'
    BY <1>1, <1>2, CommitKeeps DEF request, HasReveal
  <1>6. QED
    BY <1>1, <1>4, <1>5, EndInv

-----------------------------------------------------------------------------
(* What is no commit.                                                      *)

LEMMA RollbackInv == ASSUME MfaInv, NEW t \in Txns, Rollback(t) PROVE MfaInv'
  <1>1. t \in Open /\ End(t) /\ UNCHANGED <<device, code, lockout, request>>
    BY DEF Rollback, Open
  <1>2. RowsHold'
    BY <1>1, Unmoved DEF code, RowsHold, MfaInv
  <1>3. ASSUME NEW u \in Open \ {t} PROVE Knows(txn[u])'
    <2>1. txn'[u] = txn[u] /\ Knows(txn[u])
      BY <1>1, OpenTxn DEF End, MfaInv
    <2>2. QED
      BY <1>1, <2>1 DEF device, code, lockout, request, Knows, Unclosed
  <1>4. QED
    BY <1>1, <1>2, <1>3, EndInv

LEMMA DropRevealInv == ASSUME MfaInv, DropReveal PROVE MfaInv'
  <1>1. /\ txn' = txn /\ RevealFree(Open) /\ reveal' = None
        /\ UNCHANGED <<codes, mailed, device, lockout, request>>
    BY DEF DropReveal
  <1>2. RowsHold'
    <2>1. MailsHold'
      BY <1>1 DEF MfaInv, RowsHold, MailsHold, MailsAreLimited
    <2>2. QED
      BY <1>1, <2>1, Unmoved DEF RowsHold, MfaInv
  <1>3. ASSUME NEW u \in Open PROVE Knows(txn[u])'
    <2>1. Knows(txn[u]) /\ txn[u].op # "email"
      BY <1>1, OpenTxn DEF RevealFree, HasReveal
    <2>2. QED
      BY <1>1, <2>1 DEF device, lockout, request, Knows, Unclosed
  <1>4. QED
    BY <1>1, <1>2, <1>3, QuietInv

\* While a code is verified the account is not locked and its row not free.
LEMMA LockoutClearedInv ==
  ASSUME MfaInv, LockoutEnds \/ AdminClearLockout PROVE MfaInv'
  <1>1. /\ txn' = txn /\ UNCHANGED <<device, code, request>>
        /\ attempts' = 0 /\ locked' = FALSE /\ wrong' = 0
    BY DEF LockoutEnds, AdminClearLockout, ResetLockout
  <1>2. RowsHold'
    <2>1. 0 \in 0..(Threshold - 1)
      OBVIOUS
    <2>2. LockoutHolds'
      BY <1>1, <2>1 DEF LockoutHolds, WrongCodesCount
    <2>3. QED
      BY <1>1, <2>2, Unmoved DEF code, RowsHold, MfaInv
  <1>3. ASSUME NEW u \in Open PROVE Knows(txn[u])'
    <2>1. Knows(txn[u]) /\ txn[u].op # "verify"
      BY OpenTxn DEF LockoutEnds, AdminClearLockout, UserFree, HasUser, Knows
    <2>2. QED
      BY <1>1, <2>1 DEF device, code, request, Knows, Unclosed
  <1>4. QED
    BY <1>1, <1>2, <1>3, QuietInv

\* What is being approved stays open, and what is being filed absent.
LEMMA RequestsInv ==
  ASSUME MfaInv, txn' = txn, UNCHANGED <<device, code, lockout>>, RequestsHold',
         \A r \in RequestIds : requests[r] = "ABSENT" => requests'[r] = "ABSENT",
         \A r \in Unclosed : requests'[r] \in {"PENDING", "DUE"} \/ RequestsFree(Open, {r})
  PROVE  MfaInv'
  <1>1. RowsHold'
    BY Unmoved DEF code, RowsHold, MfaInv
  <1>2. ASSUME NEW u \in Open PROVE Knows(txn[u])'
    <2>1. Knows(txn[u]) /\ txn[u] \in Txn
      BY OpenTxn
    <2>2. txn[u].op = "file" => requests'[txn[u].arg] = "ABSENT"
      BY <2>1 DEF Knows, Txn
    <2>3. txn[u].op = "approve" => txn[u].arg \in Unclosed'
      BY <2>1 DEF Knows, Unclosed, RequestsFree, HasRequest
    <2>4. QED
      BY <2>1, <2>2, <2>3 DEF device, code, lockout, Knows
  <1>3. QED
    BY <1>1, <1>2, QuietInv

LEMMA DecideInv ==
  ASSUME MfaInv, NEW r \in RequestIds, CancelRequest(r) \/ RejectRequest(r) PROVE MfaInv'
  <1>1. PICK status \in Closed : requests' = [requests EXCEPT ![r] = status]
    BY DEF CancelRequest, RejectRequest, Decide, Closed
  <1>2. /\ txn' = txn /\ UNCHANGED <<device, code, lockout>> /\ cooling' \in BOOLEAN
        /\ requests[r] = "PENDING" /\ RequestsFree(Open, {r})
    BY DEF CancelRequest, RejectRequest, Decide, Wins, MfaInv, RowsHold, RequestsHold
  <1>3. RequestsHold /\ RequestsHold'
    BY <1>1, <1>2 DEF MfaInv, RowsHold, RequestsHold
  <1>4. \A q \in RequestIds : q # r => requests'[q] = requests[q]
    BY <1>1, <1>3 DEF RequestsHold
  <1>5. QED
    BY <1>2, <1>3, <1>4, RequestsInv DEF Unclosed

LEMMA RequestExpiresInv ==
  ASSUME MfaInv, NEW r \in RequestIds, RequestExpires(r) PROVE MfaInv'
  <1>1. /\ txn' = txn /\ UNCHANGED <<device, code, lockout>> /\ cooling' = cooling
        /\ requests[r] = "PENDING" /\ requests' = [requests EXCEPT ![r] = "DUE"]
    BY DEF RequestExpires
  <1>2. RequestsHold /\ RequestsHold'
    BY <1>1 DEF MfaInv, RowsHold, RequestsHold
  <1>3. requests'[r] = "DUE" /\ \A q \in RequestIds : q # r => requests'[q] = requests[q]
    BY <1>1, <1>2 DEF RequestsHold
  <1>4. QED
    BY <1>1, <1>2, <1>3, RequestsInv DEF Unclosed

LEMMA ExpireRequestsInv == ASSUME MfaInv, ExpireRequests PROVE MfaInv'
  <1>1. /\ txn' = txn /\ UNCHANGED <<device, code, lockout>> /\ cooling' = cooling
        /\ RequestsFree(Open, Due)
        /\ requests' = [r \in RequestIds |-> IF r \in Due THEN "EXPIRED" ELSE requests[r]]
    BY DEF ExpireRequests
  <1>2. RequestsHold'
    BY <1>1 DEF MfaInv, RowsHold, RequestsHold, Closed
  <1>3. \A r \in RequestIds : requests[r] = "ABSENT" => requests'[r] = "ABSENT"
    BY <1>1 DEF Due
  <1>4. \A r \in Unclosed : requests'[r] \in {"PENDING", "DUE"} \/ RequestsFree(Open, {r})
    BY <1>1 DEF Unclosed, Due, RequestsFree
  <1>5. QED
    BY <1>1, <1>2, <1>3, <1>4, RequestsInv

LEMMA CoolingEndsInv == ASSUME MfaInv, CoolingEnds PROVE MfaInv'
  <1>1. /\ txn' = txn /\ UNCHANGED <<requests, device, code, lockout>> /\ cooling' = FALSE
    BY DEF CoolingEnds
  <1>2. RequestsHold'
    BY <1>1 DEF MfaInv, RowsHold, RequestsHold
  <1>3. QED
    BY <1>1, <1>2, RequestsInv DEF Unclosed

LEMMA SetupExpiresInv ==
  ASSUME MfaInv, NEW d \in Devices, SetupExpires(d) PROVE MfaInv'
  <1>1. /\ txn' = txn /\ late' = late \union {d} /\ d \in pending
        /\ UNCHANGED <<active, pending, enrolled, swept, code, lockout, request>>
    BY DEF SetupExpires
  <1>2. RowsHold'
    <2>1. DevicesHold'
      BY <1>1 DEF code, MfaInv, RowsHold, DevicesHold, DeviceCap, EnrolledHasDevice
    <2>2. QED
      BY <1>1, <2>1, Unmoved DEF code, RowsHold, MfaInv
  <1>3. ASSUME NEW u \in Open PROVE Knows(txn[u])'
    <2>1. Knows(txn[u])
      BY OpenTxn
    <2>2. QED
      BY <1>1, <2>1 DEF code, lockout, request, Knows, Unclosed
  <1>4. QED
    BY <1>1, <1>2, <1>3, QuietInv

\* A setup that a start replaces is locked; it is all of them.
LEMMA DropAbandonedInv == ASSUME MfaInv, DropAbandoned PROVE MfaInv'
  <1>1. /\ txn' = txn /\ pending' = pending \ late /\ late' = {} /\ late # {}
        /\ \A t \in Open : txn[t].op = "start" => txn[t].seen \intersect late = {}
        /\ UNCHANGED <<active, enrolled, swept, code, lockout, request>>
    BY DEF DropAbandoned
  <1>2. DevicesHold
    BY DEF MfaInv, RowsHold
  <1>3. RowsHold'
    <2>1. pending' = {} \/ pending' = pending
      <3>1. Cardinality(pending) <= 1 /\ IsFiniteSet(pending) /\ pending \subseteq Devices
        BY <1>2, FS_Subset DEF DevicesHold, DeviceCap
      <3>2. PICK d \in late : TRUE
        BY <1>1
      <3>3. d \in pending /\ Cardinality(pending \ {d}) = Cardinality(pending) - 1
            /\ Cardinality(pending) \in Nat /\ Cardinality(pending \ {d}) \in Nat
        <4>1. d \in pending
          BY <1>2, <3>2 DEF DevicesHold
        <4>2. pending \ {d} \subseteq Devices
          BY <3>1
        <4>3. QED
          BY <3>1, <4>1, <4>2, FS_RemoveElement, DeviceCount
      <3>4. Cardinality(pending \ {d}) = 0
        BY <3>1, <3>3
      <3>5. pending \ {d} = {}
        BY <3>1, <3>4, DeviceCount
      <3>6. QED
        BY <1>1, <3>2, <3>5
    <2>2. Cardinality(pending') <= 1
      <3>1. Cardinality({}) = 0
        BY FS_EmptySet, Zenon
      <3>2. QED
        BY <1>2, <2>1, <3>1 DEF DevicesHold, DeviceCap
    <2>3. DevicesHold'
      BY <1>1, <1>2, <2>2 DEF code, DevicesHold, DeviceCap, EnrolledHasDevice
    <2>4. QED
      BY <1>1, <2>3, Unmoved DEF code, RowsHold, MfaInv
  <1>4. ASSUME NEW u \in Open PROVE Knows(txn[u])'
    <2>1. Knows(txn[u])
      BY OpenTxn
    <2>2. txn[u].op # "start"
      BY <1>1, <1>2, <2>1 DEF Knows, DevicesHold
    <2>3. QED
      BY <1>1, <2>1, <2>2 DEF code, lockout, request, Knows, Unclosed
  <1>5. QED
    BY <1>1, <1>3, <1>4, QuietInv

-----------------------------------------------------------------------------
(* The theorems.                                                           *)

LEMMA InitInv == Init => MfaInv
  <1> SUFFICES ASSUME Init PROVE MfaInv
    OBVIOUS
  <1>1. txn = [t \in Txns |-> None] /\ Open = {}
    BY DEF Init, Open
  <1>2. DevicesHold
    <2>1. Cardinality({}) = 0
      BY FS_EmptySet, Zenon
    <2>2. DeviceCap
      BY <2>1 DEF Init, DeviceCap
    <2>3. QED
      BY <2>2 DEF Init, DevicesHold, EnrolledHasDevice
  <1>3. LockoutHolds
    <2>1. 0 \in 0..(Threshold - 1)
      OBVIOUS
    <2>2. QED
      BY <2>1 DEF Init, LockoutHolds, WrongCodesCount
  <1>4. MailsHold /\ RequestsHold
    <2>1. MailsHold
      BY DEF Init, MailsHold, MailsAreLimited
    <2>2. RequestsHold
      BY DEF Init, RequestsHold
    <2>3. QED
      BY <2>1, <2>2
  <1>5. QED
    BY <1>1, <1>2, <1>3, <1>4 DEF MfaInv, RowsHold, LocksAreExclusive

LEMMA CommitInv == ASSUME MfaInv, NEW t \in Txns, Commit(t) PROVE MfaInv'
  BY CommitStartInv, CommitConfirmInv, CommitDeleteInv, CommitRegenerateInv, CommitEmailInv,
     CommitVerifyInv, CommitFileInv, CommitApproveInv, CommitPurgeInv, CommitAdminDeleteInv
     DEF Commit

LEMMA NextInv == MfaInv /\ [Next]_vars => MfaInv'
  <1> SUFFICES ASSUME MfaInv, [Next]_vars PROVE MfaInv'
    OBVIOUS
  <1>1. CASE UNCHANGED vars
    <2>1. txn' = txn /\ UNCHANGED <<device, code, lockout, requests>> /\ cooling' = cooling
      BY <1>1 DEF vars, request
    <2>2. RequestsHold'
      BY <2>1 DEF MfaInv, RowsHold, RequestsHold
    <2>3. QED
      BY <2>1, <2>2, RequestsInv DEF Unclosed
  <1>2. ASSUME NEW t \in Txns, Commit(t) PROVE MfaInv'
    BY <1>2, CommitInv
  <1>3. ASSUME NEW t \in Txns, Rollback(t) PROVE MfaInv'
    BY <1>3, RollbackInv
  <1>4. ASSUME NEW t \in Txns,
               \/ RegenerateRecoveryCodes(t) \/ TakeRevealForEmail(t) \/ ResetMfa(t)
               \/ \E d \in Devices : \/ StartDevice(t, d) \/ ConfirmDevice(t, d)
                                     \/ DeleteDevice(t, d) \/ AdminDeleteDevice(t, d)
               \/ \E kind \in Kinds : VerifyCode(t, kind)
               \/ \E r \in RequestIds : CreateRequest(t, r) \/ ApproveRequest(t, r)
        PROVE  MfaInv'
    BY <1>4, BeginsInv
  <1>5. ASSUME NEW r \in RequestIds,
               CancelRequest(r) \/ RejectRequest(r) \/ RequestExpires(r)
        PROVE  MfaInv'
    BY <1>5, DecideInv, RequestExpiresInv
  <1>6. ASSUME NEW d \in Devices, SetupExpires(d) PROVE MfaInv'
    BY <1>6, SetupExpiresInv
  <1>7. CASE DropReveal \/ LockoutEnds \/ AdminClearLockout
    BY <1>7, DropRevealInv, LockoutClearedInv
  <1>8. CASE CoolingEnds \/ ExpireRequests \/ DropAbandoned
    BY <1>8, CoolingEndsInv, ExpireRequestsInv, DropAbandonedInv
  <1>9. QED
    BY <1>1, <1>2, <1>3, <1>4, <1>5, <1>6, <1>7, <1>8 DEF Next

\* What a transaction of lib/mfa/service.ts or lib/mfa/requests.ts has read is
\* so until it ends, and no two hold the same lock.
THEOREM MfaInvariance == Spec => []MfaInv
  <1>1. Init => MfaInv
    BY InitInv
  <1>2. MfaInv /\ [Next]_vars => MfaInv'
    BY NextInv
  <1>3. QED
    BY <1>1, <1>2, PTL DEF Spec

\* MAX_DEVICES, LOCKOUT_THRESHOLD and REVEAL_EMAIL_LIMIT hold however many
\* requests run at once, and who is enrolled has a device.
THEOREM LimitsAlwaysHold == Spec => []LimitsHold
  <1>1. MfaInv => LimitsHold
    BY DEF MfaInv, RowsHold, DevicesHold, LockoutHolds, MailsHold, RequestsHold,
           LimitsHold, TypeOK
  <1>2. QED
    BY <1>1, MfaInvariance, PTL

\* A request that was decided is not decided again.
LEMMA DecidedStep ==
  ASSUME MfaInv, [Next]_vars
  PROVE  \A r \in RequestIds : requests[r] \in Closed => requests'[r] = requests[r]
  <1>1. RequestsHold
    BY DEF MfaInv, RowsHold
  <1> SUFFICES ASSUME NEW r \in RequestIds, requests[r] \in Closed
               PROVE  requests'[r] = requests[r]
    OBVIOUS
  <1>2. requests[r] \notin {"ABSENT", "PENDING", "DUE"} /\ r \notin Unclosed /\ r \notin Due
    BY DEF Closed, Unclosed, Due
  <1>3. ASSUME NEW t \in Txns, CommitFile(t) PROVE requests'[r] = requests[r]
    <2>1. txn[t].op = "file" /\ Knows(txn[t])
      BY <1>3, Committing DEF CommitFile
    <2>2. txn[t].arg # r
      BY <1>2, <2>1 DEF Knows
    <2>3. QED
      BY <1>2, <1>3, <2>2 DEF CommitFile
  <1>4. ASSUME NEW t \in Txns, CommitApprove(t) PROVE requests'[r] = requests[r]
    <2>1. txn[t].op = "approve" /\ Knows(txn[t])
      BY <1>4, Committing DEF CommitApprove
    <2>2. txn[t].arg # r
      BY <1>2, <2>1 DEF Knows
    <2>3. QED
      BY <1>1, <1>4, <2>2 DEF CommitApprove, RequestsHold
  <1>5. ASSUME NEW t \in Txns, CommitPurge(t) PROVE requests'[r] = requests[r]
    BY <1>2, <1>5 DEF CommitPurge
  <1>6. ASSUME NEW q \in RequestIds,
               CancelRequest(q) \/ RejectRequest(q) \/ RequestExpires(q)
        PROVE  requests'[r] = requests[r]
    BY <1>1, <1>2, <1>6
       DEF CancelRequest, RejectRequest, Decide, Wins, RequestExpires, RequestsHold
  <1>7. CASE ExpireRequests
    BY <1>2, <1>7 DEF ExpireRequests
  <1>8. CASE requests' = requests
    BY <1>8
  <1>9. ASSUME NEW t \in Txns, Commit(t) PROVE requests'[r] = requests[r]
    <2>1. CASE CommitFile(t) \/ CommitApprove(t) \/ CommitPurge(t)
      BY <2>1, <1>3, <1>4, <1>5
    <2>2. CASE ~(CommitFile(t) \/ CommitApprove(t) \/ CommitPurge(t))
      BY <1>9, <2>2, <1>8
         DEF Commit, CommitStart, CommitConfirm, CommitDelete, CommitRegenerate, CommitEmail,
             CommitVerify, CommitAdminDelete, request
    <2>3. QED
      BY <2>1, <2>2
  <1>10. ASSUME NEW t \in Txns,
                \/ Rollback(t)
                \/ RegenerateRecoveryCodes(t) \/ TakeRevealForEmail(t) \/ ResetMfa(t)
                \/ \E d \in Devices : \/ StartDevice(t, d) \/ ConfirmDevice(t, d)
                                      \/ DeleteDevice(t, d) \/ AdminDeleteDevice(t, d)
                \/ \E kind \in Kinds : VerifyCode(t, kind)
                \/ \E q \in RequestIds : CreateRequest(t, q) \/ ApproveRequest(t, q)
         PROVE  requests'[r] = requests[r]
    BY <1>10
       DEF Rollback, RegenerateRecoveryCodes, TakeRevealForEmail, ResetMfa, StartDevice,
           ConfirmDevice, DeleteDevice, AdminDeleteDevice, VerifyCode, CreateRequest,
           ApproveRequest, BeginLocked, Begin, request
  <1>11. CASE \/ DropReveal \/ LockoutEnds \/ AdminClearLockout \/ CoolingEnds
              \/ DropAbandoned \/ (\E d \in Devices : SetupExpires(d)) \/ UNCHANGED vars
    BY <1>11
       DEF DropReveal, LockoutEnds, AdminClearLockout, CoolingEnds, DropAbandoned,
           SetupExpires, request, vars
  <1>12. QED
    BY <1>6, <1>7, <1>9, <1>10, <1>11 DEF Next

\* Cancelling, rejecting, approving, a reset, a disabled account and the sweep
\* may run at once: the first to decide a request is the only one.
THEOREM RequestsDecidedOnce == Spec => DecidedOnce
  <1>1. MfaInv /\ [Next]_vars
          => [\A r \in RequestIds : requests[r] \in Closed => requests'[r] = requests[r]]_vars
    BY DecidedStep
  <1>2. QED
    BY <1>1, MfaInvariance, PTL DEF Spec, DecidedOnce
=============================================================================
