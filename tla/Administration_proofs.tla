------------------------ MODULE Administration_proofs ------------------------
(***************************************************************************)
(* Safety of the administration, for every number of users, organizations, *)
(* transactions and entries: who has access (TeamAccess), and the sealed   *)
(* record of what they did (AuditChain).                                   *)
(*                                                                         *)
(* A transaction on accounts decides on what it read when it began and     *)
(* writes when it commits.  The invariant says of every open transaction   *)
(* that what it decided on is still so, because the locks it holds keep    *)
(* out whoever could change it, or that it was overtaken.                  *)
(*                                                                         *)
(* Whether a chain verifies depends on the rows that are still there; why  *)
(* it does depends on those that were pruned, and on what the rows         *)
(* contained when they were sealed.  The invariant therefore speaks of     *)
(* every row that was ever sealed: each position has one (Positions), its  *)
(* hash covers the original content and what came before it (Links), and   *)
(* only pruning and damage have removed rows (Remains).                    *)
(***************************************************************************)
EXTENDS TeamAccess, AuditChain, FiniteSetTheorems, SequenceTheorems, TLAPS

-----------------------------------------------------------------------------
(* Who has access.                                                         *)

\* Functions from some of S to V.
Partial(S, V) == UNION {[D -> V] : D \in SUBSET S}

TeamTxn == [op : Console \union Directory, user : Users \union {None},
            rows : SUBSET Rows, awaited : SUBSET Rows,
            members : Partial(Members, Values), accounts : Partial(Users, States),
            links : SUBSET Members, overtaken : BOOLEAN]

\* Open transactions hold different rows.
Exclusive == \A s, t \in Open : s # t => txn[s].rows \intersect txn[t].rows = {}

\* A transaction writes what it has locked, or waits for.
Shape(x) ==
    /\ x.op \in Console => AdminLock \in x.rows
    /\ x.op # "sync" =>
          x.user \in Users /\ \A m \in DOMAIN x.members : m[1] = x.user
    /\ \A m \in DOMAIN x.members : MemberRow(m[1], m[2]) \in x.rows \union x.awaited
    /\ \A u \in DOMAIN x.accounts : u = x.user /\ AccountRow(u) \in x.rows \union x.awaited
    /\ x.op \notin Console /\ DOMAIN x.accounts # {} =>
          \E m \in DOMAIN x.members : m[1] = x.user
    /\ \A u \in DOMAIN x.accounts : x.accounts[u] = "absent" =>
          \A o \in Orgs : <<u, o>> \in DOMAIN x.members /\ x.members[<<u, o>>] = "NONE"
    /\ \A m \in x.links : m \in DOMAIN x.members /\ x.members[m] # "NONE"

\* What a transaction found in the rows it locked is still so.
Relies(x) ==
    /\ \A m \in DOMAIN x.members : x.members[m] # "NONE" =>
          /\ MemberRow(m[1], m[2]) \in x.rows
          /\ m[2] \in orgs
          /\ IF m[1] \in DOMAIN x.accounts THEN x.accounts[m[1]] # "absent"
             ELSE account[m[1]] # "absent"
    /\ x.op \notin {"create", "activate"} =>
          \A m \in DOMAIN x.members : x.members[m] \in Roles => access[m] # "REVOKED"
    /\ x.op \notin {"enable", "activate"} =>
          \A u \in DOMAIN x.accounts : x.accounts[u] = "enabled" =>
             AccountRow(u) \in x.rows /\ account[u] # "disabled"

\* The enabled administrators there would be if the transaction committed now.
WouldBe(x) == {m \in Members : /\ Updated(access, x.members)[m] = "ADMIN"
                                    /\ Updated(account, x.accounts)[m[1]] = "enabled"}

\* A transaction of the pages that nobody overtook takes none of them away, or
\* leaves one that is there now.
Spares(x) ==
    x.op \in Console /\ ~x.overtaken =>
        EnabledAdmins \subseteq WouldBe(x) \/ EnabledAdmins \intersect WouldBe(x) # {}

\* Who is deprovisioned is disabled or has another membership.
Leaves(x) ==
    x.op = "deprovision" /\ ~x.overtaken =>
        \/ x.user \in DOMAIN x.accounts /\ x.accounts[x.user] = "disabled"
        \/ \E o \in Orgs : <<x.user, o>> \notin DOMAIN x.members /\ IsActive(<<x.user, o>>)

Sound(x) == Shape(x) /\ Relies(x) /\ Spares(x) /\ Leaves(x)

TeamInv ==
    /\ TypeOK
    /\ txn \in [Txns -> TeamTxn \union {None}]
    /\ Exclusive
    /\ \A t \in Open : Sound(txn[t])

-----------------------------------------------------------------------------
LEMMA PartialFacts ==
    ASSUME NEW S, NEW V, NEW f \in Partial(S, V)
    PROVE  DOMAIN f \subseteq S /\ \A x \in DOMAIN f : f[x] \in V
  BY DEF Partial

LEMMA PartialIntro ==
    ASSUME NEW S, NEW V, NEW D \in SUBSET S, NEW f \in [D -> V]
    PROVE  f \in Partial(S, V)
  BY DEF Partial

LEMMA OnlyFacts ==
    ASSUME NEW S, NEW V, NEW x \in S, NEW v \in V
    PROVE  /\ Only(x, v) \in Partial(S, V)
           /\ DOMAIN Only(x, v) = {x} /\ Only(x, v)[x] = v
  <1>1. Only(x, v) \in [{x} -> V] /\ {x} \in SUBSET S
    BY DEF Only
  <1>2. Only(x, v) \in Partial(S, V)
    BY <1>1, PartialIntro
  <1>3. QED
    BY <1>2 DEF Only

LEMMA NoChangeFacts ==
    ASSUME NEW S, NEW V
    PROVE  NoChange \in Partial(S, V) /\ DOMAIN NoChange = {}
  <1>1. NoChange \in [{} -> V] /\ {} \in SUBSET S
    BY DEF NoChange
  <1>2. QED
    BY <1>1, PartialIntro DEF NoChange

LEMMA TxnTyped ==
    ASSUME TeamInv, NEW t \in Open
    PROVE  t \in Txns /\ txn[t] \in TeamTxn /\ Sound(txn[t])
  BY DEF TeamInv, Open

\* What the type invariant says of a transaction.
LEMMA TxnOK ==
    ASSUME NEW x \in TeamTxn
    PROVE  /\ x.op \in Console \union Directory
           /\ x.user \in Users \union {None}
           /\ x.rows \subseteq Rows /\ x.awaited \subseteq Rows
           /\ DOMAIN x.members \subseteq Members
           /\ \A m \in DOMAIN x.members : x.members[m] \in Values
           /\ DOMAIN x.accounts \subseteq Users
           /\ \A u \in DOMAIN x.accounts : x.accounts[u] \in States
           /\ x.links \subseteq Members
           /\ x.overtaken \in BOOLEAN
  <1>1. /\ x.members \in Partial(Members, Values)
        /\ x.accounts \in Partial(Users, States)
    BY DEF TeamTxn
  <1>2. /\ DOMAIN x.members \subseteq Members
        /\ \A m \in DOMAIN x.members : x.members[m] \in Values
        /\ DOMAIN x.accounts \subseteq Users
        /\ \A u \in DOMAIN x.accounts : x.accounts[u] \in States
    BY <1>1, PartialFacts
  <1>3. QED
    BY <1>2 DEF TeamTxn

\* The rows of the tables.
TablesOK ==
    /\ account \in [Users -> States]
    /\ access \in [Members -> Values]
    /\ linked \subseteq Members
    /\ orgs \subseteq Orgs
    /\ \A m \in Members : access[m] # "NONE" \/ m \in linked
                            => account[m[1]] # "absent" /\ m[2] \in orgs

LEMMA TablesTyped == TypeOK => TablesOK
  BY DEF TypeOK, TablesOK

LEMMA InvFromParts ==
    ASSUME TablesOK', txn' \in [Txns -> TeamTxn \union {None}], Exclusive',
           \A t \in Open' : Sound(txn[t])'
    PROVE  TeamInv'
  <1>1. \A t \in Open' : txn'[t] \in TeamTxn
    BY DEF Open
  <1>2. \A t \in Open' :
          /\ txn'[t].op \in Console \union Directory
          /\ txn'[t].user \in Users \union {None}
          /\ txn'[t].rows \subseteq Rows /\ txn'[t].awaited \subseteq Rows
          /\ DOMAIN txn'[t].members \subseteq Members
          /\ \A m \in DOMAIN txn'[t].members : txn'[t].members[m] \in Values
          /\ DOMAIN txn'[t].accounts \subseteq Users
          /\ \A u \in DOMAIN txn'[t].accounts : txn'[t].accounts[u] \in States
          /\ txn'[t].links \subseteq Members
          /\ txn'[t].overtaken \in BOOLEAN
    BY <1>1, TxnOK
  <1>3. TypeOK'
    BY <1>2 DEF TypeOK, TablesOK
  <1>4. QED
    BY <1>3 DEF TeamInv

\* What a transaction has decided stays sound while the tables do not change.
LEMMA SoundStill ==
    ASSUME UNCHANGED <<account, access, linked, orgs>>, NEW s, Sound(txn'[s])
    PROVE  Sound(txn[s])'
  <1>1. Shape(txn[s])'
    BY DEF Sound, Shape
  <1>2. Relies(txn[s])'
    BY DEF Sound, Relies
  <1>3. Spares(txn[s])'
    <2>1. EnabledAdmins' = EnabledAdmins
      BY DEF EnabledAdmins
    <2>2. /\ Updated(access, txn[s].members)' = Updated(access, txn'[s].members)
          /\ Updated(account, txn[s].accounts)' = Updated(account, txn'[s].accounts)
      BY DEF Updated
    <2>3. WouldBe(txn[s])' = WouldBe(txn'[s])
      BY <2>2 DEF WouldBe
    <2>4. QED
      BY <2>1, <2>3 DEF Sound, Spares
  <1>4. Leaves(txn[s])'
    BY DEF Sound, Leaves, IsActive
  <1>5. QED
    BY <1>1, <1>2, <1>3, <1>4 DEF Sound

-----------------------------------------------------------------------------
(* A transaction begins.                                                   *)

Decision(op, u, rows, awaited, members, accounts, links) ==
    [op |-> op, user |-> u, rows |-> rows, awaited |-> awaited, members |-> members,
     accounts |-> accounts, links |-> links, overtaken |-> FALSE]

LEMMA TeamBeginInv ==
    ASSUME TeamInv, NEW t \in Txns, NEW op \in Console \union Directory,
           NEW u \in Users \union {None}, NEW rows \in SUBSET Rows,
           NEW awaited \in SUBSET Rows, NEW members \in Partial(Members, Values),
           NEW accounts \in Partial(Users, States), NEW links \in SUBSET Members,
           Begin(t, op, u, rows, awaited, members, accounts, links),
           Sound(Decision(op, u, rows, awaited, members, accounts, links))
    PROVE  TeamInv'
  <1> DEFINE x == Decision(op, u, rows, awaited, members, accounts, links)
  <1>0. x \in TeamTxn /\ Sound(x)
    BY DEF TeamTxn, Decision
  <1>1. /\ txn' = [txn EXCEPT ![t] = x] /\ txn[t] = None /\ x.rows = rows
        /\ rows \intersect Held(Open) = {}
        /\ UNCHANGED <<account, access, linked, orgs>>
    BY DEF Begin, Decision
  <1> HIDE DEF x
  <1>2. txn \in [Txns -> TeamTxn \union {None}]
    BY DEF TeamInv
  <1>3. txn' \in [Txns -> TeamTxn \union {None}] /\ txn'[t] = x
        /\ \A s \in Txns \ {t} : txn'[s] = txn[s]
    BY <1>0, <1>1, <1>2
  <1>4. \A s \in Open' : s = t \/ s \in Open
    BY <1>3 DEF Open
  <1>5. TablesOK'
    BY <1>1, TablesTyped DEF TeamInv, TablesOK
  <1>6. Exclusive'
    <2>1. ASSUME NEW s \in Open, s # t PROVE x.rows \intersect txn[s].rows = {}
      BY <1>1, <2>1 DEF Held
    <2>2. \A r, s \in Open : r # s => txn[r].rows \intersect txn[s].rows = {}
      BY DEF TeamInv, Exclusive
    <2>3. t \notin Open
      BY <1>1 DEF Open
    <2>4. \A s \in Open : s \in Txns /\ s # t /\ txn'[s] = txn[s]
      BY <1>3, <2>3 DEF Open
    <2>5. QED
      BY <1>3, <1>4, <2>1, <2>2, <2>4 DEF Exclusive
  <1>7. \A s \in Open' : Sound(txn[s])'
    <2>1. ASSUME NEW s \in Open' PROVE Sound(txn[s])'
      <3>1. Sound(txn'[s])
        BY <1>0, <1>3, <1>4 DEF TeamInv, Open
      <3>2. QED
        BY <1>1, <3>1, SoundStill
    <2>2. QED
      BY <2>1
  <1>8. QED
    BY <1>3, <1>5, <1>6, <1>7, InvFromParts

LEMMA RowFacts ==
    /\ AdminLock \in Rows
    /\ \A u \in Users : AccountRow(u) \in Rows
    /\ \A o \in Orgs : OrgRow(o) \in Rows
    /\ \A u \in Users, o \in Orgs : MemberRow(u, o) \in Rows
  <1>1. ASSUME NEW u \in Users, NEW o \in Orgs PROVE MemberRow(u, o) \in Rows
    <2>1. <<u, o>> \in Members /\ <<u, o>>[1] = u /\ <<u, o>>[2] = o
      BY DEF Members
    <2>2. \E m \in Members : MemberRow(u, o) = MemberRow(m[1], m[2])
      BY <2>1
    <2>3. QED
      BY <2>2 DEF Rows
  <1>2. QED
    BY <1>1 DEF Rows

LEMMA OneMembership ==
    ASSUME NEW u \in Users, NEW o \in Orgs, NEW v \in Values
    PROVE  /\ <<u, o>> \in Members
           /\ Only(<<u, o>>, v) \in Partial(Members, Values)
           /\ DOMAIN Only(<<u, o>>, v) = {<<u, o>>}
           /\ Only(<<u, o>>, v)[<<u, o>>] = v
           /\ \A m \in {<<u, o>>} : m[1] = u /\ m[2] = o
  <1>1. <<u, o>> \in Members
    BY DEF Members
  <1>2. /\ Only(<<u, o>>, v) \in Partial(Members, Values)
        /\ DOMAIN Only(<<u, o>>, v) = {<<u, o>>}
        /\ Only(<<u, o>>, v)[<<u, o>>] = v
    BY ONLY <1>1, v \in Values, OnlyFacts
  <1>3. \A m \in {<<u, o>>} : m[1] = u /\ m[2] = o
    OBVIOUS
  <1>4. QED
    BY <1>1, <1>2, <1>3

LEMMA OneAccount ==
    ASSUME NEW u \in Users, NEW v \in States
    PROVE  /\ Only(u, v) \in Partial(Users, States)
           /\ DOMAIN Only(u, v) = {u} /\ Only(u, v)[u] = v
  BY OnlyFacts

LEMMA CreateMemberInv ==
    ASSUME TeamInv, NEW t \in Txns, NEW a \in Users, NEW u \in Users, NEW o \in Orgs,
           NEW role \in Roles, CreateMember(t, a, u, o, role)
    PROVE  TeamInv'
  <1> DEFINE rows == TeamRows(a, u, o) \union {AccountRow(u)}
             members == Only(<<u, o>>, role)
             accounts == Only(u, "enabled")
             x == Decision("create", u, rows, {}, members, accounts, {})
  <1>1. /\ o \in orgs /\ account[u] # "disabled" /\ access[<<u, o>>] \notin Roles
        /\ Begin(t, "create", u, rows, {}, members, accounts, {})
    BY DEF CreateMember, Managing, IsActive
  <1>2. role \in Values /\ role # "NONE" /\ "enabled" \in States
    BY DEF Roles, Values, States
  <1>3. /\ members \in Partial(Members, Values) /\ DOMAIN members = {<<u, o>>}
        /\ members[<<u, o>>] = role /\ \A m \in DOMAIN members : m[1] = u /\ m[2] = o
        /\ <<u, o>> \in Members
    BY <1>2, OneMembership
  <1>4. /\ accounts \in Partial(Users, States) /\ DOMAIN accounts = {u}
        /\ accounts[u] = "enabled"
    BY <1>2, OneAccount
  <1>5. /\ rows \in SUBSET Rows /\ AdminLock \in rows
        /\ MemberRow(u, o) \in rows /\ AccountRow(u) \in rows
    BY RowFacts DEF TeamRows
  <1>6. /\ x.op = "create" /\ x.user = u /\ x.rows = rows /\ x.awaited = {}
        /\ x.members = members /\ x.accounts = accounts /\ x.links = {}
        /\ x.overtaken = FALSE
    BY DEF Decision
  <1> HIDE DEF rows, members, accounts, x
  <1>7. Shape(x)
    BY <1>2, <1>3, <1>4, <1>5, <1>6 DEF Shape, Console
  <1>8. Relies(x)
    BY <1>1, <1>2, <1>3, <1>4, <1>5, <1>6 DEF Relies
  <1>9. Spares(x)
    <2>1. ASSUME NEW m \in EnabledAdmins PROVE m \in WouldBe(x)
      <3>1. m \in Members /\ access[m] = "ADMIN" /\ account[m[1]] = "enabled"
        BY DEF EnabledAdmins
      <3>2. m # <<u, o>> /\ m[1] \in Users
        BY <1>1, <3>1 DEF Roles, Members
      <3>3. access \in [Members -> Values] /\ account \in [Users -> States]
        BY DEF TeamInv, TypeOK
      <3>4. Updated(access, members)[m] = "ADMIN"
        BY <1>3, <3>1, <3>2, <3>3 DEF Updated
      <3>5. Updated(account, accounts)[m[1]] = "enabled"
        BY <1>4, <3>1, <3>2, <3>3 DEF Updated
      <3>6. QED
        BY <1>6, <3>1, <3>4, <3>5 DEF WouldBe
    <2>2. QED
      BY <2>1 DEF Spares
  <1>10. Leaves(x)
    BY <1>6 DEF Leaves
  <1>11. QED
    <2>1. Sound(Decision("create", u, rows, {}, members, accounts, {}))
      BY <1>7, <1>8, <1>9, <1>10 DEF Sound, x
    <2>2. "create" \in Console \union Directory
      BY DEF Console
    <2>3. QED
      BY <1>1, <1>3, <1>4, <1>5, <2>1, <2>2, TeamBeginInv

\* Who is not the last enabled Admin leaves another one.
LEMMA AnotherAdmin ==
    ASSUME TeamInv, NEW u \in Users, NEW o \in Orgs,
           ~LastAdmin(u, <<u, o>>)
    PROVE  <<u, o>> \notin EnabledAdmins \/ \E m \in EnabledAdmins : m # <<u, o>>
  <1>1. SUFFICES ASSUME \A m \in EnabledAdmins : m = <<u, o>>,
                        <<u, o>> \in EnabledAdmins
                 PROVE  FALSE
    OBVIOUS
  <1>2. access[<<u, o>>] = "ADMIN" /\ account[u] = "enabled"
    BY <1>1 DEF EnabledAdmins
  <1>3. QED
    BY <1>1, <1>2 DEF LastAdmin

\* One membership changes.
LEMMA MemberSpares ==
    ASSUME TeamInv, NEW x, NEW u \in Users, NEW o \in Orgs, NEW role,
           x.members = Only(<<u, o>>, role), x.accounts = NoChange,
           \/ role = "ADMIN" \/ <<u, o>> \notin EnabledAdmins
           \/ \E m \in EnabledAdmins : m # <<u, o>>
    PROVE  Spares(x)
  <1>1. access \in [Members -> Values] /\ account \in [Users -> States]
    BY DEF TeamInv, TypeOK
  <1>2. DOMAIN x.members = {<<u, o>>} /\ x.members[<<u, o>>] = role /\ DOMAIN x.accounts = {}
    BY DEF Only, NoChange
  <1>3. ASSUME NEW m \in EnabledAdmins, m # <<u, o>> \/ role = "ADMIN"
        PROVE  m \in WouldBe(x)
    <2>1. m \in Members /\ access[m] = "ADMIN" /\ account[m[1]] = "enabled"
      BY DEF EnabledAdmins
    <2>2. m[1] \in Users
      BY <2>1 DEF Members
    <2>3. Updated(access, x.members)[m] = "ADMIN"
      BY <1>1, <1>2, <1>3, <2>1 DEF Updated
    <2>4. Updated(account, x.accounts)[m[1]] = "enabled"
      BY <1>1, <1>2, <2>1, <2>2 DEF Updated
    <2>5. QED
      BY <2>1, <2>3, <2>4 DEF WouldBe
  <1>4. CASE role = "ADMIN" \/ <<u, o>> \notin EnabledAdmins
    BY <1>3, <1>4 DEF Spares
  <1>5. CASE \E m \in EnabledAdmins : m # <<u, o>>
    BY <1>3, <1>5 DEF Spares
  <1>6. QED
    BY <1>4, <1>5

\* updateMemberRole and removeMember.
LEMMA MemberChangeInv ==
    ASSUME TeamInv,
           NEW t \in Txns, NEW a \in Users, NEW u \in Users, NEW o \in Orgs,
           NEW op \in {"setRole", "remove"}, NEW role \in Roles \union {"REVOKED"},
           o \in orgs, IsActive(<<u, o>>), role # "ADMIN" => ~LastAdmin(u, <<u, o>>),
           Begin(t, op, u, TeamRows(a, u, o), {}, Only(<<u, o>>, role),
                      NoChange, {})
    PROVE  TeamInv'
  <1> DEFINE rows == TeamRows(a, u, o)
             members == Only(<<u, o>>, role)
             x == Decision(op, u, rows, {}, members, NoChange, {})
  <1>1. Begin(t, op, u, rows, {}, members, NoChange, {})
    OBVIOUS
  <1>2. role \in Values /\ role # "NONE"
    BY DEF Roles, Values
  <1>3. /\ members \in Partial(Members, Values) /\ DOMAIN members = {<<u, o>>}
        /\ members[<<u, o>>] = role /\ \A m \in DOMAIN members : m[1] = u /\ m[2] = o
        /\ <<u, o>> \in Members
    BY <1>2, OneMembership
  <1>4. NoChange \in Partial(Users, States) /\ DOMAIN NoChange = {}
    BY NoChangeFacts
  <1>5. rows \in SUBSET Rows /\ AdminLock \in rows /\ MemberRow(u, o) \in rows
    BY RowFacts DEF TeamRows
  <1>6. /\ x.op = op /\ x.user = u /\ x.rows = rows /\ x.awaited = {}
        /\ x.members = members /\ x.accounts = NoChange /\ x.links = {}
        /\ x.overtaken = FALSE
    BY DEF Decision
  <1>7. access[<<u, o>>] \in Roles /\ account[u] # "absent"
    <2>1. access[<<u, o>>] \in Roles /\ access[<<u, o>>] # "NONE"
      BY DEF IsActive, Roles
    <2>2. \A m \in Members : access[m] # "NONE" => account[m[1]] # "absent"
      BY DEF TeamInv, TypeOK
    <2>3. <<u, o>>[1] = u
      OBVIOUS
    <2>4. QED
      BY <1>3, <2>1, <2>2, <2>3
  <1>8. Spares(x)
    <2>1. \/ role = "ADMIN" \/ <<u, o>> \notin EnabledAdmins
          \/ \E m \in EnabledAdmins : m # <<u, o>>
      BY AnotherAdmin
    <2>2. QED
      BY <1>6, <2>1, MemberSpares
  <1> HIDE DEF rows, members, x
  <1>9. Shape(x)
    BY <1>2, <1>3, <1>4, <1>5, <1>6 DEF Shape, Console
  <1>10. Relies(x)
    <2>1. access[<<u, o>>] # "REVOKED"
      BY <1>7 DEF Roles
    <2>2. QED
      BY <1>2, <1>3, <1>4, <1>5, <1>6, <1>7, <2>1 DEF Relies
  <1>11. Leaves(x)
    BY <1>6 DEF Leaves
  <1>12. QED
    <2>1. Sound(Decision(op, u, rows, {}, members, NoChange, {}))
      BY <1>8, <1>9, <1>10, <1>11 DEF Sound, x
    <2>2. op \in Console \union Directory
      BY DEF Console
    <2>3. QED
      BY <1>1, <1>3, <1>4, <1>5, <2>1, <2>2, TeamBeginInv

\* One account changes; without an Admin less, or beside another one.
LEMMA AccountSpares ==
    ASSUME TeamInv, NEW x, NEW u \in Users, NEW v,
           x.accounts = Only(u, v),
           \A m \in DOMAIN x.members : m[1] = u,
           \/ v = "enabled" /\ DOMAIN x.members = {}
           \/ ~NeededAsAdmin(u)
    PROVE  Spares(x)
  <1>1. access \in [Members -> Values] /\ account \in [Users -> States]
    BY DEF TeamInv, TypeOK
  <1>2. DOMAIN x.accounts = {u} /\ x.accounts[u] = v
    BY DEF Only
  <1>3. ASSUME NEW m \in EnabledAdmins, m[1] # u \/ (v = "enabled" /\ DOMAIN x.members = {})
        PROVE  m \in WouldBe(x)
    <2>1. m \in Members /\ access[m] = "ADMIN" /\ account[m[1]] = "enabled"
      BY DEF EnabledAdmins
    <2>2. m[1] \in Users
      BY <2>1 DEF Members
    <2>3. Updated(access, x.members)[m] = "ADMIN"
      BY <1>1, <1>3, <2>1 DEF Updated
    <2>4. Updated(account, x.accounts)[m[1]] = "enabled"
      BY <1>1, <1>2, <1>3, <2>1, <2>2 DEF Updated
    <2>5. QED
      BY <2>1, <2>3, <2>4 DEF WouldBe
  <1>4. CASE v = "enabled" /\ DOMAIN x.members = {}
    BY <1>3, <1>4 DEF Spares
  <1>5. CASE \A o \in Orgs : access[<<u, o>>] # "ADMIN"
    <2>1. ASSUME NEW m \in EnabledAdmins PROVE m[1] # u
      <3>1. PICK v1 \in Users, o \in Orgs : m = <<v1, o>>
        BY DEF EnabledAdmins, Members
      <3>2. access[m] = "ADMIN"
        BY DEF EnabledAdmins
      <3>3. QED
        BY <1>5, <3>1, <3>2
    <2>2. QED
      BY <1>3, <2>1 DEF Spares
  <1>6. CASE \E m \in EnabledAdmins : m[1] # u
    BY <1>3, <1>6 DEF Spares
  <1>7. QED
    BY <1>4, <1>5, <1>6 DEF NeededAsAdmin

\* disableOne and enableOne.
LEMMA SwitchUserInv ==
    ASSUME TeamInv, NEW t \in Txns, NEW u \in Users,
           NEW op \in {"disable", "enable"}, NEW v \in {"disabled", "enabled"},
           v = "enabled" <=> op = "enable", op = "disable" => ~NeededAsAdmin(u),
           Begin(t, op, u, FencedRows(u), {}, NoChange, Only(u, v), {})
    PROVE  TeamInv'
  <1> DEFINE rows == FencedRows(u)
             accounts == Only(u, v)
             x == Decision(op, u, rows, {}, NoChange, accounts, {})
  <1>1. Begin(t, op, u, rows, {}, NoChange, accounts, {})
    OBVIOUS
  <1>2. v \in States /\ v # "absent"
    BY DEF States
  <1>3. /\ accounts \in Partial(Users, States) /\ DOMAIN accounts = {u}
        /\ accounts[u] = v
    BY <1>2, OneAccount
  <1>4. NoChange \in Partial(Members, Values) /\ DOMAIN NoChange = {}
    BY NoChangeFacts
  <1>5. rows \in SUBSET Rows /\ AdminLock \in rows /\ AccountRow(u) \in rows
    BY RowFacts DEF FencedRows
  <1>6. /\ x.op = op /\ x.user = u /\ x.rows = rows /\ x.awaited = {}
        /\ x.members = NoChange /\ x.accounts = accounts /\ x.links = {}
        /\ x.overtaken = FALSE
    BY DEF Decision
  <1>7. Spares(x)
    BY <1>4, <1>6, AccountSpares
  <1> HIDE DEF rows, accounts, x
  <1>8. Shape(x)
    BY <1>2, <1>3, <1>4, <1>5, <1>6 DEF Shape, Console
  <1>9. Relies(x)
    BY <1>2, <1>3, <1>4, <1>5, <1>6 DEF Relies
  <1>10. Leaves(x)
    BY <1>6 DEF Leaves
  <1>11. QED
    <2>1. Sound(Decision(op, u, rows, {}, NoChange, accounts, {}))
      BY <1>7, <1>8, <1>9, <1>10 DEF Sound, x
    <2>2. op \in Console \union Directory
      BY DEF Console
    <2>3. QED
      BY <1>1, <1>3, <1>4, <1>5, <2>1, <2>2, TeamBeginInv

LEMMA DeleteUserInv ==
    ASSUME TeamInv, NEW t \in Txns, NEW u \in Users, DeleteUser(t, u)
    PROVE  TeamInv'
  <1> DEFINE rows == FencedRows(u)
             awaited == {MemberRow(u, o) : o \in Orgs}
             members == [m \in {u} \X Orgs |-> "NONE"]
             accounts == Only(u, "absent")
             x == Decision("delete", u, rows, awaited, members, accounts, {})
  <1>1. /\ ~NeededAsAdmin(u)
        /\ Begin(t, "delete", u, rows, awaited, members, accounts, {})
    BY DEF DeleteUser
  <1>2. "absent" \in States /\ "NONE" \in Values
    BY DEF States, Values
  <1>3. /\ accounts \in Partial(Users, States) /\ DOMAIN accounts = {u}
        /\ accounts[u] = "absent"
    BY <1>2, OneAccount
  <1>4. /\ members \in Partial(Members, Values) /\ DOMAIN members = {u} \X Orgs
        /\ \A m \in DOMAIN members : members[m] = "NONE" /\ m[1] = u /\ m[2] \in Orgs
        /\ \A o \in Orgs : <<u, o>> \in DOMAIN members
    <2>1. {u} \X Orgs \in SUBSET Members
      BY DEF Members
    <2>2. members \in [{u} \X Orgs -> Values]
      BY <1>2
    <2>3. members \in Partial(Members, Values)
      BY ONLY <2>1, <2>2, PartialIntro
    <2>4. QED
      BY <2>3
  <1>5. rows \in SUBSET Rows /\ AdminLock \in rows /\ AccountRow(u) \in rows
    BY RowFacts DEF FencedRows
  <1>6. awaited \in SUBSET Rows /\ \A o \in Orgs : MemberRow(u, o) \in awaited
    BY RowFacts
  <1>7. /\ x.op = "delete" /\ x.user = u /\ x.rows = rows /\ x.awaited = awaited
        /\ x.members = members /\ x.accounts = accounts /\ x.links = {}
        /\ x.overtaken = FALSE
    BY DEF Decision
  <1>8. Spares(x)
    BY <1>1, <1>4, <1>7, AccountSpares
  <1> HIDE DEF rows, awaited, accounts, members, x
  <1>9. Shape(x)
    BY <1>3, <1>4, <1>5, <1>6, <1>7 DEF Shape, Console
  <1>10. Relies(x)
    <2>1. "NONE" \notin Roles
      BY DEF Roles
    <2>2. QED
      BY <1>3, <1>4, <1>5, <1>7, <2>1 DEF Relies
  <1>11. Leaves(x)
    BY <1>7 DEF Leaves
  <1>12. QED
    <2>1. Sound(Decision("delete", u, rows, awaited, members, accounts, {}))
      BY <1>8, <1>9, <1>10, <1>11 DEF Sound, x
    <2>2. "delete" \in Console \union Directory
      BY DEF Console
    <2>3. QED
      BY <1>1, <1>3, <1>4, <1>5, <1>6, <2>1, <2>2, TeamBeginInv

\* A transaction of the directory about one membership: what it has to know.
LEMMA DirectoryInv ==
    ASSUME TeamInv, NEW t \in Txns, NEW u \in Users, NEW o \in Orgs,
           NEW op \in Directory \ {"sync"}, NEW rows \in SUBSET Rows,
           NEW awaited \in SUBSET Rows, NEW v \in Values,
           NEW accounts \in Partial(Users, States), NEW links \in SUBSET {<<u, o>>},
           Begin(t, op, u, rows, awaited, Only(<<u, o>>, v), accounts, links),
           o \in orgs, MemberRow(u, o) \in rows, v = "NONE" => links = {},
           \/ DOMAIN accounts = {} /\ (v # "NONE" => account[u] # "absent")
           \/ /\ DOMAIN accounts = {u} /\ accounts[u] # "absent"
              /\ AccountRow(u) \in rows \union awaited,
           op # "activate" => /\ v \in Roles => access[<<u, o>>] # "REVOKED"
                              /\ \A w \in DOMAIN accounts : accounts[w] = "enabled" =>
                                    AccountRow(u) \in rows /\ account[u] # "disabled",
           op = "deprovision" =>
              \/ u \in DOMAIN accounts /\ accounts[u] = "disabled"
              \/ \E p \in Orgs \ {o} : IsActive(<<u, p>>)
    PROVE  TeamInv'
  <1> DEFINE members == Only(<<u, o>>, v)
             x == Decision(op, u, rows, awaited, members, accounts, links)
  <1>1. /\ members \in Partial(Members, Values) /\ DOMAIN members = {<<u, o>>}
        /\ members[<<u, o>>] = v /\ \A m \in DOMAIN members : m[1] = u /\ m[2] = o
        /\ <<u, o>> \in Members
    BY ONLY u \in Users, o \in Orgs, v \in Values, OneMembership
  <1>2. /\ x.op = op /\ x.user = u /\ x.rows = rows /\ x.awaited = awaited
        /\ x.members = members /\ x.accounts = accounts /\ x.links = links
        /\ x.overtaken = FALSE
    BY DEF Decision
  <1>3. op \notin Console /\ op \in Directory /\ op \notin {"create", "enable", "sync"}
    BY DEF Console, Directory
  <1>4. Begin(t, op, u, rows, awaited, members, accounts, links)
    OBVIOUS
  <1> HIDE DEF members, x
  <1>5. Shape(x)
    BY <1>1, <1>2, <1>3 DEF Shape
  <1>6. Relies(x)
    BY <1>1, <1>2, <1>3 DEF Relies
  <1>7. Spares(x)
    BY <1>2, <1>3 DEF Spares
  <1>8. Leaves(x)
    BY <1>1, <1>2 DEF Leaves
  <1>9. QED
    <2>1. Sound(Decision(op, u, rows, awaited, members, accounts, links))
      BY <1>5, <1>6, <1>7, <1>8 DEF Sound, x
    <2>2. op \in Console \union Directory /\ links \in SUBSET Members
      BY <1>1, <1>3
    <2>3. QED
      BY <1>1, <1>4, <2>1, <2>2, TeamBeginInv

LEMMA MembershipTyped ==
    ASSUME TeamInv, NEW u \in Users, NEW o \in Orgs
    PROVE  /\ <<u, o>> \in Members /\ access[<<u, o>>] \in Values
           /\ access[<<u, o>>] # "NONE" \/ <<u, o>> \in linked => account[u] # "absent"
  <1>1. <<u, o>> \in Members /\ <<u, o>>[1] = u
    BY DEF Members
  <1>2. QED
    BY <1>1 DEF TeamInv, TypeOK

LEMMA ProvisionScimUserInv ==
    ASSUME TeamInv, NEW t \in Txns, NEW u \in Users, NEW o \in Orgs,
           NEW says \in {"true", "false", "unsaid"}, NEW role \in Roles,
           ProvisionScimUser(t, u, o, says, role)
    PROVE  TeamInv'
  <1> DEFINE op == IF says = "true" THEN "activate" ELSE "provision"
             rows == {OrgRow(o), AccountRow(u), MemberRow(u, o)}
             v == ProvisionedRole(u, o, says, role)
             accounts == ProvisionedAccount(u, says)
  <1>1. o \in orgs /\ Begin(t, op, u, rows, {}, Only(<<u, o>>, v), accounts, {<<u, o>>})
    BY DEF ProvisionScimUser
  <1>2. /\ v \in {"REVOKED"} \union Roles
        /\ says # "true" /\ v \in Roles => access[<<u, o>>] # "REVOKED"
    BY DEF ProvisionedRole, Unsaid, Roles
  <1>3. v \in Values /\ v # "NONE"
    BY <1>2 DEF Values, Roles
  <1>4. /\ accounts \in Partial(Users, States)
        /\ \/ DOMAIN accounts = {} /\ account[u] # "absent"
           \/ /\ DOMAIN accounts = {u} /\ accounts[u] \in {"enabled", "disabled"}
              /\ says # "true" => account[u] = "absent"
    <2>1. \A s \in {"enabled", "disabled"} :
             /\ Only(u, s) \in Partial(Users, States)
             /\ DOMAIN Only(u, s) = {u} /\ Only(u, s)[u] = s
      BY OneAccount DEF States
    <2>2. NoChange \in Partial(Users, States) /\ DOMAIN NoChange = {}
      BY NoChangeFacts
    <2>3. QED
      BY <2>1, <2>2 DEF ProvisionedAccount
  <1>5. op \in Directory \ {"sync"} /\ (op # "activate" => says # "true")
        /\ op # "deprovision"
    BY DEF Directory
  <1>6. /\ rows \in SUBSET Rows /\ MemberRow(u, o) \in rows
        /\ AccountRow(u) \in rows
    BY RowFacts
  <1> HIDE DEF op, rows, v, accounts
  <1>7. QED
    BY <1>1, <1>2, <1>3, <1>4, <1>5, <1>6, DirectoryInv

LEMMA DeprovisionScimUserInv ==
    ASSUME TeamInv, NEW t \in Txns, NEW u \in Users, NEW o \in Orgs,
           DeprovisionScimUser(t, u, o)
    PROVE  TeamInv'
  <1> DEFINE rows == {OrgRow(o), MemberRow(u, o)}
             leaves == Remaining(u, o) = {}
             awaited == IF leaves THEN {AccountRow(u)} ELSE {}
             v == Revoked(<<u, o>>)
             accounts == IF leaves THEN Only(u, "disabled") ELSE NoChange
  <1>1. /\ o \in orgs /\ <<u, o>> \in linked
        /\ Begin(t, "deprovision", u, rows, awaited, Only(<<u, o>>, v), accounts, {})
    BY DEF DeprovisionScimUser
  <1>2. v \in Values /\ v \notin Roles
    BY DEF Revoked, Values, Roles
  <1>3. account[u] # "absent"
    BY <1>1, MembershipTyped
  <1>4. /\ accounts \in Partial(Users, States)
        /\ \/ DOMAIN accounts = {} /\ \E p \in Orgs \ {o} : IsActive(<<u, p>>)
           \/ /\ DOMAIN accounts = {u} /\ accounts[u] = "disabled"
              /\ AccountRow(u) \in awaited
    <2>1. /\ Only(u, "disabled") \in Partial(Users, States)
          /\ DOMAIN Only(u, "disabled") = {u} /\ Only(u, "disabled")[u] = "disabled"
      BY OneAccount DEF States
    <2>2. NoChange \in Partial(Users, States) /\ DOMAIN NoChange = {}
      BY NoChangeFacts
    <2>3. QED
      BY <2>1, <2>2 DEF Remaining
  <1>5. /\ rows \in SUBSET Rows /\ MemberRow(u, o) \in rows
        /\ awaited \in SUBSET Rows
    BY RowFacts
  <1>6. "deprovision" \in Directory \ {"sync"}
    BY DEF Directory
  <1> HIDE DEF rows, leaves, awaited, v, accounts
  <1>7. /\ \/ DOMAIN accounts = {} /\ (v # "NONE" => account[u] # "absent")
           \/ /\ DOMAIN accounts = {u} /\ accounts[u] # "absent"
              /\ AccountRow(u) \in rows \union awaited
        /\ \A w \in DOMAIN accounts : accounts[w] # "enabled"
        /\ \/ u \in DOMAIN accounts /\ accounts[u] = "disabled"
           \/ \E p \in Orgs \ {o} : IsActive(<<u, p>>)
    BY <1>3, <1>4
  <1>8. {} \in SUBSET {<<u, o>>}
    OBVIOUS
  <1>9. QED
    BY <1>1, <1>2, <1>4, <1>5, <1>6, <1>7, <1>8, DirectoryInv

LEMMA SignInInv ==
    ASSUME TeamInv, NEW t \in Txns, NEW u \in Users, NEW o \in Orgs,
           NEW role \in Roles \union {None}, SignIn(t, u, o, role)
    PROVE  TeamInv'
  <1> DEFINE rows == SignInRows(u, o)
  <1>1. o \in orgs
    BY DEF SignIn
  <1>2. /\ rows \in SUBSET Rows /\ MemberRow(u, o) \in rows
        /\ account[u] = "absent" => AccountRow(u) \in rows
    BY RowFacts DEF SignInRows
  <1>3. "signIn" \in Directory \ {"sync"}
    BY DEF Directory
  <1>4. NoChange \in Partial(Users, States) /\ DOMAIN NoChange = {}
    BY NoChangeFacts
  <1>5. CASE role = None
    <2> DEFINE v == Revoked(<<u, o>>)
    <2>1. /\ account[u] # "absent"
          /\ Begin(t, "signIn", u, rows, {}, Only(<<u, o>>, v), NoChange, {})
      BY <1>5 DEF SignIn
    <2>2. v \in Values /\ v \notin Roles
      BY DEF Revoked, Values, Roles
    <2> HIDE DEF rows, v
    <2>3. QED
      BY <1>1, <1>2, <1>3, <1>4, <2>1, <2>2, DirectoryInv
  <1>6. CASE role # None
    <2> DEFINE accounts == IF account[u] = "absent" THEN Only(u, "enabled") ELSE NoChange
    <2>1. /\ account[u] # "disabled" /\ access[<<u, o>>] # "REVOKED"
          /\ Begin(t, "signIn", u, rows, {}, Only(<<u, o>>, role), accounts, {<<u, o>>})
      BY <1>6 DEF SignIn
    <2>2. role \in Values /\ role # "NONE"
      BY <1>6 DEF Values, Roles
    <2>3. /\ accounts \in Partial(Users, States)
          /\ \/ DOMAIN accounts = {} /\ account[u] # "absent"
             \/ /\ DOMAIN accounts = {u} /\ accounts[u] = "enabled"
                /\ AccountRow(u) \in rows
      <3>1. /\ Only(u, "enabled") \in Partial(Users, States)
            /\ DOMAIN Only(u, "enabled") = {u} /\ Only(u, "enabled")[u] = "enabled"
        BY OneAccount DEF States
      <3>2. QED
        BY <1>2, <1>4, <3>1
    <2> HIDE DEF rows, accounts
    <2>4. QED
      BY <1>1, <1>2, <1>3, <2>1, <2>2, <2>3, DirectoryInv
  <1>7. QED
    BY <1>5, <1>6

LEMMA SynchronizeInv ==
    ASSUME TeamInv, NEW t \in Txns, NEW o \in Orgs,
           NEW grants \in [Users -> Roles \union {None}], Synchronize(t, o, grants)
    PROVE  TeamInv'
  <1> DEFINE ours == {m \in linked : m[2] = o}
             granted(m) == IF grants[m[1]] = None THEN Revoked(m)
                           ELSE IF IsActive(m) THEN grants[m[1]] ELSE access[m]
             members == [m \in ours |-> granted(m)]
             rows == {OrgRow(o)} \union {MemberRow(m[1], o) : m \in ours}
             x == Decision("sync", None, rows, {}, members, NoChange, {})
  <1>1. o \in orgs /\ Begin(t, "sync", None, rows, {}, members, NoChange, {})
    BY DEF Synchronize
  <1>2. ours \in SUBSET Members
    BY DEF TeamInv, TypeOK
  <1>3. \A m \in ours : m[2] = o /\ m[1] \in Users /\ account[m[1]] # "absent"
    BY <1>2 DEF TeamInv, TypeOK, Members
  <1>4. ASSUME NEW m \in ours
        PROVE  /\ granted(m) \in Values
               /\ granted(m) \in Roles => access[m] # "REVOKED"
    <2>1. access[m] \in Values
      BY <1>2 DEF TeamInv, TypeOK
    <2>2. grants[m[1]] \in Roles \union {None}
      BY <1>3
    <2>3. QED
      BY <2>1, <2>2 DEF Revoked, IsActive, Values, Roles
  <1>5. /\ members \in Partial(Members, Values) /\ DOMAIN members = ours
        /\ \A m \in ours : members[m] \in Roles => access[m] # "REVOKED"
    <2>1. members \in [ours -> Values]
      BY <1>4
    <2>2. members \in Partial(Members, Values)
      BY ONLY <1>2, <2>1, PartialIntro
    <2>3. QED
      BY <1>4, <2>2
  <1>6. NoChange \in Partial(Users, States) /\ DOMAIN NoChange = {}
    BY NoChangeFacts
  <1>7. rows \in SUBSET Rows /\ \A m \in ours : MemberRow(m[1], o) \in rows
    BY <1>3, RowFacts
  <1>8. /\ x.op = "sync" /\ x.user = None /\ x.rows = rows /\ x.awaited = {}
        /\ x.members = members /\ x.accounts = NoChange /\ x.links = {}
        /\ x.overtaken = FALSE
    BY DEF Decision
  <1>9. "sync" \notin Console /\ "sync" \in Directory
    BY DEF Console, Directory
  <1> HIDE DEF ours, granted, members, rows, x
  <1>10. Shape(x)
    BY <1>3, <1>5, <1>6, <1>7, <1>8, <1>9 DEF Shape
  <1>11. Relies(x)
    BY <1>1, <1>3, <1>5, <1>6, <1>7, <1>8 DEF Relies
  <1>12. Spares(x) /\ Leaves(x)
    BY <1>8, <1>9 DEF Spares, Leaves
  <1>13. QED
    <2>1. Sound(Decision("sync", None, rows, {}, members, NoChange, {}))
      BY <1>10, <1>11, <1>12 DEF Sound, x
    <2>2. QED
      BY <1>1, <1>5, <1>6, <1>7, <1>9, <2>1, TeamBeginInv

-----------------------------------------------------------------------------
(* A transaction ends, or an organization is purged.                       *)

\* What the write of one transaction is for the others: their rows stay as
\* they are, and they are marked if they are overtaken.
Frozen(others, op, members) ==
    /\ others \subseteq Open /\ Open' \subseteq others
    /\ \A s \in others :
          /\ txn'[s] = IF Overtaken(s, op, members)
                       THEN [txn[s] EXCEPT !.overtaken = TRUE] ELSE txn[s]
          /\ op \in Console => txn[s].op \notin Console
          /\ \A m \in Members : MemberRow(m[1], m[2]) \in txn[s].rows =>
                /\ access'[m] = access[m]
                /\ m[2] \in orgs => m[2] \in orgs'
                /\ account[m[1]] # "absent" => account'[m[1]] # "absent"
          /\ \A u \in Users : AccountRow(u) \in txn[s].rows => account'[u] = account[u]
    /\ \A m \in Members : access'[m] # access[m] => m \in DOMAIN members
    /\ \A u \in Users : account'[u] # account[u] =>
          op \in Console \/ \E m \in DOMAIN members : m[1] = u

LEMMA OthersKept ==
    ASSUME TeamInv, TablesOK', txn' \in [Txns -> TeamTxn \union {None}],
           NEW others, NEW op, NEW members, Frozen(others, op, members)
    PROVE  TeamInv'
  <1>0. /\ others \subseteq Open /\ Open' \subseteq others
        /\ \A s \in others :
              /\ txn'[s] = IF Overtaken(s, op, members)
                           THEN [txn[s] EXCEPT !.overtaken = TRUE] ELSE txn[s]
              /\ op \in Console => txn[s].op \notin Console
              /\ \A m \in Members : MemberRow(m[1], m[2]) \in txn[s].rows =>
                    /\ access'[m] = access[m]
                    /\ m[2] \in orgs => m[2] \in orgs'
                    /\ account[m[1]] # "absent" => account'[m[1]] # "absent"
              /\ \A u \in Users : AccountRow(u) \in txn[s].rows => account'[u] = account[u]
        /\ \A m \in Members : access'[m] # access[m] => m \in DOMAIN members
        /\ \A u \in Users : account'[u] # account[u] =>
              op \in Console \/ \E m \in DOMAIN members : m[1] = u
    BY DEF Frozen
  <1>1. ASSUME NEW s \in Open'
        PROVE  /\ s \in Open /\ txn[s] \in TeamTxn /\ Sound(txn[s])
               /\ txn'[s].op = txn[s].op /\ txn'[s].user = txn[s].user
               /\ txn'[s].rows = txn[s].rows /\ txn'[s].awaited = txn[s].awaited
               /\ txn'[s].members = txn[s].members
               /\ txn'[s].accounts = txn[s].accounts /\ txn'[s].links = txn[s].links
               /\ ~txn'[s].overtaken => ~txn[s].overtaken /\ ~Overtaken(s, op, members)
    <2>1. s \in Open /\ txn[s] \in TeamTxn /\ Sound(txn[s])
      BY <1>0, TxnTyped
    <2>2. \/ txn'[s] = [txn[s] EXCEPT !.overtaken = TRUE]
          \/ txn'[s] = txn[s] /\ ~Overtaken(s, op, members)
      BY <1>0
    <2>3. CASE txn'[s] = [txn[s] EXCEPT !.overtaken = TRUE]
      BY <2>1, <2>3 DEF TeamTxn
    <2>4. CASE txn'[s] = txn[s] /\ ~Overtaken(s, op, members)
      BY <2>1, <2>4
    <2>5. QED
      BY <2>2, <2>3, <2>4
  <1>2. ASSUME NEW s \in Open' PROVE Sound(txn[s])'
    <2>1. /\ Shape(txn[s]) /\ Relies(txn[s]) /\ Spares(txn[s]) /\ Leaves(txn[s])
          /\ txn[s] \in TeamTxn
      BY <1>1 DEF Sound
    <2>2. /\ DOMAIN txn[s].members \subseteq Members
          /\ \A m \in DOMAIN txn[s].members : txn[s].members[m] \in Values
          /\ DOMAIN txn[s].accounts \subseteq Users
      BY <2>1, TxnOK
    <2>3. /\ op \in Console => txn[s].op \notin Console
          /\ \A m \in Members : MemberRow(m[1], m[2]) \in txn[s].rows =>
                /\ access'[m] = access[m]
                /\ m[2] \in orgs => m[2] \in orgs'
                /\ account[m[1]] # "absent" => account'[m[1]] # "absent"
          /\ \A u \in Users : AccountRow(u) \in txn[s].rows => account'[u] = account[u]
      BY <1>0
    <2>4. Shape(txn[s])'
      BY <1>1, <2>1 DEF Shape
    <2>5. Relies(txn[s])'
      <3>1. "NONE" \notin Roles
        BY DEF Roles
      <3>2. \A m \in DOMAIN txn[s].members : txn[s].members[m] # "NONE" =>
               /\ MemberRow(m[1], m[2]) \in txn[s].rows
               /\ m[2] \in orgs'
               /\ access'[m] = access[m]
               /\ IF m[1] \in DOMAIN txn[s].accounts
                  THEN txn[s].accounts[m[1]] # "absent" ELSE account'[m[1]] # "absent"
        BY <2>1, <2>2, <2>3 DEF Relies
      <3>3. txn[s].op \notin {"create", "activate"} =>
              \A m \in DOMAIN txn[s].members :
                 txn[s].members[m] \in Roles => access'[m] # "REVOKED"
        BY <2>1, <3>1, <3>2 DEF Relies
      <3>4. txn[s].op \notin {"enable", "activate"} =>
              \A u \in DOMAIN txn[s].accounts : txn[s].accounts[u] = "enabled" =>
                 AccountRow(u) \in txn[s].rows /\ account'[u] # "disabled"
        BY <2>1, <2>2, <2>3 DEF Relies
      <3>5. QED
        BY <1>1, <3>2, <3>3, <3>4 DEF Relies
    <2>6. ASSUME ~txn'[s].overtaken, ~(op \in Console /\ txn[s].op \in Console)
          PROVE  /\ \A m \in DOMAIN members : m[1] # txn[s].user
                 /\ EnabledAdmins \subseteq EnabledAdmins'
                 /\ \A m \in Members : m[1] = txn[s].user => access'[m] = access[m]
      BY <1>0, <1>1, <2>6 DEF Overtaken
    <2>7. Spares(txn[s])'
      <3>1. SUFFICES ASSUME txn'[s].op \in Console, ~txn'[s].overtaken
                     PROVE  \/ EnabledAdmins' \subseteq WouldBe(txn[s])'
                            \/ EnabledAdmins' \intersect WouldBe(txn[s])' # {}
        BY DEF Spares
      <3>2. txn[s].op \in Console /\ ~txn[s].overtaken /\ op \notin Console
        BY <1>1, <2>3, <3>1
      <3>3. /\ \A m \in DOMAIN members : m[1] # txn[s].user
            /\ EnabledAdmins \subseteq EnabledAdmins'
            /\ \A m \in Members : m[1] = txn[s].user => access'[m] = access[m]
        BY <2>6, <3>1, <3>2
      <3>4. \A u \in Users : u = txn[s].user => account'[u] = account[u]
        BY <1>0, <3>2, <3>3
      <3>5. /\ \A m \in DOMAIN txn[s].members : m[1] = txn[s].user
            /\ \A u \in DOMAIN txn[s].accounts : u = txn[s].user
        BY <2>1, <3>2 DEF Shape, Console
      <3>6. /\ access \in [Members -> Values] /\ access' \in [Members -> Values]
            /\ account \in [Users -> States] /\ account' \in [Users -> States]
        BY DEF TablesOK, TeamInv, TypeOK
      <3>7. \A m \in Members : m[1] \in Users
        BY DEF Members
      <3>8. \A m \in WouldBe(txn[s])' :
               m \in Members /\ (m[1] # txn[s].user => m \in EnabledAdmins')
        BY <1>1, <3>5, <3>6, <3>7 DEF WouldBe, EnabledAdmins, Updated
      <3>9. \A m \in EnabledAdmins' : m[1] # txn[s].user => m \in WouldBe(txn[s])'
        BY <1>1, <3>5, <3>6, <3>7 DEF WouldBe, EnabledAdmins, Updated
      <3>10. \A m \in EnabledAdmins' : m[1] = txn[s].user => m \in EnabledAdmins
        BY <3>3, <3>4, <3>7 DEF EnabledAdmins
      <3>11. \A m \in WouldBe(txn[s]) : m[1] = txn[s].user => m \in WouldBe(txn[s])'
        BY <1>1, <3>3, <3>4, <3>6, <3>7 DEF WouldBe, Updated
      <3>12. CASE EnabledAdmins \subseteq WouldBe(txn[s])
        BY <3>9, <3>10, <3>11, <3>12
      <3>13. CASE EnabledAdmins \intersect WouldBe(txn[s]) # {}
        BY <3>3, <3>9, <3>11, <3>13
      <3>14. QED
        BY <2>1, <3>2, <3>12, <3>13 DEF Spares
    <2>8. Leaves(txn[s])'
      <3>1. SUFFICES ASSUME txn'[s].op = "deprovision", ~txn'[s].overtaken
                     PROVE  Leaves(txn[s])'
        BY DEF Leaves
      <3>2. txn[s].op = "deprovision" /\ ~txn[s].overtaken /\ txn[s].op \notin Console
        BY <1>1, <3>1 DEF Console
      <3>3. \A m \in Members : m[1] = txn[s].user => access'[m] = access[m]
        BY <2>6, <3>1, <3>2
      <3>4. txn[s].user \in Users
        BY <2>1, <3>2 DEF Shape
      <3>5. \A o \in Orgs : access'[<<txn[s].user, o>>] = access[<<txn[s].user, o>>]
        BY <3>3, <3>4 DEF Members
      <3>6. QED
        <4>1. \/ /\ txn[s].user \in DOMAIN txn[s].accounts
                 /\ txn[s].accounts[txn[s].user] = "disabled"
              \/ \E o \in Orgs : /\ <<txn[s].user, o>> \notin DOMAIN txn[s].members
                                /\ access[<<txn[s].user, o>>] \in Roles
          BY <2>1, <3>2 DEF Leaves, IsActive
        <4>2. \/ /\ txn'[s].user \in DOMAIN txn'[s].accounts
                 /\ txn'[s].accounts[txn'[s].user] = "disabled"
              \/ \E o \in Orgs : /\ <<txn'[s].user, o>> \notin DOMAIN txn'[s].members
                                /\ access'[<<txn'[s].user, o>>] \in Roles
          BY <1>1, <3>5, <4>1
        <4>3. QED
          BY <4>2 DEF Leaves, IsActive
    <2>9. QED
      BY <2>4, <2>5, <2>7, <2>8 DEF Sound
  <1>3. Exclusive'
    BY <1>1 DEF TeamInv, Exclusive
  <1>4. QED
    BY <1>2, <1>3, InvFromParts

LEMMA TeamRollbackInv ==
    ASSUME TeamInv, NEW t \in Txns, Rollback(t)
    PROVE  TeamInv'
  <1>1. /\ txn \in [Txns -> TeamTxn \union {None}] /\ txn' = [txn EXCEPT ![t] = None]
        /\ UNCHANGED <<account, access, linked, orgs>>
    BY DEF TeamInv, Rollback
  <1>2. txn' \in [Txns -> TeamTxn \union {None}]
    BY <1>1
  <1>3. \A s \in Open' : s \in Open /\ txn'[s] = txn[s]
    BY <1>1 DEF Open
  <1>4. TablesOK'
    BY <1>1, TablesTyped DEF TeamInv, TablesOK
  <1>5. Exclusive'
    BY <1>3 DEF TeamInv, Exclusive
  <1>6. \A s \in Open' : Sound(txn[s])'
    <2>1. ASSUME NEW s \in Open' PROVE Sound(txn[s])'
      <3>1. Sound(txn'[s])
        BY <1>3 DEF TeamInv
      <3>2. QED
        BY <1>1, <3>1, SoundStill
    <2>2. QED
      BY <2>1
  <1>7. QED
    BY <1>2, <1>4, <1>5, <1>6, InvFromParts

\* What a commit writes.
LEMMA CommitWrites ==
    ASSUME TeamInv, NEW t \in Txns, Commit(t)
    PROVE  /\ t \in Open /\ txn[t] \in TeamTxn /\ Sound(txn[t])
           /\ DOMAIN txn[t].members \subseteq Members
           /\ DOMAIN txn[t].accounts \subseteq Users
           /\ access' \in [Members -> Values] /\ account' \in [Users -> States]
           /\ \A m \in Members : access'[m] =
                 IF m \in DOMAIN txn[t].members THEN txn[t].members[m] ELSE access[m]
           /\ \A u \in Users : account'[u] =
                 IF u \in DOMAIN txn[t].accounts THEN txn[t].accounts[u] ELSE account[u]
  <1>1. t \in Open
    BY DEF Commit, Open
  <1>2. txn[t] \in TeamTxn /\ Sound(txn[t])
    BY <1>1, TxnTyped
  <1>3. /\ DOMAIN txn[t].members \subseteq Members
        /\ \A m \in DOMAIN txn[t].members : txn[t].members[m] \in Values
        /\ DOMAIN txn[t].accounts \subseteq Users
        /\ \A u \in DOMAIN txn[t].accounts : txn[t].accounts[u] \in States
    BY <1>2, TxnOK
  <1>4. access \in [Members -> Values] /\ account \in [Users -> States]
    BY DEF TeamInv, TypeOK
  <1>5. /\ access' = Updated(access, txn[t].members)
        /\ account' = Updated(account, txn[t].accounts)
    BY DEF Commit
  <1>6. /\ access' \in [Members -> Values]
        /\ \A m \in Members : access'[m] =
              IF m \in DOMAIN txn[t].members THEN txn[t].members[m] ELSE access[m]
    BY <1>3, <1>4, <1>5 DEF Updated
  <1>7. /\ account' \in [Users -> States]
        /\ \A u \in Users : account'[u] =
              IF u \in DOMAIN txn[t].accounts THEN txn[t].accounts[u] ELSE account[u]
    BY <1>3, <1>4, <1>5 DEF Updated
  <1>8. QED
    BY <1>1, <1>2, <1>3, <1>6, <1>7

\* The references hold between the rows after a commit.
LEMMA CommitTables ==
    ASSUME TeamInv, NEW t \in Txns, Commit(t)
    PROVE  TablesOK'
  <1> DEFINE x == txn[t]
  <1>1. /\ x \in TeamTxn /\ Shape(x) /\ Relies(x)
        /\ DOMAIN x.members \subseteq Members /\ DOMAIN x.accounts \subseteq Users
        /\ access' \in [Members -> Values] /\ account' \in [Users -> States]
        /\ \A m \in Members : access'[m] =
              IF m \in DOMAIN x.members THEN x.members[m] ELSE access[m]
        /\ \A u \in Users : account'[u] =
              IF u \in DOMAIN x.accounts THEN x.accounts[u] ELSE account[u]
    BY CommitWrites DEF Sound
  <1>2. /\ linked' = (linked \union x.links) \ {l \in linked : account'[l[1]] = "absent"}
        /\ orgs' = orgs
    BY DEF Commit
  <1>3. TablesOK
    BY TablesTyped DEF TeamInv
  <1>4. x.links \subseteq Members
    BY <1>1, TxnOK
  <1> HIDE DEF x
  <1>5. ASSUME NEW m \in Members
        PROVE  m[1] \in Users /\ m[2] \in Orgs /\ m = <<m[1], m[2]>>
    BY DEF Members
  <1>6. ASSUME NEW m \in DOMAIN x.members, x.members[m] # "NONE"
        PROVE  account'[m[1]] # "absent" /\ m[2] \in orgs'
    <2>1. m \in Members /\ m[1] \in Users
      BY <1>1, <1>5
    <2>2. m[2] \in orgs
      BY <1>1, <1>6 DEF Relies
    <2>3. IF m[1] \in DOMAIN x.accounts THEN x.accounts[m[1]] # "absent"
          ELSE account[m[1]] # "absent"
      BY <1>1, <1>6 DEF Relies
    <2>4. QED
      BY <1>1, <1>2, <2>1, <2>2, <2>3
  <1>7. ASSUME NEW m \in Members, access'[m] # "NONE" \/ m \in linked'
        PROVE  account'[m[1]] # "absent" /\ m[2] \in orgs'
    <2>1. CASE m \in DOMAIN x.members /\ access'[m] # "NONE"
      BY <1>1, <1>6, <2>1
    <2>2. CASE m \in x.links
      BY <1>1, <1>6, <2>2 DEF Shape
    <2>3. CASE m \in linked /\ m \in linked'
      BY <1>2, <1>3, <2>3 DEF TablesOK
    <2>4. CASE m \notin DOMAIN x.members /\ access'[m] # "NONE"
      <3>1. access[m] # "NONE"
        BY <1>1, <2>4
      <3>2. account[m[1]] # "absent" /\ m[2] \in orgs
        BY <1>3, <3>1 DEF TablesOK
      <3>3. m[1] \in DOMAIN x.accounts => x.accounts[m[1]] # "absent"
        BY <1>1, <1>5, <2>4 DEF Shape
      <3>4. QED
        BY <1>1, <1>2, <1>5, <3>2, <3>3
    <2>5. QED
      BY <1>2, <1>7, <2>1, <2>2, <2>3, <2>4
  <1>8. linked' \subseteq Members /\ orgs' \subseteq Orgs
    BY <1>2, <1>3, <1>4 DEF TablesOK
  <1>9. QED
    BY <1>1, <1>7, <1>8 DEF TablesOK

LEMMA TeamCommitInv ==
    ASSUME TeamInv, NEW t \in Txns, Commit(t)
    PROVE  TeamInv'
  <1>0. PICK x, others : x = txn[t] /\ others = Open \ {t}
    OBVIOUS
  <1>1. /\ t \in Open /\ x \in TeamTxn /\ Shape(x)
        /\ DOMAIN x.members \subseteq Members /\ DOMAIN x.accounts \subseteq Users
        /\ \A m \in Members : access'[m] =
              IF m \in DOMAIN x.members THEN x.members[m] ELSE access[m]
        /\ \A u \in Users : account'[u] =
              IF u \in DOMAIN x.accounts THEN x.accounts[u] ELSE account[u]
    BY <1>0, CommitWrites DEF Sound
  <1>2. /\ x.awaited \intersect Held(others) = {} /\ orgs' = orgs
        /\ txn' = [MarkOvertaken(others, x.op, x.members) EXCEPT ![t] = None]
    BY <1>0 DEF Commit
  <1>3. txn \in [Txns -> TeamTxn \union {None}]
    BY DEF TeamInv
  <1>4. TablesOK'
    BY CommitTables
  <1>5. \A m \in Members : m = <<m[1], m[2]>> /\ m[1] \in Users /\ m[2] \in Orgs
    BY DEF Members
  <1>6. ASSUME NEW s \in others
        PROVE  (x.rows \union x.awaited) \intersect txn[s].rows = {}
    <2>1. x.rows \intersect txn[s].rows = {}
      BY <1>0, <1>1 DEF TeamInv, Exclusive
    <2>2. x.awaited \intersect txn[s].rows = {}
      BY <1>2 DEF Held
    <2>3. QED
      BY <2>1, <2>2
  <1>7. ASSUME NEW s \in others, x.op \in Console PROVE txn[s].op \notin Console
    <2>1. Shape(txn[s])
      BY <1>0, TxnTyped DEF Sound
    <2>2. AdminLock \in x.rows
      BY <1>1, <1>7 DEF Shape
    <2>3. QED
      BY <1>6, <2>1, <2>2 DEF Shape
  <1>8. ASSUME NEW s \in others, NEW m \in Members,
               MemberRow(m[1], m[2]) \in txn[s].rows
        PROVE  access'[m] = access[m]
               /\ (account[m[1]] # "absent" => account'[m[1]] # "absent")
    <2>1. m \notin DOMAIN x.members
      BY <1>1, <1>6, <1>8 DEF Shape
    <2>2. access'[m] = access[m]
      BY <1>1, <2>1
    <2>3. m[1] \in DOMAIN x.accounts => x.accounts[m[1]] # "absent"
      BY <1>1, <1>5, <2>1 DEF Shape
    <2>4. QED
      BY <1>1, <1>5, <2>2, <2>3
  <1>9. ASSUME NEW s \in others, NEW u \in Users, AccountRow(u) \in txn[s].rows
        PROVE  account'[u] = account[u]
    <2>1. u \notin DOMAIN x.accounts
      BY <1>1, <1>6, <1>9 DEF Shape
    <2>2. QED
      BY <1>1, <2>1
  <1>10. ASSUME NEW u \in Users, account'[u] # account[u]
         PROVE  x.op \in Console \/ \E m \in DOMAIN x.members : m[1] = u
    <2>1. u \in DOMAIN x.accounts
      BY <1>1, <1>10
    <2>2. u = x.user
      BY <1>1, <2>1 DEF Shape
    <2>3. CASE x.op \notin Console
      <3>1. PICK m \in DOMAIN x.members : m[1] = x.user
        BY <1>1, <2>1, <2>3 DEF Shape
      <3>2. QED
        BY <2>2, <3>1
    <2>4. QED
      BY <2>3
  <1>11. ASSUME NEW s \in others
         PROVE  txn'[s] = IF Overtaken(s, x.op, x.members)
                          THEN [txn[s] EXCEPT !.overtaken = TRUE] ELSE txn[s]
    <2>1. s \in Txns /\ s # t
      BY <1>0 DEF Open
    <2>2. QED
      BY <1>2, <2>1 DEF MarkOvertaken
  <1>12. txn' \in [Txns -> TeamTxn \union {None}] /\ Open' \subseteq others
    <2>1. \A s \in others : txn[s] \in TeamTxn
      BY <1>0, TxnTyped
    <2>2. \A s \in others : [txn[s] EXCEPT !.overtaken = TRUE] \in TeamTxn
      BY <2>1 DEF TeamTxn
    <2>3. MarkOvertaken(others, x.op, x.members) \in [Txns -> TeamTxn \union {None}]
      BY <1>3, <2>1, <2>2 DEF MarkOvertaken
    <2>4. txn' \in [Txns -> TeamTxn \union {None}] /\ txn'[t] = None
      BY <1>2, <2>3
    <2>5. \A s \in Txns \ {t} : s \notin Open => txn'[s] = None
      BY <1>0, <1>2 DEF MarkOvertaken, Open
    <2>6. QED
      BY <1>0, <2>4, <2>5 DEF Open
  <1>13. Frozen(others, x.op, x.members)
    <2>1. \A s \in others : x.op \in Console => txn[s].op \notin Console
      BY <1>7
    <2>2. \A s \in others, m \in Members : MemberRow(m[1], m[2]) \in txn[s].rows =>
             /\ access'[m] = access[m]
             /\ m[2] \in orgs => m[2] \in orgs'
             /\ account[m[1]] # "absent" => account'[m[1]] # "absent"
      BY <1>2, <1>8
    <2>3. \A m \in Members : access'[m] # access[m] => m \in DOMAIN x.members
      BY <1>1
    <2>4. others \subseteq Open
      BY <1>0
    <2>5. QED
      BY <1>9, <1>10, <1>11, <1>12, <2>1, <2>2, <2>3, <2>4 DEF Frozen
  <1>14. QED
    BY <1>4, <1>12, <1>13, OthersKept

\* deleteOrgCascade.
LEMMA PurgeInv ==
    ASSUME TeamInv, NEW o \in Orgs, Purge(o)
    PROVE  TeamInv'
  <1> DEFINE theirs == Users \X {o}
             gone == [m \in theirs |-> "NONE"]
  <1>1. /\ ({OrgRow(o)} \union {MemberRow(u, o) : u \in Users})
              \intersect Held(Open) = {}
        /\ orgs' = orgs \ {o} /\ access' = Updated(access, gone)
        /\ linked' = linked \ theirs /\ account' = account
        /\ txn' = MarkOvertaken(Open, "purge", gone)
    BY DEF Purge
  <1>2. TablesOK /\ txn \in [Txns -> TeamTxn \union {None}]
    BY TablesTyped DEF TeamInv
  <1>3. \A m \in Members : m[1] \in Users /\ (m \in theirs <=> m[2] = o)
    BY DEF Members
  <1>4. /\ access' \in [Members -> Values]
        /\ \A m \in Members : access'[m] = IF m[2] = o THEN "NONE" ELSE access[m]
    BY <1>1, <1>2, <1>3 DEF Updated, TablesOK, Values
  <1>5. DOMAIN gone = theirs
    OBVIOUS
  <1> HIDE DEF theirs, gone
  <1>6. TablesOK'
    BY <1>1, <1>2, <1>3, <1>4 DEF TablesOK
  <1>7. ASSUME NEW s \in Open, NEW m \in Members,
               MemberRow(m[1], m[2]) \in txn[s].rows
        PROVE  m[2] # o
    BY <1>1, <1>3, <1>7 DEF Held
  <1>8. \A s \in Open : txn'[s] = IF Overtaken(s, "purge", gone)
                                  THEN [txn[s] EXCEPT !.overtaken = TRUE] ELSE txn[s]
    BY <1>1 DEF MarkOvertaken, Open
  <1>9. txn' \in [Txns -> TeamTxn \union {None}] /\ Open' \subseteq Open
    <2>1. \A s \in Open : txn[s] \in TeamTxn
      BY TxnTyped
    <2>2. \A s \in Open : [txn[s] EXCEPT !.overtaken = TRUE] \in TeamTxn
      BY <2>1 DEF TeamTxn
    <2>3. txn' \in [Txns -> TeamTxn \union {None}]
      BY <1>1, <1>2, <2>1, <2>2 DEF MarkOvertaken
    <2>4. \A s \in Txns : s \notin Open => txn'[s] = None
      BY <1>1 DEF MarkOvertaken, Open
    <2>5. QED
      BY <2>3, <2>4 DEF Open
  <1>10. "purge" \notin Console
    BY DEF Console
  <1>11. \A m \in Members : access'[m] # access[m] => m \in DOMAIN gone
    BY <1>3, <1>4, <1>5
  <1>12. Frozen(Open, "purge", gone)
    BY <1>1, <1>4, <1>7, <1>8, <1>9, <1>10, <1>11 DEF Frozen
  <1>13. QED
    BY <1>6, <1>9, <1>12, OthersKept

-----------------------------------------------------------------------------
(* The invariant, and what follows from it.                                *)

LEMMA TeamInitInv ==
    ASSUME Init
    PROVE  TeamInv
  <1>1. PICK first \in Members :
          /\ account = [u \in Users |-> IF u = first[1] THEN "enabled" ELSE "absent"]
          /\ access = [m \in Members |-> IF m = first THEN "ADMIN" ELSE "NONE"]
    BY DEF Init
  <1>2. linked = {} /\ orgs = Orgs /\ txn = [t \in Txns |-> None]
    BY DEF Init
  <1>3. Open = {}
    BY <1>2 DEF Open
  <1>4. /\ account \in [Users -> States]
        /\ access \in [Members -> Values]
    BY <1>1 DEF States, Values, Roles
  <1>5. \A m \in Members : m[1] \in Users /\ m[2] \in Orgs
    BY DEF Members
  <1>6. \A m \in Members : access[m] # "NONE" \/ m \in linked
                             => account[m[1]] # "absent" /\ m[2] \in orgs
    BY <1>1, <1>2, <1>5
  <1>7. TypeOK
    BY <1>2, <1>3, <1>4, <1>6 DEF TypeOK
  <1>8. QED
    BY <1>2, <1>3, <1>7 DEF TeamInv, Exclusive

LEMMA StepInv ==
    ASSUME TeamInv, Next
    PROVE  TeamInv'
  <1>1. ASSUME NEW t \in Txns, Commit(t) \/ Rollback(t) PROVE TeamInv'
    BY <1>1, TeamCommitInv, TeamRollbackInv
  <1>2. ASSUME NEW t \in Txns, NEW u \in Users, DisableUser(t, u) PROVE TeamInv'
    <2>1. /\ ~NeededAsAdmin(u)
          /\ Begin(t, "disable", u, FencedRows(u), {}, NoChange,
                        Only(u, "disabled"), {})
      BY <1>2 DEF DisableUser
    <2>2. QED
      BY ONLY TeamInv, t \in Txns, u \in Users, <2>1, SwitchUserInv
  <1>3. ASSUME NEW t \in Txns, NEW u \in Users, EnableUser(t, u) PROVE TeamInv'
    <2>1. Begin(t, "enable", u, FencedRows(u), {}, NoChange,
                     Only(u, "enabled"), {})
      BY <1>3 DEF EnableUser
    <2>2. QED
      BY ONLY TeamInv, t \in Txns, u \in Users, <2>1, SwitchUserInv
  <1>4. ASSUME NEW t \in Txns, NEW u \in Users, DeleteUser(t, u) PROVE TeamInv'
    BY <1>4, DeleteUserInv
  <1>5. ASSUME NEW t \in Txns, NEW u \in Users, NEW o \in Orgs, NEW a \in Users,
               RemoveMember(t, a, u, o)
        PROVE  TeamInv'
    <2>1. /\ o \in orgs /\ IsActive(<<u, o>>) /\ ~LastAdmin(u, <<u, o>>)
          /\ Begin(t, "remove", u, TeamRows(a, u, o), {}, Only(<<u, o>>, "REVOKED"),
                   NoChange, {})
      BY <1>5 DEF RemoveMember, Managing
    <2>2. "remove" \in {"setRole", "remove"} /\ "REVOKED" \in Roles \union {"REVOKED"}
      OBVIOUS
    <2>3. QED
      BY <2>1, <2>2, MemberChangeInv
  <1>6. ASSUME NEW t \in Txns, NEW u \in Users, NEW o \in Orgs, NEW a \in Users,
               NEW role \in Roles, CreateMember(t, a, u, o, role)
        PROVE  TeamInv'
    BY <1>6, CreateMemberInv
  <1>7. ASSUME NEW t \in Txns, NEW u \in Users, NEW o \in Orgs, NEW a \in Users,
               NEW role \in Roles, UpdateMemberRole(t, a, u, o, role)
        PROVE  TeamInv'
    <2>1. /\ o \in orgs /\ IsActive(<<u, o>>)
          /\ role # "ADMIN" => ~LastAdmin(u, <<u, o>>)
          /\ Begin(t, "setRole", u, TeamRows(a, u, o), {}, Only(<<u, o>>, role),
                   NoChange, {})
      BY <1>7 DEF UpdateMemberRole, Managing
    <2>2. "setRole" \in {"setRole", "remove"} /\ role \in Roles \union {"REVOKED"}
      OBVIOUS
    <2>3. QED
      BY <2>1, <2>2, MemberChangeInv
  <1>8. ASSUME NEW t \in Txns, NEW u \in Users, NEW o \in Orgs,
               \/ \E says \in {"true", "false", "unsaid"}, role \in Roles :
                     ProvisionScimUser(t, u, o, says, role)
               \/ DeprovisionScimUser(t, u, o)
               \/ \E role \in Roles \union {None} : SignIn(t, u, o, role)
        PROVE  TeamInv'
    BY <1>8, ProvisionScimUserInv, DeprovisionScimUserInv, SignInInv
  <1>9. ASSUME NEW t \in Txns, NEW o \in Orgs,
               NEW grants \in [Users -> Roles \union {None}], Synchronize(t, o, grants)
        PROVE  TeamInv'
    BY <1>9, SynchronizeInv
  <1>10. ASSUME NEW o \in Orgs, Purge(o) PROVE TeamInv'
    BY <1>10, PurgeInv
  <1>11. QED
    BY <1>1, <1>2, <1>3, <1>4, <1>5, <1>6, <1>7, <1>8, <1>9, <1>10 DEF Next

\* An idle step.
LEMMA StutterInv ==
    ASSUME TeamInv, UNCHANGED vars
    PROVE  TeamInv'
  <1>1. /\ UNCHANGED <<account, access, linked, orgs>> /\ txn' = txn
    BY DEF vars
  <1>2. TablesOK' /\ txn' \in [Txns -> TeamTxn \union {None}]
    BY <1>1, TablesTyped DEF TeamInv, TablesOK
  <1>3. Open' = Open
    BY <1>1 DEF Open
  <1>4. Exclusive'
    BY <1>1, <1>3 DEF TeamInv, Exclusive
  <1>5. ASSUME NEW s \in Open' PROVE Sound(txn[s])'
    <2>1. Sound(txn'[s])
      BY <1>1, <1>3 DEF TeamInv
    <2>2. QED
      BY <1>1, <2>1, SoundStill
  <1>6. QED
    BY <1>2, <1>4, <1>5, InvFromParts

\* The invariant: the locks are exclusive, a transaction writes what it locked or
\* waits for, and what it decided on is still so or it is overtaken.
THEOREM TeamInvariance == Spec => []TeamInv
  <1>1. Init => TeamInv
    BY TeamInitInv
  <1>2. TeamInv /\ [Next]_(vars) => TeamInv'
    BY StepInv, StutterInv
  <1>3. QED
    BY <1>1, <1>2, PTL DEF Spec

\* Type correctness, and the references between the rows.
THEOREM TeamTyped == Spec => []TypeOK
  <1>1. TeamInv => TypeOK
    BY DEF TeamInv
  <1>2. QED
    BY <1>1, TeamInvariance, PTL

\* However the requests of the pages interleave, none of them takes the last
\* enabled Admin away (withOrganizationAdminInvariantTransaction), unless an
\* identity provider or a purge took one while it was at work.
THEOREM AdminIsKept == Spec => ConsoleKeepsAdmin
  <1>1. ASSUME TeamInv, NEW t \in Txns, Commits(t), txn[t].op \in Console,
               ~txn[t].overtaken, EnabledAdmins # {}
        PROVE  EnabledAdmins' # {}
    <2>1. t \in Open
      BY <1>1 DEF Commits, Open
    <2>2. Spares(txn[t])
      BY <1>1, <2>1, TxnTyped DEF Sound
    <2>3. EnabledAdmins' = WouldBe(txn[t])
      BY <1>1 DEF Commits, EnabledAdmins, WouldBe
    <2>4. QED
      BY <1>1, <2>2, <2>3 DEF Spares
  <1>2. TeamInv /\ [Next]_(vars) =>
          [\A t \in Txns :
             Commits(t) /\ txn[t].op \in Console /\ ~txn[t].overtaken
                => (EnabledAdmins # {} => EnabledAdmins' # {})]_(vars)
    BY <1>1
  <1>3. QED
    BY <1>2, TeamInvariance, PTL DEF Spec, ConsoleKeepsAdmin

\* The accounts and memberships change by a commit or a purge alone.
LEMMA Writes ==
    ASSUME [Next]_(vars)
    PROVE  \/ \E t \in Txns : Commit(t)
           \/ \E o \in Orgs : Purge(o)
           \/ account' = account /\ access' = access
  <1>1. ASSUME NEW t \in Txns, Commit(t) \/ Rollback(t)
        PROVE  Commit(t) \/ (account' = account /\ access' = access)
    BY <1>1 DEF Rollback
  <1>2. ASSUME NEW t \in Txns, NEW u \in Users,
               DisableUser(t, u) \/ EnableUser(t, u) \/ DeleteUser(t, u)
        PROVE  account' = account /\ access' = access
    BY <1>2 DEF DisableUser, EnableUser, DeleteUser, Begin
  <1>3. ASSUME NEW t \in Txns, NEW u \in Users, NEW o \in Orgs, NEW a \in Users,
               \/ RemoveMember(t, a, u, o)
               \/ \E role \in Roles : \/ CreateMember(t, a, u, o, role)
                                          \/ UpdateMemberRole(t, a, u, o, role)
        PROVE  account' = account /\ access' = access
    BY <1>3 DEF RemoveMember, CreateMember, UpdateMemberRole, Begin
  <1>4. ASSUME NEW t \in Txns, NEW u \in Users, NEW o \in Orgs,
               \/ \E says \in {"true", "false", "unsaid"}, role \in Roles :
                     ProvisionScimUser(t, u, o, says, role)
               \/ DeprovisionScimUser(t, u, o)
               \/ \E role \in Roles \union {None} : SignIn(t, u, o, role)
        PROVE  account' = account /\ access' = access
    BY <1>4 DEF ProvisionScimUser, DeprovisionScimUser, SignIn, Begin
  <1>5. ASSUME NEW t \in Txns, NEW o \in Orgs,
               NEW grants \in [Users -> Roles \union {None}], Synchronize(t, o, grants)
        PROVE  account' = account /\ access' = access
    BY <1>5 DEF Synchronize, Begin
  <1>6. CASE UNCHANGED vars
    BY <1>6 DEF vars
  <1>7. CASE Next
    BY <1>1, <1>2, <1>3, <1>4, <1>5, <1>7 DEF Next
  <1>8. QED
    BY <1>6, <1>7

LEMMA CommitRestores ==
    ASSUME TeamInv, NEW t \in Txns, Commit(t)
    PROVE  RestoredExplicitly
  <1>1. /\ txn[t] \in TeamTxn /\ Shape(txn[t]) /\ Relies(txn[t])
        /\ DOMAIN txn[t].members \subseteq Members
        /\ DOMAIN txn[t].accounts \subseteq Users
        /\ \A m \in Members : access'[m] =
              IF m \in DOMAIN txn[t].members THEN txn[t].members[m] ELSE access[m]
        /\ \A u \in Users : account'[u] =
              IF u \in DOMAIN txn[t].accounts THEN txn[t].accounts[u] ELSE account[u]
    BY CommitWrites DEF Sound
  <1>2. Commits(t)
    <2>1. txn \in [Txns -> TeamTxn \union {None}]
      BY DEF TeamInv
    <2>2. txn'[t] = None
      BY DEF Commit, MarkOvertaken
    <2>3. QED
      BY <2>2 DEF Commit, Commits
  <1>3. ASSUME NEW m \in Members, access[m] = "REVOKED", access'[m] \in Roles
        PROVE  txn[t].user = m[1] /\ txn[t].op \in {"create", "activate"}
    <2>1. "REVOKED" \notin Roles
      BY DEF Roles
    <2>2. m \in DOMAIN txn[t].members /\ txn[t].members[m] \in Roles
      BY <1>1, <1>3, <2>1
    <2>3. txn[t].op \in {"create", "activate"}
      BY <1>1, <1>3, <2>2 DEF Relies
    <2>4. QED
      BY <1>1, <2>2, <2>3 DEF Shape
  <1>4. ASSUME NEW u \in Users, account[u] = "disabled", account'[u] = "enabled"
        PROVE  txn[t].user = u /\ txn[t].op \in {"enable", "activate"}
    <2>1. u \in DOMAIN txn[t].accounts /\ txn[t].accounts[u] = "enabled"
      BY <1>1, <1>4
    <2>2. txn[t].op \in {"enable", "activate"}
      BY <1>1, <1>4, <2>1 DEF Relies
    <2>3. QED
      BY <1>1, <2>1, <2>2 DEF Shape
  <1>5. QED
    BY <1>2, <1>3, <1>4 DEF RestoredExplicitly

LEMMA PurgeRestoresNone ==
    ASSUME TeamInv, NEW o \in Orgs, Purge(o)
    PROVE  RestoredExplicitly
  <1>1. access \in [Members -> Values]
    BY DEF TeamInv, TypeOK
  <1>2. \A m \in Members : access'[m] = "NONE" \/ access'[m] = access[m]
    BY <1>1 DEF Purge, Updated
  <1>3. account' = account
    BY DEF Purge
  <1>4. QED
    BY <1>2, <1>3 DEF RestoredExplicitly, Roles

LEMMA LeaverDisabled ==
    ASSUME TeamInv
    PROVE  LeaverIsDisabled
  <1>1. SUFFICES ASSUME NEW t \in Txns, Commits(t), txn[t].op = "deprovision",
                        ~txn[t].overtaken
                 PROVE  \/ account'[txn[t].user] # "enabled"
                        \/ \E o \in Orgs : access'[<<txn[t].user, o>>] \in Roles
    BY DEF LeaverIsDisabled
  <1>2. t \in Open
    BY <1>1 DEF Commits, Open
  <1>3. Shape(txn[t]) /\ Leaves(txn[t])
    BY <1>2, TxnTyped DEF Sound
  <1>4. txn[t].user \in Users
    BY <1>1, <1>3 DEF Shape
  <1>5. access \in [Members -> Values] /\ account \in [Users -> States]
    BY DEF TeamInv, TypeOK
  <1>6. CASE /\ txn[t].user \in DOMAIN txn[t].accounts
             /\ txn[t].accounts[txn[t].user] = "disabled"
    <2>1. account'[txn[t].user] = "disabled"
      BY <1>1, <1>4, <1>5, <1>6 DEF Commits, Updated
    <2>2. QED
      BY <2>1
  <1>7. CASE \E o \in Orgs : /\ <<txn[t].user, o>> \notin DOMAIN txn[t].members
                             /\ IsActive(<<txn[t].user, o>>)
    <2>1. PICK o \in Orgs : /\ <<txn[t].user, o>> \notin DOMAIN txn[t].members
                            /\ access[<<txn[t].user, o>>] \in Roles
      BY <1>7 DEF IsActive
    <2>2. <<txn[t].user, o>> \in Members
      BY <1>4 DEF Members
    <2>3. access'[<<txn[t].user, o>>] = access[<<txn[t].user, o>>]
      BY <1>1, <1>5, <2>1, <2>2 DEF Commits, Updated
    <2>4. QED
      BY <2>1, <2>3
  <1>8. QED
    BY <1>1, <1>3, <1>6, <1>7 DEF Leaves

\* Access that was revoked and accounts that were disabled come back by an
\* administrator or by active=true only, and who leaves the last organization
\* is disabled (upsertExternalUser, provisionScimUser, deprovisionScimUser).
THEOREM RevocationStays == Spec => RevocationHolds
  <1>1. ASSUME TeamInv, [Next]_(vars)
        PROVE  RestoredExplicitly /\ LeaverIsDisabled
    <2>1. ASSUME NEW t \in Txns, Commit(t) PROVE RestoredExplicitly
      BY <1>1, <2>1, CommitRestores
    <2>2. ASSUME NEW o \in Orgs, Purge(o) PROVE RestoredExplicitly
      BY <1>1, <2>2, PurgeRestoresNone
    <2>3. ASSUME account' = account, access' = access PROVE RestoredExplicitly
      <3>1. "REVOKED" \notin Roles
        BY DEF Roles
      <3>2. /\ \A m \in Members : ~(access[m] = "REVOKED" /\ access'[m] \in Roles)
            /\ \A u \in Users : ~(account[u] = "disabled" /\ account'[u] = "enabled")
        BY <2>3, <3>1
      <3>3. QED
        BY <3>2 DEF RestoredExplicitly
    <2>4. RestoredExplicitly
      BY <1>1, <2>1, <2>2, <2>3, Writes
    <2>5. QED
      BY <1>1, <2>4, LeaverDisabled
  <1>2. TeamInv /\ [Next]_(vars) =>
          [RestoredExplicitly /\ LeaverIsDisabled]_(vars)
    BY <1>1
  <1>3. QED
    BY <1>2, TeamInvariance, PTL DEF Spec, RevocationHolds

-----------------------------------------------------------------------------
(* The sealed log.                                                        *)

USE BatchAssumption, AuditBoundsAssumption

\* The rows that were ever sealed.
Ever == {e \in Entries : entry[e].seq # 0}

Positions ==
    /\ chain.sequence = Cardinality(Ever)
    /\ \A e \in Entries : entry[e].seq <= chain.sequence
    /\ \A k \in 1..chain.sequence : \E e \in Entries : entry[e].seq = k
    /\ \A e, f \in Ever : entry[e].seq = entry[f].seq => e = f
    /\ chain.first <= chain.sequence + 1
    /\ chain.sequence # 0 => chain.exists

\* The chain up to the position k ends with the hash h.
EndsAt(rows, k, h) ==
    IF k = 0 THEN h = <<>>
    ELSE \E e \in Entries : rows[e].seq = k /\ rows[e].hash = h

Links ==
    /\ \A e \in Ever : /\ entry[e].hash = Append(entry[e].previous, <<e, TRUE>>)
                       /\ EndsAt(entry, entry[e].seq - 1, entry[e].previous)
    /\ EndsAt(entry, chain.sequence, chain.latest)
    /\ EndsAt(entry, chain.first - 1, chain.firstPrevious)

\* What is still there, and unchanged.
Remains ==
    /\ \A e \in Entries : IF entry[e].seq = 0 THEN entry[e].original
                          ELSE entry[e].status \in {"stored", "removed"}
    /\ \A e \in Ever : /\ entry[e].seq < chain.first => entry[e].status = "removed"
                       /\ entry[e].seq >= chain.first /\ entry[e].original
                             => entry[e].status = "stored"
    /\ damage = 0 => \A e \in Entries : entry[e].original

ChainInv == AuditTypeOK /\ Positions /\ Links /\ Remains

-----------------------------------------------------------------------------
(* What the rows that were sealed keep.                                    *)

LEMMA EntriesFinite == IsFiniteSet(Entries) /\ Cardinality(Entries) = EntryCount
  BY FS_Interval DEF Entries

LEMMA Typed ==
    ASSUME AuditTypeOK, NEW e \in Entries
    PROVE  /\ entry[e] \in Entry /\ entry[e].seq \in Nat
           /\ entry[e].previous \in Hash /\ entry[e].hash \in Hash
           /\ entry[e].original \in BOOLEAN
           /\ Content(e) \in Entries \X BOOLEAN
           /\ chain.sequence \in Nat /\ chain.first \in Nat \ {0}
  BY DEF AuditTypeOK, Entry, Chain, Content

\* Nothing but the beginning of the chain changes.
LEMMA LinksKept ==
    ASSUME ChainInv,
           \A e \in Entries : /\ entry'[e].seq = entry[e].seq
                              /\ entry'[e].previous = entry[e].previous
                              /\ entry'[e].hash = entry[e].hash,
           chain'.sequence = chain.sequence, chain'.latest = chain.latest,
           chain.exists => chain'.exists,
           chain'.first <= chain.sequence + 1,
           EndsAt(entry, chain'.first - 1, chain'.firstPrevious)
    PROVE  Positions' /\ Links'
  <1>1. Ever' = Ever
    BY DEF Ever
  <1>2. Positions'
    <2>1. /\ Positions /\ Ever \subseteq Entries
          /\ chain'.sequence = chain.sequence /\ chain'.first <= chain.sequence + 1
          /\ chain.exists => chain'.exists
      BY DEF ChainInv, Ever
    <2>2. QED
      BY <1>1, <2>1 DEF Positions
  <1>3. \A k, h : EndsAt(entry', k, h) <=> EndsAt(entry, k, h)
    BY DEF EndsAt
  <1>4. Links'
    BY <1>1, <1>3 DEF ChainInv, Links, Ever
  <1>5. QED
    BY <1>2, <1>4

\* One row that was not sealed, or nothing.
LEMMA UnsealedChangeInv ==
    ASSUME ChainInv, entry' \in [Entries -> Entry], UNCHANGED <<chain, damage>>,
           clock' \in 0..MaxClock, verifier' \in [pc : {"idle", "rows", "done"},
                                                  chain : Chain, valid : BOOLEAN],
           \A e \in Entries :
              \/ entry'[e] = entry[e]
              \/ /\ entry[e].seq = 0 /\ entry'[e].seq = 0
                 /\ entry'[e].original = entry[e].original
                 /\ entry'[e].previous = entry[e].previous
                 /\ entry'[e].hash = entry[e].hash
    PROVE  ChainInv'
  <1>1. AuditTypeOK'
    BY DEF ChainInv, AuditTypeOK
  <1>2. Positions' /\ Links'
    <2>1. /\ chain'.first <= chain.sequence + 1
          /\ EndsAt(entry, chain'.first - 1, chain'.firstPrevious)
      BY DEF ChainInv, Positions, Links
    <2>2. QED
      BY <2>1, LinksKept
  <1>3. Remains'
    <2>1. Ever' = Ever
      BY DEF Ever
    <2>2. QED
      BY <2>1 DEF ChainInv, Remains, Ever
  <1>4. QED
    BY <1>1, <1>2, <1>3 DEF ChainInv

LEMMA ObserverInv ==
    ASSUME ChainInv, Tick \/ VerifyState \/ VerifyRows \/ VerifyReports \/ UNCHANGED auditVars
    PROVE  ChainInv'
  <1>1. /\ clock \in 0..MaxClock /\ MaxClock \in Nat /\ chain \in Chain
        /\ entry \in [Entries -> Entry]
        /\ verifier \in [pc : {"idle", "rows", "done"}, chain : Chain, valid : BOOLEAN]
    BY DEF ChainInv, AuditTypeOK
  <1>2. UNCHANGED <<entry, chain, damage>>
    BY DEF Tick, VerifyState, VerifyRows, VerifyReports, auditVars
  <1>3. clock' \in 0..MaxClock
    <2>1. CASE Tick
      <3>1. clock < MaxClock /\ clock' = clock + 1
        BY <2>1 DEF Tick
      <3>2. QED
        BY <1>1, <3>1
    <2>2. CASE VerifyState \/ VerifyRows \/ VerifyReports \/ UNCHANGED auditVars
      BY <1>1, <2>2 DEF VerifyState, VerifyRows, VerifyReports, auditVars
    <2>3. QED
      BY <2>1, <2>2
  <1>4. verifier' \in [pc : {"idle", "rows", "done"}, chain : Chain, valid : BOOLEAN]
    <2>1. CASE Tick
      BY <1>1, <2>1 DEF Tick
    <2>2. CASE VerifyState
      BY <1>1, <2>2 DEF VerifyState
    <2>3. CASE VerifyRows
      <3>1. Valid(verifier.chain) \in BOOLEAN
        BY DEF Valid, RowsContinue, TailMatches
      <3>2. QED
        BY <1>1, <2>3, <3>1 DEF VerifyRows
    <2>4. CASE VerifyReports
      BY <2>4, 0 \in 0..EntryCount DEF VerifyReports, IdleVerifier, EmptyChain, Chain, Hash
    <2>5. CASE UNCHANGED auditVars
      BY <1>1, <2>5 DEF auditVars
    <2>6. QED
      BY <2>1, <2>2, <2>3, <2>4, <2>5
  <1>5. QED
    BY <1>1, <1>2, <1>3, <1>4, UnsealedChangeInv

LEMMA WriterInv ==
    ASSUME ChainInv, NEW e \in Entries, Stamp(e) \/ Store(e)
    PROVE  ChainInv'
  <1>1. /\ clock \in 0..MaxClock /\ entry \in [Entries -> Entry]
        /\ verifier \in [pc : {"idle", "rows", "done"}, chain : Chain, valid : BOOLEAN]
    BY DEF ChainInv, AuditTypeOK
  <1>2. entry[e].seq = 0
    BY DEF ChainInv, Remains, Stamp, Store
  <1>3. UNCHANGED <<clock, chain, verifier, damage>>
    BY DEF Stamp, Store
  <1>4. /\ entry' \in [Entries -> Entry]
        /\ \A f \in Entries :
              \/ entry'[f] = entry[f]
              \/ /\ entry[f].seq = 0 /\ entry'[f].seq = 0
                 /\ entry'[f].original = entry[f].original
                 /\ entry'[f].previous = entry[f].previous
                 /\ entry'[f].hash = entry[f].hash
    <2>1. CASE Stamp(e)
      <3>1. /\ entry' = [entry EXCEPT ![e] = [entry[e] EXCEPT !.status = "stamped",
                                                             !.created = clock]]
            /\ entry[e] \in Entry
        BY <1>1, <2>1 DEF Stamp
      <3>2. [entry[e] EXCEPT !.status = "stamped", !.created = clock] \in Entry
        BY <1>1, <3>1 DEF Entry
      <3>3. entry' \in [Entries -> Entry]
        BY <1>1, <3>1, <3>2
      <3>4. /\ \A f \in Entries \ {e} : entry'[f] = entry[f]
            /\ entry'[e].seq = entry[e].seq /\ entry'[e].original = entry[e].original
            /\ entry'[e].previous = entry[e].previous /\ entry'[e].hash = entry[e].hash
        BY <1>1, <3>1 DEF Entry
      <3>5. QED
        BY <1>2, <3>3, <3>4
    <2>2. CASE Store(e)
      BY <1>1, <1>2, <2>2 DEF Store, Entry
    <2>3. QED
      BY <2>1, <2>2
  <1>5. QED
    BY <1>1, <1>3, <1>4, UnsealedChangeInv

LEMMA DamageRowInv ==
    ASSUME ChainInv, NEW e \in Entries, DamageRow(e)
    PROVE  ChainInv'
  <1>1. /\ e \in Sealed /\ damage < MaxDamage /\ damage' = damage + 1
        /\ UNCHANGED <<clock, chain, verifier>>
    BY DEF DamageRow
  <1>2. AuditTypeOK /\ damage \in 0..MaxDamage /\ MaxDamage \in Nat
        /\ entry \in [Entries -> Entry]
    BY DEF ChainInv, AuditTypeOK
  <1>3. damage' \in 0..MaxDamage /\ damage' # 0
    BY <1>1, <1>2
  <1>4. /\ entry' \in [Entries -> Entry]
        /\ \A f \in Entries :
              /\ entry'[f].seq = entry[f].seq
              /\ entry'[f].previous = entry[f].previous
              /\ entry'[f].hash = entry[f].hash
              /\ f # e => entry'[f] = entry[f]
        /\ ~entry'[e].original /\ entry'[e].status \in {"stored", "removed"}
        /\ entry[e].status = "removed" => entry'[e].status = "removed"
    <2>1. CASE entry' = [entry EXCEPT ![e].original = FALSE]
      BY <1>1, <1>2, <2>1 DEF Entry, Sealed
    <2>2. CASE entry' = [entry EXCEPT ![e].original = FALSE, ![e].status = "removed"]
      BY <1>2, <2>2 DEF Entry
    <2>3. QED
      BY <2>1, <2>2 DEF DamageRow
  <1>5. AuditTypeOK'
    BY <1>1, <1>2, <1>3, <1>4 DEF AuditTypeOK
  <1>6. Positions' /\ Links'
    <2>1. /\ chain'.first <= chain.sequence + 1
          /\ EndsAt(entry, chain'.first - 1, chain'.firstPrevious)
      BY <1>1 DEF ChainInv, Positions, Links
    <2>2. QED
      BY <1>1, <1>4, <2>1, LinksKept
  <1>7. Remains'
    <2>1. Ever' = Ever
      BY <1>4 DEF Ever
    <2>2. entry[e].seq # 0 /\ entry[e].status = "stored"
      BY <1>1 DEF Sealed
    <2>3. e \in Ever
      BY <2>2 DEF Ever
    <2>4. ASSUME NEW f \in Entries
          PROVE  IF entry'[f].seq = 0 THEN entry'[f].original
                 ELSE entry'[f].status \in {"stored", "removed"}
      BY <1>4, <2>2 DEF ChainInv, Remains
    <2>5. ASSUME NEW f \in Ever
          PROVE  /\ entry'[f].seq < chain.first => entry'[f].status = "removed"
                 /\ entry'[f].seq >= chain.first /\ entry'[f].original
                       => entry'[f].status = "stored"
      <3>1. f \in Entries
        BY DEF Ever
      <3>2. CASE f = e
        <4>1. ~(entry[e].seq < chain.first)
          BY <2>2, <2>3 DEF ChainInv, Remains
        <4>2. QED
          BY <1>4, <3>2, <4>1
      <3>3. CASE f # e
        BY <1>4, <3>1, <3>3 DEF ChainInv, Remains
      <3>4. QED
        BY <3>2, <3>3
    <2>6. QED
      BY <1>1, <1>3, <2>1, <2>4, <2>5 DEF Remains
  <1>8. QED
    BY <1>5, <1>6, <1>7 DEF ChainInv

LEMMA PruneInv ==
    ASSUME ChainInv, NEW before \in 0..MaxClock, Prune(before)
    PROVE  ChainInv'
  <1>1. PICK last \in Sealed :
           /\ entry' = [e \in Entries |->
                          IF e \in Sealed /\ entry[e].seq <= entry[last].seq
                          THEN [entry[e] EXCEPT !.status = "removed"]
                          ELSE entry[e]]
           /\ chain' = [chain EXCEPT !.exists = TRUE,
                                     !.first = entry[last].seq + 1,
                                     !.firstPrevious = entry[last].hash]
           /\ UNCHANGED <<clock, verifier, damage>>
    BY DEF Prune
  <1>2. /\ last \in Entries /\ entry[last].seq # 0 /\ entry[last].status = "stored"
        /\ entry[last].seq \in Nat /\ entry[last].hash \in Hash
    BY <1>1, Typed DEF Sealed, ChainInv
  <1>3. /\ entry \in [Entries -> Entry] /\ chain \in Chain
        /\ chain.sequence \in Nat /\ chain.first \in Nat \ {0}
    BY <1>2, Typed DEF ChainInv, AuditTypeOK
  <1>4. /\ chain' \in Chain /\ chain'.sequence = chain.sequence
        /\ chain'.latest = chain.latest /\ chain'.exists
        /\ chain'.first = entry[last].seq + 1 /\ chain'.firstPrevious = entry[last].hash
    <2>1. entry[last].seq + 1 \in Nat \ {0}
      BY <1>2
    <2>2. QED
      BY <1>1, <1>2, <1>3, <2>1 DEF Chain
  <1>5. /\ entry' \in [Entries -> Entry]
        /\ \A e \in Entries :
              /\ entry'[e].seq = entry[e].seq
              /\ entry'[e].previous = entry[e].previous
              /\ entry'[e].hash = entry[e].hash
              /\ entry'[e].original = entry[e].original
              /\ entry'[e].status = IF e \in Sealed /\ entry[e].seq <= entry[last].seq
                                    THEN "removed" ELSE entry[e].status
    BY <1>1, <1>3 DEF Entry
  <1>6. AuditTypeOK'
    BY <1>1, <1>4, <1>5 DEF ChainInv, AuditTypeOK
  <1>7. Positions' /\ Links'
    <2>1. chain'.first <= chain.sequence + 1
      BY <1>2, <1>3, <1>4 DEF ChainInv, Positions
    <2>2. EndsAt(entry, chain'.first - 1, chain'.firstPrevious)
      BY <1>2, <1>4 DEF EndsAt
    <2>3. QED
      BY <1>4, <1>5, <2>1, <2>2, LinksKept
  <1>8. Remains'
    <2>1. Ever' = Ever
      BY <1>5 DEF Ever
    <2>2. chain.first <= entry[last].seq
      BY <1>2, <1>3 DEF ChainInv, Remains, Ever
    <2>3. ASSUME NEW e \in Ever
          PROVE  /\ entry'[e].seq < chain'.first => entry'[e].status = "removed"
                 /\ entry'[e].seq >= chain'.first /\ entry'[e].original
                       => entry'[e].status = "stored"
      <3>1. /\ e \in Entries /\ entry[e].seq \in Nat /\ entry[e].seq # 0
            /\ entry[e].status \in {"stored", "removed"}
        BY Typed DEF Ever, ChainInv, Remains
      <3>2. entry[e].seq < entry[last].seq + 1 <=> entry[e].seq <= entry[last].seq
        BY <1>2, <3>1
      <3>3. entry[e].seq >= entry[last].seq + 1 => entry[e].seq >= chain.first
        BY <1>2, <1>3, <2>2, <3>1
      <3>4. entry[e].seq >= chain.first /\ entry[e].original => entry[e].status = "stored"
        BY DEF ChainInv, Remains
      <3>5. e \in Sealed <=> entry[e].status = "stored"
        BY <3>1 DEF Sealed
      <3>6. entry[e].seq >= entry[last].seq + 1 => ~(entry[e].seq <= entry[last].seq)
        BY <1>2, <3>1
      <3>7. QED
        BY <1>4, <1>5, <3>1, <3>2, <3>3, <3>4, <3>5, <3>6
    <2>4. QED
      BY <1>1, <1>5, <2>1, <2>3 DEF ChainInv, Remains
  <1>9. QED
    BY <1>6, <1>7, <1>8 DEF ChainInv

-----------------------------------------------------------------------------
(* What the verification sees.                                             *)

\* A position has one hash.
LEMMA EndsOnce ==
    ASSUME ChainInv, NEW k, NEW g, NEW h, EndsAt(entry, k, g), EndsAt(entry, k, h)
    PROVE  g = h
  BY DEF ChainInv, Positions, Ever, EndsAt

LEMMA SealedRows ==
    ASSUME ChainInv
    PROVE  /\ Sealed \subseteq Ever /\ Ever \subseteq Entries
           /\ chain.sequence \in Nat /\ chain.first \in Nat \ {0}
           /\ \A e \in Ever : entry[e].seq \in 1..chain.sequence
           /\ \A e \in Sealed : entry[e].seq \in chain.first..chain.sequence
           /\ \A e \in Ever : entry[e].seq >= chain.first /\ entry[e].original => e \in Sealed
           /\ \A e \in Ever : entry[e].hash = Append(entry[e].previous, <<e, TRUE>>)
  <1>1. AuditTypeOK /\ Sealed \subseteq Ever /\ Ever \subseteq Entries
    BY DEF ChainInv, Sealed, Ever
  <1>2. chain.sequence \in Nat /\ chain.first \in Nat \ {0}
    BY <1>1 DEF AuditTypeOK, Chain
  <1>3. ASSUME NEW e \in Ever PROVE entry[e].seq \in 1..chain.sequence
    <2>1. entry[e].seq \in Nat /\ entry[e].seq # 0
      BY <1>1, Typed DEF Ever
    <2>2. entry[e].seq <= chain.sequence
      BY <1>1 DEF ChainInv, Positions
    <2>3. QED
      BY <1>2, <2>1, <2>2
  <1>4. ASSUME NEW e \in Sealed PROVE entry[e].seq >= chain.first
    <2>1. e \in Ever /\ entry[e].status = "stored"
      BY <1>1 DEF Sealed
    <2>2. ~(entry[e].seq < chain.first)
      BY <2>1 DEF ChainInv, Remains
    <2>3. QED
      BY <1>2, <1>3, <2>1, <2>2
  <1>5. ASSUME NEW e \in Ever, entry[e].seq >= chain.first, entry[e].original
        PROVE  e \in Sealed
    BY <1>5 DEF ChainInv, Remains, Sealed, Ever
  <1>6. \A e \in Ever : entry[e].hash = Append(entry[e].previous, <<e, TRUE>>)
    BY DEF ChainInv, Links
  <1>7. \A e \in Sealed : entry[e].seq \in chain.first..chain.sequence
    BY <1>1, <1>2, <1>3, <1>4
  <1>8. QED
    BY <1>1, <1>2, <1>3, <1>5, <1>6, <1>7

\* As long as nothing is damaged, the rows are those of the positions that
\* pruning has not reached.
LEMMA SealedCount ==
    ASSUME ChainInv, damage = 0
    PROVE  /\ {entry[e].seq : e \in Sealed} = chain.first..chain.sequence
           /\ Cardinality(Sealed) = chain.sequence + 1 - chain.first
           /\ \A k \in chain.first..chain.sequence : \A h : EndsAt(entry, k, h) =>
                 \E e \in Sealed : entry[e].seq = k /\ entry[e].hash = h
  <1> DEFINE f == [e \in Sealed |-> entry[e].seq]
             T == chain.first..chain.sequence
  <1>1. chain.sequence \in Nat /\ chain.first \in Nat \ {0} /\ Sealed \subseteq Ever
    BY SealedRows
  <1>2. ASSUME NEW e \in Entries, entry[e].seq \in T PROVE e \in Sealed
    <2>1. entry[e].original
      BY DEF ChainInv, Remains
    <2>2. entry[e].seq # 0 /\ entry[e].seq >= chain.first
      BY <1>1, <1>2
    <2>3. QED
      BY <2>1, <2>2, SealedRows DEF Ever
  <1>3. ASSUME NEW k \in T PROVE \E e \in Sealed : entry[e].seq = k
    <2>1. k \in 1..chain.sequence
      BY <1>1
    <2>2. QED
      BY <1>2, <2>1 DEF ChainInv, Positions
  <1>4. f \in [Sealed -> T]
    BY SealedRows
  <1>5. \A d, e \in Sealed : f[d] = f[e] => d = e
    BY <1>1 DEF ChainInv, Positions
  <1>6. f \in Injection(Sealed, T) /\ f \in Surjection(Sealed, T)
    BY <1>3, <1>4, <1>5 DEF Injection, Surjection, IsInjective
  <1>7. IsFiniteSet(T) /\ Cardinality(T) = chain.sequence + 1 - chain.first
    <2>1. chain.first <= chain.sequence + 1
      BY DEF ChainInv, Positions
    <2>2. /\ IsFiniteSet(T)
          /\ Cardinality(T) = IF chain.first > chain.sequence THEN 0
                              ELSE chain.sequence - chain.first + 1
      <3>1. chain.first \in Int /\ chain.sequence \in Int
        BY <1>1
      <3>2. QED
        BY ONLY <3>1, FS_Interval
    <2>3. QED
      BY <1>1, <2>1, <2>2
  <1>8. Cardinality(Sealed) = Cardinality(T)
    BY <1>6, <1>7, FS_Injection
  <1>9. {entry[e].seq : e \in Sealed} = T
    BY <1>3, SealedRows
  <1>10. ASSUME NEW k \in T, NEW h, EndsAt(entry, k, h)
         PROVE  \E e \in Sealed : entry[e].seq = k /\ entry[e].hash = h
    <2>1. k # 0
      BY <1>1
    <2>2. QED
      BY <1>2, <1>10, <2>1 DEF EndsAt
  <1>11. QED
    BY <1>7, <1>8, <1>9, <1>10

LEMMA IntactVerifies == ASSUME ChainInv PROVE ChainIntact
  <1> SUFFICES ASSUME damage = 0 PROVE Valid(chain)
    BY DEF ChainIntact
  <1> DEFINE n == Cardinality(Sealed)
  <1>1. /\ {entry[e].seq : e \in Sealed} = chain.first..chain.sequence
        /\ n = chain.sequence + 1 - chain.first
        /\ \A k \in chain.first..chain.sequence : \A h : EndsAt(entry, k, h) =>
              \E e \in Sealed : entry[e].seq = k /\ entry[e].hash = h
    BY SealedCount
  <1>2. /\ chain.sequence \in Nat /\ chain.first \in Nat \ {0}
        /\ Sealed \subseteq Ever /\ Ever \subseteq Entries
    BY SealedRows
  <1> HIDE DEF n
  <1>3. chain.first + n - 1 = chain.sequence /\ chain.sequence = chain.first + n - 1
    BY <1>1, <1>2
  <1>4. /\ \A e \in Ever : EndsAt(entry, entry[e].seq - 1, entry[e].previous)
        /\ EndsAt(entry, chain.sequence, chain.latest)
        /\ EndsAt(entry, chain.first - 1, chain.firstPrevious)
    BY DEF ChainInv, Links
  <1>5. ASSUME NEW e \in Sealed
        PROVE  /\ entry[e].hash = EntryHash(entry[e].previous, e)
               /\ IF entry[e].seq = chain.first
                  THEN entry[e].previous = chain.firstPrevious
                  ELSE \E f \in Sealed : entry[f].seq = entry[e].seq - 1
                                         /\ entry[e].previous = entry[f].hash
    <2>1. e \in Ever /\ e \in Entries /\ entry[e].seq \in chain.first..chain.sequence
      BY <1>2, SealedRows
    <2>2. entry[e].hash = EntryHash(entry[e].previous, e)
      <3>1. entry[e].original = TRUE
        BY <2>1, Typed DEF ChainInv, Remains
      <3>2. QED
        BY <2>1, <3>1, SealedRows DEF EntryHash, Content
    <2>3. EndsAt(entry, entry[e].seq - 1, entry[e].previous)
      BY <1>4, <2>1
    <2>4. ASSUME entry[e].seq = chain.first PROVE entry[e].previous = chain.firstPrevious
      BY <1>4, <2>3, <2>4, EndsOnce
    <2>5. ASSUME entry[e].seq # chain.first
          PROVE  \E f \in Sealed : entry[f].seq = entry[e].seq - 1
                                   /\ entry[e].previous = entry[f].hash
      <3>1. entry[e].seq - 1 \in chain.first..chain.sequence
        BY <1>2, <2>1, <2>5
      <3>2. QED
        BY <1>1, <2>3, <3>1
    <2>6. QED
      BY <2>2, <2>4, <2>5
  <1>6. RowsContinue(chain)
    BY <1>1, <1>3, <1>5 DEF RowsContinue, n
  <1>7. TailMatches(chain)
    <2>1. CASE Sealed = {}
      <3>1. n = 0
        BY <2>1, FS_EmptySet DEF n
      <3>2. chain.sequence = chain.first - 1
        BY <1>2, <1>3, <3>1
      <3>3. chain.latest = chain.firstPrevious
        BY <1>4, <3>2, EndsOnce
      <3>4. QED
        BY <1>3, <2>1, <3>3 DEF TailMatches, n
    <2>2. CASE Sealed # {}
      <3>1. chain.sequence \in chain.first..chain.sequence
        <4>1. PICK e \in Sealed : TRUE
          BY <2>2
        <4>2. entry[e].seq \in chain.first..chain.sequence
          BY SealedRows
        <4>3. QED
          BY <1>2, <4>2
      <3>2. \E e \in Sealed : entry[e].seq = chain.sequence /\ entry[e].hash = chain.latest
        BY <1>1, <1>4, <3>1
      <3>3. QED
        BY <1>3, <2>2, <3>2 DEF TailMatches, n
    <2>3. QED
      BY <2>1, <2>2
  <1>8. QED
    BY <1>6, <1>7 DEF Valid

LEMMA DamageIsSeen == ASSUME ChainInv PROVE DamageShows
  <1> SUFFICES ASSUME NEW e \in Entries, ~entry[e].original, entry[e].seq >= chain.first,
                      Valid(chain)
               PROVE  FALSE
    BY DEF DamageShows
  <1>1. AuditTypeOK /\ chain.first \in Nat \ {0} /\ chain.sequence \in Nat
    BY SealedRows DEF ChainInv
  <1>2. entry[e].seq \in Nat /\ entry[e].seq # 0 /\ e \in Ever
    BY <1>1, Typed DEF Ever
  <1>3. entry[e].seq <= chain.sequence /\ chain.exists
    <2>1. entry[e].seq <= chain.sequence
      BY DEF ChainInv, Positions
    <2>2. chain.sequence # 0
      BY <1>1, <1>2, <2>1
    <2>3. QED
      BY <2>1, <2>2 DEF ChainInv, Positions
  <1>4. CASE e \in Sealed
    <2>1. entry[e].hash = Append(entry[e].previous, <<e, TRUE>>)
      BY <1>2, SealedRows
    <2>2. entry[e].hash = Append(entry[e].previous, <<e, FALSE>>)
      <3>1. entry[e].original = FALSE
        BY <1>1, Typed
      <3>2. QED
        BY <1>4, <3>1 DEF Valid, RowsContinue, EntryHash, Content
    <2>3. entry[e].previous \in Seq(Entries \X BOOLEAN)
      BY <1>1, Typed DEF Hash
    <2>4. <<e, TRUE>> \in Entries \X BOOLEAN /\ <<e, FALSE>> \in Entries \X BOOLEAN
      OBVIOUS
    <2>5. <<e, TRUE>> = <<e, FALSE>>
      <3>1. \A S : \A s \in Seq(S) : \A x, y \in S : Append(s, x) = Append(s, y) => x = y
        BY ONLY AppendInjective
      <3>2. QED
        BY ONLY <2>1, <2>2, <2>3, <2>4, <3>1
    <2>6. QED
      BY <2>5
  <1>5. CASE e \notin Sealed
    <2>1. chain.sequence = chain.first + Cardinality(Sealed) - 1
      BY <1>3 DEF Valid, TailMatches
    <2>2. {entry[f].seq : f \in Sealed} = chain.first..(chain.first + Cardinality(Sealed) - 1)
      BY DEF Valid, RowsContinue
    <2>3. entry[e].seq \in chain.first..chain.sequence
      BY <1>1, <1>2, <1>3
    <2>4. PICK f \in Sealed : entry[f].seq = entry[e].seq
      BY <2>1, <2>2, <2>3
    <2>5. f \in Ever
      BY SealedRows
    <2>6. f = e
      BY <1>2, <2>4, <2>5 DEF ChainInv, Positions
    <2>7. QED
      BY <1>5, <2>6
  <1>6. QED
    BY <1>4, <1>5

-----------------------------------------------------------------------------
(* The order in which a batch is sealed.                                   *)

LEMMA EarlierIsAnOrder ==
    ASSUME AuditTypeOK, NEW d \in Entries, NEW e \in Entries, NEW f \in Entries
    PROVE  /\ Earlier(e, e)
           /\ Earlier(e, f) \/ Earlier(f, e)
           /\ Earlier(e, f) /\ Earlier(f, e) => e = f
           /\ Earlier(d, e) /\ Earlier(e, f) => Earlier(d, f)
  <1>1. entry[d].created \in Nat /\ entry[e].created \in Nat /\ entry[f].created \in Nat
    BY DEF AuditTypeOK, Entry
  <1>2. d \in Nat /\ e \in Nat /\ f \in Nat
    BY DEF Entries
  <1>3. QED
    BY <1>1, <1>2 DEF Earlier

LEMMA RankFollowsOrder ==
    ASSUME AuditTypeOK
    PROVE  /\ IsFiniteSet(Unsealed)
           /\ \A e \in Unsealed : Rank(e) \in Nat /\ Rank(e) >= 1
           /\ \A e, f \in Unsealed : Earlier(e, f) /\ e # f => Rank(e) < Rank(f)
           /\ \A e, f \in Unsealed : Rank(e) = Rank(f) => e = f
  <1> DEFINE before(e) == {f \in Unsealed : Earlier(f, e)}
  <1>1. Unsealed \subseteq Entries /\ IsFiniteSet(Unsealed)
    BY EntriesFinite, FS_Subset DEF Unsealed
  <1>2. ASSUME NEW e \in Unsealed
        PROVE  IsFiniteSet(before(e)) /\ Cardinality(before(e)) \in Nat /\ e \in before(e)
    <2>1. before(e) \in SUBSET Unsealed
      OBVIOUS
    <2>2. IsFiniteSet(before(e))
      BY <1>1, <2>1, FS_Subset
    <2>3. QED
      BY <1>1, <2>2, FS_CardinalityType, EarlierIsAnOrder
  <1>3. ASSUME NEW e \in Unsealed PROVE Rank(e) \in Nat /\ Rank(e) >= 1
    <2>1. Cardinality(before(e)) # 0
      BY <1>2, FS_EmptySet
    <2>2. Rank(e) = Cardinality(before(e))
      BY DEF Rank
    <2>3. Cardinality(before(e)) \in Nat
      BY <1>2
    <2>4. QED
      BY ONLY <2>1, <2>2, <2>3
  <1>4. ASSUME NEW e \in Unsealed, NEW f \in Unsealed, Earlier(e, f), e # f
        PROVE  Rank(e) < Rank(f)
    <2>1. before(e) \in SUBSET before(f)
      BY <1>1, <1>4, EarlierIsAnOrder
    <2>2. f \in before(f) /\ f \notin before(e)
      BY <1>1, <1>2, <1>4, EarlierIsAnOrder
    <2>3. /\ Cardinality(before(e)) <= Cardinality(before(f))
          /\ Cardinality(before(f)) = Cardinality(before(e)) => before(f) = before(e)
      BY <1>2, <2>1, FS_Subset
    <2>4. Cardinality(before(e)) # Cardinality(before(f))
      BY <2>2, <2>3
    <2>5. Cardinality(before(e)) < Cardinality(before(f))
      BY <1>2, <2>3, <2>4
    <2>6. QED
      BY <2>5 DEF Rank
  <1>5. ASSUME NEW e \in Unsealed, NEW f \in Unsealed, Rank(e) = Rank(f)
        PROVE  e = f
    <2>1. Earlier(e, f) \/ Earlier(f, e)
      BY <1>1, EarlierIsAnOrder
    <2>2. Rank(e) \in Nat /\ Rank(f) \in Nat
      BY <1>3
    <2>3. QED
      BY <1>4, <1>5, <2>1, <2>2
  <1>6. QED
    BY <1>1, <1>3, <1>4, <1>5

\* The oldest rows take the positions 1 to their number.
LEMMA BatchRanks ==
    ASSUME AuditTypeOK, NEW batch, batch = {e \in Unsealed : Rank(e) <= BatchLimit}
    PROVE  /\ IsFiniteSet(batch) /\ Cardinality(batch) \in Nat
           /\ \A e \in batch : Rank(e) \in 1..Cardinality(batch)
           /\ \A e, f \in batch : Rank(e) = Rank(f) => e = f
           /\ \A i \in 1..Cardinality(batch) : \E e \in batch : Rank(e) = i
  <1> DEFINE n == Cardinality(batch)
             T == 1..n
             f == [e \in batch |-> Rank(e)]
  <1>1. /\ IsFiniteSet(Unsealed)
        /\ \A e \in Unsealed : Rank(e) \in Nat /\ Rank(e) >= 1
        /\ \A d, e \in Unsealed : Earlier(d, e) /\ d # e => Rank(d) < Rank(e)
        /\ \A d, e \in Unsealed : Rank(d) = Rank(e) => d = e
    BY RankFollowsOrder
  <1>2. batch \in SUBSET Unsealed
    OBVIOUS
  <1>3. IsFiniteSet(batch) /\ n \in Nat
    BY <1>1, <1>2, FS_Subset, FS_CardinalityType
  <1>4. ASSUME NEW e \in batch PROVE Rank(e) \in T
    <2> DEFINE before == {d \in Unsealed : Earlier(d, e)}
    <2>1. before \in SUBSET batch
      <3>1. SUFFICES ASSUME NEW d \in Unsealed, Earlier(d, e) PROVE d \in batch
        OBVIOUS
      <3>2. Rank(d) <= Rank(e)
        BY <1>1, <1>2, <3>1
      <3>3. Rank(e) <= BatchLimit /\ Rank(e) \in Nat /\ Rank(d) \in Nat /\ BatchLimit \in Nat
        BY <1>1, <1>2
      <3>4. QED
        BY <3>2, <3>3
    <2>2. Cardinality(before) <= n
      BY <1>3, <2>1, FS_Subset
    <2>3. Rank(e) = Cardinality(before)
      BY DEF Rank
    <2>4. Rank(e) \in Nat /\ Rank(e) >= 1
      BY <1>1, <1>2
    <2>5. QED
      BY <1>3, <2>2, <2>3, <2>4
  <1>5. f \in [batch -> T] /\ \A d, e \in batch : f[d] = f[e] => d = e
    BY <1>1, <1>2, <1>4
  <1>6. f \in Injection(batch, T)
    BY <1>5 DEF Injection, IsInjective
  <1>7. IsFiniteSet(T) /\ Cardinality(T) = n
    <2>1. 1 \in Int /\ n \in Int
      BY <1>3
    <2>2. IsFiniteSet(1..n) /\ Cardinality(1..n) = IF 1 > n THEN 0 ELSE n - 1 + 1
      BY ONLY <2>1, FS_Interval
    <2>3. QED
      BY <1>3, <2>2
  <1>8. f \in Surjection(batch, T)
    BY <1>6, <1>7, FS_Injection
  <1>9. \A i \in T : \E e \in batch : Rank(e) = i
    BY <1>8 DEF Surjection
  <1>10. QED
    BY <1>1, <1>2, <1>3, <1>4, <1>9

LEMMA ConcatAppend ==
    ASSUME NEW S, NEW h \in Seq(S), NEW t \in Seq(S), NEW x \in S
    PROVE  h \o Append(t, x) = Append(h \o t, x)
  <1>1. <<x>> \in Seq(S) /\ h \o t \in Seq(S)
    BY ConcatProperties
  <1>2. Append(t, x) = t \o <<x>> /\ Append(h \o t, x) = (h \o t) \o <<x>>
    BY <1>1, AppendIsConcat
  <1>3. (h \o t) \o <<x>> = h \o (t \o <<x>>)
    BY <1>1, ConcatAssociative
  <1>4. QED
    BY <1>2, <1>3

\* What a batch adds to the hash, one entry after the other.
LEMMA LinksGrow ==
    ASSUME NEW S, NEW h \in Seq(S), NEW n \in Nat, NEW g \in [1..n -> S]
    PROVE  /\ h \o [k \in 1..0 |-> g[k]] = h
           /\ \A i \in 0..n : h \o [k \in 1..i |-> g[k]] \in Seq(S)
           /\ \A i \in 1..n : h \o [k \in 1..i |-> g[k]]
                                 = Append(h \o [k \in 1..(i - 1) |-> g[k]], g[i])
  <1> DEFINE t(i) == [k \in 1..i |-> g[k]]
  <1>1. ASSUME NEW i \in 0..n PROVE t(i) \in Seq(S) /\ Len(t(i)) = i
    <2>1. i \in Nat /\ 1..i \subseteq 1..n
      OBVIOUS
    <2>2. t(i) \in [1..i -> S]
      BY <2>1
    <2>3. QED
      BY <2>1, <2>2
  <1>2. t(0) = << >>
    BY <1>1, EmptySeq
  <1>3. h \o t(0) = h
    BY <1>2, ConcatEmptySeq
  <1>4. \A i \in 0..n : h \o t(i) \in Seq(S)
    BY <1>1, ConcatProperties
  <1>5. ASSUME NEW i \in 1..n PROVE h \o t(i) = Append(h \o t(i - 1), g[i])
    <2>1. i - 1 \in 0..n /\ i \in 0..n /\ i \in Nat /\ g[i] \in S
      OBVIOUS
    <2>2. t(i - 1) \in Seq(S) /\ t(i) \in Seq(S) /\ Len(t(i - 1)) = i - 1 /\ Len(t(i)) = i
      BY <1>1, <2>1
    <2>3. t(i) = Append(t(i - 1), g[i])
      <3>1. /\ Append(t(i - 1), g[i]) \in Seq(S)
            /\ Len(Append(t(i - 1), g[i])) = i - 1 + 1
            /\ \A k \in 1..(i - 1) : Append(t(i - 1), g[i])[k] = t(i - 1)[k]
            /\ Append(t(i - 1), g[i])[i - 1 + 1] = g[i]
        BY <2>1, <2>2, AppendProperties
      <3>2. \A k \in 1..i : k \in 1..(i - 1) \/ k = i
        BY <2>1
      <3>3. \A k \in 1..i : Append(t(i - 1), g[i])[k] = t(i)[k]
        BY <2>1, <3>1, <3>2
      <3>4. Len(Append(t(i - 1), g[i])) = i
        BY <2>1, <3>1
      <3> HIDE DEF t
      <3>5. QED
        BY <2>2, <3>1, <3>3, <3>4, SeqEqual
    <2> HIDE DEF t
    <2>4. h \o Append(t(i - 1), g[i]) = Append(h \o t(i - 1), g[i])
      <3>1. \A u \in Seq(S) : h \o Append(u, g[i]) = Append(h \o u, g[i])
        BY <2>1, ConcatAppend
      <3>2. QED
        BY <2>2, <3>1
    <2>5. QED
      BY <2>3, <2>4
  <1>6. QED
    BY <1>3, <1>4, <1>5

-----------------------------------------------------------------------------
(* Sealing.                                                                *)

\* The batch, with the hashes that Seal computes.
LEMMA SealedBatch ==
    ASSUME ChainInv, Seal
    PROVE  \E batch \in SUBSET Unsealed : \E link :
             LET n == Cardinality(batch)
             IN  /\ IsFiniteSet(batch) /\ n \in Nat /\ n # 0
                 /\ \A e \in batch : Rank(e) \in 1..n
                 /\ \A e, f \in batch : Rank(e) = Rank(f) => e = f
                 /\ \A i \in 1..n : \E e \in batch : Rank(e) = i
                 /\ link[0] = chain.latest
                 /\ \A i \in 0..n : link[i] \in Hash
                 /\ \A e \in batch :
                       link[Rank(e)] = Append(link[Rank(e) - 1], <<e, TRUE>>)
                 /\ entry' = [e \in Entries |->
                       IF e \in batch
                       THEN [entry[e] EXCEPT !.seq = chain.sequence + Rank(e),
                                             !.previous = link[Rank(e) - 1],
                                             !.hash = link[Rank(e)]]
                       ELSE entry[e]]
                 /\ chain' = [chain EXCEPT !.exists = TRUE, !.latest = link[n],
                                           !.sequence = @ + n]
  <1> DEFINE batch == {e \in Unsealed : Rank(e) <= BatchLimit}
             n == Cardinality(batch)
             order == [i \in 1..n |-> CHOOSE e \in batch : Rank(e) = i]
             g == [i \in 1..n |-> Content(order[i])]
             link == [i \in 0..n |-> chain.latest \o [k \in 1..i |-> Content(order[k])]]
  <1>1. /\ batch # {}
        /\ entry' = [e \in Entries |->
              IF e \in batch
              THEN [entry[e] EXCEPT !.seq = chain.sequence + Rank(e),
                                    !.previous = link[Rank(e) - 1],
                                    !.hash = EntryHash(link[Rank(e) - 1], e)]
              ELSE entry[e]]
        /\ chain' = [chain EXCEPT !.exists = TRUE, !.latest = link[n], !.sequence = @ + n]
    BY DEF Seal
  <1>2. AuditTypeOK /\ chain.latest \in Seq(Entries \X BOOLEAN)
    BY DEF ChainInv, AuditTypeOK, Chain, Hash
  <1>3. /\ IsFiniteSet(batch) /\ n \in Nat
        /\ \A e \in batch : Rank(e) \in 1..n
        /\ \A e, f \in batch : Rank(e) = Rank(f) => e = f
        /\ \A i \in 1..n : \E e \in batch : Rank(e) = i
    BY <1>2, BatchRanks
  <1>4. batch \in SUBSET Unsealed /\ batch \subseteq Entries
    BY DEF Unsealed
  <1>5. \A e \in batch : Content(e) = <<e, TRUE>>
    <2>1. ASSUME NEW e \in batch PROVE entry[e].original = TRUE
      <3>1. e \in Entries /\ entry[e].seq = 0
        BY <1>4 DEF Unsealed
      <3>2. entry[e].original
        BY <3>1 DEF ChainInv, Remains
      <3>3. QED
        BY <1>2, <3>1, <3>2, Typed
    <2>2. QED
      BY <2>1 DEF Content
  <1> HIDE DEF batch
  <1>6. n # 0
    BY <1>1, <1>3, FS_EmptySet
  <1> HIDE DEF n
  <1>7. \A i \in 1..n : order[i] \in batch /\ Rank(order[i]) = i
    BY <1>3
  <1>8. \A e \in batch : order[Rank(e)] = e
    BY <1>3, <1>7
  <1> HIDE DEF order
  <1>9. g \in [1..n -> Entries \X BOOLEAN]
    <2>1. \A i \in 1..n : Content(order[i]) \in Entries \X BOOLEAN
      BY <1>2, <1>4, <1>7, Typed
    <2>2. QED
      BY <2>1
  <1>10. ASSUME NEW i \in 0..n PROVE link[i] = chain.latest \o [k \in 1..i |-> g[k]]
    <2>1. 1..i \subseteq 1..n
      BY <1>3
    <2>2. [k \in 1..i |-> Content(order[k])] = [k \in 1..i |-> g[k]]
      BY <2>1
    <2>3. link[i] = chain.latest \o [k \in 1..i |-> Content(order[k])]
      OBVIOUS
    <2>4. QED
      BY ONLY <2>2, <2>3
  <1>11. \A i \in 1..n : g[i] = Content(order[i])
    OBVIOUS
  <1> HIDE DEF g, link
  <1>12. /\ chain.latest \o [k \in 1..0 |-> g[k]] = chain.latest
         /\ \A i \in 0..n : chain.latest \o [k \in 1..i |-> g[k]] \in Seq(Entries \X BOOLEAN)
         /\ \A i \in 1..n : chain.latest \o [k \in 1..i |-> g[k]]
                  = Append(chain.latest \o [k \in 1..(i - 1) |-> g[k]], g[i])
    <2>1. \A S : \A h \in Seq(S), m \in Nat : \A f \in [1..m -> S] :
             /\ h \o [k \in 1..0 |-> f[k]] = h
             /\ \A i \in 0..m : h \o [k \in 1..i |-> f[k]] \in Seq(S)
             /\ \A i \in 1..m : h \o [k \in 1..i |-> f[k]]
                                   = Append(h \o [k \in 1..(i - 1) |-> f[k]], f[i])
      BY ONLY LinksGrow
    <2>2. chain.latest \in Seq(Entries \X BOOLEAN) /\ n \in Nat
          /\ g \in [1..n -> Entries \X BOOLEAN]
      BY <1>2, <1>3, <1>9
    <2>3. QED
      BY ONLY <2>1, <2>2
  <1>13. link[0] = chain.latest /\ \A i \in 0..n : link[i] \in Hash
    <2>1. 0 \in 0..n
      BY <1>3
    <2>2. QED
      BY <1>10, <1>12, <2>1 DEF Hash
  <1>14. \A e \in batch : link[Rank(e)] = Append(link[Rank(e) - 1], <<e, TRUE>>)
    <2>1. ASSUME NEW e \in batch
          PROVE  link[Rank(e)] = Append(link[Rank(e) - 1], <<e, TRUE>>)
      <3>1. Rank(e) \in 1..n /\ Rank(e) \in 0..n /\ Rank(e) - 1 \in 0..n
        BY <1>3
      <3>2. g[Rank(e)] = <<e, TRUE>>
        BY <1>5, <1>8, <1>11, <3>1
      <3>3. QED
        BY <1>10, <1>12, <3>1, <3>2
    <2>2. QED
      BY <2>1
  <1>15. entry' = [e \in Entries |->
                      IF e \in batch
                      THEN [entry[e] EXCEPT !.seq = chain.sequence + Rank(e),
                                            !.previous = link[Rank(e) - 1],
                                            !.hash = link[Rank(e)]]
                      ELSE entry[e]]
    <2>1. \A e \in batch : EntryHash(link[Rank(e) - 1], e) = link[Rank(e)]
      BY <1>5, <1>14 DEF EntryHash
    <2>2. QED
      BY <1>1, <2>1
  <1>16. QED
    BY <1>1, <1>3, <1>4, <1>6, <1>13, <1>14, <1>15 DEF n

LEMMA SealInv ==
    ASSUME ChainInv, Seal
    PROVE  ChainInv'
  <1>1. PICK batch \in SUBSET Unsealed : \E link :
             LET n == Cardinality(batch)
             IN  /\ IsFiniteSet(batch) /\ n \in Nat /\ n # 0
                 /\ \A e \in batch : Rank(e) \in 1..n
                 /\ \A e, f \in batch : Rank(e) = Rank(f) => e = f
                 /\ \A i \in 1..n : \E e \in batch : Rank(e) = i
                 /\ link[0] = chain.latest
                 /\ \A i \in 0..n : link[i] \in Hash
                 /\ \A e \in batch :
                       link[Rank(e)] = Append(link[Rank(e) - 1], <<e, TRUE>>)
                 /\ entry' = [e \in Entries |->
                       IF e \in batch
                       THEN [entry[e] EXCEPT !.seq = chain.sequence + Rank(e),
                                             !.previous = link[Rank(e) - 1],
                                             !.hash = link[Rank(e)]]
                       ELSE entry[e]]
                 /\ chain' = [chain EXCEPT !.exists = TRUE, !.latest = link[n],
                                           !.sequence = @ + n]
    BY SealedBatch
  <1> DEFINE n == Cardinality(batch)
  <1>2. PICK link :
                 /\ IsFiniteSet(batch) /\ n \in Nat /\ n # 0
                 /\ \A e \in batch : Rank(e) \in 1..n
                 /\ \A e, f \in batch : Rank(e) = Rank(f) => e = f
                 /\ \A i \in 1..n : \E e \in batch : Rank(e) = i
                 /\ link[0] = chain.latest
                 /\ \A i \in 0..n : link[i] \in Hash
                 /\ \A e \in batch :
                       link[Rank(e)] = Append(link[Rank(e) - 1], <<e, TRUE>>)
                 /\ entry' = [e \in Entries |->
                       IF e \in batch
                       THEN [entry[e] EXCEPT !.seq = chain.sequence + Rank(e),
                                             !.previous = link[Rank(e) - 1],
                                             !.hash = link[Rank(e)]]
                       ELSE entry[e]]
                 /\ chain' = [chain EXCEPT !.exists = TRUE, !.latest = link[n],
                                           !.sequence = @ + n]
    BY <1>1
  <1> DEFINE rank(e) == Rank(e)
  <1>3. /\ n \in Nat /\ n # 0
        /\ \A e \in batch : rank(e) \in 1..n
        /\ \A e, f \in batch : rank(e) = rank(f) => e = f
        /\ \A i \in 1..n : \E e \in batch : rank(e) = i
        /\ link[0] = chain.latest
        /\ \A i \in 0..n : link[i] \in Hash
        /\ \A e \in batch : link[rank(e)] = Append(link[rank(e) - 1], <<e, TRUE>>)
        /\ entry' = [e \in Entries |->
                       IF e \in batch
                       THEN [entry[e] EXCEPT !.seq = chain.sequence + rank(e),
                                             !.previous = link[rank(e) - 1],
                                             !.hash = link[rank(e)]]
                       ELSE entry[e]]
    BY <1>2
  <1>4. /\ chain'.exists = TRUE /\ chain'.latest = link[n]
        /\ chain'.sequence = chain.sequence + n
        /\ chain'.first = chain.first /\ chain'.firstPrevious = chain.firstPrevious
        /\ chain \in Chain
    BY <1>2 DEF ChainInv, AuditTypeOK, Chain
  <1>5. IsFiniteSet(batch)
    BY <1>2
  <1>6. AuditTypeOK /\ Positions /\ Links /\ Remains /\ entry \in [Entries -> Entry]
        /\ chain.sequence \in Nat /\ chain.first \in Nat \ {0}
    BY DEF ChainInv, AuditTypeOK, Chain
  <1>7. \A e \in batch : /\ e \in Entries /\ entry[e] \in Entry
                         /\ entry[e].seq = 0 /\ entry[e].status = "stored"
                         /\ entry[e].original
    BY <1>6 DEF Unsealed, Remains
  <1>8. UNCHANGED <<clock, verifier, damage>>
    BY DEF Seal
  <1> HIDE DEF n, rank
  <1>a. /\ n \in Nat /\ n # 0 /\ chain.sequence \in Nat /\ chain.first \in Nat
        /\ \A e \in batch : rank(e) \in 1..n
    BY ONLY <1>3, <1>6
  <1>b. \A i \in 0..n : link[i] \in Hash
    BY ONLY <1>3
  <1>c. \A e \in batch : link[rank(e)] = Append(link[rank(e) - 1], <<e, TRUE>>)
    BY ONLY <1>3
  <1>9. /\ \A e \in Entries \ batch : entry'[e] = entry[e]
        /\ \A e \in batch : /\ entry'[e].seq = chain.sequence + rank(e)
                            /\ entry'[e].previous = link[rank(e) - 1]
                            /\ entry'[e].hash = link[rank(e)]
                            /\ entry'[e].status = "stored"
                            /\ entry'[e].created = entry[e].created
                            /\ entry'[e].original = entry[e].original
    BY <1>3, <1>7 DEF Entry
  <1>10. \A e \in batch : /\ rank(e) \in Nat /\ rank(e) >= 1 /\ rank(e) <= n
                          /\ rank(e) \in 0..n /\ rank(e) - 1 \in 0..n
                          /\ chain.sequence + rank(e) # 0
    BY ONLY <1>a
  <1>11. Ever' = Ever \cup batch /\ Ever \cap batch = {} /\ Ever \subseteq Entries
    <2>1. \A e \in Entries : entry'[e].seq # 0 <=> entry[e].seq # 0 \/ e \in batch
      BY <1>9, <1>10
    <2>2. QED
      BY <1>7, <2>1 DEF Ever
  <1>12. Cardinality(Ever') = chain.sequence + n /\ chain.sequence + n <= EntryCount
    <2>1. IsFiniteSet(Entries) /\ Cardinality(Entries) = EntryCount
      BY EntriesFinite
    <2>2. IsFiniteSet(Ever)
      BY <1>11, <2>1, FS_Subset
    <2>3. /\ IsFiniteSet(Ever \cup batch)
          /\ Cardinality(Ever \cup batch)
               = Cardinality(Ever) + Cardinality(batch) - Cardinality(Ever \cap batch)
      BY <1>5, <2>2, FS_Union
    <2>4. Cardinality(Ever \cap batch) = 0
      BY <1>11, FS_EmptySet
    <2>5. Cardinality(Ever) = chain.sequence /\ Cardinality(batch) = n
      BY <1>6 DEF Positions, n
    <2>6. Cardinality(Ever \cup batch) = chain.sequence + n
      BY ONLY <1>a, <2>3, <2>4, <2>5
    <2>7. Ever \cup batch \in SUBSET Entries
      BY <1>7, <1>11
    <2>8. Cardinality(Ever \cup batch) <= Cardinality(Entries)
      BY <2>1, <2>7, FS_Subset
    <2>9. QED
      BY <1>11, <2>1, <2>6, <2>8
  <1>13. AuditTypeOK'
    <2>1. ASSUME NEW e \in batch
          PROVE  [entry[e] EXCEPT !.seq = chain.sequence + rank(e),
                                  !.previous = link[rank(e) - 1],
                                  !.hash = link[rank(e)]] \in Entry
      <3>1. chain.sequence + rank(e) \in 0..EntryCount
        <4>1. rank(e) \in 1..n /\ chain.sequence + n <= EntryCount /\ EntryCount \in Nat
          BY <1>a, <1>12
        <4>2. QED
          BY ONLY <1>a, <4>1
      <3>2. link[rank(e) - 1] \in Hash /\ link[rank(e)] \in Hash
        BY <1>3, <1>10
      <3>3. QED
        BY <1>7, <3>1, <3>2 DEF Entry
    <2>2. entry' \in [Entries -> Entry]
      BY <1>3, <1>6, <2>1
    <2>3. chain' \in Chain
      <3>1. chain.sequence + n \in 0..EntryCount
        <4>1. chain.sequence + n <= EntryCount /\ EntryCount \in Nat
          BY <1>12
        <4>2. QED
          BY ONLY <1>a, <4>1
      <3>2. link[n] \in Hash
        <4>1. n \in 0..n
          BY ONLY <1>a
        <4>2. QED
          BY ONLY <1>b, <4>1
      <3>3. chain' = [chain EXCEPT !.exists = TRUE, !.latest = link[n],
                                   !.sequence = chain.sequence + n]
        BY <1>2 DEF n
      <3>4. QED
        BY <1>4, <3>1, <3>2, <3>3 DEF Chain
    <2>4. QED
      BY <1>6, <1>8, <2>2, <2>3 DEF AuditTypeOK
  <1>14. \A e \in Ever : e \in Entries /\ e \notin batch /\ entry'[e] = entry[e]
    BY <1>9, <1>11
  <1>15. \A e \in Entries : entry[e].seq \in Nat
    BY <1>6 DEF Entry
  <1>16. \A e \in Ever : entry[e].seq \in 1..chain.sequence
    BY <1>6, <1>15 DEF Ever, Positions
  <1>17. \A k \in 1..chain.sequence : \E e \in Ever : entry[e].seq = k
    BY <1>6 DEF Positions, Ever
  <1>18. Positions'
    <2>1. ASSUME NEW e \in Entries PROVE entry'[e].seq <= chain.sequence + n
      <3>1. CASE e \in batch
        <4>1. entry'[e].seq = chain.sequence + rank(e) /\ rank(e) \in Nat /\ rank(e) <= n
          BY <1>9, <1>10, <3>1
        <4>2. QED
          BY ONLY <1>a, <4>1
      <3>2. CASE e \notin batch
        <4>1. entry'[e].seq = entry[e].seq /\ entry[e].seq <= chain.sequence
              /\ entry[e].seq \in Nat
          BY <1>6, <1>9, <1>15, <3>2 DEF Positions
        <4>2. QED
          BY ONLY <1>a, <4>1
      <3>3. QED
        BY <3>1, <3>2
    <2>2. ASSUME NEW k \in 1..(chain.sequence + n) PROVE \E e \in Entries : entry'[e].seq = k
      <3>1. CASE k <= chain.sequence
        BY <1>6, <1>14, <1>17, <3>1
      <3>2. CASE k > chain.sequence
        <4>1. k - chain.sequence \in 1..n
          BY ONLY <1>a, <3>2, k \in 1..(chain.sequence + n)
        <4>2. PICK e \in batch : rank(e) = k - chain.sequence
          BY <1>3, <4>1
        <4>3. entry'[e].seq = k
          BY <1>6, <1>9, <4>2
        <4>4. QED
          BY <1>7, <4>3
      <3>3. QED
        BY <1>6, <3>1, <3>2
    <2>3. ASSUME NEW e \in Ever', NEW f \in Ever', entry'[e].seq = entry'[f].seq
          PROVE  e = f
      <3>1. CASE e \in Ever /\ f \in Ever
        BY <1>6, <1>14, <2>3, <3>1 DEF Positions
      <3>2. CASE e \in batch /\ f \in batch
        <4>1. rank(e) = rank(f)
          BY <1>6, <1>9, <1>10, <2>3, <3>2
        <4>2. QED
          BY <1>3, <3>2, <4>1
      <3>3. ASSUME NEW d \in Ever, NEW b \in batch PROVE entry'[d].seq # entry'[b].seq
        BY <1>6, <1>9, <1>10, <1>14, <1>16
      <3>4. QED
        BY <1>11, <2>3, <3>1, <3>2, <3>3
    <2>4. chain'.first <= chain'.sequence + 1 /\ (chain'.sequence # 0 => chain'.exists)
      <3>1. chain.first <= chain.sequence + 1
        BY <1>6 DEF Positions
      <3>2. chain.first <= chain.sequence + n + 1
        BY ONLY <1>a, <3>1
      <3>3. QED
        BY <1>4, <3>2
    <2>5. QED
      BY <1>4, <1>12, <2>1, <2>2, <2>3, <2>4 DEF Positions
  <1>19. \A k, h : k \in 0..chain.sequence /\ EndsAt(entry, k, h) => EndsAt(entry', k, h)
    <2>1. ASSUME NEW k \in 0..chain.sequence, NEW h, EndsAt(entry, k, h)
          PROVE  EndsAt(entry', k, h)
      <3>1. CASE k = 0
        BY <2>1, <3>1 DEF EndsAt
      <3>2. CASE k # 0
        <4>1. PICK e \in Entries : entry[e].seq = k /\ entry[e].hash = h
          BY <2>1, <3>2 DEF EndsAt
        <4>2. e \in Ever
          BY <3>2, <4>1 DEF Ever
        <4>3. entry'[e] = entry[e]
          BY <1>14, <4>2
        <4>4. QED
          BY <3>2, <4>1, <4>3 DEF EndsAt
      <3>3. QED
        BY <3>1, <3>2
    <2>2. QED
      BY <2>1
  <1>20. \A i \in 0..n : EndsAt(entry', chain.sequence + i, link[i])
    <2>1. ASSUME NEW i \in 0..n PROVE EndsAt(entry', chain.sequence + i, link[i])
      <3>1. CASE i = 0
        <4>1. EndsAt(entry, chain.sequence, chain.latest)
          BY <1>6 DEF Links
        <4>2. chain.sequence \in 0..chain.sequence /\ chain.sequence + i = chain.sequence
          BY <1>6, <3>1
        <4>3. EndsAt(entry', chain.sequence, chain.latest)
          BY <1>19, <4>1, <4>2
        <4>4. QED
          BY <1>3, <3>1, <4>2, <4>3
      <3>2. CASE i # 0
        <4>1. i \in 1..n
          BY ONLY <1>a, <3>2, i \in 0..n
        <4>2. PICK e \in batch : rank(e) = i
          BY <1>3, <4>1
        <4>3. entry'[e].seq = chain.sequence + i /\ entry'[e].hash = link[i] /\ e \in Entries
          BY <1>7, <1>9, <4>2
        <4>4. chain.sequence + i # 0
          BY <1>10, <4>2
        <4>5. QED
          BY <4>3, <4>4 DEF EndsAt
      <3>3. QED
        BY <3>1, <3>2
    <2>2. QED
      BY <2>1
  <1>21. Links'
    <2>1. ASSUME NEW e \in Ever'
          PROVE  /\ entry'[e].hash = Append(entry'[e].previous, <<e, TRUE>>)
                 /\ EndsAt(entry', entry'[e].seq - 1, entry'[e].previous)
      <3>1. CASE e \in Ever
        <4>1. /\ entry[e].hash = Append(entry[e].previous, <<e, TRUE>>)
              /\ EndsAt(entry, entry[e].seq - 1, entry[e].previous)
          BY <1>6, <3>1 DEF Links
        <4>2. entry[e].seq - 1 \in 0..chain.sequence
          BY <1>6, <1>16, <3>1
        <4>3. EndsAt(entry', entry[e].seq - 1, entry[e].previous)
          BY <1>19, <4>1, <4>2
        <4>4. entry'[e] = entry[e]
          BY <1>14, <3>1
        <4>5. QED
          BY <4>1, <4>3, <4>4
      <3>2. CASE e \in batch
        <4>1. /\ entry'[e].seq = chain.sequence + rank(e)
              /\ entry'[e].previous = link[rank(e) - 1]
              /\ entry'[e].hash = link[rank(e)]
          BY <1>9, <3>2
        <4>2. chain.sequence + rank(e) - 1 = chain.sequence + (rank(e) - 1)
          BY <1>6, <1>10, <3>2
        <4>3. EndsAt(entry', chain.sequence + (rank(e) - 1), link[rank(e) - 1])
          BY <1>10, <1>20, <3>2
        <4>4. entry'[e].hash = Append(entry'[e].previous, <<e, TRUE>>)
          BY ONLY <1>c, <3>2, <4>1
        <4>5. EndsAt(entry', entry'[e].seq - 1, entry'[e].previous)
          <5>1. entry'[e].seq - 1 = chain.sequence + (rank(e) - 1)
            <6>1. entry'[e].seq = chain.sequence + rank(e)
              BY ONLY <4>1
            <6>2. chain.sequence \in Nat /\ rank(e) \in Nat
              BY <1>a, <1>10, <3>2
            <6>3. QED
              BY ONLY <6>1, <6>2
          <5> HIDE DEF EndsAt
          <5>2. QED
            BY ONLY <4>1, <4>3, <5>1
        <4>6. QED
          BY ONLY <4>4, <4>5
      <3>3. QED
        BY <1>11, <3>1, <3>2
    <2>2. EndsAt(entry', chain'.sequence, chain'.latest)
      <3>1. n \in 0..n
        BY ONLY <1>a
      <3>2. QED
        BY <1>4, <1>20, <3>1
    <2>3. EndsAt(entry', chain'.first - 1, chain'.firstPrevious)
      <3>1. EndsAt(entry, chain.first - 1, chain.firstPrevious)
        BY <1>6 DEF Links
      <3>2. chain.first - 1 \in 0..chain.sequence
        BY <1>6 DEF Positions
      <3>3. QED
        BY <1>4, <1>19, <3>1, <3>2
    <2>4. QED
      BY <2>1, <2>2, <2>3 DEF Links
  <1>22. Remains'
    <2>1. ASSUME NEW e \in Entries
          PROVE  IF entry'[e].seq = 0 THEN entry'[e].original
                 ELSE entry'[e].status \in {"stored", "removed"}
      <3>1. CASE e \in batch
        BY <1>9, <1>10, <3>1
      <3>2. CASE e \notin batch
        BY <1>6, <1>9, <3>2 DEF Remains
      <3>3. QED
        BY <3>1, <3>2
    <2>2. ASSUME NEW e \in Ever'
          PROVE  /\ entry'[e].seq < chain'.first => entry'[e].status = "removed"
                 /\ entry'[e].seq >= chain'.first /\ entry'[e].original
                       => entry'[e].status = "stored"
      <3>1. CASE e \in Ever
        BY <1>4, <1>6, <1>14, <3>1 DEF Remains
      <3>2. CASE e \in batch
        <4>1. entry'[e].status = "stored" /\ entry'[e].seq = chain.sequence + rank(e)
          BY <1>9, <3>2
        <4>2. chain.first <= chain.sequence + 1
          BY <1>6 DEF Positions
        <4>3. ~(entry'[e].seq < chain'.first)
          BY <1>4, <1>6, <1>10, <3>2, <4>1, <4>2
        <4>4. QED
          BY <4>1, <4>3
      <3>3. QED
        BY <1>11, <3>1, <3>2
    <2>3. damage' = 0 => \A e \in Entries : entry'[e].original
      <3>1. \A e \in Entries : entry'[e].original = entry[e].original
        BY <1>9
      <3>2. QED
        BY <1>6, <1>8, <3>1 DEF Remains
    <2>4. QED
      BY <2>1, <2>2, <2>3 DEF Remains
  <1>23. QED
    BY <1>13, <1>18, <1>21, <1>22 DEF ChainInv

LEMMA InitInv == AuditInit => ChainInv
  <1> SUFFICES ASSUME AuditInit PROVE ChainInv
    OBVIOUS
  <1>1. << >> \in Hash /\ EntryCount \in Nat /\ MaxClock \in Nat /\ MaxDamage \in Nat
    BY DEF Hash
  <1>2. AuditTypeOK
    BY <1>1 DEF AuditInit, AuditTypeOK, Entry, Chain, AbsentEntry, EmptyChain, IdleVerifier
  <1>3. \A e \in Entries : entry[e] = AbsentEntry
    BY DEF AuditInit
  <1>4. Ever = {}
    BY <1>3 DEF Ever, AbsentEntry
  <1>5. chain.sequence = 0 /\ chain.first = 1 /\ chain.latest = << >>
        /\ chain.firstPrevious = << >>
    BY DEF AuditInit, EmptyChain
  <1>6. Positions
    <2>1. Cardinality(Ever) = 0
      BY <1>4, FS_EmptySet
    <2>2. QED
      BY <1>3, <1>4, <1>5, <2>1 DEF Positions, AbsentEntry
  <1>7. Links
    BY <1>4, <1>5 DEF Links, EndsAt
  <1>8. Remains
    BY <1>3, <1>4 DEF Remains, AbsentEntry
  <1>9. QED
    BY <1>2, <1>6, <1>7, <1>8 DEF ChainInv

LEMMA NextInv ==
    ASSUME ChainInv, [AuditNext]_auditVars
    PROVE  ChainInv'
  <1>1. CASE Tick \/ VerifyState \/ VerifyRows \/ VerifyReports
    BY <1>1, ObserverInv
  <1>2. ASSUME NEW e \in Entries, Stamp(e) \/ Store(e) PROVE ChainInv'
    BY <1>2, WriterInv
  <1>3. ASSUME NEW e \in Entries, DamageRow(e) PROVE ChainInv'
    BY <1>3, DamageRowInv
  <1>4. CASE Seal
    BY <1>4, SealInv
  <1>5. ASSUME NEW before \in 0..MaxClock, Prune(before) PROVE ChainInv'
    BY <1>5, PruneInv
  <1>6. CASE UNCHANGED auditVars
    BY <1>6, ObserverInv
  <1>7. QED
    BY <1>1, <1>2, <1>3, <1>4, <1>5, <1>6 DEF AuditNext

\* The invariant holds from the first entry on.
THEOREM ChainInvariance == AuditSpec => []ChainInv
  <1>1. ChainInv /\ [AuditNext]_auditVars => ChainInv'
    BY NextInv
  <1>2. QED
    BY InitInv, <1>1, PTL DEF AuditSpec

\* Every row and the state row have the columns their tables declare, and
\* neither positions nor the chain outgrow the entries written.
THEOREM AuditTypeCorrect == AuditSpec => []AuditTypeOK
  <1>1. ChainInv => AuditTypeOK
    BY DEF ChainInv
  <1>2. QED
    BY ChainInvariance, <1>1, PTL

\* verifyAuditScope, run at one instant, accepts the chain exactly when no
\* retained row was changed or removed outside the program, whatever was
\* sealed and pruned before.
THEOREM VerificationIsRight == AuditSpec => []ValidIffUndamaged
  <1>1. ChainInv => ValidIffUndamaged
    BY IntactVerifies, DamageIsSeen DEF ValidIffUndamaged, ChainInv
  <1>2. QED
    BY ChainInvariance, <1>1, PTL

LEMMA SealedRowsKept ==
    ASSUME ChainInv, [AuditNext]_auditVars
    PROVE  \A e \in Sealed : /\ entry'[e].seq = entry[e].seq
                             /\ entry'[e].previous = entry[e].previous
                             /\ entry'[e].hash = entry[e].hash
  <1> SUFFICES ASSUME NEW e \in Sealed
               PROVE  /\ entry'[e].seq = entry[e].seq
                      /\ entry'[e].previous = entry[e].previous
                      /\ entry'[e].hash = entry[e].hash
    OBVIOUS
  <1>1. /\ e \in Entries /\ entry[e].status = "stored" /\ entry[e].seq # 0
        /\ entry \in [Entries -> Entry]
    BY DEF Sealed, ChainInv, AuditTypeOK
  <1>2. CASE UNCHANGED entry
    BY <1>2
  <1>3. ASSUME NEW f \in Entries, Stamp(f) \/ Store(f) \/ DamageRow(f)
        PROVE  /\ entry'[e].seq = entry[e].seq
               /\ entry'[e].previous = entry[e].previous
               /\ entry'[e].hash = entry[e].hash
    BY <1>1, <1>3 DEF Stamp, Store, DamageRow, Entry
  <1>4. CASE Seal
    <2>1. PICK batch \in SUBSET Unsealed : \A d \in Entries \ batch : entry'[d] = entry[d]
      BY <1>1, <1>4 DEF Seal
    <2>2. e \notin batch
      BY <1>1, <2>1 DEF Unsealed
    <2>3. QED
      BY <1>1, <2>1, <2>2
  <1>5. ASSUME NEW before \in 0..MaxClock, Prune(before)
        PROVE  /\ entry'[e].seq = entry[e].seq
               /\ entry'[e].previous = entry[e].previous
               /\ entry'[e].hash = entry[e].hash
    BY <1>1, <1>5 DEF Prune, Entry
  <1>6. CASE Tick \/ VerifyState \/ VerifyRows \/ VerifyReports \/ UNCHANGED auditVars
    BY <1>2, <1>6 DEF Tick, VerifyState, VerifyRows, VerifyReports, auditVars
  <1>7. QED
    BY <1>3, <1>4, <1>5, <1>6 DEF AuditNext

\* The sealer never touches a row it has sealed: a row keeps its position,
\* its predecessor's hash and its own.
THEOREM SealedStaysImmutable == AuditSpec => SealedIsImmutable
  <1>1. ChainInv /\ [AuditNext]_auditVars =>
          [\A e \in Sealed : /\ entry'[e].seq = entry[e].seq
                             /\ entry'[e].previous = entry[e].previous
                             /\ entry'[e].hash = entry[e].hash]_auditVars
    BY SealedRowsKept
  <1>2. QED
    BY ChainInvariance, <1>1, PTL DEF AuditSpec, SealedIsImmutable

=============================================================================
