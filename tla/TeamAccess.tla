------------------------------- MODULE TeamAccess -------------------------------
(***************************************************************************)
(* Accounts and memberships, and who may take them away.                   *)
(*                                                                         *)
(* app/admin/(protected)/team/actions.ts, app/platform/(protected)/users/  *)
(* actions.ts, lib/team-owner-safety.ts, lib/scim.ts and                   *)
(* lib/identity-connections.ts.                                            *)
(*                                                                         *)
(* A transaction begins with its row locks and what it reads and decides,  *)
(* and ends with its writes: between the two, other transactions commit    *)
(* (READ COMMITTED).  The console's share an advisory lock; those of the   *)
(* identity provider fence the organization instead.                       *)
(***************************************************************************)
CONSTANTS
    Users,   \* identities, by canonical user name
    Orgs,    \* organizations, each with an identity connection
    Txns,    \* bound: transactions open at a time
    None     \* no transaction, no role

ASSUME NoneAssumption == None \notin {"VIEWER", "ADMIN"}

VARIABLES
    account,  \* users.disabled, or that there is no such user
    access,   \* memberships: the role of an ACTIVE one, REVOKED, or none
    linked,   \* externalIdentities with a user
    orgs,     \* the organizations rows
    txn       \* the open transactions

vars == <<account, access, linked, orgs, txn>>

\* Roles other than Admin are alike here.
Roles == {"VIEWER", "ADMIN"}
Members == Users \X Orgs

\* Rows that are locked: one row per account, membership, organization; the
\* name of a row to be inserted is locked by its unique index.
AdminLock == <<"active-admin">>
AccountRow(u) == <<"account", u>>
MemberRow(u, o) == <<"membership", u, o>>
OrgRow(o) == <<"organization", o>>

Console == {"create", "setRole", "remove", "disable", "enable", "delete"}
Directory == {"provision", "activate", "deprovision", "signIn", "sync"}

Open == {t \in Txns : txn[t] # None}
Held(others) == UNION {txn[t].rows : t \in others}

IsActive(m) == access[m] \in Roles

\* countEnabledActiveAdmins, otherEnabledAdminExists
EnabledAdmins == {m \in Members : access[m] = "ADMIN" /\ account[m[1]] = "enabled"}

Init ==
    /\ \E first \in Members :
          /\ account = [u \in Users |-> IF u = first[1] THEN "enabled" ELSE "absent"]
          /\ access = [m \in Members |-> IF m = first THEN "ADMIN" ELSE "NONE"]
    /\ linked = {}
    /\ orgs = Orgs
    /\ txn = [t \in Txns |-> None]

-----------------------------------------------------------------------------
(***************************************************************************)
(* Transactions                                                            *)
(***************************************************************************)

NoChange == [x \in {} |-> x]

\* What is to be written to one row, and the rows with what was written.
Only(x, value) == [y \in {x} |-> value]
Updated(rows, written) ==
    [x \in DOMAIN rows |-> IF x \in DOMAIN written THEN written[x] ELSE rows[x]]

\* members, accounts, links: what will be written; awaited: rows that only the
\* writes lock.
Begin(t, op, u, rows, awaited, members, accounts, links) ==
    /\ txn[t] = None
    /\ rows \intersect Held(Open) = {}
    /\ txn' = [txn EXCEPT ![t] =
                 [op |-> op, user |-> u, rows |-> rows, awaited |-> awaited,
                  members |-> members, accounts |-> accounts, links |-> links,
                  overtaken |-> FALSE]]
    /\ UNCHANGED <<account, access, linked, orgs>>

\* A change that the transaction t could not see when it decided: an Admin
\* less, or another membership of the same user, by a transaction that does
\* not share the console's lock with it.
Overtaken(t, op, members) ==
    /\ ~(op \in Console /\ txn[t].op \in Console)
    /\ \/ \E m \in DOMAIN members : m[1] = txn[t].user
       \/ ~(EnabledAdmins \subseteq EnabledAdmins')

MarkOvertaken(others, op, members) ==
    [t \in Txns |-> IF t \in others /\ Overtaken(t, op, members)
                    THEN [txn[t] EXCEPT !.overtaken = TRUE] ELSE txn[t]]

Commit(t) ==
    /\ txn[t] # None
    /\ txn[t].awaited \intersect Held(Open \ {t}) = {}
    /\ access' = Updated(access, txn[t].members)
    /\ account' = Updated(account, txn[t].accounts)
    /\ linked' = (linked \union txn[t].links)
                  \ {l \in linked : account'[l[1]] = "absent"}
    /\ txn' = [MarkOvertaken(Open \ {t}, txn[t].op, txn[t].members) EXCEPT ![t] = None]
    /\ UNCHANGED orgs

\* A failed statement, a lost connection, the victim of a deadlock, an account
\* that cannot be deleted because of what it created.
Rollback(t) ==
    /\ txn[t] # None
    /\ txn' = [txn EXCEPT ![t] = None]
    /\ UNCHANGED <<account, access, linked, orgs>>

-----------------------------------------------------------------------------
(***************************************************************************)
(* The team and user pages                                                 *)
(***************************************************************************)

\* Mutant: only the row that changes is locked.
UnfencedRows(u) == {AccountRow(u)}

\* withOrganizationAdminInvariantTransaction takes the lock first.
FencedRows(u) == {AdminLock, AccountRow(u)}

\* requireCurrentTeamManager.  The session was checked before: by now the
\* account may have been disabled.
Managing(a, o) == o \in orgs /\ access[<<a, o>>] = "ADMIN"

TeamRows(a, u, o) == {AdminLock, MemberRow(a, o), MemberRow(u, o)}

CreateMember(t, a, u, o, role) ==
    /\ Managing(a, o)
    /\ account[u] # "disabled"
    /\ ~IsActive(<<u, o>>)
    /\ Begin(t, "create", u, TeamRows(a, u, o) \union {AccountRow(u)}, {},
             Only(<<u, o>>, role), Only(u, "enabled"), {})

\* transitionRemovesActiveAdmin, an account that counts, and no other Admin.
LastAdmin(u, m) ==
    access[m] = "ADMIN" /\ account[u] = "enabled" /\ EnabledAdmins \subseteq {m}

UpdateMemberRole(t, a, u, o, role) ==
    /\ Managing(a, o)
    /\ IsActive(<<u, o>>)
    /\ role # "ADMIN" => ~LastAdmin(u, <<u, o>>)
    /\ Begin(t, "setRole", u, TeamRows(a, u, o), {}, Only(<<u, o>>, role), NoChange, {})

RemoveMember(t, a, u, o) ==
    /\ Managing(a, o)
    /\ a # u
    /\ IsActive(<<u, o>>)
    /\ ~LastAdmin(u, <<u, o>>)
    /\ Begin(t, "remove", u, TeamRows(a, u, o), {}, Only(<<u, o>>, "REVOKED"), NoChange, {})

\* isActiveAdmin and not otherEnabledAdminExists
NeededAsAdmin(u) ==
    /\ \E o \in Orgs : access[<<u, o>>] = "ADMIN"
    /\ \A m \in EnabledAdmins : m[1] = u

DisableUser(t, u) ==
    /\ account[u] = "enabled"
    /\ ~NeededAsAdmin(u)
    /\ Begin(t, "disable", u, FencedRows(u), {}, NoChange, Only(u, "disabled"), {})

EnableUser(t, u) ==
    /\ account[u] = "disabled"
    /\ Begin(t, "enable", u, FencedRows(u), {}, NoChange, Only(u, "enabled"), {})

\* The memberships and identities go with the user, once they are free.
DeleteUser(t, u) ==
    /\ account[u] # "absent"
    /\ ~NeededAsAdmin(u)
    /\ Begin(t, "delete", u, FencedRows(u), {MemberRow(u, o) : o \in Orgs},
             [m \in {u} \X Orgs |-> "NONE"], Only(u, "absent"), {})

-----------------------------------------------------------------------------
(***************************************************************************)
(* SCIM and single sign-on                                                 *)
(***************************************************************************)

\* The connection may write this user: its own, or one there is not yet.
Ours(u, o) == <<u, o>> \in linked \/ account[u] = "absent"

\* Mutant: a profile edit activates as well.
StatusUnsaid(u, o, role) == role

\* Mutant: the status goes into the place of the role.
UnsaidStatus(u, o, role) == IF access[<<u, o>>] = "REVOKED" THEN "REVOKED" ELSE "ACTIVE"

\* A profile edit leaves access that was revoked as it is.
Unsaid(u, o, role) == IF access[<<u, o>>] = "REVOKED" THEN "REVOKED" ELSE role

\* What the request's active says of the membership and of the account.  role:
\* what the groups of the identity, the default role or VIEWER give.
ProvisionedRole(u, o, active, role) ==
    IF active = "true" THEN role
    ELSE IF active = "false" THEN "REVOKED" ELSE Unsaid(u, o, role)

ProvisionedAccount(u, active) ==
    IF active = "true" THEN Only(u, "enabled")
    ELSE IF account[u] # "absent" THEN NoChange
    ELSE Only(u, IF active = "false" THEN "disabled" ELSE "enabled")

ProvisionScimUser(t, u, o, active, role) ==
    /\ o \in orgs
    /\ Ours(u, o)
    /\ Begin(t, IF active = "true" THEN "activate" ELSE "provision", u,
             {OrgRow(o), AccountRow(u), MemberRow(u, o)}, {},
             Only(<<u, o>>, ProvisionedRole(u, o, active, role)),
             ProvisionedAccount(u, active), {<<u, o>>})

\* The other memberships, as committed.
Remaining(u, o) == {p \in Orgs \ {o} : IsActive(<<u, p>>)}

Revoked(m) == IF access[m] = "NONE" THEN "NONE" ELSE "REVOKED"

DeprovisionScimUser(t, u, o) ==
    /\ o \in orgs
    /\ <<u, o>> \in linked
    /\ LET leaves == Remaining(u, o) = {}
       IN  Begin(t, "deprovision", u, {OrgRow(o), MemberRow(u, o)},
                 IF leaves THEN {AccountRow(u)} ELSE {},
                 Only(<<u, o>>, Revoked(<<u, o>>)),
                 IF leaves THEN Only(u, "disabled") ELSE NoChange, {})

SignInRows(u, o) ==
    {OrgRow(o), MemberRow(u, o)} \union (IF account[u] = "absent" THEN {AccountRow(u)} ELSE {})

\* upsertExternalUser: no entitlement revokes; otherwise the role is updated,
\* or the member created, and access that was revoked stays so.
SignIn(t, u, o, role) ==
    /\ o \in orgs
    /\ Ours(u, o)
    /\ IF role = None
       THEN /\ account[u] # "absent"
            /\ Begin(t, "signIn", u, SignInRows(u, o), {}, Only(<<u, o>>, Revoked(<<u, o>>)),
                     NoChange, {})
       ELSE /\ account[u] # "disabled"
            /\ access[<<u, o>>] # "REVOKED"
            /\ Begin(t, "signIn", u, SignInRows(u, o), {}, Only(<<u, o>>, role),
                     IF account[u] = "absent" THEN Only(u, "enabled") ELSE NoChange,
                     {<<u, o>>})

\* synchronizeScimGroupMemberships; grants: the role of each user by the
\* groups, or None.
Synchronize(t, o, grants) ==
    LET ours == {m \in linked : m[2] = o}
        granted(m) == IF grants[m[1]] = None THEN Revoked(m)
                      ELSE IF IsActive(m) THEN grants[m[1]] ELSE access[m]
    IN  /\ o \in orgs
        /\ Begin(t, "sync", None, {OrgRow(o)} \union {MemberRow(m[1], o) : m \in ours}, {},
                 [m \in ours |-> granted(m)], NoChange, {})

\* deleteOrgCascade: the memberships and the connection go with the row.
Purge(o) ==
    LET theirs == Users \X {o}
        gone == [m \in theirs |-> "NONE"]
    IN  /\ o \in orgs
        /\ ({OrgRow(o)} \union {MemberRow(u, o) : u \in Users}) \intersect Held(Open) = {}
        /\ orgs' = orgs \ {o}
        /\ access' = Updated(access, gone)
        /\ linked' = linked \ theirs
        /\ UNCHANGED account
        /\ txn' = MarkOvertaken(Open, "purge", gone)

-----------------------------------------------------------------------------

Next ==
    \/ \E t \in Txns : Commit(t) \/ Rollback(t)
    \/ \E t \in Txns, u \in Users :
          \/ DisableUser(t, u) \/ EnableUser(t, u) \/ DeleteUser(t, u)
          \/ \E o \in Orgs :
                \/ \E a \in Users : \/ RemoveMember(t, a, u, o)
                                    \/ \E role \in Roles :
                                          \/ CreateMember(t, a, u, o, role)
                                          \/ UpdateMemberRole(t, a, u, o, role)
                \/ \E active \in {"true", "false", "unsaid"}, role \in Roles :
                      ProvisionScimUser(t, u, o, active, role)
                \/ DeprovisionScimUser(t, u, o)
                \/ \E role \in Roles \union {None} : SignIn(t, u, o, role)
    \/ \E t \in Txns, o \in Orgs, grants \in [Users -> Roles \union {None}] :
          Synchronize(t, o, grants)
    \/ \E o \in Orgs : Purge(o)

Spec == Init /\ [][Next]_vars

-----------------------------------------------------------------------------
(***************************************************************************)
(* Properties                                                              *)
(***************************************************************************)

Values == {"NONE", "REVOKED"} \union Roles
States == {"absent", "enabled", "disabled"}
Rows == {AdminLock} \union {AccountRow(u) : u \in Users} \union {OrgRow(o) : o \in Orgs}
                  \union {MemberRow(m[1], m[2]) : m \in Members}

\* Type invariant of the rows, with their references, and of the open
\* transactions.
TypeOK ==
    /\ account \in [Users -> States]
    /\ access \in [Members -> Values]
    /\ linked \subseteq Members
    /\ orgs \subseteq Orgs
    /\ \A m \in Members : access[m] # "NONE" \/ m \in linked
                            => account[m[1]] # "absent" /\ m[2] \in orgs
    /\ \A t \in Open :
          /\ txn[t].op \in Console \union Directory
          /\ txn[t].user \in Users \union {None}
          /\ txn[t].rows \subseteq Rows /\ txn[t].awaited \subseteq Rows
          /\ DOMAIN txn[t].members \subseteq Members
          /\ \A m \in DOMAIN txn[t].members : txn[t].members[m] \in Values
          /\ DOMAIN txn[t].accounts \subseteq Users
          /\ \A u \in DOMAIN txn[t].accounts : txn[t].accounts[u] \in States
          /\ txn[t].links \subseteq Members
          /\ txn[t].overtaken \in BOOLEAN

\* The step writes what t had decided.
Commits(t) ==
    /\ txn[t] # None /\ txn'[t] = None
    /\ access' = Updated(access, txn[t].members)
    /\ account' = Updated(account, txn[t].accounts)

\* The pages never take the last enabled Admin away, however their requests
\* interleave, unless an identity provider or a purge took one at that moment
\* ("two organizations cannot concurrently remove the final active Admin").
ConsoleKeepsAdmin ==
    [][\A t \in Txns :
          Commits(t) /\ txn[t].op \in Console /\ ~txn[t].overtaken
             => (EnabledAdmins # {} => EnabledAdmins' # {})]_vars

\* Access that was revoked, or an account that was disabled, comes back by an
\* administrator or SCIM's active=true alone; a sign-in, a profile edit or a
\* group update that runs at the same time does not restore it.
RestoredExplicitly ==
    /\ \A m \in Members :
          access[m] = "REVOKED" /\ access'[m] \in Roles =>
             \E t \in Txns : Commits(t) /\ txn[t].user = m[1]
                                    /\ txn[t].op \in {"create", "activate"}
    /\ \A u \in Users :
          account[u] = "disabled" /\ account'[u] = "enabled" =>
             \E t \in Txns : Commits(t) /\ txn[t].user = u
                                    /\ txn[t].op \in {"enable", "activate"}

\* Who leaves the last organization by SCIM is disabled, unless a membership of
\* the same user changed meanwhile.
LeaverIsDisabled ==
    \A t \in Txns :
        Commits(t) /\ txn[t].op = "deprovision" /\ ~txn[t].overtaken
           => \/ account'[txn[t].user] # "enabled"
              \/ \E o \in Orgs : access'[<<txn[t].user, o>>] \in Roles

\* Taking access away works and lasts.
RevocationHolds == [][RestoredExplicitly /\ LeaverIsDisabled]_vars

=============================================================================
