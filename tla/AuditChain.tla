------------------------------ MODULE AuditChain ------------------------------
(***************************************************************************)
(* The sealed audit log: entries are written by every part of the program, *)
(* sealed in batches into one hash chain, pruned from its old end, and     *)
(* verified from the command line while all of that goes on.               *)
(*                                                                         *)
(* lib/audit-integrity.ts, with the inserts of lib/tenant-audit.ts and     *)
(* lib/platform-policy.ts.  Sealing and pruning lock the state row first,  *)
(* so each is one step; verifyAuditScope reads without a transaction.      *)
(*                                                                         *)
(* SHA-256 is taken as injective: the hash of an entry is the sequence of  *)
(* everything it was computed from, <<>> standing for GENESIS.             *)
(***************************************************************************)
EXTENDS Integers, Sequences, FiniteSets

CONSTANTS
    EntryCount,  \* bound: entries written; their ids are 1..EntryCount
    BatchLimit,  \* entries sealed in one transaction (500)
    MaxClock,    \* bound: how far time advances
    MaxDamage    \* bound: rows changed outside the program

ASSUME BatchAssumption == BatchLimit \in Nat \ {0}
ASSUME AuditBoundsAssumption == {EntryCount, MaxClock, MaxDamage} \subseteq Nat

VARIABLES
    clock,     \* Date.now() of the writers
    entry,     \* the platformAuditLogs rows
    chain,     \* the auditChainStates row "platform"
    verifier,  \* a verification: where it is and what it has read
    damage     \* rows changed outside the program so far

auditVars == <<clock, entry, chain, verifier, damage>>

Entries == 1..EntryCount

Hash == Seq(Entries \X BOOLEAN)

\* stamped: createdAt is set, the transaction has not committed.  original is
\* FALSE once the content has been changed; seq 0 is an unsealed row.
Entry == [status : {"absent", "stamped", "stored", "removed"}, created : 0..MaxClock,
          original : BOOLEAN, seq : 0..EntryCount, previous : Hash, hash : Hash]

\* first and firstPrevious: retainedSequence and retainedPreviousHash.
Chain == [exists : BOOLEAN, latest : Hash, sequence : 0..EntryCount,
          first : Nat \ {0}, firstPrevious : Hash]

AbsentEntry == [status |-> "absent", created |-> 0, original |-> TRUE, seq |-> 0,
                previous |-> <<>>, hash |-> <<>>]

EmptyChain == [exists |-> FALSE, latest |-> <<>>, sequence |-> 0,
               first |-> 1, firstPrevious |-> <<>>]

IdleVerifier == [pc |-> "idle", chain |-> EmptyChain, valid |-> TRUE]

AuditTypeOK ==
    /\ clock \in 0..MaxClock
    /\ entry \in [Entries -> Entry]
    /\ chain \in Chain
    /\ verifier \in [pc : {"idle", "rows", "done"}, chain : Chain, valid : BOOLEAN]
    /\ damage \in 0..MaxDamage

AuditInit ==
    /\ clock = 0
    /\ entry = [e \in Entries |-> AbsentEntry]
    /\ chain = EmptyChain
    /\ verifier = IdleVerifier
    /\ damage = 0

-----------------------------------------------------------------------------

Tick == clock < MaxClock /\ clock' = clock + 1 /\ UNCHANGED <<entry, chain, verifier, damage>>

\* recordTenantAudit and writePlatformAudit stamp the row when they build it ...
Stamp(e) ==
    /\ entry[e].status = "absent"
    /\ entry' = [entry EXCEPT ![e].status = "stamped", ![e].created = clock]
    /\ UNCHANGED <<clock, chain, verifier, damage>>

\* ... and others see it when the caller's transaction commits.
Store(e) ==
    /\ entry[e].status = "stamped"
    /\ entry' = [entry EXCEPT ![e].status = "stored"]
    /\ UNCHANGED <<clock, chain, verifier, damage>>

Sealed == {e \in Entries : entry[e].status = "stored" /\ entry[e].seq # 0}

\* Mutants: a row may be sealed twice; only rows newer than the last sealed
\* one are looked for.
UnsealedOrNot == {e \in Entries : entry[e].status = "stored"}
UnsealedSinceLast ==
    {e \in Entries : /\ entry[e].status = "stored" /\ entry[e].seq = 0
                     /\ \A f \in Sealed : entry[f].created <= entry[e].created}

Unsealed == {e \in Entries : entry[e].status = "stored" /\ entry[e].seq = 0}

\* ORDER BY created_at, id
Earlier(e, f) ==
    \/ entry[e].created < entry[f].created
    \/ entry[e].created = entry[f].created /\ e <= f

Rank(e) == Cardinality({f \in Unsealed : Earlier(f, e)})

Content(e) == <<e, entry[e].original>>

\* calculateEntryHash
EntryHash(previous, e) == Append(previous, Content(e))

\* sealAuditEntries: the oldest BatchLimit rows continue the chain.
Seal ==
    LET batch == {e \in Unsealed : Rank(e) <= BatchLimit}
        order == [i \in 1..Cardinality(batch) |-> CHOOSE e \in batch : Rank(e) = i]
        link == [i \in 0..Cardinality(batch) |->
                   chain.latest \o [k \in 1..i |-> Content(order[k])]]
    IN  /\ batch # {}
        /\ entry' = [e \in Entries |->
                       IF e \in batch
                       THEN [entry[e] EXCEPT !.seq = chain.sequence + Rank(e),
                                             !.previous = link[Rank(e) - 1],
                                             !.hash = EntryHash(link[Rank(e) - 1], e)]
                       ELSE entry[e]]
        /\ chain' = [chain EXCEPT !.exists = TRUE,
                                  !.latest = link[Cardinality(batch)],
                                  !.sequence = @ + Cardinality(batch)]
        /\ UNCHANGED <<clock, verifier, damage>>

\* Mutant: pruning deletes by createdAt instead of by sequence.
PruneByDate(before) ==
    \E last \in Sealed :
        /\ entry[last].created < before
        /\ \A e \in Sealed : entry[e].created < before => entry[e].seq <= entry[last].seq
        /\ entry' = [e \in Entries |->
                       IF e \in Sealed /\ entry[e].created < before
                       THEN [entry[e] EXCEPT !.status = "removed"]
                       ELSE entry[e]]
        /\ chain' = [chain EXCEPT !.exists = TRUE,
                                  !.first = entry[last].seq + 1,
                                  !.firstPrevious = entry[last].hash]
        /\ UNCHANGED <<clock, verifier, damage>>

\* pruneAuditBefore: everything up to the newest sealed row that is old
\* enough, by sequence.
Prune(before) ==
    \E last \in Sealed :
        /\ entry[last].created < before
        /\ \A e \in Sealed : entry[e].created < before => entry[e].seq <= entry[last].seq
        /\ entry' = [e \in Entries |->
                       IF e \in Sealed /\ entry[e].seq <= entry[last].seq
                       THEN [entry[e] EXCEPT !.status = "removed"]
                       ELSE entry[e]]
        /\ chain' = [chain EXCEPT !.exists = TRUE,
                                  !.first = entry[last].seq + 1,
                                  !.firstPrevious = entry[last].hash]
        /\ UNCHANGED <<clock, verifier, damage>>

-----------------------------------------------------------------------------
(* verifyAuditScope.                                                       *)

\* The loop over the sealed rows by sequence, from the state st.
RowsContinue(st) ==
    LET n == Cardinality(Sealed)
    IN  /\ {entry[e].seq : e \in Sealed} = st.first..(st.first + n - 1)
        /\ \A e \in Sealed :
              /\ entry[e].hash = EntryHash(entry[e].previous, e)
              /\ IF entry[e].seq = st.first
                 THEN entry[e].previous = st.firstPrevious
                 ELSE \E f \in Sealed : entry[f].seq = entry[e].seq - 1
                                        /\ entry[e].previous = entry[f].hash

\* The comparison with the state's own end of the chain.
TailMatches(st) ==
    st.exists =>
        /\ st.sequence = st.first + Cardinality(Sealed) - 1
        /\ IF Sealed = {}
           THEN st.latest = st.firstPrevious
           ELSE \E e \in Sealed : entry[e].seq = st.sequence /\ entry[e].hash = st.latest

Valid(st) == RowsContinue(st) /\ TailMatches(st)

\* The first query reads the state ...
VerifyState ==
    /\ verifier.pc = "idle"
    /\ verifier' = [verifier EXCEPT !.pc = "rows", !.chain = chain]
    /\ UNCHANGED <<clock, entry, chain, damage>>

\* ... the second the rows; the third counts what is unsealed.
VerifyRows ==
    /\ verifier.pc = "rows"
    /\ verifier' = [verifier EXCEPT !.pc = "done", !.valid = Valid(verifier.chain)]
    /\ UNCHANGED <<clock, entry, chain, damage>>

VerifyReports ==
    /\ verifier.pc = "done"
    /\ verifier' = IdleVerifier
    /\ UNCHANGED <<clock, entry, chain, damage>>

\* Someone changes or removes a sealed row outside the program.
DamageRow(e) ==
    /\ e \in Sealed
    /\ entry[e].original
    /\ damage < MaxDamage
    /\ damage' = damage + 1
    /\ \/ entry' = [entry EXCEPT ![e].original = FALSE]
       \/ entry' = [entry EXCEPT ![e].original = FALSE, ![e].status = "removed"]
    /\ UNCHANGED <<clock, chain, verifier>>

-----------------------------------------------------------------------------

AuditNext ==
    \/ Tick
    \/ \E e \in Entries : Stamp(e) \/ Store(e) \/ DamageRow(e)
    \/ Seal
    \/ \E before \in 0..MaxClock : Prune(before)
    \/ VerifyState \/ VerifyRows \/ VerifyReports

AuditSpec == AuditInit /\ [][AuditNext]_auditVars

\* The seal task runs from cron.
FairSpec == AuditSpec /\ WF_auditVars(Seal)

-----------------------------------------------------------------------------
(* Properties.                                                             *)

\* Whatever is sealed out of order, in batches, or pruned: as long as nobody
\* touched the rows, a verification at any one instant succeeds.
ChainIntact == damage = 0 => Valid(chain)

\* A changed or missing row that pruning has not reached yet makes a
\* verification fail, however much is sealed and pruned around it.
DamageShows ==
    (\E e \in Entries : ~entry[e].original /\ entry[e].seq >= chain.first) => ~Valid(chain)

\* The verification tells a damaged chain from one that is not, and the sequence
\* never outgrows the entries written.
ValidIffUndamaged == AuditTypeOK /\ ChainIntact /\ DamageShows

\* The position and hash of a sealed row never change, and the row is never
\* handed out to a second position.
SealedIsImmutable ==
    [][\A e \in Sealed :
         /\ entry'[e].seq = entry[e].seq
         /\ entry'[e].previous = entry[e].previous
         /\ entry'[e].hash = entry[e].hash]_auditVars

\* Every stored entry is sealed, even if newer ones keep coming.
EntriesAreSealed == \A e \in Entries : entry[e].status = "stored" ~> entry[e].seq # 0
=============================================================================
