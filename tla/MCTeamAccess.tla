---------------------------- MODULE MCTeamAccess ----------------------------
(* TeamAccess for TLC: users, organizations and transactions are alike. *)
EXTENDS TeamAccess, TLC

Symmetry == Permutations(Users) \union Permutations(Orgs) \union Permutations(Txns)

=============================================================================
