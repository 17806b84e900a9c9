------------------------------- MODULE MCMfa -------------------------------
(* Mfa for TLC: authenticators and transactions are alike. *)
EXTENDS Mfa, TLC

Symmetry == Permutations(Devices) \union Permutations(Txns)

=============================================================================
