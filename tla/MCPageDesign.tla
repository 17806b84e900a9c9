----------------------------- MODULE MCPageDesign -----------------------------
(* PageDesign for TLC: tabs are alike. *)
EXTENDS PageDesign, TLC

Symmetry == Permutations(Editors)

=============================================================================
