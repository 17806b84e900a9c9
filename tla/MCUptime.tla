------------------------------- MODULE MCUptime -------------------------------
\* Model values for Uptime: the components are interchangeable.
EXTENDS Uptime, TLC

Symmetry == Permutations(Components)
=============================================================================
