---------------------------- MODULE MCStatusBoard ----------------------------
(* The windows of StatusBoard for TLC.                                     *)
EXTENDS StatusBoard

\* A window of one unit of time, with a reminder one unit ahead.
OneWindow == {[start |-> 1, end |-> 2, lead |-> 1]}
=============================================================================
