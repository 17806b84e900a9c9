------------------------- MODULE MCNotificationQueue -------------------------
(* Instances of NotificationQueue for TLC: every delivery goes to alice.    *)
EXTENDS NotificationQueue

CONSTANT alice

OneRecipient == [j \in Jobs |-> alice]
=============================================================================
