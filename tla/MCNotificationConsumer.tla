----------------------- MODULE MCNotificationConsumer -----------------------
(* Instances of NotificationConsumer for TLC. *)
EXTENDS NotificationConsumer
=============================================================================
