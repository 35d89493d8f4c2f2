--------------------------- MODULE MCPresenceServer ---------------------------
(* Instances of PresenceServer for TLC. *)
EXTENDS PresenceServer
=============================================================================
