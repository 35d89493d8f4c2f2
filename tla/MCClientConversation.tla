------------------------- MODULE MCClientConversation -------------------------
(* Instances of ClientConversation for TLC. *)
EXTENDS ClientConversation
=============================================================================
