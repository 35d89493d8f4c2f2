--------------------------- MODULE MCSendMessage ---------------------------
(* Instances of SendMessage for TLC: three racing requests. *)
EXTENDS SendMessage
=============================================================================
