------------------------- MODULE MCOutboxImplements -------------------------
(* Instances of OutboxImplements for TLC. *)
EXTENDS OutboxImplements
=============================================================================
