--------------------------- MODULE MCPresenceStore ---------------------------
(* Instances of PresenceStore for TLC. *)
EXTENDS PresenceStore, TLC

Symmetry == Permutations(Sockets)
=============================================================================
