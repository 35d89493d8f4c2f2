------------------------------ MODULE MCOutbox ------------------------------
(* Instances of Outbox for TLC: the processes are interchangeable. *)
EXTENDS Outbox, TLC

Symmetry ==
    Permutations(Conversations) \cup Permutations(Senders)
        \cup Permutations(Workers)
=============================================================================
