-------------------------- MODULE OutboxImplements --------------------------
(***************************************************************************)
(* The outbox implements Announcement while its rows commit in sequence    *)
(* order and no lease is outlived (one sender, MaxSlow = 0): a stored      *)
(* message is an accepted one, Kafka's log is the announcement log and     *)
(* dead_lettered is abandoned.                                             *)
(***************************************************************************)
EXTENDS Outbox

Accepted ==
    [c \in Conversations |-> {e \in messages : conversation[e] = c}]

Abandoned == {e \in Seqs : status[e] = "dead_lettered"}

A == INSTANCE Announcement WITH
        Messages <- Seqs, accepted <- Accepted, abandoned <- Abandoned

\* Every step of senders, relay workers, faults and clock is a step of the
\* ordered announcement or invisible to it.
ImplementsAnnouncement == A!Spec
=============================================================================
