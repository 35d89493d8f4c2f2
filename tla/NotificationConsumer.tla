------------------------ MODULE NotificationConsumer ------------------------
(***************************************************************************)
(* The consumer group that turns message.created events into notification  *)
(* rows.  Kafka redelivers whatever lies behind the committed offset: after*)
(* a crash, a rebalance or a handler that throws.  processed_events makes  *)
(* the side effect idempotent.                                             *)
(*                                                                         *)
(* The group protocol, offsets and the log are kafkajs and the broker, as  *)
(* the handler in eachMessage meets them.  The log is fed by any order and *)
(* any repetition of events, which covers whatever the outbox announces.   *)
(***************************************************************************)
EXTENDS Integers, Sequences

CONSTANTS
    Consumers,     \* API processes, each one member of the consumer group
    NoConsumer,
    Partitions,
    Valid,         \* events that parseMessageCreatedEvent accepts
    Malformed,     \* payloads it rejects
    Empty,         \* records without a value
    FromBeginning, \* KAFKA_NOTIFICATION_CONSUMER_FROM_BEGINNING
    MaxLog,        \* bound: records per partition
    MaxFaults      \* bound: crashes, rebalances and failing handlers

Records == Valid \cup Malformed \cup Empty

ASSUME ConsumerAssumption ==
    /\ NoConsumer \notin Consumers
    /\ FromBeginning \in BOOLEAN
    /\ MaxLog \in Nat /\ MaxFaults \in Nat

VARIABLES
    log,       \* log[p]: the records of partition p
    owner,     \* owner[p]: the member p is assigned to
    position,  \* position[p]: records its owner has got through or skipped
    resolved,  \* resolved[p]: last offset its owner resolved, -1 if none
    committed, \* committed[p]: the group's committed offset, -1 if none
    task,      \* task[c]: the record c's eachMessage works on
    phase,     \* phase[c]: how far it is
    processed, \* committed rows of processed_events
    notified,  \* committed rows of notifications, by their event
    dlq,       \* payloads in chat.message.dlq.v1
    faults     \* counts up to MaxFaults

kafkaVars    == <<log, owner, position, resolved, committed>>
databaseVars == <<processed, notified>>
vars == <<kafkaVars, task, phase, databaseVars, dlq, faults>>

\* "marked": the processed_events row is inserted, the transaction still open.
Phases == {"idle", "received", "marked", "done"}
NoTask == <<>>

Record(c) == log[task[c][1]][task[c][2]]

-----------------------------------------------------------------------------
(* Kafka. *)

Produce(p, e) ==
    /\ Len(log[p]) < MaxLog
    /\ log' = [log EXCEPT ![p] = Append(@, e)]
    /\ UNCHANGED <<owner, position, resolved, committed, task, phase,
                   databaseVars, dlq, faults>>

\* Mutant: subscribe is not given fromBeginning.
StartAtLatest(p) == IF committed[p] >= 0 THEN committed[p] ELSE Len(log[p])

\* Where a member starts to read.  Without a committed offset kafkajs asks for
\* the earliest or the latest one, each time the partition is assigned.
StartOffset(p) ==
    IF committed[p] >= 0 THEN committed[p]
    ELSE IF FromBeginning THEN 0 ELSE Len(log[p])

\* Partition p is assigned to a member that is not inside its handler.
Assign(c, p) ==
    /\ owner[p] = NoConsumer
    /\ phase[c] = "idle"
    /\ owner' = [owner EXCEPT ![p] = c]
    /\ position' = [position EXCEPT ![p] = StartOffset(p)]
    /\ resolved' = [resolved EXCEPT ![p] = -1]
    /\ UNCHANGED <<log, committed, task, phase, databaseVars, dlq, faults>>

\* The group takes p away: a rebalance, or a session timeout that the member's
\* running handler does not notice.
Revoke(p) ==
    /\ owner[p] # NoConsumer
    /\ faults < MaxFaults
    /\ faults' = faults + 1
    /\ owner' = [owner EXCEPT ![p] = NoConsumer]
    /\ UNCHANGED <<log, position, resolved, committed, task, phase,
                   databaseVars, dlq>>

\* Only resolved offsets are committed, and those of a member that no longer
\* owns p are refused by the broker.
CommitOffset(c, p) ==
    /\ owner[p] = c
    /\ resolved[p] > committed[p]
    /\ committed' = [committed EXCEPT ![p] = resolved[p]]
    /\ UNCHANGED <<log, owner, position, resolved, task, phase, databaseVars,
                   dlq, faults>>

\* The process dies: its transaction is rolled back, its partitions are free.
Crash(c) ==
    /\ faults < MaxFaults
    /\ faults' = faults + 1
    /\ task' = [task EXCEPT ![c] = NoTask]
    /\ phase' = [phase EXCEPT ![c] = "idle"]
    /\ owner' = [p \in Partitions |->
                   IF owner[p] = c THEN NoConsumer ELSE owner[p]]
    /\ UNCHANGED <<log, position, resolved, committed, databaseVars, dlq>>

-----------------------------------------------------------------------------
(* eachMessage. *)

Receive(c, p) ==
    /\ phase[c] = "idle" /\ owner[p] = c
    /\ position[p] < Len(log[p])
    /\ task' = [task EXCEPT ![c] = <<p, position[p] + 1>>]
    /\ phase' = [phase EXCEPT ![c] = "received"]
    /\ UNCHANGED <<kafkaVars, databaseVars, dlq, faults>>

\* A member that has not noticed the loss of p works on the rest of the batch
\* it fetched.
ReceiveStale(c, p) ==
    /\ phase[c] = "idle" /\ owner[p] # c
    /\ faults < MaxFaults
    /\ faults' = faults + 1
    /\ \E k \in DOMAIN log[p] : task' = [task EXCEPT ![c] = <<p, k>>]
    /\ phase' = [phase EXCEPT ![c] = "received"]
    /\ UNCHANGED <<kafkaVars, databaseVars, dlq>>

\* A record without a value is logged and passed over.
IgnoreEmpty(c) ==
    /\ phase[c] = "received" /\ Record(c) \in Empty
    /\ phase' = [phase EXCEPT ![c] = "done"]
    /\ UNCHANGED <<kafkaVars, task, databaseVars, dlq, faults>>

\* publishToDlq.
PublishToDlq(c) ==
    /\ phase[c] = "received" /\ Record(c) \in Malformed
    /\ dlq' = dlq \cup {Record(c)}
    /\ phase' = [phase EXCEPT ![c] = "done"]
    /\ UNCHANGED <<kafkaVars, task, databaseVars, faults>>

\* Mutant: the marker is inserted on a connection of its own.
MarkAutocommitted(c) ==
    /\ phase[c] = "received" /\ Record(c) \in Valid
    /\ Record(c) \notin processed
    /\ processed' = processed \cup {Record(c)}
    /\ phase' = [phase EXCEPT ![c] = "marked"]
    /\ UNCHANGED <<kafkaVars, task, notified, dlq, faults>>

\* BEGIN, INSERT INTO processed_events ... ON CONFLICT DO NOTHING.  The INSERT
\* waits for a transaction that has inserted the same key and is still open.
MarkProcessed(c) ==
    /\ phase[c] = "received" /\ Record(c) \in Valid
    /\ Record(c) \notin processed
    /\ \A d \in Consumers : phase[d] = "marked" => Record(d) # Record(c)
    /\ phase' = [phase EXCEPT ![c] = "marked"]
    /\ UNCHANGED <<kafkaVars, task, databaseVars, dlq, faults>>

\* The INSERT meets a committed row: ROLLBACK, "duplicate".
IgnoreDuplicate(c) ==
    /\ phase[c] = "received" /\ Record(c) \in Valid
    /\ Record(c) \in processed
    /\ phase' = [phase EXCEPT ![c] = "done"]
    /\ UNCHANGED <<kafkaVars, task, databaseVars, dlq, faults>>

\* INSERT INTO notifications ... ON CONFLICT DO NOTHING, COMMIT.
CommitNotification(c) ==
    /\ phase[c] = "marked"
    /\ processed' = processed \cup {Record(c)}
    /\ notified' = notified \cup {Record(c)}
    /\ phase' = [phase EXCEPT ![c] = "done"]
    /\ UNCHANGED <<kafkaVars, task, dlq, faults>>

\* Mutant: the handler logs the error and returns.
Swallow(c) ==
    /\ phase[c] \in {"received", "marked"}
    /\ Record(c) \notin Empty
    /\ faults < MaxFaults
    /\ faults' = faults + 1
    /\ phase' = [phase EXCEPT ![c] = "done"]
    /\ UNCHANGED <<kafkaVars, task, databaseVars, dlq>>

\* The database fails (ROLLBACK) or the DLQ producer is missing or fails: the
\* handler throws, and kafkajs calls it again for the same record.
Throw(c) ==
    /\ phase[c] \in {"received", "marked"}
    /\ Record(c) \notin Empty
    /\ faults < MaxFaults
    /\ faults' = faults + 1
    /\ dlq' \in {dlq, dlq \cup ({Record(c)} \cap Malformed)}
    /\ task' = [task EXCEPT ![c] = NoTask]
    /\ phase' = [phase EXCEPT ![c] = "idle"]
    /\ UNCHANGED <<kafkaVars, databaseVars>>

\* The handler returns: kafkajs resolves the offset if c still owns p.
Resolve(c) ==
    /\ phase[c] = "done"
    /\ IF owner[task[c][1]] = c
       THEN /\ position' = [position EXCEPT ![task[c][1]] = task[c][2]]
            /\ resolved' = [resolved EXCEPT ![task[c][1]] = task[c][2]]
       ELSE UNCHANGED <<position, resolved>>
    /\ task' = [task EXCEPT ![c] = NoTask]
    /\ phase' = [phase EXCEPT ![c] = "idle"]
    /\ UNCHANGED <<log, owner, committed, databaseVars, dlq, faults>>

-----------------------------------------------------------------------------
Init ==
    /\ log = [p \in Partitions |-> <<>>]
    /\ owner = [p \in Partitions |-> NoConsumer]
    /\ position = [p \in Partitions |-> 0]
    /\ resolved = [p \in Partitions |-> -1]
    /\ committed = [p \in Partitions |-> -1]
    /\ task = [c \in Consumers |-> NoTask]
    /\ phase = [c \in Consumers |-> "idle"]
    /\ processed = {} /\ notified = {} /\ dlq = {}
    /\ faults = 0

Handle(c) ==
    \/ IgnoreEmpty(c)
    \/ PublishToDlq(c)
    \/ MarkProcessed(c)
    \/ IgnoreDuplicate(c)
    \/ CommitNotification(c)
    \/ Resolve(c)

Next ==
    \/ \E p \in Partitions, e \in Records : Produce(p, e)
    \/ \E c \in Consumers, p \in Partitions :
          \/ Assign(c, p) \/ CommitOffset(c, p)
          \/ Receive(c, p) \/ ReceiveStale(c, p)
    \/ \E p \in Partitions : Revoke(p)
    \/ \E c \in Consumers : Handle(c) \/ Throw(c) \/ Crash(c)

Spec == Init /\ [][Next]_vars

\* The group assigns free partitions and kafkajs keeps fetching, calling the
\* handler and committing.  Faults are never forced.
Fairness ==
    /\ \A p \in Partitions : WF_vars(\E c \in Consumers : Assign(c, p))
    /\ \A c \in Consumers :
         /\ WF_vars(Handle(c))
         /\ \A p \in Partitions :
              WF_vars(Receive(c, p)) /\ WF_vars(CommitOffset(c, p))

FairSpec == Spec /\ Fairness

-----------------------------------------------------------------------------
(* Properties. *)

TypeOK ==
    /\ log \in [Partitions -> Seq(Records)]
    /\ owner \in [Partitions -> Consumers \cup {NoConsumer}]
    /\ position \in [Partitions -> Nat]
    /\ resolved \in [Partitions -> Nat \cup {-1}]
    /\ committed \in [Partitions -> Nat \cup {-1}]
    /\ task \in [Consumers -> {NoTask} \cup (Partitions \X (Nat \ {0}))]
    /\ phase \in [Consumers -> Phases]
    /\ \A c \in Consumers :
         /\ task[c] = NoTask <=> phase[c] = "idle"
         /\ task[c] # NoTask => task[c][2] <= Len(log[task[c][1]])
    /\ processed \subseteq Valid /\ notified \subseteq Valid
    /\ dlq \subseteq Malformed
    /\ faults \in 0..MaxFaults

Handled(e) == e \in Empty \cup dlq \cup notified

\* An acknowledged record has had its effect.  Nothing is behind the committed
\* offset of the group that is not notified, in the DLQ or empty, although
\* handlers fail, members crash and are replaced while still at work.
CommittedHandled ==
    FromBeginning =>
        \A p \in Partitions : \A k \in 1..committed[p] : Handled(log[p][k])

\* The processed_events marker and the notification stand and fall together: a
\* marker alone would make the redelivered event a duplicate and lose it.
MarkerWithEffect == processed = notified

\* Reading from the beginning, every event that reaches Kafka notifies its
\* recipient, and every malformed payload reaches the DLQ.
EventuallyHandled ==
    \A p \in Partitions : \A e \in Records :
        (\E k \in DOMAIN log[p] : log[p][k] = e) ~> Handled(e)
=============================================================================
