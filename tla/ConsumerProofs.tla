--------------------------- MODULE ConsumerProofs ---------------------------
(***************************************************************************)
(* Proofs about NotificationConsumer: type correctness, that the marker of *)
(* an event and its notification stand together, and that nothing behind a *)
(* committed offset is unhandled, for any members, partitions and faults.  *)
(***************************************************************************)
EXTENDS NotificationConsumer, TLAPS

\* A member at work is on the record after its position, if it owns the
\* partition, and once it is done the record has had its effect.
WorkInv ==
    \A c \in Consumers : task[c] # NoTask =>
        /\ owner[task[c][1]] = c => task[c][2] = position[task[c][1]] + 1
        /\ phase[c] = "marked" => Record(c) \in Valid
        /\ phase[c] = "done" => Handled(Record(c))

\* The first n records of p are handled.
Behind(p, n) == \A k \in 1..n : Handled(log[p][k])

OffsetInv ==
    \A p \in Partitions :
        /\ committed[p] <= Len(log[p])
        /\ FromBeginning => Behind(p, committed[p])
        /\ owner[p] # NoConsumer =>
             /\ position[p] <= Len(log[p])
             /\ resolved[p] <= position[p]
             /\ FromBeginning => Behind(p, position[p])

ConsumerInv == TypeOK /\ MarkerWithEffect /\ WorkInv /\ OffsetInv

LEMMA ConsumerInit == Init => ConsumerInv
<1> SUFFICES ASSUME Init PROVE ConsumerInv
  OBVIOUS
<1> USE ConsumerAssumption
<1>1. log \in [Partitions -> Seq(Records)] /\ \A p \in Partitions : Len(log[p]) = 0
  BY DEF Init
<1>2. TypeOK
  BY <1>1 DEF Init, TypeOK, Phases, NoTask
<1>3. OffsetInv
  BY <1>1 DEF Init, OffsetInv, Behind
<1> QED BY <1>2, <1>3 DEF Init, ConsumerInv, MarkerWithEffect, WorkInv

\* What is handled stays handled.
LEMMA HandledStays ==
    ASSUME dlq \subseteq dlq', notified \subseteq notified', NEW e, Handled(e)
    PROVE  Handled(e)'
BY DEF Handled

\* A member at work is on a record of the log.
LEMMA TaskOnRecord ==
    ASSUME TypeOK, NEW c \in Consumers, phase[c] # "idle"
    PROVE  /\ task[c] # NoTask
           /\ task[c][1] \in Partitions /\ task[c][2] \in Nat \ {0}
           /\ task[c][2] \in 1 .. Len(log[task[c][1]])
           /\ Record(c) \in Records
<1>1. /\ task[c] # NoTask
      /\ task[c] \in Partitions \X (Nat \ {0})
      /\ task[c][2] <= Len(log[task[c][1]])
  BY DEF TypeOK
<1>2. log[task[c][1]] \in Seq(Records)
  BY <1>1 DEF TypeOK
<1>3. task[c][2] \in 1 .. Len(log[task[c][1]])
  BY <1>1, <1>2
<1> QED BY <1>1, <1>2, <1>3 DEF Record

-----------------------------------------------------------------------------
(* Kafka. *)

LEMMA ProduceStep ==
    ASSUME ConsumerInv, NEW p \in Partitions, NEW e \in Records, Produce(p, e)
    PROVE  ConsumerInv'
<1>1. TypeOK /\ log' = [log EXCEPT ![p] = Append(@, e)]
  BY DEF ConsumerInv, Produce
<1>2. log' \in [Partitions -> Seq(Records)]
  BY <1>1 DEF TypeOK
<1>3. ASSUME NEW q \in Partitions
      PROVE  /\ Len(log[q]) \in Nat /\ Len(log'[q]) >= Len(log[q])
             /\ \A k \in 1 .. Len(log[q]) : log'[q][k] = log[q][k]
  <2>1. log[q] \in Seq(Records)
    BY <1>1 DEF TypeOK
  <2>2. log'[q] = IF q = p THEN Append(log[q], e) ELSE log[q]
    BY <1>1 DEF TypeOK
  <2> QED BY <2>1, <2>2
<1>4. ASSUME NEW c \in Consumers, task[c] # NoTask
      PROVE  /\ task[c][2] <= Len(log'[task[c][1]])
             /\ Record(c)' = Record(c)
  <2>1. phase[c] # "idle"
    BY <1>1, <1>4 DEF TypeOK
  <2>2. task[c][1] \in Partitions /\ task[c][2] \in 1 .. Len(log[task[c][1]])
    BY <1>1, <2>1, TaskOnRecord
  <2> QED BY <1>3, <2>2 DEF Record, Produce
<1>5. TypeOK'
  BY <1>1, <1>2, <1>4 DEF TypeOK, Produce, databaseVars
<1>6. WorkInv'
  BY <1>4 DEF ConsumerInv, WorkInv, Produce, Handled, databaseVars
<1>7. OffsetInv'
  <2> SUFFICES ASSUME NEW q \in Partitions
               PROVE  /\ committed[q] <= Len(log'[q])
                      /\ FromBeginning => \A k \in 1..committed[q] : Handled(log'[q][k])
                      /\ owner[q] # NoConsumer =>
                           /\ position[q] <= Len(log'[q])
                           /\ resolved[q] <= position[q]
                           /\ FromBeginning =>
                                \A k \in 1..position[q] : Handled(log'[q][k])
    BY DEF OffsetInv, Behind, Produce, Handled, databaseVars
  <2>1. committed[q] \in Nat \cup {-1} /\ position[q] \in Nat
    BY <1>1 DEF TypeOK
  <2>2. committed[q] <= Len(log[q])
    BY DEF ConsumerInv, OffsetInv
  <2>3. FromBeginning => \A k \in 1..committed[q] : Handled(log[q][k])
    BY DEF ConsumerInv, OffsetInv, Behind
  <2>4. owner[q] # NoConsumer =>
          /\ position[q] <= Len(log[q]) /\ resolved[q] <= position[q]
          /\ FromBeginning => \A k \in 1..position[q] : Handled(log[q][k])
    BY DEF ConsumerInv, OffsetInv, Behind
  <2> QED BY <1>3, <2>1, <2>2, <2>3, <2>4
<1> QED BY <1>5, <1>6, <1>7 DEF ConsumerInv, MarkerWithEffect, Produce, databaseVars

\* An idle member gets a free partition, and starts behind what is handled.
LEMMA AssignStep ==
    ASSUME ConsumerInv, NEW c \in Consumers, NEW p \in Partitions, Assign(c, p)
    PROVE  ConsumerInv'
<1> USE ConsumerAssumption
<1>1. /\ TypeOK /\ phase[c] = "idle" /\ owner[p] = NoConsumer
      /\ UNCHANGED <<log, committed, task, phase, processed, notified, dlq, faults>>
  BY DEF ConsumerInv, Assign, databaseVars
<1>2. /\ log[p] \in Seq(Records) /\ Len(log[p]) \in Nat
      /\ committed[p] \in Nat \cup {-1} /\ committed[p] <= Len(log[p])
  BY <1>1 DEF TypeOK, ConsumerInv, OffsetInv
<1>3. StartOffset(p) \in Nat /\ StartOffset(p) <= Len(log[p])
  BY <1>2 DEF StartOffset
<1>4. FromBeginning => Behind(p, StartOffset(p))
  <2>1. ASSUME FromBeginning, committed[p] >= 0
        PROVE  Behind(p, StartOffset(p))
    BY <2>1 DEF ConsumerInv, OffsetInv, StartOffset
  <2>2. ASSUME FromBeginning, ~ committed[p] >= 0
        PROVE  Behind(p, StartOffset(p))
    BY <2>2 DEF StartOffset, Behind
  <2> QED BY <2>1, <2>2
<1>5. /\ owner' = [owner EXCEPT ![p] = c]
      /\ position' = [position EXCEPT ![p] = StartOffset(p)]
      /\ resolved' = [resolved EXCEPT ![p] = -1]
  BY DEF Assign
<1>6. TypeOK'
  BY <1>1, <1>3, <1>5 DEF TypeOK
<1>7. WorkInv'
  <2> SUFFICES ASSUME NEW d \in Consumers, task[d] # NoTask
               PROVE  /\ owner'[task[d][1]] = d =>
                           task[d][2] = position'[task[d][1]] + 1
                      /\ phase[d] = "marked" => Record(d) \in Valid
                      /\ phase[d] = "done" => Handled(Record(d))
    BY <1>1 DEF WorkInv, Record, Handled
  <2>1. d # c /\ phase[d] # "idle"
    BY <1>1 DEF TypeOK
  <2>2. task[d][1] \in Partitions
    BY <1>1, <2>1, TaskOnRecord
  <2>3. owner'[task[d][1]] = d =>
          /\ owner[task[d][1]] = d
          /\ position'[task[d][1]] = position[task[d][1]]
    BY <1>1, <1>5, <2>1, <2>2 DEF TypeOK
  <2> QED BY <2>3 DEF ConsumerInv, WorkInv
<1>8. OffsetInv'
  <2> SUFFICES ASSUME NEW q \in Partitions
               PROVE  /\ committed[q] <= Len(log[q])
                      /\ FromBeginning => Behind(q, committed[q])
                      /\ owner'[q] # NoConsumer =>
                           /\ position'[q] <= Len(log[q])
                           /\ resolved'[q] <= position'[q]
                           /\ FromBeginning => Behind(q, position'[q])
    BY <1>1 DEF OffsetInv, Behind, Handled
  <2>1. CASE q = p
    <3>1. position'[q] = StartOffset(p) /\ resolved'[q] = -1
      BY <1>1, <1>5, <2>1 DEF TypeOK
    <3> QED BY <1>3, <1>4, <2>1, <3>1 DEF ConsumerInv, OffsetInv
  <2>2. CASE q # p
    <3>1. /\ position'[q] = position[q] /\ resolved'[q] = resolved[q]
          /\ owner'[q] = owner[q]
      BY <1>1, <1>5, <2>2 DEF TypeOK
    <3> QED BY <3>1 DEF ConsumerInv, OffsetInv
  <2> QED BY <2>1, <2>2
<1> QED BY <1>1, <1>6, <1>7, <1>8 DEF ConsumerInv, MarkerWithEffect

LEMMA RevokeStep ==
    ASSUME ConsumerInv, NEW p \in Partitions, Revoke(p)
    PROVE  ConsumerInv'
<1> USE ConsumerAssumption
<1>1. /\ TypeOK /\ owner' = [owner EXCEPT ![p] = NoConsumer]
      /\ UNCHANGED <<log, position, resolved, committed, task, phase,
                     processed, notified, dlq>>
      /\ faults < MaxFaults /\ faults' = faults + 1
  BY DEF ConsumerInv, Revoke, databaseVars
<1>2. TypeOK'
  BY <1>1 DEF TypeOK
<1>3. \A q \in Partitions : owner'[q] \in {owner[q], NoConsumer}
  BY <1>1 DEF TypeOK
<1>4. WorkInv'
  <2> SUFFICES ASSUME NEW d \in Consumers, task[d] # NoTask
               PROVE  owner'[task[d][1]] = d => owner[task[d][1]] = d
    BY <1>1 DEF ConsumerInv, WorkInv, Record, Handled
  <2>1. phase[d] # "idle"
    BY <1>1 DEF TypeOK
  <2> QED BY <1>1, <1>3, <2>1, TaskOnRecord
<1>5. OffsetInv'
  BY <1>1, <1>3 DEF ConsumerInv, OffsetInv, Behind, Handled
<1> QED BY <1>1, <1>2, <1>4, <1>5 DEF ConsumerInv, MarkerWithEffect

\* The committed offset moves to one that is resolved, and so handled.
LEMMA CommitOffsetStep ==
    ASSUME ConsumerInv, NEW c \in Consumers, NEW p \in Partitions, CommitOffset(c, p)
    PROVE  ConsumerInv'
<1> USE ConsumerAssumption
<1>1. /\ TypeOK /\ owner[p] = c /\ owner[p] # NoConsumer
      /\ committed' = [committed EXCEPT ![p] = resolved[p]]
      /\ UNCHANGED <<log, owner, position, resolved, task, phase,
                     processed, notified, dlq, faults>>
  BY DEF ConsumerInv, CommitOffset, databaseVars
<1>2. TypeOK'
  BY <1>1 DEF TypeOK
<1>3. WorkInv'
  BY <1>1 DEF ConsumerInv, WorkInv, Record, Handled
<1>4. OffsetInv'
  <2> SUFFICES ASSUME NEW q \in Partitions
               PROVE  /\ committed'[q] <= Len(log[q])
                      /\ FromBeginning => Behind(q, committed'[q])
    BY <1>1 DEF ConsumerInv, OffsetInv, Behind, Handled
  <2>1. CASE q = p
    <3>1. /\ committed'[q] = resolved[q] /\ resolved[q] \in Nat \cup {-1}
          /\ position[q] \in Nat /\ Len(log[q]) \in Nat
      BY <1>1, <2>1 DEF TypeOK
    <3>2. /\ resolved[q] <= position[q] /\ position[q] <= Len(log[q])
          /\ FromBeginning => Behind(q, position[q])
      BY <1>1, <2>1 DEF ConsumerInv, OffsetInv
    <3> QED BY <3>1, <3>2 DEF Behind
  <2>2. CASE q # p
    BY <1>1, <2>2 DEF TypeOK, ConsumerInv, OffsetInv
  <2> QED BY <2>1, <2>2
<1> QED BY <1>1, <1>2, <1>3, <1>4 DEF ConsumerInv, MarkerWithEffect

-----------------------------------------------------------------------------
(* eachMessage. *)

\* A member takes up a record: the next one, or, without owning the partition,
\* any.
LEMMA ReceiveStep ==
    ASSUME ConsumerInv, NEW c \in Consumers, NEW p \in Partitions,
           Receive(c, p) \/ ReceiveStale(c, p)
    PROVE  ConsumerInv'
<1> USE ConsumerAssumption
<1>1. /\ TypeOK /\ phase' = [phase EXCEPT ![c] = "received"]
      /\ UNCHANGED <<log, owner, position, resolved, committed, processed,
                     notified, dlq>>
      /\ faults' \in 0..MaxFaults
  BY DEF ConsumerInv, Receive, ReceiveStale, kafkaVars, databaseVars, TypeOK
<1>2. log[p] \in Seq(Records) /\ Len(log[p]) \in Nat /\ position[p] \in Nat
  BY <1>1 DEF TypeOK
<1>3. \E k \in 1 .. Len(log[p]) :
        /\ task' = [task EXCEPT ![c] = <<p, k>>]
        /\ owner[p] = c => k = position[p] + 1
  <2>1. CASE Receive(c, p)
    <3>1. position[p] + 1 \in 1 .. Len(log[p])
      BY <1>2, <2>1 DEF Receive
    <3> QED BY <2>1, <3>1 DEF Receive
  <2>2. CASE ReceiveStale(c, p)
    <3>1. DOMAIN log[p] = 1 .. Len(log[p])
      BY <1>2
    <3>2. PICK k \in DOMAIN log[p] : task' = [task EXCEPT ![c] = <<p, k>>]
      BY <2>2 DEF ReceiveStale
    <3>3. owner[p] # c
      BY <2>2 DEF ReceiveStale
    <3> QED BY <3>1, <3>2, <3>3
  <2> QED BY <2>1, <2>2
<1>4. PICK k \in 1 .. Len(log[p]) :
        /\ task' = [task EXCEPT ![c] = <<p, k>>]
        /\ owner[p] = c => k = position[p] + 1
  BY <1>3
<1>5. /\ task'[c] = <<p, k>> /\ phase'[c] = "received" /\ task'[c] # NoTask
      /\ task'[c][1] = p /\ task'[c][2] = k
      /\ \A d \in Consumers \ {c} : task'[d] = task[d] /\ phase'[d] = phase[d]
  BY <1>1, <1>4 DEF TypeOK, NoTask
<1>6. TypeOK'
  <2>1. task' \in [Consumers -> {NoTask} \cup (Partitions \X (Nat \ {0}))]
    BY <1>1, <1>2, <1>4 DEF TypeOK
  <2>2. phase' \in [Consumers -> Phases]
    BY <1>1 DEF TypeOK, Phases
  <2>3. ASSUME NEW d \in Consumers
        PROVE  /\ task'[d] = NoTask <=> phase'[d] = "idle"
               /\ task'[d] # NoTask => task'[d][2] <= Len(log'[task'[d][1]])
    <3>1. CASE d = c
      <4>1. k <= Len(log[p])
        BY <1>2
      <4>2. task'[d] # NoTask /\ phase'[d] # "idle"
        BY <1>5, <3>1
      <4>3. task'[d][2] <= Len(log'[task'[d][1]])
        BY <1>1, <1>5, <3>1, <4>1
      <4> QED BY <4>2, <4>3
    <3>2. CASE d # c
      BY <1>1, <1>5, <3>2 DEF TypeOK
    <3> QED BY <3>1, <3>2
  <2> QED BY <1>1, <2>1, <2>2, <2>3 DEF TypeOK
<1>7. WorkInv'
  <2> SUFFICES ASSUME NEW d \in Consumers, task'[d] # NoTask
               PROVE  /\ owner[task'[d][1]] = d =>
                           task'[d][2] = position[task'[d][1]] + 1
                      /\ phase'[d] = "marked" => log[task'[d][1]][task'[d][2]] \in Valid
                      /\ phase'[d] = "done" => Handled(log[task'[d][1]][task'[d][2]])
    BY <1>1 DEF WorkInv, Record, Handled
  <2>1. CASE d = c
    BY <1>4, <1>5, <2>1
  <2>2. CASE d # c
    BY <1>5, <2>2 DEF ConsumerInv, WorkInv, Record
  <2> QED BY <2>1, <2>2
<1>8. OffsetInv'
  BY <1>1 DEF ConsumerInv, OffsetInv, Behind, Handled
<1> QED BY <1>1, <1>6, <1>7, <1>8 DEF ConsumerInv, MarkerWithEffect

\* The handler of c gets on with its record, and what it needs for that is in
\* the tables or in the DLQ.
LEMMA HandlerMoves ==
    ASSUME ConsumerInv, NEW c \in Consumers, phase[c] # "idle",
           NEW ph \in {"marked", "done"}, phase' = [phase EXCEPT ![c] = ph],
           UNCHANGED <<kafkaVars, task, faults>>,
           dlq \subseteq dlq', dlq' \subseteq Malformed,
           notified \subseteq notified', notified' \subseteq Valid,
           processed' = notified',
           ph = "marked" => Record(c) \in Valid,
           ph = "done" => Record(c) \in Empty \cup dlq' \cup notified'
    PROVE  ConsumerInv'
<1>1. /\ TypeOK
      /\ UNCHANGED <<log, owner, position, resolved, committed>>
  BY DEF ConsumerInv, kafkaVars
<1>2. phase'[c] = ph /\ \A d \in Consumers \ {c} : phase'[d] = phase[d]
  BY <1>1 DEF TypeOK
<1>3. TypeOK'
  <2>1. phase' \in [Consumers -> Phases]
    BY <1>1 DEF TypeOK, Phases
  <2>2. \A d \in Consumers : task[d] = NoTask <=> phase'[d] = "idle"
    BY <1>1, <1>2 DEF TypeOK
  <2> QED BY <1>1, <2>1, <2>2 DEF TypeOK
<1>4. \A e : Handled(e) => Handled(e)'
  BY HandledStays
<1>5. WorkInv'
  <2> SUFFICES ASSUME NEW d \in Consumers, task[d] # NoTask
               PROVE  /\ owner[task[d][1]] = d => task[d][2] = position[task[d][1]] + 1
                      /\ phase'[d] = "marked" => Record(d) \in Valid
                      /\ phase'[d] = "done" => Handled(Record(d))'
    BY <1>1 DEF WorkInv, Record, Handled
  <2>1. Record(d)' = Record(d)
    BY <1>1 DEF Record
  <2>2. CASE d = c
    BY <1>2, <2>1, <2>2 DEF ConsumerInv, WorkInv, Handled
  <2>3. CASE d # c
    <3>1. phase[d] = "done" => Handled(Record(d))
      BY DEF ConsumerInv, WorkInv
    <3>2. phase[d] = "done" => Handled(Record(d))'
      BY <2>1, <3>1, HandledStays DEF Handled
    <3> QED BY <1>2, <2>3, <3>2 DEF ConsumerInv, WorkInv
  <2> QED BY <2>2, <2>3
<1>6. OffsetInv'
  BY <1>1 DEF ConsumerInv, OffsetInv, Behind, Handled
<1> QED BY <1>3, <1>5, <1>6 DEF ConsumerInv, MarkerWithEffect

LEMMA HandlerStep ==
    ASSUME ConsumerInv, NEW c \in Consumers,
           \/ IgnoreEmpty(c) \/ PublishToDlq(c) \/ MarkProcessed(c)
           \/ IgnoreDuplicate(c) \/ CommitNotification(c)
    PROVE  ConsumerInv'
<1>1. /\ TypeOK /\ processed = notified
      /\ notified \subseteq Valid /\ dlq \subseteq Malformed
  BY DEF ConsumerInv, MarkerWithEffect, TypeOK
<1>2. CASE IgnoreEmpty(c)
  BY <1>1, <1>2, HandlerMoves DEF IgnoreEmpty, databaseVars
<1>3. CASE PublishToDlq(c)
  BY <1>1, <1>3, HandlerMoves DEF PublishToDlq, databaseVars
<1>4. CASE MarkProcessed(c)
  BY <1>1, <1>4, HandlerMoves DEF MarkProcessed, databaseVars
<1>5. CASE IgnoreDuplicate(c)
  BY <1>1, <1>5, HandlerMoves DEF IgnoreDuplicate, databaseVars
<1>6. CASE CommitNotification(c)
  <2>1. Record(c) \in Valid
    BY <1>1, <1>6, TaskOnRecord DEF CommitNotification, ConsumerInv, WorkInv
  <2> QED BY <1>1, <1>6, <2>1, HandlerMoves DEF CommitNotification
<1> QED BY <1>2, <1>3, <1>4, <1>5, <1>6

\* The work of c ends.  Positions only change where c owns the partition, and
\* what lies before them is handled.
LEMMA WorkEnds ==
    ASSUME ConsumerInv, NEW c \in Consumers,
           task' = [task EXCEPT ![c] = NoTask],
           phase' = [phase EXCEPT ![c] = "idle"],
           UNCHANGED <<log, committed, processed, notified>>,
           dlq \subseteq dlq', dlq' \subseteq Malformed,
           owner' \in [Partitions -> Consumers \cup {NoConsumer}],
           position' \in [Partitions -> Nat],
           resolved' \in [Partitions -> Nat \cup {-1}],
           faults' \in 0..MaxFaults,
           \A p \in Partitions :
             /\ owner'[p] \in {owner[p], NoConsumer}
             /\ owner[p] # c => position'[p] = position[p]
             /\ owner'[p] # NoConsumer =>
                  /\ position'[p] <= Len(log[p])
                  /\ resolved'[p] <= position'[p]
                  /\ FromBeginning => Behind(p, position'[p])
    PROVE  ConsumerInv'
<1>1. TypeOK
  BY DEF ConsumerInv
<1>2. /\ task'[c] = NoTask /\ phase'[c] = "idle"
      /\ \A d \in Consumers \ {c} : task'[d] = task[d] /\ phase'[d] = phase[d]
  BY <1>1 DEF TypeOK
<1>3. TypeOK'
  <2>1. task' \in [Consumers -> {NoTask} \cup (Partitions \X (Nat \ {0}))]
    BY <1>1 DEF TypeOK
  <2>2. phase' \in [Consumers -> Phases]
    BY <1>1 DEF TypeOK, Phases
  <2>3. ASSUME NEW d \in Consumers
        PROVE  /\ task'[d] = NoTask <=> phase'[d] = "idle"
               /\ task'[d] # NoTask => task'[d][2] <= Len(log[task'[d][1]])
    BY <1>1, <1>2 DEF TypeOK
  <2> QED BY <1>1, <2>1, <2>2, <2>3 DEF TypeOK
<1>4. WorkInv'
  <2> SUFFICES ASSUME NEW d \in Consumers, task'[d] # NoTask
               PROVE  /\ owner'[task'[d][1]] = d =>
                           task'[d][2] = position'[task'[d][1]] + 1
                      /\ phase'[d] = "marked" => Record(d)' \in Valid
                      /\ phase'[d] = "done" => Handled(Record(d))'
    BY DEF WorkInv
  <2>1. d # c /\ task'[d] = task[d] /\ phase'[d] = phase[d] /\ phase[d] # "idle"
    BY <1>1, <1>2 DEF TypeOK
  <2>2. task[d][1] \in Partitions
    BY <1>1, <2>1, TaskOnRecord
  <2>3. owner'[task[d][1]] = d =>
          owner[task[d][1]] = d /\ position'[task[d][1]] = position[task[d][1]]
    BY <2>1, <2>2, ConsumerAssumption
  <2>4. Record(d)' = Record(d)
    BY <2>1 DEF Record
  <2>5. Handled(Record(d)) => Handled(Record(d))'
    BY <2>4 DEF Handled
  <2> QED BY <2>1, <2>3, <2>4, <2>5 DEF ConsumerInv, WorkInv
<1>5. OffsetInv'
  <2> SUFFICES ASSUME NEW q \in Partitions
               PROVE  /\ committed[q] <= Len(log[q])
                      /\ FromBeginning => Behind(q, committed[q])'
                      /\ owner'[q] # NoConsumer =>
                           /\ position'[q] <= Len(log[q])
                           /\ resolved'[q] <= position'[q]
                           /\ FromBeginning => Behind(q, position[q])'
    BY DEF OffsetInv, Behind, Handled
  <2>1. FromBeginning => Behind(q, committed[q])'
    BY DEF ConsumerInv, OffsetInv, Behind, Handled
  <2>2. owner'[q] # NoConsumer /\ FromBeginning => Behind(q, position[q])'
    BY DEF Behind, Handled
  <2> QED BY <2>1, <2>2 DEF ConsumerInv, OffsetInv
<1> QED BY <1>3, <1>4, <1>5 DEF ConsumerInv, MarkerWithEffect

LEMMA ThrowStep ==
    ASSUME ConsumerInv, NEW c \in Consumers, Throw(c)
    PROVE  ConsumerInv'
<1>1. TypeOK /\ OffsetInv
  BY DEF ConsumerInv
<1>2. faults' \in 0..MaxFaults /\ dlq \subseteq dlq' /\ dlq' \subseteq Malformed
  BY <1>1, ConsumerAssumption DEF Throw, TypeOK
<1> QED BY <1>1, <1>2, WorkEnds DEF Throw, kafkaVars, databaseVars, TypeOK, OffsetInv

LEMMA CrashStep ==
    ASSUME ConsumerInv, NEW c \in Consumers, Crash(c)
    PROVE  ConsumerInv'
<1>1. TypeOK /\ OffsetInv
  BY DEF ConsumerInv
<1>2. faults' \in 0..MaxFaults /\ dlq' = dlq /\ dlq \subseteq Malformed
  BY <1>1, ConsumerAssumption DEF Crash, TypeOK
<1>3. /\ owner' \in [Partitions -> Consumers \cup {NoConsumer}]
      /\ \A p \in Partitions : owner'[p] \in {owner[p], NoConsumer}
  BY <1>1 DEF Crash, TypeOK
<1> QED BY <1>1, <1>2, <1>3, WorkEnds DEF Crash, databaseVars, TypeOK, OffsetInv

\* The record that is resolved is handled, and is the one after the position.
LEMMA ResolveStep ==
    ASSUME ConsumerInv, NEW c \in Consumers, Resolve(c)
    PROVE  ConsumerInv'
<1> DEFINE p == task[c][1]  k == task[c][2]
<1>1. /\ TypeOK /\ OffsetInv /\ phase[c] = "done"
      /\ UNCHANGED <<log, owner, committed, processed, notified, dlq, faults>>
  BY DEF ConsumerInv, Resolve, databaseVars
<1>2. /\ task[c] # NoTask /\ p \in Partitions /\ k \in 1 .. Len(log[p])
      /\ Handled(log[p][k])
  BY <1>1, TaskOnRecord DEF ConsumerInv, WorkInv, Record
<1>3. CASE owner[p] = c
  <2>1. /\ position' = [position EXCEPT ![p] = k]
        /\ resolved' = [resolved EXCEPT ![p] = k]
    BY <1>3 DEF Resolve
  <2>2. k = position[p] + 1 /\ position[p] \in Nat /\ c # NoConsumer
    BY <1>1, <1>2, <1>3, ConsumerAssumption DEF ConsumerInv, WorkInv, TypeOK
  <2>3. FromBeginning => Behind(p, k)
    BY <1>1, <1>2, <1>3, <2>2 DEF OffsetInv, Behind
  <2>4. /\ position' \in [Partitions -> Nat]
        /\ resolved' \in [Partitions -> Nat \cup {-1}]
    BY <1>1, <1>2, <2>1 DEF TypeOK
  <2>5. ASSUME NEW q \in Partitions
        PROVE  /\ owner[q] # c => position'[q] = position[q]
               /\ owner[q] # NoConsumer =>
                    /\ position'[q] <= Len(log[q])
                    /\ resolved'[q] <= position'[q]
                    /\ FromBeginning => Behind(q, position'[q])
    <3>1. CASE q = p
      <4>1. position'[q] = k /\ resolved'[q] = k
        BY <1>1, <1>2, <2>1, <3>1 DEF TypeOK
      <4> QED BY <1>2, <1>3, <2>3, <3>1, <4>1
    <3>2. CASE q # p
      <4>1. position'[q] = position[q] /\ resolved'[q] = resolved[q]
        BY <1>1, <2>1, <3>2 DEF TypeOK
      <4> QED BY <1>1, <4>1 DEF OffsetInv
    <3> QED BY <3>1, <3>2
  <2>6. /\ task' = [task EXCEPT ![c] = NoTask]
        /\ phase' = [phase EXCEPT ![c] = "idle"]
        /\ UNCHANGED <<log, owner, committed, processed, notified, dlq, faults>>
    BY DEF Resolve, databaseVars
  <2>7. /\ owner \in [Partitions -> Consumers \cup {NoConsumer}]
        /\ dlq \subseteq Malformed /\ faults \in 0..MaxFaults
    BY <1>1 DEF TypeOK
  <2> HIDE DEF p, k
  <2>8. ASSUME NEW q \in Partitions
        PROVE  /\ owner'[q] \in {owner[q], NoConsumer}
               /\ owner'[q] # NoConsumer => owner[q] # NoConsumer
    BY <2>6
  <2> QED BY <2>4, <2>5, <2>6, <2>7, <2>8, WorkEnds
<1>4. CASE owner[p] # c
  <2>1. UNCHANGED <<position, resolved>>
    BY <1>4 DEF Resolve
  <2> QED BY <1>1, <2>1, WorkEnds DEF Resolve, TypeOK, OffsetInv
<1> QED BY <1>3, <1>4

-----------------------------------------------------------------------------
LEMMA ConsumerStutter == ConsumerInv /\ UNCHANGED vars => ConsumerInv'
BY DEF ConsumerInv, TypeOK, MarkerWithEffect, WorkInv, OffsetInv, Behind,
       Handled, Record, vars, kafkaVars, databaseVars

LEMMA ConsumerInvariant == Spec => []ConsumerInv
<1>1. ConsumerInv /\ [Next]_vars => ConsumerInv'
  BY ProduceStep, AssignStep, RevokeStep, CommitOffsetStep, ReceiveStep,
     HandlerStep, ThrowStep, CrashStep, ResolveStep, ConsumerStutter
     DEF Next, Handle
<1> QED BY ConsumerInit, <1>1, PTL DEF Spec

\* Every variable keeps its type; a member at work is on a record of the log.
THEOREM ConsumerTypeCorrect == Spec => []TypeOK
<1>1. ConsumerInv => TypeOK
  BY DEF ConsumerInv
<1> QED BY <1>1, ConsumerInvariant, PTL

\* The marker of an event and its notification are committed together.
THEOREM MarkerStandsWithEffect == Spec => []MarkerWithEffect
<1>1. ConsumerInv => MarkerWithEffect
  BY DEF ConsumerInv
<1> QED BY <1>1, ConsumerInvariant, PTL

\* Nothing behind a committed offset is unhandled when the group reads from the
\* beginning, whatever members die, lose partitions or fail.
THEOREM NothingCommittedUnhandled == Spec => []CommittedHandled
<1>1. ConsumerInv => CommittedHandled
  BY DEF ConsumerInv, OffsetInv, Behind, CommittedHandled
<1> QED BY <1>1, ConsumerInvariant, PTL
=============================================================================
