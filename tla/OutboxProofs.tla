---------------------------- MODULE OutboxProofs ----------------------------
(***************************************************************************)
(* Theorems about Outbox for every number of conversations, senders,       *)
(* workers and events, and every batch size, attempt limit and fault bound.*)
(***************************************************************************)
EXTENDS OutboxImplements, FiniteSetTheorems, TLAPS

USE DEF Seqs, Batch

LEMMA FirstSubset ==
    ASSUME NEW n, NEW S
    PROVE  First(n, S) \subseteq S
BY DEF First

LEMMA CandidatesAreRows ==
    ASSUME NEW w, NEW f
    PROVE  Candidates(w, f) \subseteq {e \in Seqs : status[e] # "none"}
BY DEF Candidates, RowsOf

\* Appending a batch keeps every log a sequence of sets of rows.
LEMMA AppendedType ==
    ASSUME TypeOK, NEW w \in Workers
    PROVE  Appended(w) \in [Conversations -> Seq(SUBSET Seqs)]
<1>1. Batch(w) \subseteq Seqs
  BY DEF TypeOK
<1> SUFFICES ASSUME NEW c \in Conversations
             PROVE  Appended(w)[c] \in Seq(SUBSET Seqs)
  BY DEF Appended
<1> DEFINE records == {e \in Batch(w) : conversation[e] = c}
<1>2. records \in SUBSET Seqs /\ log[c] \in Seq(SUBSET Seqs)
  BY <1>1 DEF TypeOK
<1>3. Append(log[c], records) \in Seq(SUBSET Seqs)
  BY <1>2
<1> QED
  BY <1>2, <1>3 DEF Appended

\* What was in a log stays in it when a batch is appended.
LEMMA AppendedKeeps ==
    ASSUME TypeOK, NEW w \in Workers, log' = Appended(w),
           NEW c \in Conversations, NEW e, Logged(e, c)
    PROVE  Logged(e, c)'
<1>1. log[c] \in Seq(SUBSET Seqs)
  BY DEF TypeOK
<1>2. PICK m \in DOMAIN log[c] : e \in log[c][m]
  BY DEF Logged
<1>3. CASE log'[c] = log[c]
  BY <1>2, <1>3 DEF Logged
<1>4. CASE log'[c] = Append(log[c], {d \in Batch(w) : conversation[d] = c})
  <2>1. m \in DOMAIN log'[c] /\ log'[c][m] = log[c][m]
    BY <1>1, <1>2, <1>4
  <2> QED
    BY <1>2, <2>1 DEF Logged
<1> QED
  BY <1>3, <1>4 DEF Appended

\* Nothing but the batch is new in a log.
LEMMA AppendedOnly ==
    ASSUME TypeOK, NEW w \in Workers, log' = Appended(w),
           NEW c \in Conversations, NEW e, Logged(e, c)', ~ Logged(e, c)
    PROVE  e \in Batch(w) /\ conversation[e] = c
<1> DEFINE records == {d \in Batch(w) : conversation[d] = c}
<1>1. log[c] \in Seq(SUBSET Seqs) /\ records \in SUBSET Seqs
  BY DEF TypeOK
<1>2. PICK m \in DOMAIN log'[c] : e \in log'[c][m]
  BY DEF Logged
<1>3. log'[c] # log[c]
  BY DEF Logged
<1>4. log'[c] = Append(log[c], records)
  BY <1>3 DEF Appended
<1>5. m = Len(log[c]) + 1
  <2>1. m \in 1..Len(log[c]) + 1
    BY <1>1, <1>2, <1>4
  <2>2. m \in 1..Len(log[c]) => log'[c][m] = log[c][m] /\ m \in DOMAIN log[c]
    BY <1>1, <1>4
  <2> QED
    BY <1>1, <1>2, <2>1, <2>2 DEF Logged
<1>6. log'[c][m] = records
  BY <1>1, <1>4, <1>5
<1> QED
  BY <1>2, <1>6

\* The batch itself is in the logs afterwards.
LEMMA AppendedAdds ==
    ASSUME TypeOK, NEW w \in Workers, log' = Appended(w),
           UNCHANGED conversation,
           NEW e \in Batch(w), conversation[e] \in Conversations
    PROVE  Logged(e, conversation[e])'
<1> DEFINE c == conversation[e]
           records == {d \in Batch(w) : conversation[d] = c}
<1>1. log[c] \in Seq(SUBSET Seqs) /\ records \in SUBSET Seqs
  BY DEF TypeOK
<1>2. log'[c] = Append(log[c], records)
  BY DEF Appended
<1>3. Len(log[c]) + 1 \in DOMAIN log'[c] /\ log'[c][Len(log[c]) + 1] = records
  BY <1>1, <1>2
<1>4. e \in records
  OBVIOUS
<1> QED
  BY <1>3, <1>4 DEF Logged

-----------------------------------------------------------------------------
(* Type correctness. *)

LEMMA TypeInit == Init => TypeOK
<1> SUFFICES ASSUME Init PROVE TypeOK
  OBVIOUS
<1>1. nextSeq \in 1..(MaxEvents + 1)
  BY OutboxAssumption DEF Init
<1>2. \A w \in Workers : held[w] \in [Batch(w) -> Nat] /\ Batch(w) \subseteq Seqs
  BY DEF Init, NoRows
<1>3. log \in [Conversations -> Seq(SUBSET Seqs)]
  BY DEF Init
<1>4. faults \in 0..MaxFaults /\ slow \in 0..MaxSlow
  BY OutboxAssumption DEF Init
<1>5. /\ open \in [Senders -> 0..MaxEvents]
      /\ status \in [Seqs -> Statuses]
      /\ conversation \in [Seqs -> Conversations \cup {NoConversation}]
      /\ due \in [Seqs -> BOOLEAN]
      /\ attempts \in [Seqs -> Nat]
  BY OutboxAssumption DEF Init, Statuses
<1>6. /\ pc \in [Workers -> PCs]
      /\ locked \in [Workers -> SUBSET Seqs]
      /\ DOMAIN held = Workers
  BY DEF Init, PCs
<1> QED
  BY <1>1, <1>2, <1>3, <1>4, <1>5, <1>6 DEF Init, TypeOK

LEMMA SenderTypes ==
    ASSUME TypeOK, NEW s \in Senders, SenderNext(s)
    PROVE  TypeOK'
<1> USE OutboxAssumption
<1>1. ASSUME NEW c \in Conversations, InsertOutboxEvent(s, c)
      PROVE  TypeOK'
  <2>1. open' \in [Senders -> 0..MaxEvents] /\ nextSeq' \in 1..(MaxEvents + 1)
    BY <1>1 DEF TypeOK, InsertOutboxEvent
  <2>2. conversation' \in [Seqs -> Conversations \cup {NoConversation}]
    BY <1>1 DEF TypeOK, InsertOutboxEvent
  <2> QED
    BY <1>1, <2>1, <2>2 DEF TypeOK, InsertOutboxEvent, workerVars, auxVars
<1>2. CASE CommitMessage(s)
  <2>1. open[s] \in Seqs
    BY <1>2 DEF TypeOK, CommitMessage
  <2>2. messages' \subseteq Seqs /\ late' \subseteq Seqs
    BY <1>2, <2>1 DEF TypeOK, CommitMessage
  <2>3. status' \in [Seqs -> Statuses] /\ due' \in [Seqs -> BOOLEAN]
    BY <1>2, <2>1 DEF TypeOK, CommitMessage, Statuses
  <2>4. open' \in [Senders -> 0..MaxEvents]
    BY <1>2 DEF TypeOK, CommitMessage
  <2> QED
    BY <1>2, <2>2, <2>3, <2>4 DEF TypeOK, CommitMessage, workerVars
<1>3. CASE RollbackMessage(s)
  BY <1>3 DEF TypeOK, RollbackMessage, workerVars, auxVars
<1> QED
  BY <1>1, <1>2, <1>3 DEF SenderNext

\* A worker's claim and its batch are again sets of rows.
LEMMA WorkerTypes ==
    ASSUME TypeOK, NEW w \in Workers, WorkerStep(w)
    PROVE  TypeOK'
<1>1. CASE ClaimFrontier(w)
  BY <1>1 DEF TypeOK, ClaimFrontier, tableVars, auxVars, PCs
<1>2. CASE LockCandidates(w)
  <2>1. PICK f \in locked[w] :
          LET ids == First(BatchSize, Candidates(w, f)) IN
          /\ locked' = [locked EXCEPT ![w] = @ \cup ids]
          /\ held' = [held EXCEPT ![w] = [e \in ids |-> attempts[e]]]
    BY <1>2 DEF LockCandidates
  <2> DEFINE ids == First(BatchSize, Candidates(w, f))
  <2>2. ids \subseteq Seqs
    BY FirstSubset, CandidatesAreRows
  <2>3. locked' \in [Workers -> SUBSET Seqs]
    BY <2>1, <2>2 DEF TypeOK
  <2>4. DOMAIN held' = Workers
    BY <2>1 DEF TypeOK
  <2>5. ASSUME NEW v \in Workers
        PROVE  Batch(v)' \subseteq Seqs /\ held'[v] \in [Batch(v)' -> Nat]
    <3> HIDE DEF ids
    <3>1. CASE v = w
      <4>1. held'[v] = [e \in ids |-> attempts[e]]
        BY <2>1, <3>1 DEF TypeOK, ids
      <4>2. \A e \in ids : attempts[e] \in Nat
        BY <2>2 DEF TypeOK
      <4> QED
        BY <4>1, <4>2, <2>2
    <3>2. CASE v # w
      BY <2>1, <3>2 DEF TypeOK
    <3> QED
      BY <3>1, <3>2
  <2> QED
    BY <1>2, <2>3, <2>4, <2>5 DEF TypeOK, LockCandidates, tableVars, auxVars, PCs
<1>3. CASE CommitClaim(w)
  <2>1. \A e \in Batch(w) : attempts[e] + 1 \in Nat /\ e \in Seqs
    BY DEF TypeOK
  <2>2. \A v \in Workers : Batch(v)' \subseteq Seqs /\ held'[v] \in [Batch(v)' -> Nat]
    BY <1>3, <2>1 DEF TypeOK, CommitClaim
  <2>3. attempts' \in [Seqs -> Nat]
    BY <1>3 DEF TypeOK, CommitClaim
  <2>4. status' \in [Seqs -> Statuses] /\ due' \in [Seqs -> BOOLEAN]
    BY <1>3 DEF TypeOK, CommitClaim, Statuses
  <2> QED
    BY <1>3, <2>2, <2>3, <2>4 DEF TypeOK, CommitClaim, auxVars, PCs
<1>4. CASE PublishOutboxEvents(w)
  BY <1>4, AppendedType DEF TypeOK, PublishOutboxEvents, tableVars, auxVars, PCs
<1>5. CASE PublishFails(w)
  BY <1>5, AppendedType DEF TypeOK, PublishFails, tableVars, auxVars, PCs
<1>6. CASE MarkOutboxEventsPublished(w)
  <2>1. \A v \in Workers : Batch(v)' \subseteq Seqs /\ held'[v] \in [Batch(v)' -> Nat]
    BY <1>6 DEF TypeOK, MarkOutboxEventsPublished, NoRows
  <2> QED
    BY <1>6, <2>1 DEF TypeOK, MarkOutboxEventsPublished, auxVars, PCs, Statuses
<1>7. ASSUME NEW e \in Batch(w), NEW st \in Statuses, SettleFailed(w, e, st)
      PROVE  TypeOK'
  <2>1. \A v \in Workers : Batch(v)' \subseteq Seqs /\ held'[v] \in [Batch(v)' -> Nat]
    BY <1>7 DEF TypeOK, SettleFailed
  <2>2. status' \in [Seqs -> Statuses] /\ due' \in [Seqs -> BOOLEAN]
    BY <1>7 DEF TypeOK, SettleFailed
  <2> QED
    BY <1>7, <2>1, <2>2 DEF TypeOK, SettleFailed, auxVars, PCs
<1> QED
  BY <1>1, <1>2, <1>3, <1>4, <1>5, <1>6, <1>7
     DEF WorkerStep, DeadLetterOutboxEvent, RescheduleOutboxEvent, Statuses

LEMMA FaultTypes ==
    ASSUME TypeOK, NEW w \in Workers, WorkerFault(w)
    PROVE  TypeOK'
<1>1. CASE MarkFails(w)
  BY <1>1, OutboxAssumption DEF TypeOK, MarkFails, tableVars, PCs
<1>2. CASE Crash(w)
  <2>1. \A v \in Workers : Batch(v)' \subseteq Seqs /\ held'[v] \in [Batch(v)' -> Nat]
    BY <1>2 DEF TypeOK, Crash, NoRows
  <2>2. faults' \in 0..MaxFaults
    BY <1>2, OutboxAssumption DEF TypeOK, Crash
  <2>3. pc' \in [Workers -> PCs] /\ locked' \in [Workers -> SUBSET Seqs]
    BY <1>2 DEF TypeOK, Crash, PCs
  <2> QED
    BY <1>2, <2>1, <2>2, <2>3 DEF TypeOK, Crash, tableVars
<1> QED
  BY <1>1, <1>2 DEF WorkerFault

LEMMA ClockTypes ==
    ASSUME TypeOK, NEW e \in Seqs,
           BackoffElapses(e) \/ LeaseExpires(e) \/ LeaseOutlived(e)
    PROVE  TypeOK'
<1>1. CASE BackoffElapses(e)
  BY <1>1 DEF TypeOK, BackoffElapses, workerVars, auxVars
<1>2. CASE LeaseExpires(e)
  BY <1>2 DEF TypeOK, LeaseExpires, workerVars, auxVars
<1>3. CASE LeaseOutlived(e)
  <2>1. due' \in [Seqs -> BOOLEAN] /\ stale' \subseteq Seqs
    BY <1>3 DEF TypeOK, LeaseOutlived
  <2>2. slow' \in 0..MaxSlow
    BY <1>3, OutboxAssumption DEF TypeOK, LeaseOutlived
  <2> QED
    BY <1>3, <2>1, <2>2 DEF TypeOK, LeaseOutlived, workerVars
<1> QED
  BY <1>1, <1>2, <1>3

LEMMA StutterTypes == TypeOK /\ UNCHANGED vars => TypeOK'
BY DEF TypeOK, vars, tableVars, workerVars, auxVars

\* Every variable keeps its type: rows, batches and logs stay sets, functions
\* and sequences of allocated sequence numbers.
THEOREM TypeCorrect == Spec => []TypeOK
<1>1. TypeOK /\ [Next]_vars => TypeOK'
  BY SenderTypes, WorkerTypes, FaultTypes, ClockTypes, StutterTypes DEF Next
<1> QED
  BY TypeInit, <1>1, PTL DEF Spec

-----------------------------------------------------------------------------
(* No phantom publication, no ghost event.                                 *)
(*                                                                         *)
(* Neither is inductive alone: a row is marked published by a worker that  *)
(* only knows that it has sent its batch, so the invariant must say that   *)
(* the batch of a worker past its send is in the log, that every row in a  *)
(* batch is a committed one, and that a committed row keeps its aggregate. *)

\* Sequence numbers are handed out once, each with its aggregate.
Allocation ==
    /\ \A e \in Seqs : e < nextSeq => conversation[e] \in Conversations
    /\ \A s \in Senders : open[s] < nextSeq
    /\ \A e \in Seqs : status[e] # "none" => e < nextSeq

\* A message and its outbox row are committed by one transaction.
StoredTogether == \A e \in Seqs : status[e] # "none" <=> e \in messages

ClaimedCommitted == \A w \in Workers : \A e \in Batch(w) : status[e] # "none"

SentLogged ==
    \A w \in Workers : pc[w] = "sent" =>
        \A e \in Batch(w) : Logged(e, conversation[e])

PublicationInv ==
    /\ Allocation
    /\ StoredTogether
    /\ ClaimedCommitted
    /\ SentLogged
    /\ NoPhantomPublish
    /\ NoGhostEvent

LEMMA PublicationInit == Init => PublicationInv
BY OutboxAssumption
   DEF Init, PublicationInv, Allocation, StoredTogether, ClaimedCommitted,
       SentLogged, NoPhantomPublish, NoGhostEvent, NoRows, Logged

\* Steps that leave the logs, the aggregates and the set of committed rows as
\* they are, publish nothing and at most shrink the batches.
LEMMA QuietStep ==
    ASSUME TypeOK, PublicationInv,
           UNCHANGED <<nextSeq, open, messages, conversation, log>>,
           \A e \in Seqs : status'[e] = "none" <=> status[e] = "none",
           \A e \in Seqs : status'[e] = "published" => status[e] = "published",
           \A w \in Workers : Batch(w)' \subseteq Batch(w),
           \A w \in Workers : pc'[w] = "sent" => pc[w] = "sent"
    PROVE  PublicationInv'
<1>1. Allocation' /\ StoredTogether'
  BY DEF PublicationInv, Allocation, StoredTogether
<1>2. ClaimedCommitted'
  BY DEF PublicationInv, ClaimedCommitted, TypeOK
<1>3. SentLogged'
  BY DEF PublicationInv, SentLogged, Logged
<1>4. NoPhantomPublish' /\ NoGhostEvent'
  BY DEF PublicationInv, NoPhantomPublish, NoGhostEvent, Logged
<1> QED
  BY <1>1, <1>2, <1>3, <1>4 DEF PublicationInv

LEMMA SenderPublication ==
    ASSUME TypeOK, PublicationInv, NEW s \in Senders, SenderNext(s)
    PROVE  PublicationInv'
<1>1. ASSUME NEW c \in Conversations, InsertOutboxEvent(s, c)
      PROVE  PublicationInv'
  <2>1. \A e \in Seqs : status[e] # "none" => conversation'[e] = conversation[e]
    BY <1>1 DEF InsertOutboxEvent, PublicationInv, Allocation, TypeOK
  <2>2. Allocation'
    <3>1. \A e \in Seqs : e < nextSeq' => conversation'[e] \in Conversations
      BY <1>1 DEF InsertOutboxEvent, PublicationInv, Allocation, TypeOK
    <3>2. \A t \in Senders : open'[t] < nextSeq'
      BY <1>1 DEF InsertOutboxEvent, PublicationInv, Allocation, TypeOK
    <3> QED
      BY <1>1, <3>1, <3>2 DEF InsertOutboxEvent, PublicationInv, Allocation, TypeOK
  <2>3. StoredTogether' /\ ClaimedCommitted'
    BY <1>1 DEF InsertOutboxEvent, PublicationInv, StoredTogether,
                ClaimedCommitted, workerVars
  <2>4. SentLogged'
    <3> SUFFICES ASSUME NEW v \in Workers, pc'[v] = "sent", NEW e \in Batch(v)'
                 PROVE  Logged(e, conversation[e])'
      BY DEF SentLogged
    <3>1. UNCHANGED <<pc, held, log>>
      BY <1>1 DEF InsertOutboxEvent, workerVars
    <3>2. e \in Batch(v) /\ e \in Seqs
      BY <3>1 DEF TypeOK
    <3>3. conversation'[e] = conversation[e]
      BY <2>1, <3>2 DEF PublicationInv, ClaimedCommitted
    <3>4. Logged(e, conversation[e])
      BY <3>1, <3>2 DEF PublicationInv, SentLogged
    <3> QED
      BY <3>1, <3>3, <3>4 DEF Logged
  <2>5. NoPhantomPublish'
    BY <1>1, <2>1 DEF InsertOutboxEvent, PublicationInv, NoPhantomPublish, Logged
  <2>6. NoGhostEvent'
    BY <1>1, <2>1 DEF InsertOutboxEvent, PublicationInv, NoGhostEvent,
                StoredTogether, Logged
  <2> QED
    BY <2>2, <2>3, <2>4, <2>5, <2>6 DEF PublicationInv
<1>2. CASE CommitMessage(s)
  <2> DEFINE e == open[s]
  <2>1. e \in Seqs /\ e < nextSeq
    BY <1>2 DEF CommitMessage, TypeOK, PublicationInv, Allocation
  <2>2. Allocation'
    <3>1. \A t \in Senders : open'[t] < nextSeq'
      BY <1>2 DEF CommitMessage, TypeOK, PublicationInv, Allocation
    <3> QED
      BY <1>2, <2>1, <3>1 DEF CommitMessage, PublicationInv, Allocation, TypeOK
  <2>3. StoredTogether' /\ ClaimedCommitted'
    BY <1>2, <2>1 DEF CommitMessage, PublicationInv, StoredTogether,
                      ClaimedCommitted, workerVars, TypeOK
  <2>4. SentLogged'
    BY <1>2 DEF CommitMessage, PublicationInv, SentLogged, workerVars, Logged
  <2>5. NoPhantomPublish' /\ NoGhostEvent'
    BY <1>2 DEF CommitMessage, PublicationInv, NoPhantomPublish, NoGhostEvent,
                Logged, TypeOK
  <2> QED
    BY <2>2, <2>3, <2>4, <2>5 DEF PublicationInv
<1>3. CASE RollbackMessage(s)
  <2>1. Allocation'
    BY <1>3 DEF RollbackMessage, PublicationInv, Allocation, TypeOK
  <2>2. UNCHANGED <<messages, status, conversation, held, pc, log>>
    BY <1>3 DEF RollbackMessage, workerVars
  <2>3. StoredTogether' /\ ClaimedCommitted' /\ SentLogged'
    BY <2>2 DEF PublicationInv, StoredTogether, ClaimedCommitted, SentLogged, Logged
  <2>4. NoPhantomPublish' /\ NoGhostEvent'
    BY <2>2 DEF PublicationInv, NoPhantomPublish, NoGhostEvent, Logged
  <2> QED
    BY <2>1, <2>3, <2>4 DEF PublicationInv
<1> QED
  BY <1>1, <1>2, <1>3 DEF SenderNext

\* A send, acknowledged or not, that puts the batch of w in the log.
LEMMA AppendPublication ==
    ASSUME TypeOK, PublicationInv, NEW w \in Workers, log' = Appended(w),
           UNCHANGED <<nextSeq, open, messages, status, conversation, held>>,
           \A v \in Workers \ {w} : pc'[v] = pc[v]
    PROVE  PublicationInv'
<1>1. Allocation' /\ StoredTogether' /\ ClaimedCommitted'
  BY DEF PublicationInv, Allocation, StoredTogether, ClaimedCommitted
<1>2. \A v \in Workers : \A e \in Batch(v) : conversation[e] \in Conversations
  BY DEF PublicationInv, Allocation, ClaimedCommitted, TypeOK
<1>3. SentLogged'
  <2> SUFFICES ASSUME NEW v \in Workers, pc'[v] = "sent", NEW e \in Batch(v)
               PROVE  Logged(e, conversation[e])'
    BY DEF SentLogged
  <2>1. CASE v = w
    BY <1>2, <2>1, AppendedAdds
  <2>2. CASE v # w
    <3>1. Logged(e, conversation[e])
      BY <2>2 DEF PublicationInv, SentLogged
    <3>2. ASSUME NEW c \in Conversations, Logged(e, c) PROVE Logged(e, c)'
      BY <3>2, AppendedKeeps
    <3>3. Logged(e, conversation[e])' <=> \E m \in DOMAIN log'[conversation[e]] :
                                              e \in log'[conversation[e]][m]
      BY DEF Logged
    <3> QED
      BY <1>2, <3>1, <3>2, <3>3 DEF Logged
  <2> QED
    BY <2>1, <2>2
<1>4. NoPhantomPublish'
  BY AppendedKeeps DEF PublicationInv, NoPhantomPublish
<1>5. NoGhostEvent'
  <2> SUFFICES ASSUME NEW c \in Conversations, NEW e \in Seqs, Logged(e, c)'
               PROVE  e \in messages /\ conversation[e] = c
    BY DEF NoGhostEvent
  <2>1. CASE Logged(e, c)
    BY <2>1 DEF PublicationInv, NoGhostEvent
  <2>2. CASE ~ Logged(e, c)
    BY <2>2, AppendedOnly DEF PublicationInv, ClaimedCommitted, StoredTogether
  <2> QED
    BY <2>1, <2>2
<1> QED
  BY <1>1, <1>3, <1>4, <1>5 DEF PublicationInv

LEMMA WorkerPublication ==
    ASSUME TypeOK, PublicationInv, NEW w \in Workers, WorkerStep(w)
    PROVE  PublicationInv'
<1>1. CASE ClaimFrontier(w)
  BY <1>1, QuietStep DEF ClaimFrontier, tableVars, TypeOK
<1>2. CASE LockCandidates(w)
  <2>1. UNCHANGED <<nextSeq, open, messages, status, conversation, log>>
    BY <1>2 DEF LockCandidates, tableVars
  <2>2. ClaimedCommitted'
    <3>1. PICK f \in locked[w] :
            held' = [held EXCEPT ![w] =
              [e \in First(BatchSize, Candidates(w, f)) |-> attempts[e]]]
      BY <1>2 DEF LockCandidates
    <3>2. \A e \in First(BatchSize, Candidates(w, f)) : status[e] # "none"
      BY FirstSubset, CandidatesAreRows
    <3>3. \A v \in Workers \ {w} : held'[v] = held[v]
      BY <3>1 DEF TypeOK
    <3>4. Batch(w)' = First(BatchSize, Candidates(w, f))
      BY <3>1 DEF TypeOK
    <3> QED
      BY <2>1, <3>2, <3>3, <3>4 DEF PublicationInv, ClaimedCommitted
  <2>3. SentLogged'
    <3>1. \A v \in Workers : pc'[v] = "sent" =>
            pc[v] = "sent" /\ held'[v] = held[v]
      BY <1>2 DEF LockCandidates, TypeOK
    <3> QED
      BY <2>1, <3>1 DEF PublicationInv, SentLogged, Logged
  <2>4. Allocation' /\ StoredTogether' /\ NoPhantomPublish' /\ NoGhostEvent'
    BY <2>1 DEF PublicationInv, Allocation, StoredTogether, NoPhantomPublish,
                NoGhostEvent, Logged
  <2> QED
    BY <2>2, <2>3, <2>4 DEF PublicationInv
<1>3. CASE CommitClaim(w)
  <2>1. \A e \in Seqs : status'[e] = "none" <=> status[e] = "none"
    BY <1>3 DEF CommitClaim, PublicationInv, ClaimedCommitted, TypeOK
  <2>2. \A v \in Workers : Batch(v)' = Batch(v)
    BY <1>3 DEF CommitClaim, TypeOK
  <2> QED
    BY <1>3, <2>1, <2>2, QuietStep DEF CommitClaim, TypeOK
<1>4. CASE PublishOutboxEvents(w)
  BY <1>4, AppendPublication DEF PublishOutboxEvents, tableVars, TypeOK
<1>5. CASE PublishFails(w)
  <2>1. CASE log' = log
    BY <1>5, <2>1, QuietStep DEF PublishFails, tableVars, TypeOK
  <2>2. CASE log' = Appended(w)
    BY <1>5, <2>2, AppendPublication DEF PublishFails, tableVars, TypeOK
  <2> QED
    BY <1>5, <2>1, <2>2 DEF PublishFails
<1>6. CASE MarkOutboxEventsPublished(w)
  <2>1. UNCHANGED <<nextSeq, open, messages, conversation, log>>
    BY <1>6 DEF MarkOutboxEventsPublished
  <2>2. \A e \in Seqs : status'[e] = "none" <=> status[e] = "none"
    BY <1>6 DEF MarkOutboxEventsPublished, TypeOK
  <2>3. Allocation' /\ StoredTogether' /\ NoGhostEvent'
    BY <2>1, <2>2 DEF PublicationInv, Allocation, StoredTogether, NoGhostEvent,
                      Logged
  <2>4. /\ \A v \in Workers : Batch(v)' \subseteq Batch(v)
        /\ \A v \in Workers : pc'[v] = "sent" => pc[v] = "sent"
    BY <1>6 DEF MarkOutboxEventsPublished, TypeOK, NoRows
  <2>5. ClaimedCommitted' /\ SentLogged'
    BY <2>1, <2>2, <2>4 DEF PublicationInv, ClaimedCommitted, SentLogged,
                            Logged, TypeOK
  <2>6. NoPhantomPublish'
    <3> SUFFICES ASSUME NEW e \in Seqs, status'[e] = "published"
                 PROVE  \E c \in Conversations :
                          conversation[e] = c /\ Logged(e, c)
      BY <2>1 DEF NoPhantomPublish, Logged
    <3>1. CASE status[e] = "published"
      BY <3>1 DEF PublicationInv, NoPhantomPublish
    <3>2. CASE status[e] # "published"
      <4>1. e \in Batch(w) /\ pc[w] = "sent"
        BY <1>6, <3>2 DEF MarkOutboxEventsPublished, TypeOK
      <4>2. conversation[e] \in Conversations
        BY <4>1 DEF PublicationInv, ClaimedCommitted, Allocation
      <4> QED
        BY <4>1, <4>2 DEF PublicationInv, SentLogged
    <3> QED
      BY <3>1, <3>2
  <2> QED
    BY <2>3, <2>5, <2>6 DEF PublicationInv
<1>7. ASSUME NEW e \in Batch(w), NEW st \in {"pending", "dead_lettered"},
             SettleFailed(w, e, st)
      PROVE  PublicationInv'
  <2>1. \A d \in Seqs : status'[d] = "none" <=> status[d] = "none"
    BY <1>7 DEF SettleFailed, TypeOK
  <2>2. \A d \in Seqs : status'[d] = "published" => status[d] = "published"
    BY <1>7 DEF SettleFailed, TypeOK
  <2>3. /\ \A v \in Workers : Batch(v)' \subseteq Batch(v)
        /\ \A v \in Workers : pc'[v] = "sent" => pc[v] = "sent"
    BY <1>7 DEF SettleFailed, TypeOK
  <2> QED
    BY <1>7, <2>1, <2>2, <2>3, QuietStep DEF SettleFailed
<1> QED
  BY <1>1, <1>2, <1>3, <1>4, <1>5, <1>6, <1>7
     DEF WorkerStep, DeadLetterOutboxEvent, RescheduleOutboxEvent

LEMMA FaultPublication ==
    ASSUME TypeOK, PublicationInv, NEW w \in Workers, WorkerFault(w)
    PROVE  PublicationInv'
<1>1. CASE MarkFails(w)
  BY <1>1, QuietStep DEF MarkFails, tableVars, TypeOK
<1>2. CASE Crash(w)
  <2>1. /\ \A v \in Workers : Batch(v)' \subseteq Batch(v)
        /\ \A v \in Workers : pc'[v] = "sent" => pc[v] = "sent"
    BY <1>2 DEF Crash, TypeOK, NoRows
  <2> QED
    BY <1>2, <2>1, QuietStep DEF Crash, tableVars
<1> QED
  BY <1>1, <1>2 DEF WorkerFault

LEMMA ClockPublication ==
    ASSUME TypeOK, PublicationInv, NEW e \in Seqs,
           BackoffElapses(e) \/ LeaseExpires(e) \/ LeaseOutlived(e)
    PROVE  PublicationInv'
BY QuietStep DEF BackoffElapses, LeaseExpires, LeaseOutlived, workerVars

LEMMA StutterPublication ==
    TypeOK /\ PublicationInv /\ UNCHANGED vars => PublicationInv'
BY QuietStep DEF vars, tableVars, workerVars

\* The two safety properties hold in every reachable state, for any number of
\* faults and outlived leases.
THEOREM PublicationInvariant == Spec => []PublicationInv
<1>1. TypeOK /\ PublicationInv /\ [Next]_vars => PublicationInv'
  BY SenderPublication, WorkerPublication, FaultPublication, ClockPublication,
     StutterPublication DEF Next
<1> QED
  BY PublicationInit, TypeCorrect, <1>1, PTL DEF Spec

\* What is marked published has reached Kafka.
THEOREM NothingPublishedUnsent == Spec => []NoPhantomPublish
<1>1. PublicationInv => NoPhantomPublish
  BY DEF PublicationInv
<1> QED
  BY PublicationInvariant, <1>1, PTL

\* What has reached Kafka is the event of a committed message.
THEOREM NothingAnnouncedUnstored == Spec => []NoGhostEvent
<1>1. PublicationInv => NoGhostEvent
  BY DEF PublicationInv
<1> QED
  BY PublicationInvariant, <1>1, PTL

-----------------------------------------------------------------------------
(* Final states and exclusive claims.                                      *)
(*                                                                         *)
(* That a settled row is never claimed again rests on row locks: what a    *)
(* claim has locked stays unfinished until it commits.  That two workers   *)
(* are never busy with one row rests on the lease: a row that is held is   *)
(* processing and not due, unless its lease has run out under its holder.  *)

\* An uncommitted row belongs to one sender.
OpenInv ==
    \A s \in Senders : open[s] # 0 =>
        /\ status[open[s]] = "none"
        /\ \A t \in Senders \ {s} : open[t] # open[s]

\* Row locks are exclusive, last as long as the claim's transaction and cover
\* the batch it is about to claim.
LockInv ==
    \A w \in Workers :
        /\ \A v \in Workers \ {w} : locked[v] \cap locked[w] = {}
        /\ pc[w] \notin {"frontier", "candidates"} => locked[w] = {}
        /\ pc[w] = "candidates" => Batch(w) \subseteq locked[w]
        /\ pc[w] \in {"idle", "frontier"} => Batch(w) = {}

\* Nobody else is busy with what a worker has locked or holds, unless its lease
\* has been outlived.
LeaseInv ==
    /\ \A w \in Workers : \A e \in locked[w] :
         /\ status[e] \in Unfinished
         /\ e \notin stale => Holders(e) = {}
    /\ \A e \in Seqs \ stale : \A w \in Holders(e) :
         /\ status[e] = "processing" /\ ~ due[e]
         /\ Holders(e) = {w}

ClaimInv == OpenInv /\ LockInv /\ LeaseInv

LEMMA ClaimInit == Init => ClaimInv
BY DEF Init, ClaimInv, OpenInv, LockInv, LeaseInv, Holders, Working, NoRows

\* What may be claimed has no holder with a valid lease.
LEMMA EligibleFree ==
    ASSUME LeaseInv, NEW e \in Seqs, Eligible(e)
    PROVE  status[e] \in Unfinished /\ (e \notin stale => Holders(e) = {})
BY DEF LeaseInv, Eligible

LEMMA SenderClaims ==
    ASSUME TypeOK, PublicationInv, ClaimInv, NEW s \in Senders, SenderNext(s)
    PROVE  ClaimInv'
<1>1. ASSUME NEW c \in Conversations, InsertOutboxEvent(s, c)
      PROVE  ClaimInv'
  <2>1. OpenInv'
    <3>1. /\ nextSeq \in Seqs /\ nextSeq \in Nat /\ status[nextSeq] = "none"
          /\ \A t \in Senders : open[t] < nextSeq /\ open[t] \in Nat
      BY <1>1 DEF InsertOutboxEvent, PublicationInv, Allocation, TypeOK
    <3>2. /\ open'[s] = nextSeq /\ open[s] = 0 /\ status' = status
          /\ \A t \in Senders \ {s} : open'[t] = open[t]
      BY <1>1 DEF InsertOutboxEvent, TypeOK
    <3>3. \A t \in Senders \ {s} : open'[t] # open'[s]
      BY <3>1, <3>2
    <3> QED
      BY <3>1, <3>2, <3>3 DEF ClaimInv, OpenInv
  <2> QED
    BY <1>1, <2>1 DEF InsertOutboxEvent, ClaimInv, LockInv, LeaseInv, Holders,
                      workerVars, auxVars
<1>2. CASE CommitMessage(s)
  <2> DEFINE e == open[s]
  <2>1. /\ e \in Seqs /\ status[e] = "none"
        /\ open' = [open EXCEPT ![s] = 0]
        /\ status' = [status EXCEPT ![e] = "pending"]
        /\ due' = [due EXCEPT ![e] = TRUE]
        /\ UNCHANGED <<pc, locked, held, stale>>
    BY <1>2 DEF CommitMessage, ClaimInv, OpenInv, TypeOK, workerVars
  <2>2. OpenInv'
    BY <2>1 DEF ClaimInv, OpenInv, TypeOK
  <2>3. LockInv'
    BY <2>1 DEF ClaimInv, LockInv
  <2> HIDE DEF e
  <2>4. \A d \in Seqs \ {e} : status'[d] = status[d] /\ due'[d] = due[d]
    BY <2>1 DEF TypeOK
  <2>5. \A w \in Workers : e \notin locked[w]
    BY <2>1 DEF ClaimInv, LeaseInv, Unfinished
  <2>6. e \notin stale => Holders(e) = {}
    BY <2>1 DEF ClaimInv, LeaseInv
  <2>7. \A d : Holders(d)' = Holders(d)
    BY <2>1 DEF Holders
  <2>8. LeaseInv'
    BY <2>1, <2>4, <2>5, <2>6, <2>7 DEF ClaimInv, LeaseInv, TypeOK
  <2> QED
    BY <2>2, <2>3, <2>8 DEF ClaimInv
<1>3. CASE RollbackMessage(s)
  <2>1. OpenInv'
    BY <1>3 DEF RollbackMessage, ClaimInv, OpenInv, TypeOK
  <2> QED
    BY <1>3, <2>1 DEF RollbackMessage, ClaimInv, LockInv, LeaseInv, Holders,
                      workerVars, auxVars
<1> QED
  BY <1>1, <1>2, <1>3 DEF SenderNext

\* Worker w locks what is free.
LEMMA LockStep ==
    ASSUME TypeOK, ClaimInv, NEW w \in Workers, NEW S \in SUBSET Seqs,
           pc[w] \in {"idle", "frontier"},
           NEW ph \in {"frontier", "candidates"}, pc' = [pc EXCEPT ![w] = ph],
           locked' = [locked EXCEPT ![w] = @ \cup S],
           UNCHANGED <<tableVars, stale>>,
           \A v \in Workers \ {w} : held'[v] = held[v],
           IF ph = "frontier" THEN Batch(w)' = {} ELSE Batch(w)' = S,
           \A e \in S : Eligible(e) /\ Lockable(w, e)
    PROVE  ClaimInv'
<1>1. /\ UNCHANGED <<open, status, due>>
      /\ locked'[w] = locked[w] \cup S
      /\ \A v \in Workers \ {w} : locked'[v] = locked[v] /\ pc'[v] = pc[v]
      /\ pc'[w] = ph
  BY DEF tableVars, TypeOK
<1>2. OpenInv'
  BY <1>1 DEF ClaimInv, OpenInv
<1>3. LockInv'
  <2> SUFFICES ASSUME NEW v \in Workers
               PROVE  /\ \A u \in Workers \ {v} : locked'[u] \cap locked'[v] = {}
                      /\ pc'[v] \notin {"frontier", "candidates"} => locked'[v] = {}
                      /\ pc'[v] = "candidates" => Batch(v)' \subseteq locked'[v]
                      /\ pc'[v] \in {"idle", "frontier"} => Batch(v)' = {}
    BY DEF LockInv
  <2>1. ASSUME NEW u \in Workers \ {v} PROVE locked'[u] \cap locked'[v] = {}
    <3>1. locked[u] \cap locked[v] = {}
      BY DEF ClaimInv, LockInv
    <3>2. \A x \in Workers \ {w} : S \cap locked[x] = {}
      BY DEF Lockable
    <3> QED
      BY <1>1, <3>1, <3>2
  <2>2. CASE v = w
    BY <1>1, <2>1, <2>2
  <2>3. CASE v # w
    BY <1>1, <2>1, <2>3 DEF ClaimInv, LockInv
  <2> QED
    BY <2>2, <2>3
<1>4. \A e : Holders(e)' = Holders(e)
  BY <1>1 DEF Holders, Working
<1>5. LeaseInv'
  <2>1. ASSUME NEW v \in Workers, NEW e \in locked'[v]
        PROVE  status[e] \in Unfinished /\ (e \notin stale => Holders(e) = {})
    <3>1. CASE e \in locked[v]
      BY <3>1 DEF ClaimInv, LeaseInv
    <3>2. CASE e \notin locked[v]
      BY <1>1, <2>1, <3>2, EligibleFree DEF ClaimInv
    <3> QED
      BY <3>1, <3>2
  <2> QED
    BY <1>1, <1>4, <2>1 DEF ClaimInv, LeaseInv
<1> QED
  BY <1>2, <1>3, <1>5 DEF ClaimInv

\* The claim commits: w is the only holder of its batch.
LEMMA CommitClaimClaims ==
    ASSUME TypeOK, PublicationInv, ClaimInv, NEW w \in Workers, CommitClaim(w)
    PROVE  ClaimInv'
<1>1. /\ pc[w] = "candidates" /\ pc'[w] = "claimed" /\ locked'[w] = {}
      /\ \A v \in Workers \ {w} : locked'[v] = locked[v] /\ pc'[v] = pc[v]
      /\ \A v \in Workers : Batch(v)' = Batch(v)
      /\ UNCHANGED <<open, stale>>
  BY DEF CommitClaim, TypeOK, auxVars
<1>2. /\ Batch(w) \subseteq locked[w] /\ Batch(w) \subseteq Seqs
      /\ \A e \in Seqs : status'[e] = IF e \in Batch(w) THEN "processing" ELSE status[e]
      /\ \A e \in Seqs : due'[e] = (due[e] /\ e \notin Batch(w))
  BY <1>1 DEF CommitClaim, TypeOK, ClaimInv, LockInv
<1>3. OpenInv'
  BY <1>1, <1>2 DEF ClaimInv, OpenInv, PublicationInv, ClaimedCommitted, TypeOK
<1>4. LockInv'
  BY <1>1 DEF ClaimInv, LockInv
<1>5. \A e : Holders(e)' = IF e \in Batch(w) THEN Holders(e) \cup {w} ELSE Holders(e)
  BY <1>1 DEF Holders, Working
<1>6. LeaseInv'
  <2>1. ASSUME NEW v \in Workers, NEW e \in locked'[v]
        PROVE  status'[e] \in Unfinished /\ (e \notin stale => Holders(e)' = {})
    <3>1. v # w /\ e \in locked[v] /\ e \in Seqs
      BY <1>1, <2>1 DEF TypeOK
    <3>2. e \notin Batch(w)
      BY <1>2, <3>1 DEF ClaimInv, LockInv
    <3> QED
      BY <1>2, <1>5, <3>1, <3>2 DEF ClaimInv, LeaseInv
  <2>2. ASSUME NEW e \in Seqs \ stale, NEW v \in Holders(e)'
        PROVE  status'[e] = "processing" /\ ~ due'[e] /\ Holders(e)' = {v}
    <3>1. CASE e \in Batch(w)
      <4>1. Holders(e) = {}
        BY <1>2, <3>1 DEF ClaimInv, LeaseInv
      <4> QED
        BY <1>2, <1>5, <2>2, <3>1, <4>1
    <3>2. CASE e \notin Batch(w)
      BY <1>2, <1>5, <2>2, <3>2 DEF ClaimInv, LeaseInv
    <3> QED
      BY <3>1, <3>2
  <2> QED
    BY <1>1, <2>1, <2>2 DEF LeaseInv
<1> QED
  BY <1>3, <1>4, <1>6 DEF ClaimInv

\* A worker past its claim goes on, or loses what it holds and settles some of
\* it; nobody has a lock on that.
LEMMA WorkingStep ==
    ASSUME TypeOK, ClaimInv, NEW w \in Workers, pc[w] \in Working,
           NEW S \in SUBSET Batch(w),
           UNCHANGED <<open, locked, stale>>,
           \A v \in Workers \ {w} : pc'[v] = pc[v] /\ held'[v] = held[v],
           \/ pc'[w] \in Working
           \/ pc'[w] = "idle" /\ S = Batch(w),
           Batch(w)' = Batch(w) \ S,
           \A e \in S : Lockable(w, e),
           \A e \in Seqs \ S : status'[e] = status[e] /\ due'[e] = due[e],
           \A e \in S : status'[e] # status[e] => status[e] = "processing"
    PROVE  ClaimInv'
<1>1. S \subseteq Seqs /\ locked[w] = {} /\ \A v \in Workers : S \cap locked[v] = {}
  BY DEF TypeOK, ClaimInv, LockInv, Lockable, Working
<1>2. OpenInv'
  <2>1. \A e \in Seqs : status[e] = "none" => status'[e] = "none"
    BY <1>1
  <2> QED
    BY <2>1 DEF ClaimInv, OpenInv, TypeOK
<1>3. LockInv'
  BY <1>1 DEF ClaimInv, LockInv, Working
<1>4. \A e : Holders(e)' = IF e \in S THEN Holders(e) \ {w} ELSE Holders(e)
  BY DEF Holders, Working
<1>5. LeaseInv'
  <2>1. ASSUME NEW v \in Workers, NEW e \in locked[v]
        PROVE  status'[e] \in Unfinished /\ (e \notin stale => Holders(e)' = {})
    <3>1. e \notin S /\ e \in Seqs
      BY <1>1, <2>1 DEF TypeOK
    <3> QED
      BY <1>4, <3>1 DEF ClaimInv, LeaseInv
  <2>2. ASSUME NEW e \in Seqs \ stale, NEW v \in Holders(e)'
        PROVE  status'[e] = "processing" /\ ~ due'[e] /\ Holders(e)' = {v}
    <3>1. v \in Holders(e)
      BY <1>4, <2>2
    <3>2. CASE e \in S
      <4>1. w \in Holders(e)
        BY <3>2 DEF Holders
      <4> QED
        BY <1>4, <2>2, <3>1, <3>2, <4>1 DEF ClaimInv, LeaseInv
    <3>3. CASE e \notin S
      BY <1>4, <3>1, <3>3 DEF ClaimInv, LeaseInv
    <3> QED
      BY <3>2, <3>3
  <2> QED
    BY <2>1, <2>2 DEF LeaseInv
<1> QED
  BY <1>2, <1>3, <1>5 DEF ClaimInv

LEMMA WorkerClaims ==
    ASSUME TypeOK, PublicationInv, ClaimInv, NEW w \in Workers,
           WorkerStep(w) \/ WorkerFault(w)
    PROVE  ClaimInv'
<1>1. CASE ClaimFrontier(w)
  <2>1. PICK f \in Seqs : /\ Eligible(f) /\ Lockable(w, f)
                         /\ locked' = [locked EXCEPT ![w] = {f}]
    BY <1>1 DEF ClaimFrontier, IsFrontier
  <2>2. locked[w] = {} /\ Batch(w) = {} /\ pc[w] = "idle"
    BY <1>1 DEF ClaimFrontier, ClaimInv, LockInv
  <2>3. locked' = [locked EXCEPT ![w] = @ \cup {f}]
    BY <2>1, <2>2 DEF TypeOK
  <2>4. /\ pc' = [pc EXCEPT ![w] = "frontier"]
        /\ UNCHANGED <<tableVars, stale>>
        /\ held' = held
    BY <1>1 DEF ClaimFrontier, auxVars
  <2>5. {f} \in SUBSET Seqs /\ \A e \in {f} : Eligible(e) /\ Lockable(w, e)
    BY <2>1
  <2>6. Batch(w)' = {} /\ \A v \in Workers \ {w} : held'[v] = held[v]
    BY <2>2, <2>4
  <2> DEFINE S == {f}
  <2>7. /\ S \in SUBSET Seqs /\ \A e \in S : Eligible(e) /\ Lockable(w, e)
        /\ locked' = [locked EXCEPT ![w] = @ \cup S]
    BY <2>3, <2>5
  <2> HIDE DEF S
  <2> QED
    BY <2>2, <2>4, <2>6, <2>7, LockStep
<1>2. CASE LockCandidates(w)
  <2>1. PICK f \in locked[w] :
          /\ locked' = [locked EXCEPT ![w] = @ \cup First(BatchSize, Candidates(w, f))]
          /\ held' = [held EXCEPT ![w] =
               [e \in First(BatchSize, Candidates(w, f)) |-> attempts[e]]]
    BY <1>2 DEF LockCandidates
  <2> DEFINE S == First(BatchSize, Candidates(w, f))
  <2>2. \A e \in S : e \in Seqs /\ Eligible(e) /\ Lockable(w, e)
    BY FirstSubset DEF Candidates, RowsOf
  <2>3. Batch(w)' = S /\ \A v \in Workers \ {w} : held'[v] = held[v]
    BY <2>1 DEF TypeOK
  <2>4. locked' = [locked EXCEPT ![w] = @ \cup S]
    BY <2>1
  <2> HIDE DEF S
  <2> QED
    BY <1>2, <2>2, <2>3, <2>4, LockStep DEF LockCandidates, auxVars
<1>3. CASE CommitClaim(w)
  BY <1>3, CommitClaimClaims
<1>4. CASE PublishOutboxEvents(w) \/ PublishFails(w) \/ MarkFails(w)
  <2>1. /\ pc[w] \in Working /\ pc'[w] \in Working
        /\ UNCHANGED <<open, locked, stale, held, status, due>>
        /\ \A v \in Workers \ {w} : pc'[v] = pc[v]
    BY <1>4 DEF PublishOutboxEvents, PublishFails, MarkFails, Working, tableVars,
                auxVars, TypeOK
  <2> DEFINE S == {}
  <2>2. S \in SUBSET Batch(w) /\ Batch(w)' = Batch(w) \ S /\ \A e : e \notin S
    BY <2>1
  <2> HIDE DEF S
  <2> QED
    BY <2>1, <2>2, WorkingStep
<1>5. CASE MarkOutboxEventsPublished(w)
  <2>1. /\ pc[w] \in Working /\ pc'[w] = "idle" /\ Batch(w)' = {}
        /\ UNCHANGED <<open, locked, stale>>
        /\ \A v \in Workers \ {w} : pc'[v] = pc[v] /\ held'[v] = held[v]
    BY <1>5 DEF MarkOutboxEventsPublished, Working, auxVars, NoRows, TypeOK
  <2>2. /\ \A e \in Batch(w) : Lockable(w, e)
        /\ \A e \in Seqs \ Batch(w) : status'[e] = status[e] /\ due'[e] = due[e]
        /\ \A e \in Batch(w) : status'[e] # status[e] => status[e] = "processing"
    BY <1>5 DEF MarkOutboxEventsPublished, Updatable, TypeOK
  <2> QED
    BY <2>1, <2>2, WorkingStep
<1>6. ASSUME NEW e \in Batch(w), NEW st \in {"pending", "dead_lettered"},
             SettleFailed(w, e, st)
      PROVE  ClaimInv'
  <2>1. /\ pc[w] \in Working
        /\ pc'[w] \in Working \/ (pc'[w] = "idle" /\ {e} = Batch(w))
        /\ Batch(w)' = Batch(w) \ {e}
        /\ UNCHANGED <<open, locked, stale>>
        /\ \A v \in Workers \ {w} : pc'[v] = pc[v] /\ held'[v] = held[v]
    BY <1>6 DEF SettleFailed, Working, auxVars, TypeOK
  <2>2. /\ Lockable(w, e)
        /\ \A d \in Seqs \ {e} : status'[d] = status[d] /\ due'[d] = due[d]
        /\ status'[e] # status[e] => status[e] = "processing"
    BY <1>6 DEF SettleFailed, Updatable, TypeOK
  <2> DEFINE S == {e}
  <2>3. /\ S \in SUBSET Batch(w) /\ Batch(w)' = Batch(w) \ S
        /\ pc'[w] \in Working \/ (pc'[w] = "idle" /\ S = Batch(w))
        /\ \A d \in S : Lockable(w, d)
        /\ \A d \in S : status'[d] # status[d] => status[d] = "processing"
        /\ \A d \in Seqs \ S : status'[d] = status[d] /\ due'[d] = due[d]
    BY <2>1, <2>2
  <2>4. /\ pc[w] \in Working
        /\ UNCHANGED <<open, locked, stale>>
        /\ \A v \in Workers \ {w} : pc'[v] = pc[v] /\ held'[v] = held[v]
    BY <2>1
  <2> HIDE DEF S
  <2>5. CASE pc'[w] \in Working
    BY <2>3, <2>4, <2>5, WorkingStep
  <2>6. CASE pc'[w] = "idle" /\ S = Batch(w)
    BY <2>3, <2>4, <2>6, WorkingStep
  <2> QED
    BY <2>3, <2>5, <2>6
<1>7. CASE Crash(w)
  <2>1. /\ UNCHANGED <<open, status, due, stale>>
        /\ pc'[w] = "idle" /\ locked'[w] = {} /\ Batch(w)' = {}
        /\ \A v \in Workers \ {w} :
             pc'[v] = pc[v] /\ locked'[v] = locked[v] /\ held'[v] = held[v]
    BY <1>7 DEF Crash, tableVars, NoRows, TypeOK
  <2>2. OpenInv' /\ LockInv'
    BY <2>1 DEF ClaimInv, OpenInv, LockInv
  <2>3. \A e : Holders(e)' = Holders(e) \ {w}
    BY <2>1 DEF Holders, Working
  <2>4. LeaseInv'
    BY <2>1, <2>3 DEF ClaimInv, LeaseInv
  <2> QED
    BY <2>2, <2>4 DEF ClaimInv
<1> QED
  BY <1>1, <1>2, <1>3, <1>4, <1>5, <1>6, <1>7
     DEF WorkerStep, WorkerFault, DeadLetterOutboxEvent, RescheduleOutboxEvent

LEMMA ClockClaims ==
    ASSUME TypeOK, ClaimInv, NEW e \in Seqs,
           BackoffElapses(e) \/ LeaseExpires(e) \/ LeaseOutlived(e)
    PROVE  ClaimInv'
<1>1. /\ UNCHANGED <<open, status, pc, locked, held>>
      /\ stale \subseteq stale' /\ stale' \subseteq stale \cup {e}
      /\ \A d \in Seqs \ {e} : due'[d] = due[d]
  BY DEF BackoffElapses, LeaseExpires, LeaseOutlived, workerVars, auxVars, TypeOK
<1>2. status[e] = "pending" \/ Holders(e) = {} \/ e \in stale'
  BY DEF BackoffElapses, LeaseExpires, LeaseOutlived
<1>3. OpenInv' /\ LockInv'
  BY <1>1 DEF ClaimInv, OpenInv, LockInv
<1>4. \A d : Holders(d)' = Holders(d)
  BY <1>1 DEF Holders
<1>5. LeaseInv'
  BY <1>1, <1>2, <1>4 DEF ClaimInv, LeaseInv, TypeOK
<1> QED
  BY <1>3, <1>5 DEF ClaimInv

LEMMA StutterClaims == ClaimInv /\ UNCHANGED vars => ClaimInv'
BY DEF ClaimInv, OpenInv, LockInv, LeaseInv, Holders, vars, tableVars, workerVars,
       auxVars

LEMMA ClaimInvariant == Spec => []ClaimInv
<1>1. TypeOK /\ PublicationInv /\ ClaimInv /\ [Next]_vars => ClaimInv'
  BY SenderClaims, WorkerClaims, ClockClaims, StutterClaims DEF Next
<1> QED
  BY ClaimInit, TypeCorrect, PublicationInvariant, <1>1, PTL DEF Spec

\* Two workers are busy with one row only if its lease ran out under the first,
\* for any number of workers and faults.
THEOREM ClaimsAreExclusive == Spec => []ExclusiveClaim
<1>1. ASSUME LeaseInv PROVE ExclusiveClaim
  <2> SUFFICES ASSUME NEW e \in Seqs, Cardinality(Holders(e)) > 1, e \notin stale
               PROVE  FALSE
    BY DEF ExclusiveClaim
  <2>1. Holders(e) = {} \/ \E w \in Workers : Holders(e) = {w}
    BY <1>1 DEF LeaseInv, Holders
  <2>2. CASE Holders(e) = {}
    <3>1. Cardinality(Holders(e)) = 0
      BY <2>2, FS_EmptySet
    <3> QED
      BY <3>1
  <2>3. CASE \E w \in Workers : Holders(e) = {w}
    <3>1. Cardinality(Holders(e)) = 1
      BY <2>3, FS_Singleton
    <3> QED
      BY <3>1
  <2> QED
    BY <2>1, <2>2, <2>3
<1> QED
  BY <1>1, ClaimInvariant, PTL DEF ClaimInv

\* A settled row is nobody's to change: no claim has it locked.
LEMMA StepKeepsFinal ==
    ASSUME TypeOK, ClaimInv, [Next]_vars,
           NEW e \in Seqs, status[e] \in {"published", "dead_lettered"}
    PROVE  status'[e] = status[e]
<1>1. ASSUME NEW s \in Senders, SenderNext(s)
      PROVE  status'[e] = status[e]
  BY <1>1 DEF SenderNext, InsertOutboxEvent, CommitMessage, RollbackMessage,
                    ClaimInv, OpenInv, TypeOK
<1>2. ASSUME NEW w \in Workers, CommitClaim(w)
      PROVE  status'[e] = status[e]
  <2>1. e \notin Batch(w)
    BY <1>2 DEF CommitClaim, ClaimInv, LockInv, LeaseInv, Unfinished
  <2>2. status'[e] = IF e \in Batch(w) THEN "processing" ELSE status[e]
    BY <1>2 DEF CommitClaim
  <2> QED
    BY <2>1, <2>2
<1>3. ASSUME NEW w \in Workers, WorkerStep(w) \/ WorkerFault(w), ~ CommitClaim(w)
      PROVE  status'[e] = status[e]
  <2>1. CASE MarkOutboxEventsPublished(w)
    BY <2>1 DEF MarkOutboxEventsPublished
  <2>2. CASE DeadLetterOutboxEvent(w) \/ RescheduleOutboxEvent(w)
    <3>1. PICK d \in Batch(w), st \in {"dead_lettered", "pending"} :
            SettleFailed(w, d, st)
      BY <2>2 DEF DeadLetterOutboxEvent, RescheduleOutboxEvent
    <3>2. status' = [status EXCEPT ![d] =
                        IF status[d] = "processing" THEN st ELSE status[d]]
      BY <3>1 DEF SettleFailed
    <3> QED
      BY <3>2 DEF TypeOK
  <2>3. CASE UNCHANGED tableVars
    BY <2>3 DEF tableVars
  <2> QED
    BY <1>3, <2>1, <2>2, <2>3
       DEF WorkerStep, WorkerFault, ClaimFrontier, LockCandidates,
           PublishOutboxEvents, PublishFails, MarkFails, Crash
<1>4. ASSUME NEW d \in Seqs, BackoffElapses(d) \/ LeaseExpires(d) \/ LeaseOutlived(d)
      PROVE  status'[e] = status[e]
  BY <1>4 DEF BackoffElapses, LeaseExpires, LeaseOutlived
<1>5. CASE UNCHANGED vars
  BY <1>5 DEF vars, tableVars
<1> QED
  BY <1>1, <1>2, <1>3, <1>4, <1>5 DEF Next

\* A settled row stays settled: no late worker, whose lease was taken over or
\* whose acknowledgement was lost, sends it around again.
THEOREM SettledIsFinal == Spec => FinalStatus
<1> DEFINE Kept == \A e \in Seqs : status[e] \in {"published", "dead_lettered"} =>
                                    status'[e] = status[e]
<1>1. TypeOK /\ ClaimInv /\ [Next]_vars => [Kept]_vars
  BY StepKeepsFinal
<1> QED
  BY <1>1, TypeCorrect, ClaimInvariant, PTL DEF Spec, FinalStatus

-----------------------------------------------------------------------------
(* Ordered publication.                                                    *)
(*                                                                         *)
(* A batch leaves no unfinished predecessor of its rows behind.  Between   *)
(* the statements of its claim that rests on the lock of the frontier: as  *)
(* long as it is held, no other claim finds a frontier in the aggregate,   *)
(* so that nothing between the frontier and the batch can be skipped.      *)

Committed == {e \in Seqs : status[e] # "none"}

\* S holds, with each of its rows of an undisturbed aggregate, the unfinished
\* rows before it.
Prefix(S) ==
    \A e \in S : Undisturbed(conversation[e]) =>
        \A i \in RowsOf(conversation[e]) :
            i < e /\ status[i] \in Unfinished => i \in S

\* What worker w has locked is still there to claim and starts at a frontier,
\* and what it is about to publish is of one aggregate and leaves nothing behind.
Orderly(w) ==
    /\ \A e \in locked[w] : Eligible(e)
    /\ pc[w] = "frontier" => \A d, e \in locked[w] : d = e
    /\ Prefix(locked[w])
    /\ pc[w] \in {"candidates", "claimed"} =>
         /\ Prefix(Batch(w))
         /\ \A d, e \in Batch(w) : conversation[d] = conversation[e]

\* One claim at a time is open in an undisturbed aggregate.
OneClaim ==
    \A w \in Workers : \A v \in Workers \ {w} :
        \A e \in locked[w], d \in locked[v] :
            conversation[e] = conversation[d] => ~ Undisturbed(conversation[e])

DisturbedInv == late \cup stale \subseteq Committed

OrderInv ==
    /\ DisturbedInv
    /\ \A w \in Workers : Orderly(w)
    /\ OneClaim
    /\ OrderedPublication

\* What no step undoes: committed rows stay in their aggregate, settled ones
\* keep their status, and rows that commit behind a later one are recorded.
Grows ==
    /\ \A e \in Committed : e \in Committed' /\ conversation'[e] = conversation[e]
    /\ \A e \in Seqs : status[e] \in {"published", "dead_lettered"} =>
                         status'[e] = status[e]
    /\ \A e \in Committed' \ Committed :
         /\ conversation'[e] = conversation[e]
         /\ \A d \in RowsOf(conversation[e]) : e < d => e \in late'
    /\ late \cup stale \subseteq late' \cup stale'
    /\ late' \cup stale' \subseteq late \cup stale \cup Committed'

LEMMA OrderInit == Init => OrderInv
BY DEF Init, OrderInv, DisturbedInv, Orderly, Prefix, OneClaim, OrderedPublication,
       InOrder, NoRows

\* The sender, worker and clock steps that change the table.
LEMMA StepGrows ==
    ASSUME TypeOK, PublicationInv, ClaimInv, [Next]_vars
    PROVE  Grows
<1>1. \A e \in Seqs : status[e] \in {"published", "dead_lettered"} =>
                        status'[e] = status[e]
  BY StepKeepsFinal
<1>2. ASSUME NEW s \in Senders, NEW c \in Conversations, InsertOutboxEvent(s, c)
      PROVE  Grows
  BY <1>1, <1>2 DEF InsertOutboxEvent, Grows, Committed, PublicationInv, Allocation,
                    auxVars, TypeOK
<1>3. ASSUME NEW s \in Senders, CommitMessage(s)
      PROVE  Grows
  <2> DEFINE e == open[s]
  <2>1. e \in Seqs /\ status[e] = "none"
    BY <1>3 DEF CommitMessage, ClaimInv, OpenInv, TypeOK
  <2>2. /\ status' = [status EXCEPT ![e] = "pending"]
        /\ late' = late \cup {x \in {e} : \E d \in RowsOf(conversation[e]) : e < d}
        /\ UNCHANGED <<conversation, stale>>
    BY <1>3 DEF CommitMessage
  <2> HIDE DEF e
  <2>3. Committed' = Committed \cup {e}
    BY <2>1, <2>2 DEF Committed, TypeOK
  <2> QED
    BY <1>1, <2>1, <2>2, <2>3 DEF Grows
<1>4. ASSUME NEW s \in Senders, RollbackMessage(s)
      PROVE  Grows
  BY <1>1, <1>4 DEF RollbackMessage, Grows, Committed, auxVars
<1>5. ASSUME NEW w \in Workers, WorkerStep(w) \/ WorkerFault(w)
      PROVE  Grows
  <2>1. Committed' = Committed
    <3>1. CASE CommitClaim(w)
      BY <3>1 DEF CommitClaim, Committed, PublicationInv, ClaimedCommitted, TypeOK
    <3>2. CASE MarkOutboxEventsPublished(w)
      BY <3>2 DEF MarkOutboxEventsPublished, Committed, TypeOK
    <3>3. CASE DeadLetterOutboxEvent(w) \/ RescheduleOutboxEvent(w)
      <4>1. PICK e \in Batch(w), st \in {"dead_lettered", "pending"} :
              SettleFailed(w, e, st)
        BY <3>3 DEF DeadLetterOutboxEvent, RescheduleOutboxEvent
      <4>2. status' = [status EXCEPT ![e] =
                          IF status[e] = "processing" THEN st ELSE status[e]]
        BY <4>1 DEF SettleFailed
      <4> QED
        BY <4>2 DEF Committed, TypeOK
    <3>4. CASE UNCHANGED tableVars
      BY <3>4 DEF tableVars, Committed
    <3> QED
      BY <1>5, <3>1, <3>2, <3>3, <3>4
         DEF WorkerStep, WorkerFault, ClaimFrontier, LockCandidates,
             PublishOutboxEvents, PublishFails, MarkFails, Crash
  <2>2. UNCHANGED <<conversation, late, stale>>
    BY <1>5 DEF WorkerStep, WorkerFault, ClaimFrontier, LockCandidates, CommitClaim,
                PublishOutboxEvents, PublishFails, MarkOutboxEventsPublished,
                DeadLetterOutboxEvent, RescheduleOutboxEvent, SettleFailed,
                MarkFails, Crash, tableVars, auxVars
  <2> QED
    BY <1>1, <2>1, <2>2 DEF Grows
<1>6. ASSUME NEW e \in Seqs, BackoffElapses(e) \/ LeaseExpires(e) \/ LeaseOutlived(e)
      PROVE  Grows
  <2>1. /\ UNCHANGED <<status, conversation, late>>
        /\ stale' = stale \/ (stale' = stale \cup {e} /\ status[e] = "processing")
    BY <1>6 DEF BackoffElapses, LeaseExpires, LeaseOutlived, auxVars
  <2> QED
    BY <1>1, <2>1 DEF Grows, Committed
<1>7. CASE UNCHANGED vars
  BY <1>1, <1>7 DEF vars, tableVars, auxVars, Grows, Committed
<1> QED
  BY <1>2, <1>3, <1>4, <1>5, <1>6, <1>7 DEF Next, SenderNext

\* Nothing appears before a row of an aggregate that stays undisturbed.
LEMMA UndisturbedStep ==
    ASSUME TypeOK, DisturbedInv, Grows, NEW c, Undisturbed(c)'
    PROVE  /\ Undisturbed(c)
           /\ \A j \in RowsOf(c), i \in RowsOf(c)' : i < j => i \in RowsOf(c)
<1>1. Undisturbed(c)
  BY DEF Undisturbed, Grows, DisturbedInv
<1>2. ASSUME NEW j \in RowsOf(c), NEW i \in RowsOf(c)', i < j
      PROVE  i \in RowsOf(c)
  <2>1. i \in Committed' /\ conversation'[i] = c
    BY <1>2 DEF RowsOf, Committed
  <2>2. CASE i \in Committed
    BY <2>1, <2>2 DEF Grows, RowsOf, Committed
  <2>3. CASE i \notin Committed
    <3>1. i \in late' /\ conversation'[i] = c
      BY <1>2, <2>1, <2>3 DEF Grows
    <3> QED
      BY <3>1 DEF Undisturbed
  <2> QED
    BY <2>2, <2>3
<1> QED
  BY <1>1, <1>2

LEMMA PrefixStep ==
    ASSUME TypeOK, DisturbedInv, Grows, NEW S, S \subseteq Committed, Prefix(S)
    PROVE  Prefix(S)'
<1> SUFFICES ASSUME NEW e \in S, Undisturbed(conversation[e])',
                    NEW i \in RowsOf(conversation[e])', i < e,
                    status'[i] \in Unfinished
             PROVE  i \in S
  BY DEF Prefix
<1> DEFINE c == conversation[e]
<1>1. conversation'[e] = c /\ e \in RowsOf(c)
  BY DEF Grows, RowsOf, Committed
<1>2. Undisturbed(c) /\ i \in RowsOf(c)
  <2>1. Undisturbed(c)' /\ i \in RowsOf(c)'
    BY <1>1 DEF Undisturbed, RowsOf
  <2> QED
    BY <1>1, <2>1 DEF Undisturbed, RowsOf, Grows, DisturbedInv, Committed
<1>3. status[i] \in Unfinished
  BY <1>2 DEF Grows, RowsOf, Unfinished, Statuses, TypeOK
<1> QED
  BY <1>2, <1>3 DEF Prefix

\* Nobody but its worker changes a locked row.
LEMMA LockedStep ==
    ASSUME TypeOK, ClaimInv, [Next]_vars, NEW v \in Workers,
           NEW e \in locked[v], e \in locked'[v], Eligible(e)
    PROVE  Eligible(e)'
<1>1. /\ e \in Seqs /\ status[e] \in Unfinished /\ due[e]
      /\ \A w \in Workers \ {v} : e \notin locked[w]
      /\ pc[v] \in {"frontier", "candidates"}
  BY DEF Eligible, ClaimInv, LockInv, TypeOK
<1> SUFFICES status'[e] = status[e] /\ due'[e]
  BY <1>1 DEF Eligible
<1>2. ASSUME NEW s \in Senders, SenderNext(s)
      PROVE  status'[e] = status[e] /\ due'[e]
  BY <1>1, <1>2 DEF SenderNext, InsertOutboxEvent, CommitMessage, RollbackMessage,
                    ClaimInv, OpenInv, Unfinished, TypeOK
<1>3. ASSUME NEW w \in Workers, WorkerStep(w) \/ WorkerFault(w)
      PROVE  status'[e] = status[e] /\ due'[e]
  <2>1. CASE CommitClaim(w)
    <3>1. w # v
      BY <2>1 DEF CommitClaim, TypeOK
    <3>2. e \notin Batch(w)
      BY <1>1, <2>1, <3>1 DEF CommitClaim, ClaimInv, LockInv
    <3> QED
      BY <1>1, <2>1, <3>2 DEF CommitClaim
  <2>2. CASE MarkOutboxEventsPublished(w)
    <3>1. w # v /\ e \notin Batch(w) /\ due' = due
      BY <1>1, <2>2 DEF MarkOutboxEventsPublished, Updatable, Lockable
    <3> QED
      BY <1>1, <2>2, <3>1 DEF MarkOutboxEventsPublished
  <2>3. CASE DeadLetterOutboxEvent(w) \/ RescheduleOutboxEvent(w)
    <3>1. PICK d \in Batch(w), st \in {"dead_lettered", "pending"} :
            SettleFailed(w, d, st)
      BY <2>3 DEF DeadLetterOutboxEvent, RescheduleOutboxEvent
    <3>2. w # v /\ d # e
      BY <1>1, <3>1 DEF SettleFailed, Updatable, Lockable
    <3>3. /\ status' = [status EXCEPT ![d] =
                          IF status[d] = "processing" THEN st ELSE status[d]]
          /\ due' = [due EXCEPT ![d] = due[d] /\ status[d] # "processing"]
      BY <3>1 DEF SettleFailed
    <3> QED
      BY <1>1, <3>2, <3>3 DEF TypeOK
  <2>4. CASE UNCHANGED tableVars
    BY <1>1, <2>4 DEF tableVars
  <2> QED
    BY <1>3, <2>1, <2>2, <2>3, <2>4
       DEF WorkerStep, WorkerFault, ClaimFrontier, LockCandidates,
           PublishOutboxEvents, PublishFails, MarkFails, Crash
<1>4. ASSUME NEW d \in Seqs, BackoffElapses(d) \/ LeaseExpires(d) \/ LeaseOutlived(d)
      PROVE  status'[e] = status[e] /\ due'[e]
  BY <1>1, <1>4 DEF BackoffElapses, LeaseExpires, LeaseOutlived, TypeOK
<1>5. CASE UNCHANGED vars
  BY <1>1, <1>5 DEF vars, tableVars
<1> QED
  BY <1>2, <1>3, <1>4, <1>5 DEF Next

\* A worker that locks nothing more stays orderly.
LEMMA OrderlyStep ==
    ASSUME TypeOK, PublicationInv, ClaimInv, DisturbedInv, [Next]_vars, Grows,
           NEW v \in Workers, Orderly(v),
           locked'[v] \in {locked[v], {}},
           pc'[v] = "frontier" => pc[v] = "frontier",
           pc'[v] \in {"candidates", "claimed"} =>
             pc[v] \in {"candidates", "claimed"} /\ Batch(v)' = Batch(v)
    PROVE  Orderly(v)'
<1>1. locked[v] \subseteq Committed /\ Batch(v) \subseteq Committed
  BY DEF PublicationInv, ClaimedCommitted, ClaimInv, LeaseInv, Committed, Unfinished,
         TypeOK
<1>2. \A e \in locked'[v] : Eligible(e)'
  BY LockedStep DEF Orderly
<1>3. \A S : S \subseteq Committed /\ Prefix(S) => Prefix(S)'
  BY PrefixStep
<1>4. Prefix({})'
  BY DEF Prefix
<1>5. \A e \in Batch(v) : conversation'[e] = conversation[e]
  BY <1>1 DEF Grows
<1> QED
  BY <1>1, <1>2, <1>3, <1>4, <1>5 DEF Orderly, Prefix

LEMMA OneClaimStep ==
    ASSUME TypeOK, PublicationInv, ClaimInv, DisturbedInv, Grows, OneClaim,
           \A v \in Workers : locked'[v] \in {locked[v], {}}
    PROVE  OneClaim'
<1> SUFFICES ASSUME NEW w \in Workers, NEW v \in Workers \ {w},
                    NEW e \in locked'[w], NEW d \in locked'[v],
                    conversation'[e] = conversation'[d],
                    Undisturbed(conversation[e])'
             PROVE  FALSE
  BY DEF OneClaim
<1>1. e \in locked[w] /\ d \in locked[v] /\ e \in Committed /\ d \in Committed
  BY DEF ClaimInv, LeaseInv, Committed, Unfinished, TypeOK
<1>2. conversation[e] = conversation[d] /\ Undisturbed(conversation[e])'
  BY <1>1 DEF Grows
<1>3. Undisturbed(conversation[e])
  BY <1>1, <1>2 DEF Undisturbed, Grows, DisturbedInv
<1> QED
  BY <1>1, <1>2, <1>3 DEF OneClaim

\* A batch that leaves nothing behind keeps the log in order.
LEMMA PublicationStep ==
    ASSUME TypeOK, PublicationInv, OrderInv, Grows,
           \/ log' = log
           \/ \E w \in Workers :
                /\ pc[w] = "claimed" /\ log' = Appended(w)
                /\ UNCHANGED <<status, conversation, late, stale>>
    PROVE  OrderedPublication'
<1> SUFFICES ASSUME NEW c \in Conversations, Undisturbed(c)',
                    NEW m \in DOMAIN log'[c], NEW j \in log'[c][m],
                    NEW i \in RowsOf(c)', i < j
             PROVE  \/ \E n \in 1..m : i \in log'[c][n]
                    \/ status'[i] = "dead_lettered"
  BY DEF OrderedPublication, InOrder
<1>1. log[c] \in Seq(SUBSET Seqs) /\ DOMAIN log[c] = 1..Len(log[c])
  BY DEF TypeOK
<1>2. /\ Undisturbed(c)
      /\ \A k \in RowsOf(c), l \in RowsOf(c)' : l < k => l \in RowsOf(c)
  BY UndisturbedStep DEF OrderInv
<1>3. CASE m \in DOMAIN log[c] /\ log'[c][m] = log[c][m]
           /\ \A n \in 1..m : log'[c][n] = log[c][n]
  <2>1. j \in RowsOf(c)
    <3>1. j \in Seqs /\ Logged(j, c)
      BY <1>1, <1>3 DEF Logged
    <3> QED
      BY <3>1 DEF PublicationInv, NoGhostEvent, StoredTogether, RowsOf
  <2>2. i \in RowsOf(c)
    BY <1>2, <2>1
  <2>3. \/ \E n \in 1..m : i \in log[c][n]
        \/ status[i] = "dead_lettered"
    BY <1>2, <1>3, <2>2 DEF OrderInv, OrderedPublication, InOrder
  <2> QED
    BY <1>3, <2>2, <2>3 DEF Grows, RowsOf
<1>4. CASE log' = log
  BY <1>3, <1>4
<1>5. ASSUME NEW w \in Workers, pc[w] = "claimed", log' = Appended(w),
             UNCHANGED <<status, conversation, late, stale>>
      PROVE  \/ \E n \in 1..m : i \in log'[c][n]
             \/ status'[i] = "dead_lettered"
  <2> DEFINE records == {e \in Batch(w) : conversation[e] = c}
  <2>1. CASE log'[c] = log[c]
    BY <1>3, <2>1
  <2>2. CASE log'[c] = Append(log[c], records)
    <3>1. /\ m \in 1..(Len(log[c]) + 1)
          /\ log'[c][Len(log[c]) + 1] = records
          /\ \A n \in 1..Len(log[c]) : log'[c][n] = log[c][n]
      BY <1>1, <2>2
    <3>2. CASE m \in 1..Len(log[c])
      BY <1>1, <1>3, <3>1, <3>2
    <3>3. CASE m = Len(log[c]) + 1
      <4>1. j \in Batch(w) /\ conversation[j] = c /\ i \in RowsOf(c)
        BY <1>5, <3>1, <3>3 DEF RowsOf
      <4>2. CASE status[i] \in Unfinished
        <5>1. i \in Batch(w)
          BY <1>2, <1>5, <4>1, <4>2 DEF OrderInv, Orderly, Prefix
        <5>2. i \in records
          BY <4>1, <5>1 DEF RowsOf
        <5> QED
          BY <1>1, <3>1, <3>3, <5>2
      <4>3. CASE status[i] = "published"
        <5>1. Logged(i, c)
          BY <4>1, <4>3 DEF PublicationInv, NoPhantomPublish, RowsOf
        <5>2. PICK n \in 1..Len(log[c]) : i \in log[c][n]
          BY <1>1, <5>1 DEF Logged
        <5>3. n \in 1..m /\ i \in log'[c][n]
          BY <1>1, <3>1, <3>3, <5>2
        <5> QED
          BY <5>3
      <4>4. CASE status[i] = "dead_lettered"
        BY <1>5, <4>4
      <4> QED
        BY <4>1, <4>2, <4>3, <4>4 DEF RowsOf, TypeOK, Statuses, Unfinished
    <3> QED
      BY <3>1, <3>2, <3>3
  <2> QED
    BY <1>5, <2>1, <2>2 DEF Appended
<1> QED
  BY <1>4, <1>5

\* LIMIT takes the first rows.
LEMMA FirstTakesPrefix ==
    ASSUME NEW S \in SUBSET Seqs, NEW n \in Nat,
           NEW j \in First(n, S), NEW i \in S, i < j
    PROVE  i \in First(n, S)
<1> DEFINE I == {d \in S : d < i}
           J == {d \in S : d < j}
<1>1. I \subseteq J
  <2>1. j \in S
    BY FirstSubset
  <2>2. i \in Int /\ j \in Int /\ \A d \in S : d \in Int
    BY <2>1, OutboxAssumption
  <2>3. \A d \in S : d < i => d < j
    BY <2>2
  <2> QED
    BY <2>3
<1>2. IsFiniteSet(Seqs)
  BY OutboxAssumption, FS_Interval
<1>3. IsFiniteSet(J)
  BY <1>2, FS_Subset
<1>4. /\ Cardinality(I) \in Nat /\ Cardinality(J) \in Nat
      /\ Cardinality(I) <= Cardinality(J)
  BY <1>1, <1>3, FS_Subset, FS_CardinalityType
<1>5. Cardinality(J) < n
  BY DEF First
<1> QED
  BY <1>4, <1>5 DEF First

\* A worker that finds a frontier is alone in its aggregate: what another has
\* locked there is unfinished itself, and so is nothing before it.
LEMMA FrontierOrder ==
    ASSUME TypeOK, ClaimInv, OrderInv, NEW w \in Workers, ClaimFrontier(w)
    PROVE  /\ \A v \in Workers : Orderly(v)'
           /\ OneClaim'
<1>1. PICK f \in Seqs : /\ IsFrontier(f) /\ Lockable(w, f)
                       /\ locked' = [locked EXCEPT ![w] = {f}]
  BY DEF ClaimFrontier
<1>2. /\ locked'[w] = {f} /\ pc'[w] = "frontier"
      /\ \A v \in Workers \ {w} : locked'[v] = locked[v] /\ pc'[v] = pc[v]
      /\ UNCHANGED <<status, conversation, due, held, late, stale>>
  BY <1>1 DEF ClaimFrontier, tableVars, auxVars, TypeOK
<1>3. Eligible(f) /\ status[f] \in Unfinished /\ f \in RowsOf(conversation[f])
  BY <1>1 DEF IsFrontier, Eligible, RowsOf, Unfinished
<1>4. ASSUME NEW v \in Workers \ {w}
      PROVE  Orderly(v)'
  <2>1. Orderly(v)
    BY DEF OrderInv
  <2> QED
    BY <1>2, <2>1 DEF Orderly, Prefix, Eligible, RowsOf, Undisturbed
<1>5. Orderly(w)'
  <2>1. Prefix({f})
    BY <1>1 DEF IsFrontier, Prefix
  <2> QED
    BY <1>2, <1>3, <2>1 DEF Orderly, Prefix, Eligible, RowsOf, Undisturbed
<1>6. ASSUME NEW v \in Workers \ {w}, NEW e \in locked[v],
             conversation[e] = conversation[f], Undisturbed(conversation[e])
      PROVE  FALSE
  <2>1. e \in Seqs /\ Eligible(e) /\ e # f
    BY <1>1 DEF OrderInv, Orderly, Lockable, TypeOK
  <2>2. status[e] \in Unfinished /\ e \in RowsOf(conversation[f])
    BY <1>6, <2>1 DEF Eligible, RowsOf, Unfinished
  <2>3. CASE e < f
    BY <1>1, <2>2, <2>3 DEF IsFrontier
  <2>4. CASE f < e
    <3>1. Prefix(locked[v])
      BY DEF OrderInv, Orderly
    <3>2. f \in locked[v]
      BY <1>3, <1>6, <2>4, <3>1 DEF Prefix
    <3> QED
      BY <1>1, <3>2 DEF Lockable
  <2> QED
    BY <2>1, <2>3, <2>4
<1>7. OneClaim'
  BY <1>2, <1>6 DEF OneClaim, OrderInv, Undisturbed
<1> QED
  BY <1>4, <1>5, <1>7

\* The batch it then reads leaves out no unfinished row before it: such a row
\* would be behind the frontier, eligible, and locked by nobody else.
LEMMA CandidatesOrder ==
    ASSUME TypeOK, ClaimInv, OrderInv, NEW w \in Workers, LockCandidates(w)
    PROVE  /\ \A v \in Workers : Orderly(v)'
           /\ OneClaim'
<1>1. PICK f \in locked[w] :
        /\ locked' = [locked EXCEPT ![w] = @ \cup First(BatchSize, Candidates(w, f))]
        /\ held' = [held EXCEPT ![w] =
             [e \in First(BatchSize, Candidates(w, f)) |-> attempts[e]]]
  BY DEF LockCandidates
<1> DEFINE C == Candidates(w, f)
           ids == First(BatchSize, C)
           c == conversation[f]
<1>2. /\ locked'[w] = locked[w] \cup ids /\ Batch(w)' = ids
      /\ pc[w] = "frontier" /\ pc'[w] = "candidates"
      /\ \A v \in Workers \ {w} :
           locked'[v] = locked[v] /\ pc'[v] = pc[v] /\ held'[v] = held[v]
      /\ UNCHANGED <<status, conversation, due, late, stale>>
  BY <1>1 DEF LockCandidates, tableVars, auxVars, TypeOK
<1>3. /\ f \in Seqs /\ Eligible(f) /\ f \in RowsOf(c)
      /\ locked[w] = {f} /\ Prefix({f})
  <2>1. Orderly(w) /\ f \in Seqs
    BY DEF OrderInv, TypeOK
  <2>2. locked[w] = {f} /\ Eligible(f) /\ Prefix(locked[w])
    BY <1>2, <2>1 DEF Orderly
  <2> QED
    BY <2>1, <2>2 DEF Eligible, RowsOf, Unfinished
<1>4. /\ C \in SUBSET Seqs /\ ids \subseteq C
      /\ \A e \in C : conversation[e] = c /\ Eligible(e) /\ ~ Blocked(f, e)
  BY FirstSubset DEF Candidates, RowsOf
<1>5. ASSUME NEW v \in Workers \ {w}, NEW e \in locked[v],
             conversation[e] = c, Undisturbed(c)
      PROVE  FALSE
  BY <1>5 DEF OrderInv, OneClaim
<1>6. ASSUME Undisturbed(c), NEW e \in ids, NEW i \in RowsOf(c), i < e,
             status[i] \in Unfinished
      PROVE  i \in ids
  <2>1. i \in Seqs /\ e \in Seqs /\ f \in Seqs
    BY <1>3, <1>4 DEF RowsOf
  <2>2. i = f \/ f < i
    <3>1. ~ (i < f)
      BY <1>3, <1>6, <2>1 DEF Prefix
    <3> QED
      BY <2>1, <3>1
  <2>3. Eligible(i)
    BY <1>3, <1>4, <1>6, <2>2 DEF Blocked
  <2>4. ~ Blocked(f, i)
    <3> SUFFICES ASSUME NEW b \in RowsOf(conversation[i]), f < b, b < i,
                        status[b] \in Unfinished, ~ Eligible(b)
                 PROVE  FALSE
      BY DEF Blocked
    <3>1. b \in RowsOf(conversation[e]) /\ b < e
      BY <1>4, <1>6, <2>1 DEF RowsOf
    <3> QED
      BY <1>4, <3>1 DEF Blocked
  <2>5. Lockable(w, i)
    BY <1>5, <1>6 DEF Lockable, RowsOf
  <2>6. i \in C
    BY <1>6, <2>3, <2>4, <2>5 DEF Candidates
  <2> QED
    BY <1>4, <1>6, <2>6, FirstTakesPrefix, OutboxAssumption
<1>7. Prefix(ids)
  BY <1>4, <1>6 DEF Prefix
<1>8. Prefix(locked[w] \cup ids)
  BY <1>3, <1>7 DEF Prefix
<1> HIDE DEF C, ids, c
<1>9. Orderly(w)'
  <2>1. \A e \in locked'[w] : Eligible(e)'
    BY <1>2, <1>3, <1>4 DEF Eligible
  <2> QED
    BY <1>2, <1>4, <1>7, <1>8, <2>1 DEF Orderly, Prefix, RowsOf, Undisturbed
<1>10. ASSUME NEW v \in Workers \ {w}
       PROVE  Orderly(v)'
  <2>1. Orderly(v)
    BY DEF OrderInv
  <2> QED
    BY <1>2, <2>1 DEF Orderly, Prefix, Eligible, RowsOf, Undisturbed
<1>11. OneClaim'
  <2>1. \A e \in locked'[w] : conversation[e] = c
    BY <1>2, <1>3, <1>4 DEF c
  <2> QED
    BY <1>2, <1>5, <2>1 DEF OneClaim, OrderInv, Undisturbed
<1> QED
  BY <1>9, <1>10, <1>11

LEMMA StepOrder ==
    ASSUME TypeOK, PublicationInv, ClaimInv, OrderInv, [Next]_vars
    PROVE  OrderInv'
<1>1. Grows
  BY StepGrows
<1>2. DisturbedInv'
  BY <1>1 DEF Grows, DisturbedInv, OrderInv
<1>3. OrderedPublication'
  <2>1. \/ log' = log
        \/ \E w \in Workers :
             /\ pc[w] = "claimed" /\ log' = Appended(w)
             /\ UNCHANGED <<status, conversation, late, stale>>
    BY DEF Next, SenderNext, InsertOutboxEvent, CommitMessage, RollbackMessage,
           WorkerStep, WorkerFault, ClaimFrontier, LockCandidates, CommitClaim,
           PublishOutboxEvents, PublishFails, MarkOutboxEventsPublished,
           DeadLetterOutboxEvent, RescheduleOutboxEvent, SettleFailed, MarkFails,
           Crash, BackoffElapses, LeaseExpires, LeaseOutlived, vars, tableVars,
           auxVars
  <2> QED
    BY <1>1, <2>1, PublicationStep
<1>4. (\A v \in Workers : Orderly(v)') /\ OneClaim'
  <2>1. CASE \E w \in Workers : ClaimFrontier(w)
    BY <2>1, FrontierOrder
  <2>2. CASE \E w \in Workers : LockCandidates(w)
    BY <2>2, CandidatesOrder
  <2>3. ASSUME \A v \in Workers :
                 /\ locked'[v] \in {locked[v], {}}
                 /\ pc'[v] = "frontier" => pc[v] = "frontier"
                 /\ pc'[v] \in {"candidates", "claimed"} =>
                      pc[v] \in {"candidates", "claimed"} /\ Batch(v)' = Batch(v)
        PROVE  (\A v \in Workers : Orderly(v)') /\ OneClaim'
    BY <1>1, <2>3, OrderlyStep, OneClaimStep DEF OrderInv
  <2>4. CASE UNCHANGED <<pc, locked, held>>
    BY <2>3, <2>4
  <2>5. ASSUME NEW w \in Workers, WorkerStep(w) \/ WorkerFault(w),
               ~ ClaimFrontier(w), ~ LockCandidates(w)
        PROVE  \A v \in Workers :
                 /\ locked'[v] \in {locked[v], {}}
                 /\ pc'[v] = "frontier" => pc[v] = "frontier"
                 /\ pc'[v] \in {"candidates", "claimed"} =>
                      pc[v] \in {"candidates", "claimed"} /\ Batch(v)' = Batch(v)
    <3>1. \A v \in Workers \ {w} :
            pc'[v] = pc[v] /\ Batch(v)' = Batch(v) /\ locked'[v] = locked[v]
      BY <2>5 DEF WorkerStep, WorkerFault, CommitClaim, PublishOutboxEvents,
                  PublishFails, MarkOutboxEventsPublished, DeadLetterOutboxEvent,
                  RescheduleOutboxEvent, SettleFailed, MarkFails, Crash, TypeOK
    <3>2. /\ locked'[w] \in {locked[w], {}}
          /\ \/ pc'[w] \in {"idle", "sent", "failed"}
             \/ /\ pc[w] = "candidates" /\ pc'[w] = "claimed"
                /\ Batch(w)' = Batch(w)
      BY <2>5 DEF WorkerStep, WorkerFault, CommitClaim, PublishOutboxEvents,
                  PublishFails, MarkOutboxEventsPublished, DeadLetterOutboxEvent,
                  RescheduleOutboxEvent, SettleFailed, MarkFails, Crash, TypeOK
    <3> QED
      BY <3>1, <3>2
  <2>6. \/ \E w \in Workers : WorkerStep(w) \/ WorkerFault(w)
        \/ UNCHANGED <<pc, locked, held>>
    BY DEF Next, SenderNext, InsertOutboxEvent, CommitMessage, RollbackMessage,
           BackoffElapses, LeaseExpires, LeaseOutlived, vars, workerVars
  <2> QED
    BY <2>1, <2>2, <2>3, <2>4, <2>5, <2>6
<1> QED
  BY <1>2, <1>3, <1>4 DEF OrderInv

LEMMA OrderInvariant == Spec => []OrderInv
<1>1. TypeOK /\ PublicationInv /\ ClaimInv /\ OrderInv /\ [Next]_vars => OrderInv'
  BY StepOrder
<1> QED
  BY OrderInit, TypeCorrect, PublicationInvariant, ClaimInvariant, <1>1, PTL DEF Spec

\* Kafka receives the events of a conversation in sequence order, for any
\* number of senders, workers and faults, as long as the rows of the
\* conversation committed in that order and no lease was outlived.
THEOREM PublicationIsOrdered == Spec => []OrderedPublication
<1>1. OrderInv => OrderedPublication
  BY DEF OrderInv
<1> QED
  BY OrderInvariant, <1>1, PTL

-----------------------------------------------------------------------------
(* The outbox implements the ordered announcement.                         *)

\* Neither late commits nor outlived leases.
Calm == late \cup stale = {}

\* Rows that are stored stay so, in their aggregate, and no other appears.
LEMMA SameRows ==
    ASSUME TypeOK, PublicationInv, Grows, messages' = messages
    PROVE  Accepted' = Accepted
<1>1. \A e \in messages : conversation'[e] = conversation[e]
  BY DEF PublicationInv, StoredTogether, Grows, Committed, TypeOK
<1> QED
  BY <1>1 DEF Accepted

\* A commit accepts its message behind the others.
LEMMA CommitAccepts ==
    ASSUME TypeOK, PublicationInv, ClaimInv, Calm', NEW s \in Senders, CommitMessage(s)
    PROVE  \E c \in Conversations : A!Accept(c, open[s])
<1> DEFINE e == open[s]
           c == conversation[e]
<1>1. /\ e \in Seqs /\ status[e] = "none" /\ e \notin messages
      /\ c \in Conversations
  BY DEF CommitMessage, ClaimInv, OpenInv, PublicationInv, Allocation,
         StoredTogether, TypeOK
<1>2. /\ messages' = messages \cup {e} /\ UNCHANGED <<conversation, log>>
      /\ status' = [status EXCEPT ![e] = "pending"]
      /\ \A d \in RowsOf(c) : ~ (e < d)
  BY DEF CommitMessage, Calm
<1> HIDE DEF e, c
<1>3. \A d \in Conversations : e \notin Accepted[d]
  BY <1>1 DEF Accepted
<1>4. \A d \in Accepted[c] : d < e
  <2> SUFFICES ASSUME NEW d \in messages, conversation[d] = c
               PROVE  d < e
    BY <1>1 DEF Accepted
  <2>1. d \in Seqs /\ d # e /\ d \in RowsOf(c)
    BY <1>1 DEF PublicationInv, StoredTogether, RowsOf, TypeOK
  <2> QED
    BY <1>1, <1>2, <2>1, OutboxAssumption
<1>5. Accepted' = [Accepted EXCEPT ![c] = @ \cup {e}]
  <2>1. ASSUME NEW d \in Conversations
        PROVE  Accepted'[d] = IF d = c THEN Accepted[d] \cup {e} ELSE Accepted[d]
    BY <1>2 DEF Accepted, c
  <2> QED
    BY <2>1 DEF Accepted
<1>6. Abandoned' = Abandoned
  BY <1>1, <1>2 DEF Abandoned, TypeOK
<1> QED
  BY <1>1, <1>2, <1>3, <1>4, <1>5, <1>6 DEF A!Accept, e

\* The records of a batch are an announcement that leaves nothing out.
LEMMA AppendAnnounces ==
    ASSUME TypeOK, PublicationInv, ClaimInv, OrderInv, Calm, NEW w \in Workers,
           pc[w] = "claimed", log' = Appended(w),
           UNCHANGED <<messages, status, conversation>>
    PROVE  \/ UNCHANGED A!vars
           \/ \E c \in Conversations : \E S \in SUBSET Accepted[c] : A!Announce(c, S)
<1>1. Accepted' = Accepted /\ Abandoned' = Abandoned
  BY DEF Accepted, Abandoned
<1>2. CASE Batch(w) = {}
  <2>1. log' = log
    BY <1>2 DEF Appended, TypeOK
  <2> QED
    BY <1>1, <2>1 DEF A!vars
<1>3. ASSUME NEW e \in Batch(w)
      PROVE  \E c \in Conversations : \E S \in SUBSET Accepted[c] : A!Announce(c, S)
  <2> DEFINE c == conversation[e]
             S == Batch(w)
  <2>1. /\ c \in Conversations
        /\ \A d \in S : d \in Seqs /\ conversation[d] = c /\ d \in messages
    BY <1>3 DEF PublicationInv, ClaimedCommitted, Allocation, StoredTogether,
                OrderInv, Orderly, TypeOK
  <2>2. S \subseteq Accepted[c]
    BY <2>1 DEF Accepted
  <2>3. \A d \in S : status[d] = "processing"
    BY <2>1 DEF Calm, ClaimInv, LeaseInv, Holders, Working
  <2>4. S \subseteq Accepted[c] \ Abandoned
    BY <2>2, <2>3 DEF Abandoned
  <2>5. ASSUME NEW j \in S, NEW i \in Accepted[c], i < j
        PROVE  i \in S \cup A!Announced(c) \cup Abandoned
    <3>1. i \in Seqs /\ i \in RowsOf(c) /\ status[i] # "none"
      BY <2>1, <2>5 DEF Accepted, PublicationInv, StoredTogether, RowsOf, TypeOK
    <3>2. CASE status[i] \in Unfinished
      BY <2>1, <2>5, <3>1, <3>2 DEF OrderInv, Orderly, Prefix, Calm, Undisturbed
    <3>3. CASE status[i] = "published"
      <4>1. Logged(i, c)
        BY <3>1, <3>3 DEF PublicationInv, NoPhantomPublish, RowsOf
      <4> QED
        BY <4>1 DEF Logged, A!Announced
    <3>4. CASE status[i] = "dead_lettered"
      BY <3>1, <3>4 DEF Abandoned
    <3> QED
      BY <3>1, <3>2, <3>3, <3>4 DEF TypeOK, Statuses, Unfinished
  <2>6. log' = [log EXCEPT ![c] = Append(@, S)]
    <3>1. \A d \in Conversations :
            {r \in Batch(w) : conversation[r] = d} = IF d = c THEN S ELSE {}
      BY <2>1
    <3>2. \A d \in Conversations :
            log'[d] = IF d = c THEN Append(log[d], S) ELSE log[d]
      BY <1>3, <3>1 DEF Appended
    <3>3. log' = [d \in Conversations |-> log'[d]]
      BY DEF Appended
    <3>4. DOMAIN log = Conversations
      BY DEF TypeOK
    <3>5. log' = [d \in Conversations |->
                    IF d = c THEN Append(log[d], S) ELSE log[d]]
      BY <3>2, <3>3
    <3> QED
      BY <3>4, <3>5
  <2>7. S # {}
    BY <1>3
  <2> HIDE DEF S, c
  <2>8. A!Announce(c, S)
    BY <1>1, <2>4, <2>5, <2>6, <2>7 DEF A!Announce
  <2> QED
    BY <2>1, <2>2, <2>8
<1> QED
  BY <1>2, <1>3

\* Giving a row up abandons its message.
LEMMA SettleAbandons ==
    ASSUME TypeOK, PublicationInv, ClaimInv, Grows, NEW w \in Workers,
           NEW e \in Batch(w), NEW st \in {"dead_lettered", "pending"},
           SettleFailed(w, e, st)
    PROVE  UNCHANGED A!vars \/ A!Abandon(e)
<1>1. /\ e \in Seqs /\ e \in messages /\ conversation[e] \in Conversations
  BY DEF PublicationInv, ClaimedCommitted, Allocation, StoredTogether, TypeOK
<1>2. /\ UNCHANGED <<messages, conversation, log>>
      /\ status' = [status EXCEPT ![e] =
                      IF status[e] = "processing" THEN st ELSE status[e]]
  BY DEF SettleFailed
<1>3. Accepted' = Accepted
  BY <1>2 DEF Accepted
<1>4. CASE status[e] = "processing" /\ st = "dead_lettered"
  <2>1. e \notin Abandoned /\ Abandoned' = Abandoned \cup {e}
    BY <1>1, <1>2, <1>4 DEF Abandoned, TypeOK
  <2>2. e \in Accepted[conversation[e]]
    BY <1>1 DEF Accepted
  <2> QED
    BY <1>1, <1>2, <1>3, <2>1, <2>2 DEF A!Abandon
<1>5. CASE ~ (status[e] = "processing" /\ st = "dead_lettered")
  <2>1. Abandoned' = Abandoned
    BY <1>1, <1>2, <1>5 DEF Abandoned, TypeOK
  <2> QED
    BY <1>2, <1>3, <2>1 DEF A!vars
<1> QED
  BY <1>4, <1>5

LEMMA StepAnnounces ==
    ASSUME TypeOK, PublicationInv, ClaimInv, OrderInv, Calm, Calm', [Next]_vars
    PROVE  [A!Next]_(A!vars)
<1>1. Grows
  BY StepGrows
<1>2. ASSUME UNCHANGED <<messages, log>>, Abandoned' = Abandoned
      PROVE  UNCHANGED A!vars
  BY <1>1, <1>2, SameRows DEF A!vars
<1>3. ASSUME NEW s \in Senders, SenderNext(s)
      PROVE  [A!Next]_(A!vars)
  <2>1. CASE CommitMessage(s)
    <3>1. PICK c \in Conversations : A!Accept(c, open[s])
      BY <2>1, CommitAccepts
    <3>2. open[s] \in Seqs
      BY <2>1 DEF CommitMessage, TypeOK
    <3> QED
      BY <3>1, <3>2 DEF A!Next
  <2>2. CASE RollbackMessage(s) \/ \E c \in Conversations : InsertOutboxEvent(s, c)
    BY <1>2, <2>2 DEF RollbackMessage, InsertOutboxEvent, Abandoned
  <2> QED
    BY <1>3, <2>1, <2>2 DEF SenderNext
<1>4. ASSUME NEW w \in Workers, WorkerStep(w) \/ WorkerFault(w)
      PROVE  [A!Next]_(A!vars)
  <2>1. CASE CommitClaim(w)
    <3>1. \A e \in Batch(w) : status[e] \in Unfinished
      BY <2>1 DEF CommitClaim, ClaimInv, LockInv, LeaseInv
    <3>2. Abandoned' = Abandoned
      BY <2>1, <3>1 DEF CommitClaim, Abandoned, Unfinished
    <3> QED
      BY <1>2, <2>1, <3>2 DEF CommitClaim
  <2>2. CASE MarkOutboxEventsPublished(w)
    <3>1. Abandoned' = Abandoned
      BY <2>2 DEF MarkOutboxEventsPublished, Abandoned
    <3> QED
      BY <1>2, <2>2, <3>1 DEF MarkOutboxEventsPublished
  <2>3. CASE DeadLetterOutboxEvent(w) \/ RescheduleOutboxEvent(w)
    <3>1. PICK e \in Batch(w), st \in {"dead_lettered", "pending"} :
            SettleFailed(w, e, st)
      BY <2>3 DEF DeadLetterOutboxEvent, RescheduleOutboxEvent
    <3>2. e \in Seqs
      BY DEF TypeOK
    <3> QED
      BY <1>1, <3>1, <3>2, SettleAbandons DEF A!Next
  <2>4. CASE UNCHANGED tableVars /\ log' = log
    BY <1>2, <2>4 DEF tableVars, Abandoned
  <2>5. CASE UNCHANGED tableVars /\ pc[w] = "claimed" /\ log' = Appended(w)
    <3>1. UNCHANGED <<messages, status, conversation>>
      BY <2>5 DEF tableVars
    <3> QED
      BY <2>5, <3>1, AppendAnnounces DEF A!Next
  <2> QED
    BY <1>4, <2>1, <2>2, <2>3, <2>4, <2>5
       DEF WorkerStep, WorkerFault, ClaimFrontier, LockCandidates,
           PublishOutboxEvents, PublishFails, MarkFails, Crash
<1>5. ASSUME NEW e \in Seqs, BackoffElapses(e) \/ LeaseExpires(e) \/ LeaseOutlived(e)
      PROVE  [A!Next]_(A!vars)
  BY <1>2, <1>5 DEF BackoffElapses, LeaseExpires, LeaseOutlived, Abandoned
<1>6. CASE UNCHANGED vars
  BY <1>2, <1>6 DEF vars, tableVars, Abandoned
<1> QED
  BY <1>3, <1>4, <1>5, <1>6 DEF Next

\* As long as rows commit in sequence order and no lease is outlived, stored
\* messages are announced in order or given up, whatever crashes, failing sends
\* and lost acknowledgements lie between.
THEOREM OutboxImplementsAnnouncement == Spec /\ []Calm => ImplementsAnnouncement
<1>1. Init => A!Init
  BY DEF Init, A!Init, Accepted, Abandoned
<1>2. TypeOK /\ PublicationInv /\ ClaimInv /\ OrderInv /\ Calm /\ Calm' /\ [Next]_vars
        => [A!Next]_(A!vars)
  BY StepAnnounces
<1> QED
  BY <1>1, <1>2, TypeCorrect, PublicationInvariant, ClaimInvariant, OrderInvariant,
     PTL DEF Spec, ImplementsAnnouncement, A!Spec

\* With one send at a time and leases that are long enough nothing is disturbed:
\* the open row is the newest, so that no row commits behind a later one.
THEOREM LoneSenderImplementsAnnouncement ==
    ASSUME \A s, t \in Senders : s = t, MaxSlow = 0
    PROVE  Spec => ImplementsAnnouncement
<1> DEFINE Newest == \A s \in Senders : open[s] # 0 => open[s] = nextSeq - 1
           Quiet  == Newest /\ Calm
<1>1. Init => Quiet
  BY DEF Init, Calm
<1>2. TypeOK /\ PublicationInv /\ ClaimInv /\ Quiet /\ [Next]_vars => Quiet'
  <2> SUFFICES ASSUME TypeOK, PublicationInv, ClaimInv, Quiet, [Next]_vars
               PROVE  Quiet'
    OBVIOUS
  <2>1. ASSUME NEW s \in Senders, NEW c \in Conversations, InsertOutboxEvent(s, c)
        PROVE  Quiet'
    <3>1. /\ nextSeq \in Nat /\ nextSeq' = nextSeq + 1 /\ open'[s] = nextSeq
          /\ UNCHANGED <<late, stale>>
      BY <2>1, OutboxAssumption DEF InsertOutboxEvent, auxVars, TypeOK
    <3> QED
      BY <3>1 DEF Calm
  <2>2. ASSUME NEW s \in Senders, CommitMessage(s)
        PROVE  Quiet'
    <3> DEFINE e == open[s]
    <3>1. e \in Seqs /\ e = nextSeq - 1 /\ status[e] = "none" /\ nextSeq \in Nat
      BY <2>2, OutboxAssumption DEF CommitMessage, ClaimInv, OpenInv, TypeOK
    <3>2. \A d \in RowsOf(conversation[e]) : ~ (e < d)
      BY <3>1, OutboxAssumption DEF RowsOf, PublicationInv, Allocation
    <3>3. late' = late /\ stale' = stale
      BY <2>2, <3>2 DEF CommitMessage
    <3>4. open'[s] = 0 /\ nextSeq' = nextSeq
      BY <2>2 DEF CommitMessage, TypeOK
    <3> QED
      BY <3>3, <3>4 DEF Calm
  <2>3. ASSUME NEW s \in Senders, RollbackMessage(s)
        PROVE  Quiet'
    BY <2>3 DEF RollbackMessage, auxVars, Calm, TypeOK
  <2>4. CASE UNCHANGED <<open, nextSeq, late, stale>>
    BY <2>4 DEF Calm
  <2>5. ASSUME NEW e \in Seqs, LeaseOutlived(e)
        PROVE  FALSE
    BY <2>5 DEF LeaseOutlived, TypeOK
  <2> QED
    BY <2>1, <2>2, <2>3, <2>4, <2>5
       DEF Next, SenderNext, WorkerStep, WorkerFault, ClaimFrontier, LockCandidates,
           CommitClaim, PublishOutboxEvents, PublishFails, MarkOutboxEventsPublished,
           DeadLetterOutboxEvent, RescheduleOutboxEvent, SettleFailed, MarkFails,
           Crash, BackoffElapses, LeaseExpires, vars, tableVars, auxVars
<1>3. Quiet => Calm
  OBVIOUS
<1> HIDE DEF Quiet
<1> QED
  BY <1>1, <1>2, <1>3, TypeCorrect, PublicationInvariant, ClaimInvariant,
     OutboxImplementsAnnouncement, PTL DEF Spec
-----------------------------------------------------------------------------
(* Bounded duplicates.                                                     *)
(*                                                                         *)
(* A row is claimed again only if its last holder gave it back, which one  *)
(* that has counted OUTBOX_MAX_ATTEMPTS does not, or if a fault or an      *)
(* outlived lease took it away.  Late holders can give it back as well, and*)
(* there is at most one of them for each outlived lease; a claim uses up   *)
(* the opportunity, so that the sum of what can still happen never grows.  *)

\* The holders of e that would return it to pending.
Retriers(e) == {w \in Holders(e) : held[w][e] < MaxAttempts}

\* Nothing but time stands between e and its next claim.
Claimable(e) ==
    \/ status[e] = "pending"
    \/ status[e] = "processing" /\ (due[e] \/ Holders(e) = {})

\* After n faults and outlived leases at most one holder besides n is at work,
\* and none besides n if the row can be claimed.
HolderInv(e, n) ==
    /\ Cardinality(Holders(e)) <= n + 1
    /\ status[e] # "processing" \/ Claimable(e) => Cardinality(Holders(e)) <= n

\* The attempts made and those still to come.
AttemptInv(e, n) ==
    /\ status[e] = "none" => attempts[e] = 0
    /\ attempts[e] >= MaxAttempts =>
         /\ attempts[e] + Cardinality(Retriers(e)) <= MaxAttempts + n
         /\ Claimable(e) =>
              attempts[e] + Cardinality(Retriers(e)) < MaxAttempts + n

RowInv(e, n) == HolderInv(e, n) /\ AttemptInv(e, n)

Records(e, c) == {m \in DOMAIN log[c] : e \in log[c][m]}

\* The workers that are about to publish e.
Publishers(e) == {w \in Workers : pc[w] = "claimed" /\ e \in Batch(w)}

\* A claim puts a row in the log at most once.
RecordInv(e, c) ==
    Cardinality(Records(e, c)) + Cardinality(Publishers(e)) <= attempts[e]

DuplicateInv ==
    \A e \in Seqs : /\ RowInv(e, faults + slow)
                    /\ \A c \in Conversations : RecordInv(e, c)

LEMMA WorkerCards ==
    ASSUME NEW T \in SUBSET Workers
    PROVE  /\ Cardinality(T) \in Nat /\ (T = {} => Cardinality(T) = 0)
           /\ \A S \in SUBSET T : Cardinality(S) \in Nat /\ Cardinality(S) <= Cardinality(T)
           /\ \A w \in Workers :
                Cardinality(T \cup {w}) =
                  IF w \in T THEN Cardinality(T) ELSE Cardinality(T) + 1
           /\ \A w \in T : Cardinality(T \ {w}) = Cardinality(T) - 1
<1>1. IsFiniteSet(T)
  BY WorkersAssumption, FS_Subset
<1>2. Cardinality(T) \in Nat /\ (T = {} => Cardinality(T) = 0)
  BY <1>1, FS_CardinalityType, FS_EmptySet
<1>3. \A S \in SUBSET T : Cardinality(S) \in Nat /\ Cardinality(S) <= Cardinality(T)
  BY <1>1, FS_Subset, FS_CardinalityType
<1>4. \A w \in Workers :
        Cardinality(T \cup {w}) = IF w \in T THEN Cardinality(T) ELSE Cardinality(T) + 1
  BY <1>1, FS_AddElement
<1>5. \A w \in T : Cardinality(T \ {w}) = Cardinality(T) - 1
  BY <1>1, FS_RemoveElement
<1> QED
  BY <1>2, <1>3, <1>4, <1>5

\* The sizes a row's invariant speaks of.
LEMMA RowTypes ==
    ASSUME TypeOK, NEW e \in Seqs
    PROVE  /\ Holders(e) \in SUBSET Workers /\ Retriers(e) \in SUBSET Holders(e)
           /\ Cardinality(Holders(e)) \in Nat /\ Cardinality(Retriers(e)) \in Nat
           /\ Cardinality(Retriers(e)) <= Cardinality(Holders(e))
           /\ attempts[e] \in Nat
           /\ MaxAttempts \in Nat
<1>1. Holders(e) \in SUBSET Workers /\ Retriers(e) \in SUBSET Holders(e)
  BY DEF Holders, Retriers
<1>2. /\ Cardinality(Holders(e)) \in Nat /\ Cardinality(Retriers(e)) \in Nat
      /\ Cardinality(Retriers(e)) <= Cardinality(Holders(e))
  BY <1>1, WorkerCards
<1>3. attempts[e] \in Nat /\ MaxAttempts \in Nat
  BY OutboxAssumption DEF TypeOK
<1> QED
  BY <1>1, <1>2, <1>3

\* Nothing happens to row e but perhaps a fault elsewhere.
LEMMA RowUntouched ==
    ASSUME TypeOK, NEW m \in Nat, NEW n \in Nat, NEW e \in Seqs, RowInv(e, m),
           status'[e] = status[e], due'[e] = due[e], attempts'[e] = attempts[e],
           Holders(e)' = Holders(e), Retriers(e)' = Retriers(e), m <= n
    PROVE  RowInv(e, n)'
<1>1. /\ Cardinality(Holders(e)) \in Nat /\ Cardinality(Retriers(e)) \in Nat
      /\ attempts[e] \in Nat
      /\ MaxAttempts \in Nat
  BY RowTypes
<1>2. Claimable(e)' <=> Claimable(e)
  BY DEF Claimable
<1> QED
  BY <1>1, <1>2 DEF RowInv, HolderInv, AttemptInv

\* The message and its row are committed.
LEMMA RowAppears ==
    ASSUME TypeOK, PublicationInv, NEW m \in Nat, NEW n \in Nat, NEW e \in Seqs, RowInv(e, m),
           status[e] = "none", attempts'[e] = attempts[e], status'[e] = "pending",
           Holders(e)' = Holders(e)
    PROVE  RowInv(e, n)'
<1>1. Holders(e) = {}
  BY DEF Holders, PublicationInv, ClaimedCommitted
<1>2. Cardinality(Holders(e)') = 0
  BY <1>1, FS_EmptySet
<1>3. attempts'[e] = 0 /\ MaxAttempts \in Nat \ {0}
  BY OutboxAssumption DEF RowInv, AttemptInv
<1>4. HolderInv(e, n)'
  <2>1. /\ Cardinality(Holders(e)') <= n
        /\ Cardinality(Holders(e)') <= n + 1
    BY <1>2
  <2> QED
    BY <2>1 DEF HolderInv
<1>5. AttemptInv(e, n)'
  BY <1>3 DEF AttemptInv
<1> QED
  BY <1>4, <1>5 DEF RowInv

\* Worker w claims the row, which uses up the opportunity.
LEMMA RowClaimed ==
    ASSUME TypeOK, NEW m \in Nat, NEW n \in Nat, NEW e \in Seqs, RowInv(e, m), Claimable(e),
           status'[e] = "processing", ~ due'[e], attempts'[e] = attempts[e] + 1,
           n = m, NEW w \in Workers, w \notin Holders(e),
           Holders(e)' = Holders(e) \cup {w},
           Retriers(e)' = IF attempts[e] + 1 < MaxAttempts
                          THEN Retriers(e) \cup {w} ELSE Retriers(e)
    PROVE  RowInv(e, n)'
<1> DEFINE h == Cardinality(Holders(e))
           r == Cardinality(Retriers(e))
<1>1. /\ h \in Nat /\ r \in Nat /\ r <= h
      /\ attempts[e] \in Nat
      /\ MaxAttempts \in Nat
  BY RowTypes
<1>2. Cardinality(Holders(e)') = h + 1
  BY RowTypes, WorkerCards
<1>3. attempts[e] + 1 >= MaxAttempts => Cardinality(Retriers(e)') = r
  BY <1>1
<1>4. ~ Claimable(e)'
  BY DEF Claimable
<1>5. h <= m
  BY <1>1 DEF RowInv, HolderInv
<1>6. attempts[e] >= MaxAttempts => attempts[e] + r < MaxAttempts + m
  BY DEF RowInv, AttemptInv
<1> HIDE DEF h, r
<1>7. HolderInv(e, n)'
  BY <1>1, <1>2, <1>4, <1>5 DEF HolderInv
<1>8. AttemptInv(e, n)'
  <2>1. CASE attempts[e] >= MaxAttempts
    BY <1>1, <1>3, <1>4, <1>6, <2>1 DEF AttemptInv
  <2>2. CASE attempts[e] < MaxAttempts
    BY <1>1, <1>3, <1>4, <1>5, <2>2 DEF AttemptInv
  <2> QED
    BY <1>1, <2>1, <2>2
<1> QED
  BY <1>7, <1>8 DEF RowInv

\* Holder w goes: it dies, or comes too late to settle the row, or settles it.
LEMMA RowLeft ==
    ASSUME TypeOK, NEW m \in Nat, NEW n \in Nat, NEW e \in Seqs, RowInv(e, m), NEW w \in Holders(e),
           attempts'[e] = attempts[e], m <= n,
           Holders(e)' = Holders(e) \ {w}, Retriers(e)' = Retriers(e) \ {w},
           \/ /\ status'[e] = status[e] /\ due'[e] = due[e]
              /\ status[e] = "processing" => n = m + 1
           \/ /\ status[e] = "processing"
              /\ status'[e] \in {"published", "dead_lettered"}
           \/ /\ status[e] = "processing"
              /\ status'[e] = "pending" /\ w \in Retriers(e)
    PROVE  RowInv(e, n)'
<1> DEFINE h == Cardinality(Holders(e))
           r == Cardinality(Retriers(e))
           k == Cardinality(Retriers(e)')
<1>1. /\ h \in Nat /\ r \in Nat /\ k \in Nat
      /\ attempts[e] \in Nat
      /\ MaxAttempts \in Nat
  <2>1. Retriers(e) \ {w} \in SUBSET Workers
    BY RowTypes
  <2> QED
    BY <2>1, RowTypes, WorkerCards
<1>2. Cardinality(Holders(e)') = h - 1
  BY RowTypes, WorkerCards
<1>3. k <= r /\ (w \in Retriers(e) => k = r - 1)
  <2>1. Retriers(e) \in SUBSET Workers
    BY RowTypes
  <2> QED
    BY <2>1, WorkerCards
<1>4. /\ h <= m + 1
      /\ status[e] # "processing" \/ Claimable(e) => h <= m
  BY DEF RowInv, HolderInv
<1>5. attempts[e] >= MaxAttempts =>
        /\ attempts[e] + r <= MaxAttempts + m
        /\ Claimable(e) => attempts[e] + r < MaxAttempts + m
  BY DEF RowInv, AttemptInv
<1>6. status[e] # "none" \/ attempts[e] = 0
  BY DEF RowInv, AttemptInv
<1> HIDE DEF h, r, k
<1>7. HolderInv(e, n)'
  <2>1. h - 1 <= n /\ h - 1 <= n + 1
    BY <1>1, <1>4
  <2> QED
    BY <1>2, <2>1 DEF HolderInv
<1>8. AttemptInv(e, n)'
  <2>1. status'[e] = "none" => attempts'[e] = 0
    BY <1>6
  <2>2. ASSUME attempts[e] >= MaxAttempts
        PROVE  /\ attempts[e] + k <= MaxAttempts + n
               /\ Claimable(e)' => attempts[e] + k < MaxAttempts + n
    <3>1. CASE status'[e] = status[e] /\ due'[e] = due[e]
               /\ (status[e] = "processing" => n = m + 1)
      <4>1. status[e] # "processing" => (Claimable(e)' <=> Claimable(e))
        BY <3>1 DEF Claimable
      <4> QED
        BY <1>1, <1>3, <1>5, <2>2, <3>1, <4>1
    <3>2. CASE status'[e] \in {"published", "dead_lettered"}
      <4>1. ~ Claimable(e)'
        BY <3>2 DEF Claimable
      <4> QED
        BY <1>1, <1>3, <1>5, <2>2, <4>1
    <3>3. CASE w \in Retriers(e)
      BY <1>1, <1>3, <1>5, <2>2, <3>3
    <3> QED
      BY <3>1, <3>2, <3>3
  <2> QED
    BY <2>1, <2>2 DEF AttemptInv, k
<1> QED
  BY <1>7, <1>8 DEF RowInv

\* Time passes for the row: an outlived lease counts.
LEMMA RowDue ==
    ASSUME TypeOK, NEW m \in Nat, NEW n \in Nat, NEW e \in Seqs, RowInv(e, m),
           status'[e] = status[e], attempts'[e] = attempts[e],
           Holders(e)' = Holders(e), Retriers(e)' = Retriers(e),
           \/ status[e] = "pending" /\ n = m
           \/ /\ status[e] = "processing" /\ due'[e]
              /\ \/ Holders(e) = {} /\ n = m
                 \/ n = m + 1
    PROVE  RowInv(e, n)'
<1>1. /\ Cardinality(Holders(e)) \in Nat /\ Cardinality(Retriers(e)) \in Nat
      /\ attempts[e] \in Nat
      /\ MaxAttempts \in Nat
  BY RowTypes
<1>2. Claimable(e)'
  BY DEF Claimable
<1>3. n = m => Claimable(e)
  BY <1>1 DEF Claimable
<1>4. HolderInv(e, n)'
  BY <1>1, <1>2, <1>3 DEF RowInv, HolderInv
<1>5. AttemptInv(e, n)'
  BY <1>1, <1>2, <1>3 DEF RowInv, AttemptInv
<1> QED
  BY <1>4, <1>5 DEF RowInv

LEMMA FaultsType ==
    ASSUME TypeOK
    PROVE  faults \in Nat /\ slow \in Nat
<1>1. faults \in 0..MaxFaults /\ slow \in 0..MaxSlow
  BY DEF TypeOK
<1> QED
  BY <1>1, OutboxAssumption

\* Every step is one of these for each row.
LEMMA StepRows ==
    ASSUME TypeOK, PublicationInv, ClaimInv, OrderInv, [Next]_vars,
           NEW m \in Nat, m = faults + slow, NEW n \in Nat, n = faults' + slow',
           NEW e \in Seqs, RowInv(e, m)
    PROVE  RowInv(e, n)'
<1>1. ASSUME NEW s \in Senders, SenderNext(s)
      PROVE  RowInv(e, n)'
  <2>1. UNCHANGED <<attempts, pc, held, faults, slow>>
    BY <1>1 DEF SenderNext, InsertOutboxEvent, CommitMessage, RollbackMessage,
                workerVars, auxVars
  <2>2. /\ Holders(e)' = Holders(e) /\ Retriers(e)' = Retriers(e)
        /\ n = m
    BY <2>1, RowTypes DEF Holders, Retriers
  <2>3. CASE CommitMessage(s) /\ e = open[s]
    <3>1. status[e] = "none" /\ status'[e] = "pending"
      BY <2>3 DEF CommitMessage, ClaimInv, OpenInv, TypeOK
    <3> QED
      BY <2>1, <2>2, <3>1, RowAppears
  <2>4. CASE ~ (CommitMessage(s) /\ e = open[s])
    <3>1. status'[e] = status[e] /\ due'[e] = due[e]
      BY <1>1, <2>4 DEF SenderNext, InsertOutboxEvent, CommitMessage,
                        RollbackMessage, TypeOK
    <3> QED
      BY <2>1, <2>2, <3>1, RowUntouched
  <2> QED
    BY <2>3, <2>4
<1>2. ASSUME NEW w \in Workers,
             \/ ClaimFrontier(w) \/ LockCandidates(w) \/ PublishOutboxEvents(w)
             \/ PublishFails(w) \/ MarkFails(w)
      PROVE  RowInv(e, n)'
  <2>1. UNCHANGED <<status, due, attempts>>
    BY <1>2 DEF ClaimFrontier, LockCandidates, PublishOutboxEvents, PublishFails,
                MarkFails, tableVars
  <2>2. \A v \in Workers : /\ pc'[v] \in Working <=> pc[v] \in Working
                           /\ pc[v] \in Working => held'[v] = held[v]
    BY <1>2 DEF ClaimFrontier, LockCandidates, PublishOutboxEvents, PublishFails,
                MarkFails, Working, TypeOK
  <2>3. Holders(e)' = Holders(e) /\ Retriers(e)' = Retriers(e)
    BY <2>2 DEF Holders, Retriers
  <2>4. m <= n
    BY <1>2, FaultsType
       DEF ClaimFrontier, LockCandidates, PublishOutboxEvents, PublishFails,
           MarkFails, auxVars
  <2> QED
    BY <2>1, <2>3, <2>4, RowUntouched
<1>3. ASSUME NEW w \in Workers, CommitClaim(w)
      PROVE  RowInv(e, n)'
  <2>1. /\ n = m
        /\ status'[e] = IF e \in Batch(w) THEN "processing" ELSE status[e]
        /\ e \notin Batch(w) => due'[e] = due[e]
        /\ e \in Batch(w) => ~ due'[e]
        /\ attempts'[e] = attempts[e] + (IF e \in Batch(w) THEN 1 ELSE 0)
        /\ attempts[e] \in Nat
    <3>1. due[e] \in BOOLEAN
      BY DEF TypeOK
    <3> QED
      BY <1>3, <3>1, RowTypes DEF CommitClaim, auxVars
  <2>2. /\ pc[w] = "candidates" /\ pc'[w] = "claimed"
        /\ Batch(w)' = Batch(w)
        /\ \A d \in Batch(w) : held'[w][d] = attempts[d] + 1
        /\ \A v \in Workers \ {w} : pc'[v] = pc[v] /\ held'[v] = held[v]
    BY <1>3 DEF CommitClaim, TypeOK
  <2>3. CASE e \in Batch(w)
    <3>1. Claimable(e)
      BY <1>3, <2>3 DEF CommitClaim, ClaimInv, LockInv, OrderInv, Orderly, Eligible,
                        Unfinished, Claimable
    <3>2. w \notin Holders(e) /\ Holders(e)' = Holders(e) \cup {w}
      BY <2>2, <2>3 DEF Holders, Working
    <3>3. Retriers(e)' = IF attempts[e] + 1 < MaxAttempts
                         THEN Retriers(e) \cup {w} ELSE Retriers(e)
      <4>1. held'[w][e] = attempts[e] + 1
        BY <2>2, <2>3
      <4>2. \A v \in Holders(e) : v \in Workers \ {w} /\ held'[v] = held[v]
        BY <2>2, <3>2 DEF Holders
      <4> QED
        BY <3>2, <4>1, <4>2 DEF Retriers
    <3>4. status'[e] = "processing" /\ ~ due'[e] /\ attempts'[e] = attempts[e] + 1
      BY <2>1, <2>3
    <3> QED
      BY <2>1, <3>1, <3>2, <3>3, <3>4, RowClaimed
  <2>4. CASE e \notin Batch(w)
    <3>1. Holders(e)' = Holders(e)
      BY <2>2, <2>4 DEF Holders
    <3>2. Retriers(e)' = Retriers(e)
      BY <2>2, <2>4, <3>1 DEF Retriers, Holders
    <3>3. status'[e] = status[e] /\ due'[e] = due[e] /\ attempts'[e] = attempts[e]
      BY <2>1, <2>4
    <3> QED
      BY <2>1, <3>1, <3>2, <3>3, RowUntouched
  <2> QED
    BY <2>3, <2>4
<1>4. ASSUME NEW w \in Workers, MarkOutboxEventsPublished(w)
      PROVE  RowInv(e, n)'
  <2>1. /\ UNCHANGED <<due, attempts>>
        /\ n = m
        /\ status'[e] = IF e \in Batch(w) /\ status[e] = "processing"
                        THEN "published" ELSE status[e]
    BY <1>4, RowTypes DEF MarkOutboxEventsPublished, auxVars
  <2>2. /\ pc[w] \in Working /\ pc'[w] \notin Working
        /\ \A v \in Workers \ {w} : pc'[v] = pc[v] /\ held'[v] = held[v]
    BY <1>4 DEF MarkOutboxEventsPublished, Working, TypeOK
  <2>3. Holders(e)' = Holders(e) \ {w} /\ Retriers(e)' = Retriers(e) \ {w}
    BY <2>2 DEF Holders, Retriers
  <2>4. CASE e \in Batch(w)
    <3>1. w \in Holders(e)
      BY <2>2, <2>4 DEF Holders
    <3>2. CASE status[e] = "processing"
      BY <2>1, <2>3, <2>4, <3>1, <3>2, RowLeft
    <3>3. CASE status[e] # "processing"
      BY <2>1, <2>3, <3>1, <3>3, RowLeft
    <3> QED
      BY <3>2, <3>3
  <2>5. CASE e \notin Batch(w)
    <3>1. w \notin Holders(e) /\ w \notin Retriers(e)
      BY <2>5 DEF Holders, Retriers
    <3>2. Holders(e)' = Holders(e) /\ Retriers(e)' = Retriers(e)
      BY <2>3, <3>1
    <3> QED
      BY <2>1, <2>5, <3>2, RowUntouched
  <2> QED
    BY <2>4, <2>5
<1>5. ASSUME NEW w \in Workers, NEW d \in Batch(w),
             NEW st \in {"pending", "dead_lettered"}, SettleFailed(w, d, st),
             st = "pending" => held[w][d] < MaxAttempts
      PROVE  RowInv(e, n)'
  <2> /\ attempts' = attempts
      /\ n = m
    BY <1>5, RowTypes DEF SettleFailed, auxVars
  <2>1. /\ status'[e] = IF e = d /\ status[e] = "processing" THEN st ELSE status[e]
        /\ e # d \/ status[e] # "processing" => due'[e] = due[e]
    BY <1>5 DEF SettleFailed, TypeOK
  <2>2. /\ pc[w] \in Working
        /\ pc'[w] \in Working \/ Batch(w) = {d}
        /\ Batch(w)' = Batch(w) \ {d}
        /\ \A x \in Batch(w) \ {d} : held'[w][x] = held[w][x]
        /\ \A v \in Workers \ {w} : pc'[v] = pc[v] /\ held'[v] = held[v]
    BY <1>5 DEF SettleFailed, Working, TypeOK
  <2>3. CASE e = d
    <3>1. w \in Holders(e) /\ Holders(e)' = Holders(e) \ {w}
      BY <1>5, <2>2, <2>3 DEF Holders
    <3>2. Retriers(e)' = Retriers(e) \ {w}
      BY <2>2, <3>1 DEF Retriers, Holders
    <3>3. st = "pending" => w \in Retriers(e)
      BY <1>5, <2>3, <3>1 DEF Retriers
    <3>4. CASE status[e] = "processing"
      BY <2>1, <2>3, <3>1, <3>2, <3>3, <3>4, RowLeft
    <3>5. CASE status[e] # "processing"
      BY <2>1, <3>1, <3>2, <3>5, RowLeft
    <3> QED
      BY <3>4, <3>5
  <2>4. CASE e # d
    <3>1. Holders(e)' = Holders(e)
      BY <2>2, <2>4 DEF Holders
    <3>2. Retriers(e)' = Retriers(e)
      BY <2>2, <2>4, <3>1 DEF Retriers, Holders
    <3> QED
      BY <2>1, <2>4, <3>1, <3>2, RowUntouched
  <2> QED
    BY <2>3, <2>4
<1>6. ASSUME NEW w \in Workers, Crash(w)
      PROVE  RowInv(e, n)'
  <2>1. /\ UNCHANGED <<status, due, attempts>>
        /\ n = m + 1
    BY <1>6, FaultsType DEF Crash, tableVars
  <2>2. /\ pc'[w] \notin Working
        /\ \A v \in Workers \ {w} : pc'[v] = pc[v] /\ held'[v] = held[v]
    BY <1>6 DEF Crash, Working, TypeOK
  <2>3. Holders(e)' = Holders(e) \ {w} /\ Retriers(e)' = Retriers(e) \ {w}
    BY <2>2 DEF Holders, Retriers
  <2>4. CASE w \in Holders(e)
    BY <2>1, <2>3, <2>4, RowLeft
  <2>5. CASE w \notin Holders(e)
    <3>1. Holders(e)' = Holders(e) /\ Retriers(e)' = Retriers(e)
      BY <2>3, <2>5 DEF Retriers
    <3> QED
      BY <2>1, <3>1, RowUntouched
  <2> QED
    BY <2>4, <2>5
<1>7. ASSUME NEW d \in Seqs, BackoffElapses(d) \/ LeaseExpires(d) \/ LeaseOutlived(d)
      PROVE  RowInv(e, n)'
  <2>1. /\ UNCHANGED <<status, attempts, pc, held>>
        /\ due' = [due EXCEPT ![d] = TRUE]
    BY <1>7 DEF BackoffElapses, LeaseExpires, LeaseOutlived, workerVars
  <2>2. Holders(e)' = Holders(e) /\ Retriers(e)' = Retriers(e)
    BY <2>1 DEF Holders, Retriers
  <2>3. m <= n
    BY <1>7, FaultsType
       DEF BackoffElapses, LeaseExpires, LeaseOutlived, auxVars
  <2>4. CASE e = d
    <3>1. due'[e]
      BY <2>1, <2>4 DEF TypeOK
    <3>2. \/ status[e] = "pending" /\ n = m
          \/ /\ status[e] = "processing"
             /\ \/ Holders(e) = {} /\ n = m
                \/ n = m + 1
      BY <1>7, <2>4, FaultsType
         DEF BackoffElapses, LeaseExpires, LeaseOutlived, auxVars
    <3> QED
      BY <2>1, <2>2, <3>1, <3>2, RowDue
  <2>5. CASE e # d
    <3>1. due'[e] = due[e]
      BY <2>1, <2>5
    <3> QED
      BY <2>1, <2>2, <2>3, <3>1, RowUntouched
  <2> QED
    BY <2>4, <2>5
<1>8. CASE UNCHANGED vars
  <2>1. UNCHANGED <<status, due, attempts, pc, held, faults, slow>>
    BY <1>8 DEF vars, tableVars, workerVars, auxVars
  <2>2. /\ Holders(e)' = Holders(e) /\ Retriers(e)' = Retriers(e)
        /\ n = m
    BY <2>1, RowTypes DEF Holders, Retriers
  <2> QED
    BY <2>1, <2>2, RowUntouched
<1>9. ASSUME NEW w \in Workers, WorkerStep(w) \/ WorkerFault(w)
      PROVE  RowInv(e, n)'
  <2>1. CASE DeadLetterOutboxEvent(w)
    BY <1>5, <2>1 DEF DeadLetterOutboxEvent
  <2>2. CASE RescheduleOutboxEvent(w)
    <3>1. PICK d \in Batch(w) : ~ Exhausted(w, d) /\ SettleFailed(w, d, "pending")
      BY <2>2 DEF RescheduleOutboxEvent
    <3>2. held[w][d] < MaxAttempts
      BY <3>1, OutboxAssumption DEF Exhausted, TypeOK
    <3> QED
      BY <1>5, <3>1, <3>2
  <2> QED
    BY <1>2, <1>3, <1>4, <1>6, <1>9, <2>1, <2>2 DEF WorkerStep, WorkerFault
<1> QED
  BY <1>1, <1>7, <1>8, <1>9 DEF Next

LEMMA AppendShape ==
    ASSUME NEW S, NEW q \in Seq(S), NEW x \in S
    PROVE  /\ DOMAIN Append(q, x) = DOMAIN q \cup {Len(q) + 1}
           /\ Append(q, x)[Len(q) + 1] = x
           /\ \A m \in DOMAIN q : Append(q, x)[m] = q[m]
OBVIOUS

LEMMA RecordCards ==
    ASSUME TypeOK, NEW e \in Seqs, NEW c \in Conversations
    PROVE  /\ log[c] \in Seq(SUBSET Seqs)
           /\ IsFiniteSet(Records(e, c)) /\ Cardinality(Records(e, c)) \in Nat
           /\ Publishers(e) \in SUBSET Workers /\ Cardinality(Publishers(e)) \in Nat
           /\ attempts[e] \in Nat
<1>1. log[c] \in Seq(SUBSET Seqs) /\ attempts[e] \in Nat
  BY DEF TypeOK
<1>2. Records(e, c) \subseteq 1..Len(log[c]) /\ Len(log[c]) \in Nat
  BY <1>1 DEF Records
<1>3. IsFiniteSet(Records(e, c)) /\ Cardinality(Records(e, c)) \in Nat
  <2>1. IsFiniteSet(1..Len(log[c]))
    BY <1>2, FS_Interval
  <2> QED
    BY <1>2, <2>1, FS_Subset, FS_CardinalityType
<1>4. Publishers(e) \in SUBSET Workers
  BY DEF Publishers
<1>5. Cardinality(Publishers(e)) \in Nat
  BY <1>4, WorkerCards
<1> QED
  BY <1>1, <1>3, <1>4, <1>5

\* The log of c stays as it is and nobody is new among the publishers.
LEMMA RecordsKept ==
    ASSUME TypeOK, NEW e \in Seqs, NEW c \in Conversations, RecordInv(e, c),
           log'[c] = log[c], attempts'[e] = attempts[e],
           Publishers(e)' \subseteq Publishers(e)
    PROVE  RecordInv(e, c)'
<1>1. Records(e, c)' = Records(e, c)
  BY DEF Records
<1>2. /\ Publishers(e) \in SUBSET Workers
      /\ Cardinality(Records(e, c)) \in Nat /\ Cardinality(Publishers(e)) \in Nat
      /\ attempts[e] \in Nat
  BY RecordCards
<1>3. /\ Cardinality(Publishers(e)') \in Nat
      /\ Cardinality(Publishers(e)') <= Cardinality(Publishers(e))
  BY <1>2, WorkerCards
<1> QED
  BY <1>1, <1>2, <1>3 DEF RecordInv

\* Worker w appends its batch, once for its claim.
LEMMA RecordsAppended ==
    ASSUME TypeOK, NEW e \in Seqs, NEW c \in Conversations, RecordInv(e, c),
           NEW w \in Workers, log' = Appended(w), attempts'[e] = attempts[e],
           pc[w] = "claimed", Publishers(e)' = Publishers(e) \ {w}
    PROVE  RecordInv(e, c)'
<1> DEFINE records == {d \in Batch(w) : conversation[d] = c}
<1>1. CASE e \notin Batch(w)
  <2>1. Publishers(e)' \subseteq Publishers(e)
    OBVIOUS
  <2>2. Records(e, c)' = Records(e, c)
    <3>1. CASE log'[c] = log[c]
      BY <3>1 DEF Records
    <3>2. CASE log'[c] = Append(log[c], records)
      <4> records \in SUBSET Seqs /\ log[c] \in Seq(SUBSET Seqs)
        BY RecordCards DEF TypeOK
      <4>1. /\ DOMAIN log'[c] = DOMAIN log[c] \cup {Len(log[c]) + 1}
            /\ log'[c][Len(log[c]) + 1] = records
            /\ \A m \in DOMAIN log[c] : log'[c][m] = log[c][m]
        BY <3>2, AppendShape
      <4> QED
        BY <1>1, <4>1 DEF Records
    <3> QED
      BY <3>1, <3>2 DEF Appended
  <2>3. /\ Cardinality(Publishers(e)') <= Cardinality(Publishers(e))
        /\ Cardinality(Publishers(e)') \in Nat
    BY <2>1, RecordCards, WorkerCards
  <2> QED
    BY <2>2, <2>3, RecordCards DEF RecordInv
<1>2. CASE e \in Batch(w)
  <2>1. w \in Publishers(e)
    BY <1>2 DEF Publishers
  <2>2. Cardinality(Publishers(e)') = Cardinality(Publishers(e)) - 1
    BY <2>1, RecordCards, WorkerCards
  <2>3. \/ Records(e, c)' = Records(e, c)
        \/ Records(e, c)' = Records(e, c) \cup {Len(log[c]) + 1}
    <3>1. CASE log'[c] = log[c]
      BY <3>1 DEF Records
    <3>2. CASE log'[c] = Append(log[c], records)
      <4> records \in SUBSET Seqs /\ log[c] \in Seq(SUBSET Seqs)
        BY RecordCards DEF TypeOK
      <4>1. /\ DOMAIN log'[c] = DOMAIN log[c] \cup {Len(log[c]) + 1}
            /\ log'[c][Len(log[c]) + 1] = records
            /\ \A m \in DOMAIN log[c] : log'[c][m] = log[c][m]
        BY <3>2, AppendShape
      <4> QED
        BY <4>1 DEF Records
    <3> QED
      BY <3>1, <3>2 DEF Appended
  <2>4. /\ Cardinality(Records(e, c)') \in Nat
        /\ Cardinality(Records(e, c)') <= Cardinality(Records(e, c)) + 1
    <3> DEFINE R == Records(e, c)
               m == Len(log[c]) + 1
    <3>1. IsFiniteSet(R) /\ Cardinality(R) \in Nat
      BY RecordCards
    <3> HIDE DEF R, m
    <3>2. Cardinality(R \cup {m}) \in {Cardinality(R), Cardinality(R) + 1}
      BY <3>1, FS_AddElement
    <3>3. Records(e, c)' = R \/ Records(e, c)' = R \cup {m}
      BY <2>3 DEF R, m
    <3>4. Cardinality(Records(e, c)') \in {Cardinality(R), Cardinality(R) + 1}
      BY <3>2, <3>3
    <3> QED
      BY <3>1, <3>4 DEF R
  <2> QED
    BY <2>2, <2>4, RecordCards DEF RecordInv
<1> QED
  BY <1>1, <1>2

LEMMA StepRecords ==
    ASSUME TypeOK, [Next]_vars, NEW e \in Seqs, NEW c \in Conversations,
           RecordInv(e, c)
    PROVE  RecordInv(e, c)'
<1>1. ASSUME NEW w \in Workers, PublishOutboxEvents(w) \/ PublishFails(w)
      PROVE  RecordInv(e, c)'
  <2>1. /\ UNCHANGED <<attempts, held>> /\ log' \in {log, Appended(w)}
        /\ pc[w] = "claimed" /\ pc'[w] # "claimed"
        /\ \A v \in Workers \ {w} : pc'[v] = pc[v]
    BY <1>1 DEF PublishOutboxEvents, PublishFails, tableVars, TypeOK
  <2>2. Publishers(e)' = Publishers(e) \ {w}
    BY <2>1 DEF Publishers
  <2> QED
    BY <2>1, <2>2, RecordsKept, RecordsAppended
<1>2. ASSUME NEW w \in Workers, CommitClaim(w)
      PROVE  RecordInv(e, c)'
  <2>1. /\ attempts'[e] = attempts[e] + (IF e \in Batch(w) THEN 1 ELSE 0)
        /\ UNCHANGED log
        /\ pc[w] = "candidates" /\ pc'[w] = "claimed"
        /\ \A v \in Workers : Batch(v)' = Batch(v)
        /\ \A v \in Workers \ {w} : pc'[v] = pc[v]
    BY <1>2 DEF CommitClaim, TypeOK
  <2>2. CASE e \in Batch(w)
    <3>1. w \notin Publishers(e) /\ Publishers(e)' = Publishers(e) \cup {w}
      BY <2>1, <2>2 DEF Publishers
    <3>2. Cardinality(Publishers(e)') = Cardinality(Publishers(e)) + 1
      BY <3>1, RecordCards, WorkerCards
    <3>3. Records(e, c)' = Records(e, c) /\ attempts'[e] = attempts[e] + 1
      BY <2>1, <2>2 DEF Records
    <3> QED
      BY <3>2, <3>3, RecordCards DEF RecordInv
  <2>3. CASE e \notin Batch(w)
    <3>1. Publishers(e)' \subseteq Publishers(e)
      BY <2>1, <2>3 DEF Publishers
    <3>2. attempts'[e] = attempts[e]
      BY <2>1, <2>3, RecordCards
    <3> QED
      BY <2>1, <3>1, <3>2, RecordsKept
  <2> QED
    BY <2>2, <2>3
<1>3. ASSUME UNCHANGED <<log, attempts>>,
             \A v \in Workers : pc'[v] = "claimed" =>
                                  pc[v] = "claimed" /\ Batch(v)' = Batch(v)
      PROVE  RecordInv(e, c)'
  <2>1. Publishers(e)' \subseteq Publishers(e)
    BY <1>3 DEF Publishers
  <2> QED
    BY <1>3, <2>1, RecordsKept
<1>4. ASSUME NEW w \in Workers,
             \/ ClaimFrontier(w) \/ LockCandidates(w) \/ MarkOutboxEventsPublished(w)
             \/ DeadLetterOutboxEvent(w) \/ RescheduleOutboxEvent(w)
             \/ WorkerFault(w)
      PROVE  RecordInv(e, c)'
  <2>1. UNCHANGED <<log, attempts>>
    BY <1>4 DEF ClaimFrontier, LockCandidates, MarkOutboxEventsPublished,
                DeadLetterOutboxEvent, RescheduleOutboxEvent, SettleFailed,
                WorkerFault, MarkFails, Crash, tableVars
  <2>2. /\ pc'[w] # "claimed"
        /\ \A v \in Workers \ {w} : pc'[v] = pc[v] /\ held'[v] = held[v]
    BY <1>4 DEF ClaimFrontier, LockCandidates, MarkOutboxEventsPublished,
                DeadLetterOutboxEvent, RescheduleOutboxEvent, SettleFailed,
                WorkerFault, MarkFails, Crash, TypeOK
  <2> QED
    BY <1>3, <2>1, <2>2
<1>5. CASE \/ \E s \in Senders : SenderNext(s)
           \/ \E d \in Seqs :
                BackoffElapses(d) \/ LeaseExpires(d) \/ LeaseOutlived(d)
           \/ UNCHANGED vars
  <2>1. UNCHANGED <<log, attempts, pc, held>>
    BY <1>5 DEF SenderNext, InsertOutboxEvent, CommitMessage, RollbackMessage,
                BackoffElapses, LeaseExpires, LeaseOutlived, vars, tableVars,
                workerVars
  <2> QED
    BY <1>3, <2>1
<1> QED
  BY <1>1, <1>2, <1>4, <1>5 DEF Next, WorkerStep

LEMMA DuplicateInit == Init => DuplicateInv
<1> SUFFICES ASSUME Init, NEW e \in Seqs
             PROVE  RowInv(e, faults + slow) /\ \A c \in Conversations : RecordInv(e, c)
  BY DEF DuplicateInv
<1>1. faults + slow = 0 /\ attempts[e] = 0 /\ MaxAttempts \in Nat \ {0}
  BY OutboxAssumption DEF Init
<1>2. Holders(e) = {} /\ Publishers(e) = {} /\ \A c \in Conversations : Records(e, c) = {}
  BY DEF Init, Holders, Publishers, Records, Working
<1>3. Cardinality({}) = 0
  BY FS_EmptySet
<1>4. RowInv(e, faults + slow)
  BY <1>1, <1>2, <1>3 DEF RowInv, HolderInv, AttemptInv
<1>5. \A c \in Conversations : RecordInv(e, c)
  BY <1>1, <1>2, <1>3 DEF RecordInv
<1> QED
  BY <1>4, <1>5

LEMMA DuplicateInvariant == Spec => []DuplicateInv
<1>1. TypeOK /\ TypeOK' /\ PublicationInv /\ ClaimInv /\ OrderInv /\ DuplicateInv
      /\ [Next]_vars => DuplicateInv'
  <2> SUFFICES ASSUME TypeOK, TypeOK', PublicationInv, ClaimInv, OrderInv,
                      DuplicateInv, [Next]_vars, NEW e \in Seqs
               PROVE  /\ RowInv(e, faults + slow)'
                      /\ \A c \in Conversations : RecordInv(e, c)'
    BY DEF DuplicateInv
  <2> DEFINE m == faults + slow
             n == faults' + slow'
  <2>1. m \in Nat /\ n \in Nat
    <3>1. faults' \in 0..MaxFaults /\ slow' \in 0..MaxSlow
      BY DEF TypeOK
    <3>2. faults' \in Nat /\ slow' \in Nat
      BY <3>1, OutboxAssumption
    <3>3. \A i, j \in Nat : i + j \in Nat
      OBVIOUS
    <3> QED
      BY <3>2, <3>3, FaultsType, Zenon
  <2>2. RowInv(e, m) /\ \A c \in Conversations : RecordInv(e, c)
    BY DEF DuplicateInv
  <2> QED
    BY <2>1, <2>2, StepRows, StepRecords
<1> QED
  BY DuplicateInit, TypeCorrect, PublicationInvariant, ClaimInvariant, OrderInvariant,
     <1>1, PTL DEF Spec

\* Retries, crashes, lost acknowledgements and takeovers put an event in the
\* log a bounded number of times, whatever the number of workers: never more
\* often than it was claimed, and that is at most OUTBOX_MAX_ATTEMPTS times and
\* once for each fault.
THEOREM DuplicatesAreBounded == Spec => []BoundedDuplicates
<1>1. TypeOK /\ DuplicateInv => BoundedDuplicates
  <2> SUFFICES ASSUME TypeOK, DuplicateInv, NEW e \in Seqs
               PROVE  /\ attempts[e] <= MaxAttempts + faults + slow
                      /\ \A c \in Conversations : Cardinality(Records(e, c)) <= attempts[e]
    BY DEF BoundedDuplicates, Records
  <2>1. RowInv(e, faults + slow) /\ \A c \in Conversations : RecordInv(e, c)
    BY DEF DuplicateInv
  <2>2. attempts[e] <= MaxAttempts + faults + slow
    <3>1. faults \in Nat /\ slow \in Nat
      BY FaultsType
    <3>2. /\ Cardinality(Retriers(e)) \in Nat /\ attempts[e] \in Nat
          /\ MaxAttempts \in Nat
      BY RowTypes
    <3>3. attempts[e] >= MaxAttempts =>
            attempts[e] + Cardinality(Retriers(e)) <= MaxAttempts + (faults + slow)
      BY <2>1 DEF RowInv, AttemptInv
    <3> QED
      BY <3>1, <3>2, <3>3
  <2>3. ASSUME NEW c \in Conversations
        PROVE  Cardinality(Records(e, c)) <= attempts[e]
    BY <2>1, RecordCards DEF RecordInv
  <2> QED
    BY <2>2, <2>3
<1> QED
  BY TypeCorrect, DuplicateInvariant, <1>1, PTL
=============================================================================
