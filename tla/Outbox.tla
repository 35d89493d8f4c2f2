------------------------------- MODULE Outbox -------------------------------
(***************************************************************************)
(* The transactional outbox: senders that store a message and its outbox   *)
(* row in one database transaction, and relay workers that claim rows,     *)
(* publish them to Kafka and settle them.                                  *)
(*                                                                         *)
(* An outbox row, and the message committed with it, is named by its       *)
(* sequence_number, the IDENTITY column that PostgreSQL allocates when the *)
(* row is INSERTed (not when the transaction commits).  A row lock taken   *)
(* by SELECT ... FOR UPDATE SKIP LOCKED is explicit state, because which   *)
(* rows a concurrent claim skips decides the order of publication.         *)
(***************************************************************************)
EXTENDS Integers, FiniteSets, Sequences

CONSTANTS
    Conversations,  \* outbox aggregates, which are also Kafka partition keys
    NoConversation, \* the aggregate of a sequence number not yet allocated
    Senders,        \* concurrent sendMessage requests
    Workers,        \* concurrent relay poll loops
    MaxEvents,      \* bound: sequence numbers the identity column allocates
    BatchSize,      \* OUTBOX_BATCH_SIZE
    MaxAttempts,    \* OUTBOX_MAX_ATTEMPTS
    MaxFaults,      \* bound: crashes, database errors and outlived leases
    MaxSlow         \* bound: leases that expire under a worker still at work

ASSUME OutboxAssumption ==
    /\ NoConversation \notin Conversations
    /\ MaxEvents \in Nat
    /\ BatchSize \in Nat \ {0}
    /\ MaxAttempts \in Nat \ {0}
    /\ MaxFaults \in Nat
    /\ MaxSlow \in Nat

\* A deployment runs finitely many relays.
ASSUME WorkersAssumption == IsFiniteSet(Workers)

Seqs == 1..MaxEvents

VARIABLES
    nextSeq,      \* next value of the sequence_number identity
    open,         \* open[s]: row inserted by sender s, not committed; 0 if none
    messages,     \* the committed messages, named by their event's number
    status,       \* status[e]; "none": row e is not (or never) committed
    conversation, \* aggregate_id
    due,          \* available_at (pending) or locked_until (processing) passed
    attempts,     \* attempt_count
    pc,           \* where a relay worker is in runOutboxRelayOnce
    locked,       \* locked[w]: rows locked by the open claim transaction of w
    held,         \* held[w]: the rows read by w |-> their attemptCount
    log,          \* log[c]: record batches of conversation c in Kafka
    late,         \* history: rows committed after a later one of their aggregate
    stale,        \* history: rows whose lease expired under a live worker
    faults,       \* crashes and database errors so far
    slow          \* outlived leases so far

tableVars  == <<nextSeq, open, messages, status, conversation, due, attempts>>
workerVars == <<pc, locked, held>>
auxVars    == <<late, stale, faults, slow>>
vars       == <<tableVars, workerVars, log, auxVars>>

Statuses   == {"none", "pending", "processing", "published", "dead_lettered"}
Unfinished == {"pending", "processing"}
PCs        == {"idle", "frontier", "candidates", "claimed", "sent", "failed"}

NoRows == [e \in {} |-> 0]
Batch(w) == DOMAIN held[w]

-----------------------------------------------------------------------------
(* What the claim queries see. *)

\* The rows of conversation c whose transaction committed.
RowsOf(c) == {e \in Seqs : conversation[e] = c /\ status[e] # "none"}

\* Mutant: an expired lease does not make a row eligible again.
EligiblePending(e) == status[e] = "pending" /\ due[e]

\* pending and available, or processing with an expired lease.
Eligible(e) == status[e] \in Unfinished /\ due[e]

\* Mutant: the claim does not lock the rows it reads.
LockableAlways(w, e) == TRUE

\* What SKIP LOCKED lets the transaction of w see: no other claim holds e.
Lockable(w, e) == \A v \in Workers \ {w} : e \notin locked[v]

\* Mutant: any eligible row may start a batch.
IsFrontierIfEligible(e) == Eligible(e)

\* No earlier row of the aggregate is unfinished.
IsFrontier(e) ==
    /\ Eligible(e)
    /\ \A d \in RowsOf(conversation[e]) : d < e => status[d] \notin Unfinished

\* Mutant: rows that wait for a retry do not block later ones.
BlockedNever(f, e) == FALSE

\* A row between the frontier f and e that is unfinished and not eligible.
Blocked(f, e) ==
    \E b \in RowsOf(conversation[e]) :
        f < b /\ b < e /\ status[b] \in Unfinished /\ ~ Eligible(b)

Candidates(w, f) ==
    {e \in RowsOf(conversation[f]) :
        Eligible(e) /\ ~ Blocked(f, e) /\ Lockable(w, e)}

\* ORDER BY sequence_number LIMIT n.
First(n, S) == {e \in S : Cardinality({d \in S : d < e}) < n}

-----------------------------------------------------------------------------
(* sendMessage: the transaction that stores the message and its event. *)

\* Mutant: the outbox row is inserted outside the message's transaction.
InsertAutocommitted(s, c) ==
    /\ open[s] = 0
    /\ nextSeq \in Seqs
    /\ open' = [open EXCEPT ![s] = nextSeq]
    /\ nextSeq' = nextSeq + 1
    /\ conversation' = [conversation EXCEPT ![nextSeq] = c]
    /\ status' = [status EXCEPT ![nextSeq] = "pending"]
    /\ due' = [due EXCEPT ![nextSeq] = TRUE]
    /\ UNCHANGED <<messages, attempts, workerVars, log, auxVars>>

\* BEGIN, INSERT of the message, INSERT of the outbox row.
InsertOutboxEvent(s, c) ==
    /\ open[s] = 0
    /\ nextSeq \in Seqs
    /\ open' = [open EXCEPT ![s] = nextSeq]
    /\ nextSeq' = nextSeq + 1
    /\ conversation' = [conversation EXCEPT ![nextSeq] = c]
    /\ UNCHANGED <<messages, status, due, attempts, workerVars, log, auxVars>>

\* COMMIT: message and row appear together, pending and available at once.
CommitMessage(s) ==
    LET e == open[s] IN
    /\ e # 0
    /\ open' = [open EXCEPT ![s] = 0]
    /\ messages' = messages \cup {e}
    /\ status' = [status EXCEPT ![e] = "pending"]
    /\ due' = [due EXCEPT ![e] = TRUE]
    /\ late' = late \cup {x \in {e} : \E d \in RowsOf(conversation[e]) : e < d}
    /\ UNCHANGED <<nextSeq, conversation, attempts, workerVars, log,
                   stale, faults, slow>>

\* ROLLBACK, or the request dies: the sequence number is never used again.
RollbackMessage(s) ==
    /\ open[s] # 0
    /\ open' = [open EXCEPT ![s] = 0]
    /\ UNCHANGED <<nextSeq, messages, status, conversation, due, attempts,
                   workerVars, log, auxVars>>

-----------------------------------------------------------------------------
(* claimPendingOutboxEvents: three statements of one transaction. *)

\* SELECT the first lockable frontier of any aggregate and lock its row.
ClaimFrontier(w) ==
    /\ pc[w] = "idle"
    /\ \E f \in Seqs :
        /\ IsFrontier(f) /\ Lockable(w, f)
        /\ \A g \in Seqs : IsFrontier(g) /\ Lockable(w, g) => f <= g
        /\ locked' = [locked EXCEPT ![w] = {f}]
    /\ pc' = [pc EXCEPT ![w] = "frontier"]
    /\ UNCHANGED <<tableVars, held, log, auxVars>>

\* SELECT and lock the batch, which may stop short of the frontier when rows
\* before it have committed since; it is never empty.
LockCandidates(w) ==
    /\ pc[w] = "frontier"
    /\ \E f \in locked[w] :
        LET ids == First(BatchSize, Candidates(w, f)) IN
        /\ locked' = [locked EXCEPT ![w] = @ \cup ids]
        /\ held' = [held EXCEPT ![w] = [e \in ids |-> attempts[e]]]
    /\ pc' = [pc EXCEPT ![w] = "candidates"]
    /\ UNCHANGED <<tableVars, log, auxVars>>

\* Mutant: taking over an expired lease does not count as an attempt.
CommitClaimUncounted(w) ==
    /\ pc[w] = "candidates"
    /\ status' = [e \in Seqs |->
                    IF e \in Batch(w) THEN "processing" ELSE status[e]]
    /\ due' = [e \in Seqs |-> due[e] /\ e \notin Batch(w)]
    /\ attempts' = [e \in Seqs |-> attempts[e] +
                      (IF e \in Batch(w) /\ status[e] = "pending" THEN 1 ELSE 0)]
    /\ held' = [held EXCEPT ![w] = [e \in Batch(w) |-> attempts'[e]]]
    /\ locked' = [locked EXCEPT ![w] = {}]
    /\ pc' = [pc EXCEPT ![w] = "claimed"]
    /\ UNCHANGED <<nextSeq, open, messages, conversation, log, auxVars>>

\* UPDATE the batch to processing under a new lease, COMMIT, release the locks.
CommitClaim(w) ==
    /\ pc[w] = "candidates"
    /\ status' = [e \in Seqs |->
                    IF e \in Batch(w) THEN "processing" ELSE status[e]]
    /\ due' = [e \in Seqs |-> due[e] /\ e \notin Batch(w)]
    /\ attempts' = [e \in Seqs |->
                      attempts[e] + (IF e \in Batch(w) THEN 1 ELSE 0)]
    /\ held' = [held EXCEPT ![w] = [e \in Batch(w) |-> attempts[e] + 1]]
    /\ locked' = [locked EXCEPT ![w] = {}]
    /\ pc' = [pc EXCEPT ![w] = "claimed"]
    /\ UNCHANGED <<nextSeq, open, messages, conversation, log, auxVars>>

-----------------------------------------------------------------------------
(* runOutboxRelayOnce: publish the batch and settle it. *)

\* The records of w's batch, keyed by their aggregate, reach the Kafka log.
Appended(w) ==
    [c \in Conversations |->
        LET records == {e \in Batch(w) : conversation[e] = c} IN
        IF records = {} THEN log[c] ELSE Append(log[c], records)]

\* producer.send is acknowledged.
PublishOutboxEvents(w) ==
    /\ pc[w] = "claimed"
    /\ log' = Appended(w)
    /\ pc' = [pc EXCEPT ![w] = "sent"]
    /\ UNCHANGED <<tableVars, locked, held, auxVars>>

\* Mutant: publishOutboxEvents swallows the error of producer.send.
PublishFailsSilently(w) ==
    /\ pc[w] = "claimed"
    /\ log' \in {log, Appended(w)}
    /\ pc' = [pc EXCEPT ![w] = "sent"]
    /\ UNCHANGED <<tableVars, locked, held, auxVars>>

\* producer.send throws.  Without an answer from the broker the records may
\* or may not be in the log.
PublishFails(w) ==
    /\ pc[w] = "claimed"
    /\ log' \in {log, Appended(w)}
    /\ pc' = [pc EXCEPT ![w] = "failed"]
    /\ UNCHANGED <<tableVars, locked, held, auxVars>>

\* An UPDATE of rows S by w waits while another transaction locks one of them.
Updatable(w, S) == \A e \in S : Lockable(w, e)

\* UPDATE ... SET status = 'published' WHERE id = ANY(ids) AND 'processing'.
MarkOutboxEventsPublished(w) ==
    /\ pc[w] = "sent"
    /\ Updatable(w, Batch(w))
    /\ status' = [e \in Seqs |->
                    IF e \in Batch(w) /\ status[e] = "processing"
                    THEN "published" ELSE status[e]]
    /\ held' = [held EXCEPT ![w] = NoRows]
    /\ pc' = [pc EXCEPT ![w] = "idle"]
    /\ UNCHANGED <<nextSeq, open, messages, conversation, due, attempts, locked,
                   log, auxVars>>

\* The UPDATE throws: the catch block treats the sent batch as a failed one.
MarkFails(w) ==
    /\ pc[w] = "sent"
    /\ faults + slow < MaxFaults
    /\ faults' = faults + 1
    /\ pc' = [pc EXCEPT ![w] = "failed"]
    /\ UNCHANGED <<tableVars, locked, held, log, late, stale, slow>>

\* Mutant: the UPDATE does not check that the row is still processing.
SettleUnguarded(w, e, newStatus) ==
    /\ pc[w] = "failed"
    /\ e \in Batch(w) /\ \A d \in Batch(w) : e <= d
    /\ Updatable(w, {e})
    /\ status' = [status EXCEPT ![e] = newStatus]
    /\ due' = [due EXCEPT ![e] = FALSE]
    /\ held' = [held EXCEPT ![w] = [d \in Batch(w) \ {e} |-> held[w][d]]]
    /\ pc' = [pc EXCEPT ![w] = IF Batch(w) = {e} THEN "idle" ELSE "failed"]
    /\ UNCHANGED <<nextSeq, open, messages, conversation, attempts, locked, log,
                   auxVars>>

\* Mutant: the row gets a status the table does not know.
SettleRetrying(w, e, newStatus) ==
    /\ pc[w] = "failed"
    /\ e \in Batch(w) /\ \A d \in Batch(w) : e <= d
    /\ Updatable(w, {e})
    /\ status' = [status EXCEPT ![e] = "retrying"]
    /\ held' = [held EXCEPT ![w] = [d \in Batch(w) \ {e} |-> held[w][d]]]
    /\ pc' = [pc EXCEPT ![w] = IF Batch(w) = {e} THEN "idle" ELSE "failed"]
    /\ UNCHANGED <<nextSeq, open, messages, conversation, due, attempts, locked,
                   log, auxVars>>

\* One turn of the catch block's loop over the batch in sequence order: an
\* UPDATE of row e that does nothing unless e is still processing.
SettleFailed(w, e, newStatus) ==
    /\ pc[w] = "failed"
    /\ e \in Batch(w) /\ \A d \in Batch(w) : e <= d
    /\ Updatable(w, {e})
    /\ status' = [status EXCEPT ![e] =
                    IF @ = "processing" THEN newStatus ELSE @]
    /\ due' = [due EXCEPT ![e] = @ /\ status[e] # "processing"]
    /\ held' = [held EXCEPT ![w] = [d \in Batch(w) \ {e} |-> held[w][d]]]
    /\ pc' = [pc EXCEPT ![w] = IF Batch(w) = {e} THEN "idle" ELSE "failed"]
    /\ UNCHANGED <<nextSeq, open, messages, conversation, attempts, locked, log,
                   auxVars>>

Exhausted(w, e) == held[w][e] >= MaxAttempts

DeadLetterOutboxEvent(w) ==
    \E e \in Batch(w) :
        Exhausted(w, e) /\ SettleFailed(w, e, "dead_lettered")

RescheduleOutboxEvent(w) ==
    \E e \in Batch(w) :
        ~ Exhausted(w, e) /\ SettleFailed(w, e, "pending")

\* The process dies, or a statement other than the mark throws: the open
\* transaction is rolled back and whatever was claimed is left to its lease.
Crash(w) ==
    /\ pc[w] # "idle"
    /\ faults + slow < MaxFaults
    /\ faults' = faults + 1
    /\ pc' = [pc EXCEPT ![w] = "idle"]
    /\ locked' = [locked EXCEPT ![w] = {}]
    /\ held' = [held EXCEPT ![w] = NoRows]
    /\ UNCHANGED <<tableVars, log, late, stale, slow>>

-----------------------------------------------------------------------------
(* The clock. *)

Working == {"claimed", "sent", "failed"}
Holders(e) == {w \in Workers : pc[w] \in Working /\ e \in Batch(w)}

\* available_at of a rescheduled row passes.
BackoffElapses(e) ==
    /\ status[e] = "pending" /\ ~ due[e]
    /\ due' = [due EXCEPT ![e] = TRUE]
    /\ UNCHANGED <<nextSeq, open, messages, status, conversation, attempts,
                   workerVars, log, auxVars>>

\* locked_until of a row whose worker is gone passes.
LeaseExpires(e) ==
    /\ status[e] = "processing" /\ ~ due[e]
    /\ Holders(e) = {}
    /\ due' = [due EXCEPT ![e] = TRUE]
    /\ UNCHANGED <<nextSeq, open, messages, status, conversation, attempts,
                   workerVars, log, auxVars>>

\* locked_until passes while a worker is still busy with the row: nothing in
\* the relay stops it from sending or settling afterwards.
LeaseOutlived(e) ==
    /\ status[e] = "processing" /\ ~ due[e]
    /\ Holders(e) # {}
    /\ slow < MaxSlow /\ faults + slow < MaxFaults
    /\ slow' = slow + 1
    /\ stale' = stale \cup {e}
    /\ due' = [due EXCEPT ![e] = TRUE]
    /\ UNCHANGED <<nextSeq, open, messages, status, conversation, attempts,
                   workerVars, log, late, faults>>

-----------------------------------------------------------------------------
Init ==
    /\ nextSeq = 1
    /\ open = [s \in Senders |-> 0]
    /\ messages = {}
    /\ status = [e \in Seqs |-> "none"]
    /\ conversation = [e \in Seqs |-> NoConversation]
    /\ due = [e \in Seqs |-> FALSE]
    /\ attempts = [e \in Seqs |-> 0]
    /\ pc = [w \in Workers |-> "idle"]
    /\ locked = [w \in Workers |-> {}]
    /\ held = [w \in Workers |-> NoRows]
    /\ log = [c \in Conversations |-> <<>>]
    /\ late = {} /\ stale = {}
    /\ faults = 0 /\ slow = 0

SenderNext(s) ==
    \/ \E c \in Conversations : InsertOutboxEvent(s, c)
    \/ CommitMessage(s)
    \/ RollbackMessage(s)

\* What a relay worker does by itself.
WorkerStep(w) ==
    \/ ClaimFrontier(w)
    \/ LockCandidates(w)
    \/ CommitClaim(w)
    \/ PublishOutboxEvents(w)
    \/ PublishFails(w)
    \/ MarkOutboxEventsPublished(w)
    \/ DeadLetterOutboxEvent(w)
    \/ RescheduleOutboxEvent(w)

WorkerFault(w) == MarkFails(w) \/ Crash(w)

Next ==
    \/ \E s \in Senders : SenderNext(s)
    \/ \E w \in Workers : WorkerStep(w) \/ WorkerFault(w)
    \/ \E e \in Seqs : BackoffElapses(e) \/ LeaseExpires(e) \/ LeaseOutlived(e)

Spec == Init /\ [][Next]_vars

\* The timer of startOutboxRelay keeps every worker going, time passes, and
\* PostgreSQL ends every transaction.  No send has to succeed, no fault has to
\* happen and nobody has to send a message.
Fairness ==
    /\ \A w \in Workers : WF_vars(WorkerStep(w))
    /\ \A e \in Seqs : WF_vars(BackoffElapses(e) \/ LeaseExpires(e))
    /\ \A s \in Senders : WF_vars(CommitMessage(s) \/ RollbackMessage(s))

FairSpec == Spec /\ Fairness

-----------------------------------------------------------------------------
(* Properties. *)

Logged(e, c) == \E m \in DOMAIN log[c] : e \in log[c][m]

TypeOK ==
    /\ nextSeq \in 1..(MaxEvents + 1)
    /\ open \in [Senders -> 0..MaxEvents]
    /\ messages \subseteq Seqs
    /\ status \in [Seqs -> Statuses]
    /\ conversation \in [Seqs -> Conversations \cup {NoConversation}]
    /\ due \in [Seqs -> BOOLEAN]
    /\ attempts \in [Seqs -> Nat]
    /\ pc \in [Workers -> PCs]
    /\ locked \in [Workers -> SUBSET Seqs]
    /\ DOMAIN held = Workers
    /\ \A w \in Workers : /\ Batch(w) \subseteq Seqs
                          /\ held[w] \in [Batch(w) -> Nat]
    /\ log \in [Conversations -> Seq(SUBSET Seqs)]
    /\ late \subseteq Seqs /\ stale \subseteq Seqs
    /\ faults \in 0..MaxFaults /\ slow \in 0..MaxSlow

\* A row marked published is in the Kafka log of its conversation, whatever
\* crashes, lost acknowledgements, outlived leases and competing workers lie
\* between: no message is written off as announced when it never was.
NoPhantomPublish ==
    \A e \in Seqs :
        status[e] = "published" =>
            \E c \in Conversations : conversation[e] = c /\ Logged(e, c)

\* Only stored messages are announced: no event of a message whose transaction
\* rolled back or is still open reaches Kafka.
NoGhostEvent ==
    \A c \in Conversations, e \in Seqs :
        Logged(e, c) => e \in messages /\ conversation[e] = c

\* The duplicates of an event are bounded: each claim of a row puts it in the
\* log at most once, retries and takeovers included, and it is claimed
\* OUTBOX_MAX_ATTEMPTS times and once more for each crash or outlived lease
\* (only a failed publication gives a row up).
BoundedDuplicates ==
    \A e \in Seqs :
        /\ attempts[e] <= MaxAttempts + faults + slow
        /\ \A c \in Conversations :
             Cardinality({m \in DOMAIN log[c] : e \in log[c][m]}) <= attempts[e]

\* Two workers are busy with one row only if its lease ran out under the first.
ExclusiveClaim ==
    \A e \in Seqs : Cardinality(Holders(e)) > 1 => e \in stale

\* No row of c committed behind a later one or lost its lease under a worker.
Undisturbed(c) == \A e \in late \cup stale : conversation[e] # c

\* Every committed predecessor of the m-th batch of c is in the log no later
\* than that batch, or was given up.
InOrder(c) ==
    \A m \in DOMAIN log[c] : \A j \in log[c][m] : \A i \in RowsOf(c) :
        i < j => \/ \E n \in 1..m : i \in log[c][n]
                 \/ status[i] = "dead_lettered"

\* Kafka receives the events of a conversation in sequence order, across
\* batches, retries, crashes and competing workers, as long as its rows became
\* visible in that order and no lease was outlived.  (ADR 0016 claims the order
\* without a condition; two sends that overlap can commit the other way round.)
OrderedPublication == \A c \in Conversations : Undisturbed(c) => InOrder(c)

\* published and dead_lettered are final: a worker that lost its lease and
\* settles late cannot send such a row around again.
FinalStatus ==
    [][\A e \in Seqs : status[e] \in {"published", "dead_lettered"} =>
                         status'[e] = status[e]]_vars

\* Every stored message is eventually announced or given up for an operator,
\* and settled as such, through crashes, failing sends and outlived leases.
EventuallySettled ==
    \A e \in Seqs :
        e \in messages ~> status[e] \in {"published", "dead_lettered"}
=============================================================================
