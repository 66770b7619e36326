------------------------------ MODULE Outbox ------------------------------
(***************************************************************************)
(* The transactional outbox: EventDispatcher writes events in the          *)
(* business transaction, OutboxProcessor's workers hand them to            *)
(* NotificationService (Kafka, then webhooks) and mark the row, and two    *)
(* cleanups delete what was processed.                                     *)
(*                                                                         *)
(* GetUnprocessed locks its rows FOR UPDATE SKIP LOCKED, but outside a     *)
(* transaction: the locks are gone when the statement ends, so the         *)
(* workers, and the other instances, may hold the same event, each with    *)
(* the attempt number it read.                                             *)
(***************************************************************************)
EXTENDS Integers, Sequences, FiniteSets, SequencesExt

CONSTANTS
    NumEvents,   \* the events, all of one customer, in the order of creation
    Unsupported, \* those of a type HandleDomainEvent has no case for
    Malformed,   \* those whose payload yields no customer id (extractCustomerID)
    Workers,     \* OutboxProcessor workers, of all app instances
    BatchSize,   \* events a worker takes at once
    MaxRetries,  \* an event is taken up while attempt <= MaxRetries
    MaxCrashes   \* bound: how many workers die with a batch in hand

Events == 1..NumEvents

ASSUME ConstantsAssumption ==
    /\ NumEvents \in Nat
    /\ Unsupported \subseteq Events
    /\ Malformed \subseteq Events
    /\ BatchSize \in Nat \ {0}
    /\ MaxRetries \in Nat
    /\ MaxCrashes \in Nat

VARIABLES
    rows,      \* the outbox_events table
    worker,    \* worker -> the batch it works through
    published, \* events in the order in which they first reached Kafka
    notified,  \* events webhook.Deliver has accepted
    failures,  \* history: failed handlings of each event (up to MaxRetries + 1)
    crashes

vars == <<rows, worker, published, notified, failures, crashes>>

-----------------------------------------------------------------------------
(* due: next_attempt_at is not in the future *)
EventRow == [state : {"absent", "pending", "processed", "deleted"}, attempt : Nat, due : BOOLEAN]
Absent == [state |-> "absent", attempt |-> 0, due |-> TRUE]
NewOutboxEvent == [Absent EXCEPT !.state = "pending"]

(* A worker's batch: the events with the attempt each row had when it was  *)
(* read, and where the worker is with the first one.  failed: multiErr.    *)
Taken == [id : Events, attempt : Nat]
Worker == [step : {"idle", "send", "notify", "mark"}, todo : Seq(Taken), failed : BOOLEAN]
Idle == [step |-> "idle", todo |-> <<>>, failed |-> FALSE]

Present(e) == rows[e].state \in {"pending", "processed"}
Current(w) == worker[w].todo[1].id

(* Logged and counted as handled: of an unknown type, but with a customer. *)
Skipped == Unsupported \ Malformed

(* GetUnprocessed: WHERE, ORDER BY next_attempt_at NULLS FIRST, created_at *)
(* (the order of the retries by their times is left open) and LIMIT.       *)
Eligible(e) == rows[e].state = "pending" /\ rows[e].attempt <= MaxRetries /\ rows[e].due
Batches ==
    LET ordered(q) == \A i, j \in 1..Len(q) :
            i < j /\ rows[q[j]].attempt = 0 => rows[q[i]].attempt = 0 /\ q[i] < q[j]
        take(q) == [i \in 1..(IF Len(q) < BatchSize THEN Len(q) ELSE BatchSize) |->
                       [id |-> q[i], attempt |-> rows[q[i]].attempt]]
    IN  {take(q) : q \in {s \in SetToSeqs({e \in Events : Eligible(e)}) : ordered(s)}}

Init ==
    /\ rows = [e \in Events |-> Absent]
    /\ worker = [w \in Workers |-> Idle]
    /\ published = <<>>
    /\ notified = {}
    /\ failures = [e \in Events |-> 0]
    /\ crashes = 0

-----------------------------------------------------------------------------
(* Dispatch, in the transaction that raised the events: one INSERT, all of *)
(* its rows or none.  An event that cannot be marshalled is left out of it *)
(* before, and has no number here.                                         *)
Dispatch(n) ==
    /\ \A e \in Events : e < n => rows[e].state # "absent"
    /\ rows[n].state = "absent"
    /\ \E last \in n..NumEvents :
          rows' = [e \in Events |-> IF e \in n..last THEN NewOutboxEvent ELSE rows[e]]
    /\ UNCHANGED <<worker, published, notified, failures, crashes>>

(* processBatch: the worker's tick takes a batch. *)
GetUnprocessed(w) ==
    /\ worker[w].step = "idle"
    /\ \E batch \in Batches :
          /\ batch # <<>>
          /\ worker' = [worker EXCEPT ![w] = [step |-> "send", todo |-> batch, failed |-> FALSE]]
    /\ UNCHANGED <<rows, published, notified, failures, crashes>>

(* Slip: processEvent returns without markFailed *)
ExtractFailsUnmarked(w) ==
    /\ worker[w].step = "send"
    /\ Current(w) \in Malformed
    /\ worker' = [worker EXCEPT ![w] =
                     IF Len(@.todo) = 1 THEN Idle ELSE [@ EXCEPT !.todo = Tail(@)]]
    /\ UNCHANGED <<rows, published, notified, failures, crashes>>

(* processEvent on the first event: without a customer id nothing is sent, *)
(* whatever the type, and the event is marked as failed.                   *)
ExtractFails(w) ==
    /\ worker[w].step = "send"
    /\ Current(w) \in Malformed
    /\ worker' = [worker EXCEPT ![w].step = "mark", ![w].failed = TRUE]
    /\ UNCHANGED <<rows, published, notified, failures, crashes>>

(* HandleDomainEvent, Kafka first.  An event of an unknown type is only    *)
(* logged, and counts as handled.                                          *)
SkipUnsupported(w) ==
    /\ worker[w].step = "send"
    /\ Current(w) \in Skipped
    /\ worker' = [worker EXCEPT ![w].step = "mark"]
    /\ UNCHANGED <<rows, published, notified, failures, crashes>>

(* The broker may have stored the message though the producer got an error. *)
Send(w, stored, acked) ==
    /\ worker[w].step = "send"
    /\ Current(w) \notin Unsupported \union Malformed
    /\ acked => stored
    /\ published' = IF stored /\ ~Contains(published, Current(w))
                    THEN Append(published, Current(w)) ELSE published
    /\ worker' = [worker EXCEPT ![w].step = "notify", ![w].failed = ~acked]
    /\ UNCHANGED <<rows, notified, failures, crashes>>

(* Slip: multiErr overwritten by the webhook's result *)
DeliverForgetsKafka(w, ok) ==
    /\ worker[w].step = "notify"
    /\ notified' = IF ok THEN notified \union {Current(w)} ELSE notified
    /\ worker' = [worker EXCEPT ![w].step = "mark", ![w].failed = ~ok]
    /\ UNCHANGED <<rows, published, failures, crashes>>

(* Then the webhooks, also when Kafka failed. *)
Deliver(w, ok) ==
    /\ worker[w].step = "notify"
    /\ notified' = IF ok THEN notified \union {Current(w)} ELSE notified
    /\ worker' = [worker EXCEPT ![w].step = "mark", ![w].failed = @ \/ ~ok]
    /\ UNCHANGED <<rows, published, failures, crashes>>

(* Slip: the loop goes on past the end of the batch *)
AdvancePastEnd(w) ==
    worker' = [worker EXCEPT ![w] = [step |-> "send", todo |-> Tail(@.todo), failed |-> FALSE]]

(* On to the next event of the batch. *)
Advance(w) ==
    worker' = [worker EXCEPT ![w] =
                  IF Len(@.todo) = 1 THEN Idle
                  ELSE [step |-> "send", todo |-> Tail(@.todo), failed |-> FALSE]]

(* MarkProcessed; when it fails the row stays as it is, to be taken again. *)
MarkProcessed(w, ok) ==
    /\ worker[w].step = "mark" /\ ~worker[w].failed
    /\ rows' = IF ok /\ Present(Current(w))
               THEN [rows EXCEPT ![Current(w)].state = "processed"] ELSE rows
    /\ Advance(w)
    /\ UNCHANGED <<published, notified, failures, crashes>>

(* Slip: the backoff exponent stored as the attempt *)
FailedRowDoubling(row, attempt) == [row EXCEPT !.attempt = 2 * attempt, !.due = FALSE]

(* What MarkFailed leaves of the row, whatever its state is by then. *)
FailedRow(row, attempt) == [row EXCEPT !.attempt = attempt, !.due = FALSE]

MarkFailed(w, ok) ==
    LET e == Current(w) IN
    /\ worker[w].step = "mark" /\ worker[w].failed
    /\ rows' = IF ok /\ Present(e)
               THEN [rows EXCEPT ![e] = FailedRow(@, worker[w].todo[1].attempt + 1)] ELSE rows
    /\ failures' = [failures EXCEPT ![e] = IF @ > MaxRetries THEN @ ELSE @ + 1]
    /\ Advance(w)
    /\ UNCHANGED <<published, notified, crashes>>

(* 2^attempt seconds pass. *)
BackoffElapses(e) ==
    /\ rows[e].state = "pending" /\ ~rows[e].due
    /\ rows' = [rows EXCEPT ![e].due = TRUE]
    /\ UNCHANGED <<worker, published, notified, failures, crashes>>

(* The worker dies, or its context ends between two events of the batch. *)
Crash(w) ==
    /\ worker[w].step # "idle"
    /\ crashes < MaxCrashes
    /\ crashes' = crashes + 1
    /\ worker' = [worker EXCEPT ![w] = Idle]
    /\ UNCHANGED <<rows, published, notified, failures>>

(* Slip: WHERE processed = true left out of the DELETE *)
DeleteOld(S) ==
    /\ S # {}
    /\ \A e \in S : Present(e)
    /\ rows' = [e \in Events |-> IF e \in S THEN [rows[e] EXCEPT !.state = "deleted"] ELSE rows[e]]
    /\ UNCHANGED <<worker, published, notified, failures, crashes>>

(* DeleteOldProcessed, of cleanupWorker and of CleanupWorker. *)
DeleteOldProcessed(S) ==
    /\ S # {}
    /\ \A e \in S : rows[e].state = "processed"
    /\ rows' = [e \in Events |-> IF e \in S THEN [rows[e] EXCEPT !.state = "deleted"] ELSE rows[e]]
    /\ UNCHANGED <<worker, published, notified, failures, crashes>>

(* What a worker does by itself.  Whether it succeeds is not its choice. *)
WorkerStep(w) ==
    \/ GetUnprocessed(w) \/ ExtractFails(w) \/ SkipUnsupported(w)
    \/ \E stored, acked \in BOOLEAN : Send(w, stored, acked)
    \/ \E ok \in BOOLEAN : Deliver(w, ok) \/ MarkProcessed(w, ok) \/ MarkFailed(w, ok)

Next ==
    \/ \E n \in Events : Dispatch(n) \/ BackoffElapses(n)
    \/ \E w \in Workers : WorkerStep(w) \/ Crash(w)
    \/ \E S \in SUBSET Events : DeleteOldProcessed(S)

(* Tickers tick, calls return, and a database in which marks are tried for *)
(* ever takes one in the end.  Kafka and the webhooks may fail for ever.   *)
Fairness ==
    /\ WF_vars(\E e \in Events : BackoffElapses(e))
    /\ \A w \in Workers : WF_vars(WorkerStep(w))
    /\ SF_vars(\E w \in Workers : MarkProcessed(w, TRUE) \/ MarkFailed(w, TRUE))

Spec == Init /\ [][Next]_vars
FairSpec == Spec /\ Fairness

-----------------------------------------------------------------------------
(* Types of the table, the workers' batches and the receivers. *)
TypeOK ==
    /\ rows \in [Events -> EventRow]
    /\ worker \in [Workers -> Worker]
    /\ \A w \in Workers : worker[w].step = "idle" <=> worker[w].todo = <<>>
    /\ published \in Seq(Events)
    /\ notified \subseteq Events
    /\ failures \in [Events -> 0..(MaxRetries + 1)]
    /\ crashes \in 0..MaxCrashes

Received == {e \in notified : Contains(published, e)}

(* Whichever of several workers marks it, at whatever attempt, an event    *)
(* that counts as processed (and will be deleted) has reached Kafka and    *)
(* the webhooks, unless its type is one nobody handles.                    *)
ProcessedWasReceived ==
    \A e \in Events \ Skipped :
        rows[e].state \in {"processed", "deleted"} => e \in Received

(* No event is given up before MaxRetries + 1 attempts at it have failed,  *)
(* though several workers count its attempts from stale rows.              *)
GivenUpLate ==
    \A e \in Events : rows[e].attempt > MaxRetries => failures[e] > MaxRetries

(* What makes both inductive: a copy in a worker's hands counts no more      *)
(* attempts than have failed, and how far its worker has come without an    *)
(* error says who has received the event.  Checked with TypeOK as a part.   *)
Failed(e, attempts) == attempts <= failures[e] \/ failures[e] > MaxRetries
KnowsWhatItDid(w) ==
    /\ \A i \in 1..Len(worker[w].todo) :
          LET copy == worker[w].todo[i]
          IN  rows[copy.id].state # "absent" /\ Failed(copy.id, copy.attempt)
    /\ worker[w].step = "send" => ~worker[w].failed
    /\ worker[w].step = "notify" =>
          Current(w) \notin Skipped /\ (worker[w].failed \/ Contains(published, Current(w)))
    /\ worker[w].step = "mark" =>
          IF worker[w].failed THEN Current(w) \notin Skipped
          ELSE Current(w) \in Received \union Skipped
IInv ==
    /\ TypeOK
    /\ \A e \in Events : rows[e].state = "absent" =>
          \A later \in e..NumEvents : rows[later].state = "absent"
    /\ \A e \in Events : Failed(e, rows[e].attempt)
    /\ \A w \in Workers : KnowsWhatItDid(w)
    /\ ProcessedWasReceived

(* The outbox implements at-least-once delivery: seen from outside, every  *)
(* step of dispatcher, workers and cleanup is one of Delivery or nothing.  *)
StatusOf(e) ==
    CASE rows[e].state = "absent" -> "none"
      [] rows[e].state = "pending" -> IF rows[e].attempt <= MaxRetries THEN "pending" ELSE "abandoned"
      [] OTHER -> "complete"
AtLeastOnce == INSTANCE Delivery WITH status <- [e \in Events |-> StatusOf(e)],
                                      received <- Received, Unsupported <- Skipped
AtLeastOnceSpec == AtLeastOnce!Spec

(* No event stays open for ever: it is processed or given up, however often *)
(* workers die, overwrite each other's attempt numbers or fail to mark; and *)
(* those that fail at every attempt, among them one that can never be       *)
(* handled, do not keep the rest out of the batches.                        *)
EverySettles ==
    \A e \in Events :
        LET open == rows[e].state = "pending" /\ rows[e].attempt <= MaxRetries
        IN  []<>~open
=============================================================================
