------------------------------ MODULE Webhooks ------------------------------
(***************************************************************************)
(* Webhook delivery: WebhookDeliveryService.Deliver (service/webhook.go)   *)
(* writes one webhook_logs row per active endpoint of the customer, and    *)
(* the WebhookRetryWorker of every app instance polls the due rows, POSTs  *)
(* them and records the outcome.                                           *)
(*                                                                         *)
(* Nothing locks a polled row: several workers hold the same row, each     *)
(* with the attempt number it read.  The virtual clock is not set back.    *)
(***************************************************************************)
EXTENDS Integers, Sequences, FiniteSets, SequencesExt

CONSTANTS
    Calls,       \* calls of Deliver, each for an event of its own
    Endpoints,   \* the webhook endpoints of one customer
    Workers,     \* retry workers, one per app instance
    BatchSize,   \* WebhookRetryConfig
    MaxAttempts, \* WebhookRetryConfig
    MaxSends,    \* bound: up to how many requests for a log are counted
    MaxCrashes   \* bound: how many workers die with a batch in hand

ASSUME ConstantsAssumption ==
    /\ IsFiniteSet(Workers)
    /\ MaxSends \in Nat
    /\ BatchSize \in Nat \ {0}
    /\ MaxAttempts \in Nat \ {0}
    /\ MaxCrashes \in Nat

Logs == Calls \X Endpoints
EndpointOf(l) == l[2]

VARIABLES
    endpoint, \* the webhook_endpoints table
    row,      \* the webhook_logs table
    due,      \* rows with status pending or failed and next_attempt_at <= now,
              \* in the order of next_attempt_at
    deliver,  \* the calls of Deliver
    worker,   \* worker -> the batch it works through
    sends,    \* history: requests made for each log (up to MaxSends)
    accepted, \* history: logs whose endpoint has answered 2xx
    crashes

vars == <<endpoint, row, due, deliver, worker, sends, accepted, crashes>>

-----------------------------------------------------------------------------
WebhookLog == [status : {"none", "pending", "failed", "delivered"}, attempt : Nat]
NoLog == [status |-> "none", attempt |-> 0]
NewWebhookLog == [status |-> "pending", attempt |-> 1]

(* A call of Deliver: the endpoints it listed and has not come to yet. *)
Call == [state : {"idle", "running", "returned"}, todo : SUBSET Endpoints]
NoCall == [state |-> "idle", todo |-> {}]

(* A worker's batch: the logs with the attempt each row had when it was    *)
(* polled, and where the worker is with the first one.                     *)
Polled == [log : Logs, attempt : Nat]
Worker == [step : {"idle", "lookup", "send", "record"}, batch : Seq(Polled), ok : BOOLEAN]
Idle == [step |-> "idle", batch |-> <<>>, ok |-> FALSE]

Current(w) == worker[w].batch[1]
Active == {e \in Endpoints : endpoint[e] = "active"}

Init ==
    /\ endpoint = [e \in Endpoints |-> "absent"]
    /\ row = [l \in Logs |-> NoLog]
    /\ due = <<>>
    /\ deliver = [c \in Calls |-> NoCall]
    /\ worker = [w \in Workers |-> Idle]
    /\ sends = [l \in Logs |-> 0]
    /\ accepted = {}
    /\ crashes = 0

(* The place of l among the due rows is left open: rows of one call have   *)
(* the same next_attempt_at, and a slow request outlasts its own backoff.  *)
BecomesDue(l) == \E i \in 1..(Len(due) + 1) : due' = InsertAt(due, i, l)
IsDueNoMore(l) ==
    IF Contains(due, l) THEN \E i \in 1..Len(due) : due[i] = l /\ due' = RemoveAt(due, i)
    ELSE UNCHANGED due

-----------------------------------------------------------------------------
(* WebhookEndpointService *)

CreateEndpoint(e) ==
    /\ endpoint[e] = "absent"
    /\ endpoint' = [endpoint EXCEPT ![e] = "active"]
    /\ UNCHANGED <<row, due, deliver, worker, sends, accepted, crashes>>

(* A soft delete: enabled = false and deleted_at are set, the row and its  *)
(* logs stay.                                                              *)
DeleteEndpoint(e) ==
    /\ endpoint[e] = "active"
    /\ endpoint' = [endpoint EXCEPT ![e] = "deleted"]
    /\ UNCHANGED <<row, due, deliver, worker, sends, accepted, crashes>>

-----------------------------------------------------------------------------
(* Deliver: each row is committed on its own; the caller may die between   *)
(* two of them (the call then stays as it is).                             *)

GetActiveByCustomerID(c) ==
    /\ deliver[c].state = "idle"
    /\ deliver' = [deliver EXCEPT ![c] = [state |-> "running", todo |-> Active]]
    /\ UNCHANGED <<endpoint, row, due, worker, sends, accepted, crashes>>

LogEndpoint(c, e) ==
    /\ deliver[c].state = "running" /\ e \in deliver[c].todo
    /\ row' = [row EXCEPT ![<<c, e>>] = NewWebhookLog]
    /\ BecomesDue(<<c, e>>)
    /\ deliver' = [deliver EXCEPT ![c].todo = @ \ {e}]
    /\ UNCHANGED <<endpoint, worker, sends, accepted, crashes>>

(* The event's or the log's INSERT fails, which is logged, and no more. *)
LogFails(c, e) ==
    /\ deliver[c].state = "running" /\ e \in deliver[c].todo
    /\ deliver' = [deliver EXCEPT ![c].todo = @ \ {e}]
    /\ UNCHANGED <<endpoint, row, due, worker, sends, accepted, crashes>>

DeliverReturns(c) ==
    /\ deliver[c].state = "running" /\ deliver[c].todo = {}
    /\ deliver' = [deliver EXCEPT ![c].state = "returned"]
    /\ UNCHANGED <<endpoint, row, due, worker, sends, accepted, crashes>>

-----------------------------------------------------------------------------
(* WebhookRetryWorker *)

(* GetPendingForRetry: the first BatchSize due rows. *)
Poll(w) ==
    /\ worker[w].step = "idle"
    /\ due # <<>>
    /\ LET n == IF Len(due) < BatchSize THEN Len(due) ELSE BatchSize
       IN  worker' = [worker EXCEPT ![w] =
                         [step  |-> "lookup",
                          batch |-> [i \in 1..n |-> [log |-> due[i], attempt |-> row[due[i]].attempt]],
                          ok    |-> FALSE]]
    /\ UNCHANGED <<endpoint, row, due, deliver, sends, accepted, crashes>>

(* Slip: the loop goes on past the end of the batch *)
NextLogPastEnd(w) ==
    worker' = [worker EXCEPT ![w] = [step |-> "lookup", batch |-> Tail(@.batch), ok |-> FALSE]]

(* On to the next log of the batch. *)
NextLog(w) ==
    worker' = [worker EXCEPT ![w] =
                  IF Len(@.batch) = 1 THEN Idle
                  ELSE [step |-> "lookup", batch |-> Tail(@.batch), ok |-> FALSE]]

(* GetByID finds endpoints that are not deleted. *)
EndpointFound(w) ==
    /\ worker[w].step = "lookup"
    /\ EndpointOf(Current(w).log) \in Active
    /\ worker' = [worker EXCEPT ![w].step = "send"]
    /\ UNCHANGED <<endpoint, row, due, deliver, sends, accepted, crashes>>

(* It is deleted, or the SELECT fails: the row is left as it is, and due. *)
EndpointMissing(w) ==
    /\ worker[w].step = "lookup"
    /\ NextLog(w)
    /\ UNCHANGED <<endpoint, row, due, deliver, sends, accepted, crashes>>

(* Slip: err == nil taken for an acceptance, whatever the status code *)
SendAnyAnswer(w, answer) ==
    LET l == Current(w).log IN
    /\ worker[w].step = "send"
    /\ sends' = [sends EXCEPT ![l] = IF @ < MaxSends THEN @ + 1 ELSE @]
    /\ accepted' = IF answer = "2xx" THEN accepted \union {l} ELSE accepted
    /\ worker' = [worker EXCEPT ![w].step = "record", ![w].ok = answer # "error"]
    /\ UNCHANGED <<endpoint, row, due, deliver, crashes>>

(* HTTPSender.Send: an answer or an error within its timeout.  An endpoint *)
(* may have taken the request though its answer was lost.                  *)
Send(w, answer) ==
    LET l == Current(w).log IN
    /\ worker[w].step = "send"
    /\ sends' = [sends EXCEPT ![l] = IF @ < MaxSends THEN @ + 1 ELSE @]
    /\ accepted' = IF answer = "2xx" THEN accepted \union {l} ELSE accepted
    /\ worker' = [worker EXCEPT ![w].step = "record", ![w].ok = answer = "2xx"]
    /\ UNCHANGED <<endpoint, row, due, deliver, crashes>>

(* Update writes the copy back, its attempt too, whatever the row is now. *)
MarkDelivered(w) ==
    /\ worker[w].step = "record" /\ worker[w].ok
    /\ row' = [row EXCEPT ![Current(w).log] = [status |-> "delivered", attempt |-> Current(w).attempt]]
    /\ IsDueNoMore(Current(w).log)
    /\ NextLog(w)
    /\ UNCHANGED <<endpoint, deliver, sends, accepted, crashes>>

Exhausted(attempt) == attempt >= MaxAttempts

(* The warning says "marking as failed"; nothing is written. *)
GiveUp(w) ==
    /\ worker[w].step = "record" /\ ~worker[w].ok
    /\ Exhausted(Current(w).attempt)
    /\ NextLog(w)
    /\ UNCHANGED <<endpoint, row, due, deliver, sends, accepted, crashes>>

(* Slip: attempt = attempt * 2, the backoff's formula *)
FailedRowDoubled(r) == [r EXCEPT !.status = "failed", !.attempt = 2 * @]

(* What MarkFailed leaves of a row, whatever its status is by then. *)
FailedRow(r) == [r EXCEPT !.status = "failed", !.attempt = @ + 1]

MarkFailed(w) ==
    LET l == Current(w).log IN
    /\ worker[w].step = "record" /\ ~worker[w].ok
    /\ ~Exhausted(Current(w).attempt)
    /\ row' = [row EXCEPT ![l] = FailedRow(@)]
    /\ IsDueNoMore(l)
    /\ NextLog(w)
    /\ UNCHANGED <<endpoint, deliver, sends, accepted, crashes>>

(* Either UPDATE fails: logged, the row stays due. *)
RecordFails(w) ==
    /\ worker[w].step = "record"
    /\ worker[w].ok \/ ~Exhausted(Current(w).attempt)
    /\ NextLog(w)
    /\ UNCHANGED <<endpoint, row, due, deliver, sends, accepted, crashes>>

(* Slip: only rows with status = 'pending' are due *)
BackoffElapsesPending(l) ==
    /\ row[l].status = "pending" /\ ~Contains(due, l)
    /\ BecomesDue(l)
    /\ UNCHANGED <<endpoint, row, deliver, worker, sends, accepted, crashes>>

(* 2^(attempt-1) seconds of virtual time pass. *)
BackoffElapses(l) ==
    /\ row[l].status = "failed" /\ ~Contains(due, l)
    /\ BecomesDue(l)
    /\ UNCHANGED <<endpoint, row, deliver, worker, sends, accepted, crashes>>

Crash(w) ==
    /\ worker[w].step # "idle"
    /\ crashes < MaxCrashes
    /\ crashes' = crashes + 1
    /\ worker' = [worker EXCEPT ![w] = Idle]
    /\ UNCHANGED <<endpoint, row, due, deliver, sends, accepted>>

(* What a worker does by itself.  Whether it succeeds is not its choice. *)
WorkerStep(w) ==
    \/ Poll(w) \/ EndpointFound(w) \/ EndpointMissing(w)
    \/ \E answer \in {"2xx", "other", "error"} : Send(w, answer)
    \/ MarkDelivered(w) \/ GiveUp(w) \/ MarkFailed(w) \/ RecordFails(w)

Next ==
    \/ \E e \in Endpoints : CreateEndpoint(e) \/ DeleteEndpoint(e)
    \/ \E c \in Calls : GetActiveByCustomerID(c) \/ DeliverReturns(c)
    \/ \E c \in Calls, e \in Endpoints : LogEndpoint(c, e) \/ LogFails(c, e)
    \/ \E w \in Workers : WorkerStep(w) \/ Crash(w)
    \/ \E l \in Logs : BackoffElapses(l)

(* Tickers tick, time passes, a request ends within HTTPSender's timeout,  *)
(* and a statement that is tried again and again succeeds in the end.      *)
(* Endpoints may refuse for ever.                                          *)
Fairness ==
    /\ WF_vars(\E l \in Logs : BackoffElapses(l))
    /\ \A w \in Workers : WF_vars(WorkerStep(w))
    /\ \A l \in Logs :
        LET first(w) == worker[w].step # "idle" /\ Current(w).log = l
        IN  /\ SF_vars(\E w \in Workers : first(w) /\ EndpointFound(w))
            /\ SF_vars(\E w \in Workers : first(w) /\ (MarkDelivered(w) \/ MarkFailed(w)))

Spec == Init /\ [][Next]_vars
FairSpec == Spec /\ Fairness

-----------------------------------------------------------------------------
(* Types of the tables, the batches and the calls; due holds each row once *)
(* and only rows that exist and are not delivered.                         *)
TypeOK ==
    /\ endpoint \in [Endpoints -> {"absent", "active", "deleted"}]
    /\ row \in [Logs -> WebhookLog]
    /\ due \in Seq(Logs) /\ IsInjective(due)
    /\ \A i \in 1..Len(due) : row[due[i]].status \in {"pending", "failed"}
    /\ deliver \in [Calls -> Call]
    /\ worker \in [Workers -> Worker]
    /\ \A w \in Workers : worker[w].step = "idle" <=> worker[w].batch = <<>>
    /\ sends \in [Logs -> 0..MaxSends]
    /\ accepted \subseteq Logs
    /\ crashes \in 0..MaxCrashes

(* A row is delivered only if its endpoint accepted a request for it,      *)
(* whichever of the workers that hold it writes last.                      *)
DeliveredWasAccepted ==
    \A l \in Logs : row[l].status = "delivered" => l \in accepted

(* The attempt number never runs ahead of the requests made: though        *)
(* MarkFailed counts in SQL and Update writes an old number back, each     *)
(* attempt but the coming one stands for a request.                        *)
AttemptsAreSends ==
    \A l \in Logs : sends[l] < MaxSends => row[l].attempt <= sends[l] + 1

(* What makes both inductive: nobody holds a log that is not written yet,  *)
(* and the requests already count those whose failure is not recorded yet. *)
(* Checked with TypeOK as a part.                                          *)
FailureToRecord(l) ==
    {w \in Workers : /\ worker[w].step = "record" /\ ~worker[w].ok
                     /\ ~Exhausted(Current(w).attempt) /\ Current(w).log = l}
Counted(l, attempt) ==
    sends[l] < MaxSends => attempt + Cardinality(FailureToRecord(l)) <= sends[l] + 1
KnowsWhatItDid(w) ==
    /\ \A i \in 1..Len(worker[w].batch) :
          LET copy == worker[w].batch[i]
          IN  row[copy.log].status # "none" /\ Counted(copy.log, copy.attempt)
    /\ worker[w].step = "record" /\ worker[w].ok => Current(w).log \in accepted
IInv ==
    /\ TypeOK
    /\ \A c \in Calls, e \in Endpoints :
          deliver[c].state = "idle" \/ e \in deliver[c].todo => row[<<c, e>>].status = "none"
    /\ \A l \in Logs : Counted(l, 1) /\ Counted(l, row[l].attempt)
    /\ \A w \in Workers : KnowsWhatItDid(w)
    /\ DeliveredWasAccepted

(* Rows no worker will ever take out of the queue: their endpoint is       *)
(* deleted, or their attempts are used up.                                 *)
Stuck ==
    {l \in Range(due) : endpoint[EndpointOf(l)] = "deleted" \/ Exhausted(row[l].attempt)}

(* No log waits for ever: MaxAttempts requests are made for it, if none of *)
(* them is accepted, unless its endpoint is deleted, or rows that stay     *)
(* first in the queue for ever (webhook_log.go:84) fill every batch.       *)
(* Refusals, failed statements, crashes and other rows that are tried      *)
(* before it do not keep it out of the batches.                            *)
TriedOrDone ==
    \A l \in Logs :
        LET waits ==
                /\ row[l].status \in {"pending", "failed"}
                /\ sends[l] < MaxAttempts
                /\ endpoint[EndpointOf(l)] # "deleted"
                /\ Cardinality(Stuck \ {l}) < BatchSize
        IN  []<>~waits
=============================================================================
