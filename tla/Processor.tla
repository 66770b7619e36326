------------------------------ MODULE Processor ------------------------------
(***************************************************************************)
(* The Kafka consumer (pkg/kafka/processor.go) and its dead-letter queue   *)
(* (pkg/kafka/dlq): workers fetch messages of one partition, hand them to  *)
(* a handler, park those that keep failing and commit their offsets.  The  *)
(* dead-letter queue is a buffer in memory and a goroutine that sends what *)
(* is in it to a topic of its own.                                         *)
(*                                                                         *)
(* Committing an offset commits everything before it; what is committed is *)
(* not fetched again after a restart.                                      *)
(***************************************************************************)
EXTENDS Integers, Sequences, SequencesExt

CONSTANTS
    MaxMessage,  \* bound: the last message of the partition
    Workers,     \* Config.WorkersCount goroutines
    MaxAttempts, \* Config.MaxAttempts
    BufferSize,  \* dlq.config.BufferSize
    MaxRestarts  \* bound: crashes and restarts of the process

ASSUME ConstantsAssumption ==
    /\ MaxMessage \in Nat
    /\ MaxAttempts \in Nat \ {0}
    /\ BufferSize \in Nat
    /\ MaxRestarts \in Nat

Messages == 1..MaxMessage \* their offsets
NoMessage == 0 \* kafka.Message{}
Handed == Messages \union {NoMessage}

VARIABLES
    phase,     \* the process: running, Stop called, DLQ.Close called
    worker,
    next,      \* the reader's position
    committed, \* the consumer group's offset
    buffer,    \* DLQ.ch
    sender,    \* the goroutine of the dead-letter queue
    handled,   \* messages for which the handler has returned nil
    parked,    \* messages in the dead-letter topic
    lost,      \* history: messages the dead-letter queue refused or let go of
    overtaken, \* history: messages a worker still had when another committed a
               \* later offset
    restarts

vars == <<phase, worker, next, committed, buffer, sender, handled, parked,
          lost, overtaken, restarts>>
reader == <<next, committed>>
dlq == <<buffer, sender>>
outcome == <<handled, parked>>

-----------------------------------------------------------------------------
Worker == [step : {"fetch", "pause", "handle", "backoff", "park", "commit", "stopped"},
           msg : Handed, attempt : 0..MaxAttempts]
Fetching == [step |-> "fetch", msg |-> NoMessage, attempt |-> 0]
Handling(m) == [step |-> "handle", msg |-> m, attempt |-> 1]

Sender == [step : {"idle", "send", "backoff", "drain", "drain_send", "returned"}, msg : Handed]
Listening == [step |-> "idle", msg |-> NoMessage]

(* Messages the dead-letter queue has taken and not yet sent. *)
OnTheWay == Range(buffer) \union
    IF sender.step \in {"send", "backoff", "drain_send"} THEN {sender.msg} ELSE {}

Init ==
    /\ phase = "running"
    /\ worker = [w \in Workers |-> Fetching]
    /\ next = 1
    /\ committed = 0
    /\ buffer = <<>>
    /\ sender = Listening
    /\ handled = {}
    /\ parked = {}
    /\ lost = {}
    /\ overtaken = {}
    /\ restarts = 0

(* The empty message is no message of the partition. *)
With(set, m) == set \union ({m} \ {NoMessage})

Goto(w, s) == worker' = [worker EXCEPT ![w].step = s]

-----------------------------------------------------------------------------
(* Processor.worker *)

Fetch(w) ==
    /\ worker[w].step = "fetch"
    /\ next \in Messages
    /\ worker' = [worker EXCEPT ![w] = Handling(next)]
    /\ next' = next + 1
    /\ UNCHANGED <<phase, committed, dlq, outcome, lost, overtaken, restarts>>

FetchFails(w) ==
    /\ worker[w].step = "fetch"
    /\ Goto(w, IF phase = "running" THEN "pause" ELSE "stopped")
    /\ UNCHANGED <<phase, reader, dlq, outcome, lost, overtaken, restarts>>

(* After the pause the loop goes on with the empty message of the failure. *)
PauseEnds(w) ==
    /\ worker[w].step = "pause"
    /\ worker' = [worker EXCEPT ![w] = Handling(NoMessage)]
    /\ UNCHANGED <<phase, reader, dlq, outcome, lost, overtaken, restarts>>

(* Processor.processWithRetry *)

HandlerSucceeds(w) ==
    /\ worker[w].step = "handle"
    /\ handled' = With(handled, worker[w].msg)
    /\ Goto(w, "commit")
    /\ UNCHANGED <<phase, reader, dlq, parked, lost, overtaken, restarts>>

(* (Slip: one attempt more than configured.) *)
HandlerFailsOnceMore(w) ==
    /\ worker[w].step = "handle"
    /\ \/ Goto(w, "park")
       \/ worker[w].attempt <= MaxAttempts /\ Goto(w, "backoff")
    /\ UNCHANGED <<phase, reader, dlq, outcome, lost, overtaken, restarts>>

(* (Slip: after the last attempt the message is given up unparked.) *)
HandlerFailsUnparked(w) ==
    /\ worker[w].step = "handle"
    /\ Goto(w, IF worker[w].attempt < MaxAttempts THEN "backoff" ELSE "commit")
    /\ UNCHANGED <<phase, reader, dlq, outcome, lost, overtaken, restarts>>

(* An error: an unretryable one may come at any attempt. *)
HandlerFails(w) ==
    /\ worker[w].step = "handle"
    /\ \/ Goto(w, "park")
       \/ worker[w].attempt < MaxAttempts /\ Goto(w, "backoff")
    /\ UNCHANGED <<phase, reader, dlq, outcome, lost, overtaken, restarts>>

BackoffEnds(w) ==
    /\ worker[w].step = "backoff"
    /\ worker' = [worker EXCEPT ![w].step = "handle", ![w].attempt = @ + 1]
    /\ UNCHANGED <<phase, reader, dlq, outcome, lost, overtaken, restarts>>

(* The context ends during a pause: the message, if there is one, stays *)
(* uncommitted.                                                         *)
Cancelled(w) ==
    /\ phase # "running"
    /\ worker[w].step \in {"pause", "backoff"}
    /\ Goto(w, "stopped")
    /\ UNCHANGED <<phase, reader, dlq, outcome, lost, overtaken, restarts>>

-----------------------------------------------------------------------------
(* DLQ.PublishError *)

Enqueue(w) ==
    /\ worker[w].step = "park"
    /\ Len(buffer) < BufferSize
    /\ buffer' = Append(buffer, worker[w].msg)
    /\ Goto(w, "commit")
    /\ UNCHANGED <<phase, reader, sender, outcome, lost, overtaken, restarts>>

(* (Slip: a full buffer is taken for a queue that needs no help.) *)
SendNowSkipped(w) ==
    /\ worker[w].step = "park"
    /\ phase = "running"
    /\ Len(buffer) = BufferSize
    /\ Goto(w, "commit")
    /\ UNCHANGED <<phase, reader, dlq, outcome, lost, overtaken, restarts>>

(* The buffer is full: the worker itself sends. *)
SendNow(w) ==
    /\ worker[w].step = "park"
    /\ phase = "running"
    /\ Len(buffer) = BufferSize
    /\ parked' = With(parked, worker[w].msg)
    /\ Goto(w, "commit")
    /\ UNCHANGED <<phase, reader, dlq, handled, lost, overtaken, restarts>>

(* That fails, or the context has ended: "message LOST, committing to avoid *)
(* infinite loop".                                                          *)
PublishErrorFails(w) ==
    /\ worker[w].step = "park"
    /\ phase # "running" \/ Len(buffer) = BufferSize
    /\ lost' = With(lost, worker[w].msg)
    /\ Goto(w, "commit")
    /\ UNCHANGED <<phase, reader, dlq, outcome, overtaken, restarts>>

(* Consumer.Commit: of the empty message it fails at the broker. *)
Earlier(w) == {v \in Workers \ {w} :
    /\ worker[v].msg \in 1..(worker[w].msg - 1)
    /\ worker[v].step # "commit"}
Commit(w) ==
    /\ worker[w].step = "commit"
    /\ worker[w].msg # NoMessage
    /\ committed' = worker[w].msg
    /\ overtaken' = overtaken \union {worker[v].msg : v \in Earlier(w)}
    /\ worker' = [worker EXCEPT ![w] = Fetching]
    /\ UNCHANGED <<phase, next, dlq, outcome, lost, restarts>>

(* (Slip: a commit that fails is repeated until it succeeds.) *)
CommitFailsAgain(w) ==
    /\ worker[w].step = "commit"
    /\ UNCHANGED vars

CommitFails(w) ==
    /\ worker[w].step = "commit"
    /\ worker' = [worker EXCEPT ![w] = Fetching]
    /\ UNCHANGED <<phase, reader, dlq, outcome, lost, overtaken, restarts>>

-----------------------------------------------------------------------------
(* DLQ.worker *)

Take(from, to) ==
    /\ sender.step = from
    /\ buffer # <<>>
    /\ sender' = [step |-> to, msg |-> Head(buffer)]
    /\ buffer' = Tail(buffer)
    /\ UNCHANGED <<phase, worker, reader, outcome, lost, overtaken, restarts>>
SenderTakes == Take("idle", "send") \/ Take("drain", "drain_send")

SenderSends ==
    /\ sender.step \in {"send", "drain_send"}
    /\ parked' = With(parked, sender.msg)
    /\ sender' = [sender EXCEPT !.step = IF @ = "send" THEN "idle" ELSE "drain"]
    /\ UNCHANGED <<phase, worker, reader, buffer, handled, lost, overtaken, restarts>>

(* A send fails: it is repeated after a backoff. *)
SendFails ==
    /\ sender.step = "send"
    /\ sender' = [sender EXCEPT !.step = "backoff"]
    /\ UNCHANGED <<phase, worker, reader, buffer, outcome, lost, overtaken, restarts>>

(* When the queue closes, each message is sent once. *)
LastSendFails ==
    /\ sender.step = "drain_send"
    /\ lost' = With(lost, sender.msg)
    /\ sender' = [sender EXCEPT !.step = "drain"]
    /\ UNCHANGED <<phase, worker, reader, buffer, outcome, overtaken, restarts>>

(* The message goes to the end of the queue, or is dropped if that is full. *)
PutBack ==
    /\ sender.step = "backoff"
    /\ \/ /\ Len(buffer) < BufferSize
          /\ buffer' = Append(buffer, sender.msg)
          /\ UNCHANGED lost
       \/ /\ Len(buffer) = BufferSize
          /\ lost' = With(lost, sender.msg)
          /\ UNCHANGED buffer
    /\ sender' = Listening
    /\ UNCHANGED <<phase, worker, reader, outcome, overtaken, restarts>>

(* Close ends a backoff: the goroutine returns, and the buffer with it. *)
AbandonBuffer ==
    /\ phase = "closing"
    /\ sender.step = "backoff"
    /\ sender' = [sender EXCEPT !.step = "returned"]
    /\ lost' = lost \union (OnTheWay \ {NoMessage})
    /\ UNCHANGED <<phase, worker, reader, buffer, outcome, overtaken, restarts>>

BeginDrain ==
    /\ phase = "closing"
    /\ sender.step = "idle"
    /\ sender' = [sender EXCEPT !.step = "drain"]
    /\ UNCHANGED <<phase, worker, reader, buffer, outcome, lost, overtaken, restarts>>

Drained ==
    /\ sender.step = "drain"
    /\ buffer = <<>>
    /\ sender' = [sender EXCEPT !.step = "returned"]
    /\ UNCHANGED <<phase, worker, reader, buffer, outcome, lost, overtaken, restarts>>

-----------------------------------------------------------------------------
(* Processor.Stop cancels the workers' context and waits for them; the *)
(* queue they write to is closed after that.                           *)
Stop ==
    /\ phase = "running"
    /\ restarts < MaxRestarts
    /\ phase' = "stopping"
    /\ UNCHANGED <<worker, reader, dlq, outcome, lost, overtaken, restarts>>

Close ==
    /\ phase = "stopping"
    /\ \A w \in Workers : worker[w].step = "stopped"
    /\ phase' = "closing"
    /\ UNCHANGED <<worker, reader, dlq, outcome, lost, overtaken, restarts>>

(* The process comes back, after an orderly end or a crash; a message that *)
(* is committed will not be fetched again.                                 *)
Restart ==
    /\ restarts < MaxRestarts
    /\ restarts' = restarts + 1
    /\ phase' = "running"
    /\ worker' = [w \in Workers |-> Fetching]
    /\ next' = committed + 1
    /\ buffer' = <<>>
    /\ sender' = Listening
    /\ lost' = lost \union (OnTheWay \intersect 1..committed)
    /\ UNCHANGED <<committed, outcome, overtaken>>

-----------------------------------------------------------------------------
WorkerStep(w) ==
    \/ Fetch(w) \/ FetchFails(w) \/ PauseEnds(w)
    \/ HandlerSucceeds(w) \/ HandlerFails(w) \/ BackoffEnds(w) \/ Cancelled(w)
    \/ Enqueue(w) \/ SendNow(w) \/ PublishErrorFails(w)
    \/ Commit(w) \/ CommitFails(w)
SenderStep ==
    \/ SenderTakes \/ SenderSends \/ SendFails \/ LastSendFails \/ PutBack
    \/ AbandonBuffer \/ BeginDrain \/ Drained
Next ==
    \/ \E w \in Workers : WorkerStep(w)
    \/ SenderStep
    \/ Stop \/ Close \/ Restart

Spec == Init /\ [][Next]_vars

(* Goroutines run and handlers return; of fetches that are tried for ever *)
(* one works in the end, and so does a send of messages put back for ever.*)
FairSpec ==
    /\ Spec
    /\ \A w \in Workers : WF_vars(WorkerStep(w))
    /\ WF_vars(SenderStep) /\ WF_vars(Close)
    /\ SF_vars(\E w \in Workers : Fetch(w))
    /\ SF_vars(SenderSends /\ sender.msg # NoMessage)

-----------------------------------------------------------------------------
TypeOK ==
    /\ phase \in {"running", "stopping", "closing"}
    /\ worker \in [Workers -> Worker]
    /\ next \in Nat /\ committed \in Messages \union {0}
    /\ buffer \in Seq(Handed) /\ Len(buffer) <= BufferSize
    /\ sender \in Sender
    /\ handled \subseteq Messages /\ parked \subseteq Messages
    /\ lost \subseteq Messages /\ overtaken \subseteq Messages
    /\ restarts \in 0..MaxRestarts

(* Handled, in the dead-letter topic or on its way there; or lost by the *)
(* dead-letter queue, which happens in five places: the send of a worker *)
(* that finds the buffer full fails ("message LOST", processor.go:162),  *)
(* there is no room for a message that is put back ("message lost",      *)
(* dlq.go:108), the last send when the queue closes fails (dlq.go:85),   *)
(* it closes during a backoff (dlq.go:112), and the process dies.        *)
Settled == handled \union parked \union OnTheWay
Disposed == Settled \union lost

(* "DLQ is required for guaranteed delivery" (processor.go:37).  What is    *)
(* committed is not fetched again: each such message has been handled, is   *)
(* in the dead-letter topic or on its way there, or it is one of those that *)
(* this guarantee does not reach: lost by the dead-letter queue, or         *)
(* overtaken by the commit of another worker.                               *)
GuaranteedDelivery == 1..committed \subseteq Disposed \union overtaken

(* A message leaves a worker's hands only for the handler's success or the *)
(* dead-letter queue, which may lose it: whatever the reader has gone past *)
(* is in one of these places (processor.go:106-175).  After a restart it   *)
(* has also gone past the messages a commit overtook.                      *)
FetchedIsAccountedFor ==
    1..(next - 1) \subseteq Disposed
        \union {worker[w].msg : w \in Workers}
        \union IF restarts = 0 THEN {} ELSE overtaken

(* What makes both inductive: who commits a message has disposed of it, *)
(* and who waits for nothing has none.  Checked with TypeOK as a part.  *)
HandsOver(w) ==
    /\ worker[w].msg < next
    /\ worker[w].step \in {"fetch", "pause"} => worker[w].msg = NoMessage
    /\ worker[w].step = "backoff" => worker[w].attempt < MaxAttempts
    /\ worker[w].step = "commit" => worker[w].msg \in Disposed \union {NoMessage}
IInv ==
    /\ TypeOK
    /\ committed < next
    /\ \A w \in Workers : HandsOver(w)
    /\ FetchedIsAccountedFor
    /\ GuaranteedDelivery

(* Every message is handled or parked in the end, or the dead-letter queue *)
(* lost it, or a commit overtook it, or the process was stopped for good:  *)
(* retries, full buffers, commits that fail and the empty message of a     *)
(* failed fetch hold up none for ever (processor.go:74-175, dlq.go:74-120).*)
EveryMessageSettles ==
    <>[](\/ Messages \subseteq handled \union parked \union lost \union overtaken
         \/ phase # "running")
=============================================================================
