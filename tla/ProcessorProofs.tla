-------------------------- MODULE ProcessorProofs --------------------------
(***************************************************************************)
(* Processor, for every number of messages, workers, attempts and restarts *)
(* and every size of the buffer.  No step takes a message out of Disposed, *)
(* and a worker lets go of a message only when it is in there; so whatever *)
(* lies below the reader's position is disposed of or held, and a commit   *)
(* covers, besides what has been disposed of, only what it overtakes.      *)
(***************************************************************************)
EXTENDS Processor, SequenceTheorems, TLAPS

LEMMA RangeOfAppend ==
  ASSUME NEW S, NEW seq \in Seq(S), NEW e \in S
  PROVE  Range(Append(seq, e)) = Range(seq) \union {e}
  <1>1. /\ Append(seq, e) \in Seq(S)
        /\ Len(Append(seq, e)) = Len(seq) + 1
        /\ \A i \in 1..Len(seq) : Append(seq, e)[i] = seq[i]
        /\ Append(seq, e)[Len(seq) + 1] = e
    BY AppendProperties
  <1>2. /\ Len(seq) \in Nat /\ DOMAIN seq = 1..Len(seq)
        /\ DOMAIN Append(seq, e) = 1..(Len(seq) + 1)
    BY <1>1, LenProperties
  <1>3. ASSUME NEW x \in Range(Append(seq, e)) PROVE x \in Range(seq) \union {e}
    BY <1>1, <1>2 DEF Range
  <1>4. ASSUME NEW x \in Range(seq) \union {e} PROVE x \in Range(Append(seq, e))
    <2>1. CASE x = e
      BY <1>1, <1>2, <2>1 DEF Range
    <2>2. CASE x \in Range(seq)
      <3>1. PICK i \in 1..Len(seq) : seq[i] = x
        BY <1>2, <2>2 DEF Range
      <3> QED BY <1>1, <1>2, <3>1 DEF Range
    <2> QED BY <2>1, <2>2
  <1> QED BY <1>3, <1>4

LEMMA RangeOfTail ==
  ASSUME NEW S, NEW seq \in Seq(S), seq # <<>>
  PROVE  /\ Head(seq) \in S /\ Tail(seq) \in Seq(S)
         /\ Len(Tail(seq)) = Len(seq) - 1
         /\ Range(seq) = Range(Tail(seq)) \union {Head(seq)}
  <1>1. /\ Head(seq) \in S /\ Head(seq) = seq[1]
        /\ Tail(seq) \in Seq(S) /\ Len(Tail(seq)) = Len(seq) - 1
        /\ \A i \in 1..Len(Tail(seq)) : Tail(seq)[i] = seq[i + 1]
    BY HeadTailProperties
  <1>2. /\ Len(seq) \in Nat /\ Len(seq) >= 1 /\ DOMAIN seq = 1..Len(seq)
        /\ DOMAIN Tail(seq) = 1..(Len(seq) - 1)
    BY <1>1, LenProperties, EmptySeq
  <1>3. ASSUME NEW x \in Range(seq) PROVE x \in Range(Tail(seq)) \union {Head(seq)}
    <2>1. PICK i \in 1..Len(seq) : seq[i] = x
      BY <1>2 DEF Range
    <2>2. CASE i = 1
      BY <1>1, <2>1, <2>2
    <2>3. CASE i # 1
      <3>1. i - 1 \in 1..(Len(seq) - 1)
        BY <1>2, <2>3
      <3>2. Tail(seq)[i - 1] = x
        BY <1>1, <1>2, <2>1, <3>1
      <3> QED BY <1>2, <3>1, <3>2 DEF Range
    <2> QED BY <2>2, <2>3
  <1>4. ASSUME NEW x \in Range(Tail(seq)) \union {Head(seq)} PROVE x \in Range(seq)
    <2>1. CASE x = Head(seq)
      BY <1>1, <1>2, <2>1 DEF Range
    <2>2. CASE x \in Range(Tail(seq))
      <3>1. PICK i \in 1..(Len(seq) - 1) : Tail(seq)[i] = x
        BY <1>2, <2>2 DEF Range
      <3>2. i + 1 \in 1..Len(seq) /\ seq[i + 1] = x
        BY <1>1, <1>2, <3>1
      <3> QED BY <1>2, <3>2 DEF Range
    <2> QED BY <2>1, <2>2
  <1> QED BY <1>1, <1>3, <1>4

LEMMA WorkerFields ==
  ASSUME NEW x \in Worker
  PROVE  /\ x.msg \in Handed /\ x.attempt \in 0..MaxAttempts
         /\ \A s \in {"fetch", "pause", "handle", "backoff", "park", "commit", "stopped"} :
               LET y == [x EXCEPT !.step = s]
               IN  y \in Worker /\ y.step = s /\ y.msg = x.msg /\ y.attempt = x.attempt
         /\ x.attempt < MaxAttempts =>
               LET y == [x EXCEPT !.step = "handle", !.attempt = x.attempt + 1]
               IN  y \in Worker /\ y.step = "handle" /\ y.msg = x.msg
  <1>1. /\ x.msg \in Handed /\ x.attempt \in 0..MaxAttempts
        /\ x.attempt < MaxAttempts => x.attempt + 1 \in 0..MaxAttempts
    BY ConstantsAssumption DEF Worker
  <1>2. \A n \in 0..MaxAttempts :
           LET y == [x EXCEPT !.step = "handle", !.attempt = n]
           IN  y \in Worker /\ y.step = "handle" /\ y.msg = x.msg
    BY DEF Worker
  <1>3. \A s \in {"fetch", "pause", "handle", "backoff", "park", "commit", "stopped"} :
           LET y == [x EXCEPT !.step = s]
           IN  y \in Worker /\ y.step = s /\ y.msg = x.msg /\ y.attempt = x.attempt
    BY DEF Worker
  <1> QED BY <1>1, <1>2, <1>3

LEMMA NewWorkers ==
  /\ Fetching \in Worker /\ Fetching.step = "fetch" /\ Fetching.msg = NoMessage
  /\ \A m \in Handed : /\ Handling(m) \in Worker /\ Handling(m).step = "handle"
                       /\ Handling(m).msg = m
  BY ConstantsAssumption DEF Fetching, Handling, Worker, Handed

LEMMA SenderFields ==
  ASSUME NEW x \in Sender
  PROVE  /\ x.msg \in Handed
         /\ \A s \in {"idle", "send", "backoff", "drain", "drain_send", "returned"} :
               LET y == [x EXCEPT !.step = s]
               IN  y \in Sender /\ y.step = s /\ y.msg = x.msg
         /\ Listening \in Sender /\ Listening.step = "idle"
         /\ \A s \in {"send", "drain_send"}, m \in Handed :
               [step |-> s, msg |-> m] \in Sender
  BY DEF Sender, Listening, Handed

LEMMA MessagesArePositive ==
  /\ \A m \in Messages : m \in Nat /\ m >= 1 /\ m # NoMessage
  /\ \A m \in Handed : m \in Nat
  /\ NoMessage = 0
  BY ConstantsAssumption DEF Messages, Handed, NoMessage

LEMMA InitIInv == Init => IInv
  <1> SUFFICES ASSUME Init PROVE IInv
    OBVIOUS
  <1> USE DEF Init
  <1>1. buffer \in Seq(Handed) /\ Len(buffer) = 0
    BY EmptySeq
  <1>2. TypeOK
    <2>1. Listening \in Sender
      BY DEF Listening, Sender, Handed
    <2>2. worker \in [Workers -> Worker]
      BY NewWorkers
    <2>3. next \in Nat /\ Len(buffer) <= BufferSize /\ restarts \in 0..MaxRestarts
      BY <1>1, ConstantsAssumption
    <2> QED BY <1>1, <2>1, <2>2, <2>3 DEF TypeOK
  <1>3. \A w \in Workers : HandsOver(w)
    BY NewWorkers DEF HandsOver, NoMessage
  <1>4. FetchedIsAccountedFor /\ GuaranteedDelivery
    BY DEF FetchedIsAccountedFor, GuaranteedDelivery
  <1> QED BY <1>2, <1>3, <1>4 DEF IInv, Listening

(* Why a step keeps IInv: messages stay disposed of, workers hold on to *)
(* theirs or have disposed of them, and a new offset is guaranteed.     *)
LEMMA Keeps ==
  ASSUME IInv, TypeOK', next' >= next, restarts' = restarts, overtaken \subseteq overtaken',
         \A m \in Disposed : m # NoMessage => m \in Disposed',
         \A k \in 1..(next' - 1) : k < next \/ \E w \in Workers : k = worker'[w].msg,
         \A w \in Workers :
            \/ worker'[w] = worker[w]
            \/ /\ HandsOver(w)'
               /\ worker[w].msg \in {NoMessage, worker'[w].msg} \union Disposed',
         committed' = committed \/ (committed' < next' /\ GuaranteedDelivery')
  PROVE  IInv'
  <1>1. /\ next \in Nat /\ next' \in Nat /\ committed \in Nat
        /\ \A w \in Workers : worker[w].msg \in Handed /\ worker'[w].msg \in Handed
    <2>1. /\ next \in Nat /\ next' \in Nat /\ committed \in Nat
          /\ \A w \in Workers : worker[w] \in Worker /\ worker'[w] \in Worker
      BY MessagesArePositive DEF IInv, TypeOK
    <2> QED BY <2>1, WorkerFields
  <1>2. committed' < next'
    BY <1>1 DEF IInv
  <1>3. ASSUME NEW w \in Workers PROVE HandsOver(w)'
    <2>1. CASE HandsOver(w)'
      BY <2>1
    <2>2. CASE worker'[w] = worker[w]
      <3>1. HandsOver(w) /\ worker[w].msg \in Nat
        BY <1>1, MessagesArePositive DEF IInv
      <3>2. worker'[w].msg < next'
        BY <1>1, <2>2, <3>1 DEF HandsOver
      <3>3. worker'[w].step = "commit" => worker'[w].msg \in Disposed' \union {NoMessage}
        BY <2>2, <3>1 DEF HandsOver
      <3> QED BY <2>2, <3>1, <3>2, <3>3 DEF HandsOver
    <2> QED BY <2>1, <2>2
  <1>4. FetchedIsAccountedFor'
    <2> SUFFICES ASSUME NEW k \in 1..(next' - 1), k \notin Disposed',
                        restarts = 0 \/ k \notin overtaken'
                 PROVE  \E w \in Workers : k = worker'[w].msg
      BY DEF FetchedIsAccountedFor
    <2>1. CASE k < next
      <3>1. k \in 1..(next - 1) /\ k # NoMessage
        BY <1>1, <2>1 DEF NoMessage
      <3>2. k \in Disposed \/ \E w \in Workers : k = worker[w].msg
        BY <3>1 DEF IInv, FetchedIsAccountedFor
      <3>3. PICK w \in Workers : k = worker[w].msg
        BY <3>1, <3>2
      <3> QED BY <3>1, <3>3
    <2> QED BY <2>1
  <1>5. GuaranteedDelivery'
    <2> SUFFICES ASSUME committed' = committed, NEW k \in 1..committed
                 PROVE  k \in Disposed' \union overtaken'
      BY DEF GuaranteedDelivery
    <2>1. k \in Disposed \union overtaken /\ k # NoMessage
      BY <1>1 DEF IInv, GuaranteedDelivery, NoMessage
    <2> QED BY <2>1
  <1> QED BY <1>2, <1>3, <1>4, <1>5 DEF IInv

(* The same for the steps of one worker, of which only Fetch moves the *)
(* reader and only Commit the group's offset.                          *)
LEMMA WorkerKeeps ==
  ASSUME IInv, NEW w \in Workers, NEW x \in Worker, worker' = [worker EXCEPT ![w] = x],
         UNCHANGED <<phase, sender, restarts>>,
         UNCHANGED next \/ (next' = next + 1 /\ x.msg = next),
         UNCHANGED <<committed, overtaken>>
           \/ (committed' \in Messages /\ committed' < next' /\ overtaken' \subseteq Messages
                 /\ overtaken \subseteq overtaken' /\ GuaranteedDelivery'),
         buffer' \in Seq(Handed), Len(buffer') <= BufferSize,
         handled' \subseteq Messages, parked' \subseteq Messages, lost' \subseteq Messages,
         \A m \in Disposed : m # NoMessage => m \in Disposed',
         HandsOver(w)', worker[w].msg \in {NoMessage, x.msg} \union Disposed'
  PROVE  IInv'
  <1>1. worker \in [Workers -> Worker] /\ next \in Nat
    BY DEF IInv, TypeOK
  <1>2. /\ worker' \in [Workers -> Worker] /\ worker'[w] = x
        /\ \A v \in Workers : v # w => worker'[v] = worker[v]
    BY <1>1
  <1>3. next' \in Nat /\ next' >= next
    BY <1>1
  <1>4. TypeOK'
    BY <1>2, <1>3 DEF IInv, TypeOK
  <1>5. \A k \in 1..(next' - 1) : k < next \/ \E v \in Workers : k = worker'[v].msg
    BY <1>1, <1>2
  <1>6. \A v \in Workers :
            \/ worker'[v] = worker[v]
            \/ /\ HandsOver(v)'
               /\ worker[v].msg \in {NoMessage, worker'[v].msg} \union Disposed'
    BY <1>2
  <1>7. committed' = committed \/ (committed' < next' /\ GuaranteedDelivery')
    OBVIOUS
  <1>8. overtaken \subseteq overtaken' /\ restarts' = restarts
    OBVIOUS
  <1> QED BY <1>3, <1>4, <1>5, <1>6, <1>7, <1>8, Keeps

(* What a worker knows of itself before its step. *)
LEMMA Before ==
  ASSUME IInv, NEW w \in Workers
  PROVE  /\ worker \in [Workers -> Worker] /\ worker[w] \in Worker /\ HandsOver(w)
         /\ worker[w].msg \in Handed /\ worker[w].msg < next
         /\ next \in Nat /\ buffer \in Seq(Handed) /\ Len(buffer) <= BufferSize
         /\ handled \subseteq Messages /\ parked \subseteq Messages
         /\ lost \subseteq Messages /\ overtaken \subseteq Messages
  <1>1. worker \in [Workers -> Worker] /\ worker[w] \in Worker
    BY DEF IInv, TypeOK
  <1>2. HandsOver(w) /\ worker[w].msg < next
    BY DEF IInv, HandsOver
  <1> QED BY <1>1, <1>2, WorkerFields DEF IInv, TypeOK

(* A step that writes only the worker's own record. *)
LEMMA WorkerAlone ==
  ASSUME IInv, NEW w \in Workers, NEW x \in Worker, worker' = [worker EXCEPT ![w] = x],
         UNCHANGED <<phase, dlq, outcome, lost, overtaken, restarts, committed>>,
         UNCHANGED next \/ (next' = next + 1 /\ x.msg = next),
         x.msg < next',
         x.step \in {"fetch", "pause"} => x.msg = NoMessage,
         x.step = "backoff" => x.attempt < MaxAttempts,
         x.step = "commit" => x.msg \in Disposed \union {NoMessage},
         worker[w].msg \in {NoMessage, x.msg} \union Disposed
  PROVE  IInv'
  <1>1. Disposed' = Disposed
    BY DEF Disposed, Settled, OnTheWay, dlq, outcome
  <1>2. worker'[w] = x
    BY Before
  <1>3. HandsOver(w)'
    BY <1>1, <1>2 DEF HandsOver
  <1>4. UNCHANGED <<phase, sender, restarts>> /\ UNCHANGED <<committed, overtaken>>
    BY DEF dlq
  <1>5. /\ buffer' \in Seq(Handed) /\ Len(buffer') <= BufferSize
        /\ handled' \subseteq Messages /\ parked' \subseteq Messages
        /\ lost' \subseteq Messages
    BY Before DEF dlq, outcome
  <1> QED BY <1>1, <1>3, <1>4, <1>5, WorkerKeeps

LEMMA FetchKeeps ==
  ASSUME IInv, NEW w \in Workers, Fetch(w)
  PROVE  IInv'
  <1>1. /\ Handling(next) \in Worker /\ Handling(next).step = "handle"
        /\ Handling(next).msg = next /\ next < next'
        /\ next' = next + 1
    BY Before, NewWorkers DEF Fetch, Handed
  <1>2. worker[w].msg = NoMessage
    BY Before DEF Fetch, HandsOver
  <1> QED BY <1>1, <1>2, WorkerAlone DEF Fetch

LEMMA FetchFailsKeeps ==
  ASSUME IInv, NEW w \in Workers, FetchFails(w)
  PROVE  IInv'
  <1> DEFINE s == IF phase = "running" THEN "pause" ELSE "stopped"
             x == [worker[w] EXCEPT !.step = s]
  <1>1. x \in Worker /\ x.step = s /\ x.msg = worker[w].msg /\ s \in {"pause", "stopped"}
    <2>1. worker[w] \in Worker /\ s \in {"pause", "stopped"}
      BY Before
    <2> HIDE DEF s
    <2> QED BY <2>1 DEF Worker
  <1>2. worker[w].msg = NoMessage /\ worker[w].msg < next
    BY Before DEF FetchFails, HandsOver
  <1>3. worker' = [worker EXCEPT ![w] = x]
    BY DEF FetchFails, Goto
  <1>4. x.step \in {"pause", "stopped"} /\ x.msg = NoMessage /\ x.msg < next
    BY <1>1, <1>2
  <1>5. UNCHANGED <<phase, next, dlq, outcome, lost, overtaken, restarts, committed>>
    BY DEF FetchFails, reader
  <1> HIDE DEF x, s
  <1> QED BY <1>1, <1>2, <1>3, <1>4, <1>5, WorkerAlone

LEMMA PauseEndsKeeps ==
  ASSUME IInv, NEW w \in Workers, PauseEnds(w)
  PROVE  IInv'
  <1>1. /\ Handling(NoMessage) \in Worker /\ Handling(NoMessage).step = "handle"
        /\ Handling(NoMessage).msg = NoMessage
    BY NewWorkers DEF Handed
  <1>2. worker[w].msg = NoMessage /\ NoMessage < next
    BY Before DEF PauseEnds, HandsOver
  <1> QED BY <1>1, <1>2, WorkerAlone DEF PauseEnds, reader

LEMMA HandlerSucceedsKeeps ==
  ASSUME IInv, NEW w \in Workers, HandlerSucceeds(w)
  PROVE  IInv'
  <1> DEFINE x == [worker[w] EXCEPT !.step = "commit"]
  <1>1. x \in Worker /\ x.step = "commit" /\ x.msg = worker[w].msg
    BY Before, WorkerFields
  <1>2. worker' = [worker EXCEPT ![w] = x]
    BY DEF HandlerSucceeds, Goto
  <1> HIDE DEF x
  <1>3. worker'[w] = x
    BY <1>2, Before
  <1>4. UNCHANGED <<phase, next, committed, buffer, sender, parked, lost, overtaken, restarts>>
    BY DEF HandlerSucceeds, reader, dlq
  <1>5. /\ handled' = handled \union ({worker[w].msg} \ {NoMessage})
        /\ handled' \subseteq Messages
    BY Before DEF HandlerSucceeds, With, Handed
  <1>6. Disposed' = Disposed \union ({worker[w].msg} \ {NoMessage})
    BY <1>4, <1>5 DEF Disposed, Settled, OnTheWay
  <1>7. HandsOver(w)'
    BY <1>1, <1>3, <1>4, <1>6, Before DEF HandsOver
  <1> QED BY <1>1, <1>2, <1>4, <1>5, <1>6, <1>7, Before, WorkerKeeps

LEMMA HandlerFailsKeeps ==
  ASSUME IInv, NEW w \in Workers, HandlerFails(w)
  PROVE  IInv'
  <1> DEFINE x(s) == [worker[w] EXCEPT !.step = s]
  <1>1. PICK s \in {"park", "backoff"} :
           /\ worker' = [worker EXCEPT ![w] = x(s)]
           /\ s = "backoff" => worker[w].attempt < MaxAttempts
    BY DEF HandlerFails, Goto
  <1>2. /\ x(s) \in Worker /\ x(s).step = s /\ x(s).msg = worker[w].msg
        /\ x(s).attempt = worker[w].attempt
    <2>1. worker[w] \in Worker
      BY Before
    <2> QED BY <2>1 DEF Worker
  <1> DEFINE y == x(s)
  <1>3. y \in Worker /\ worker' = [worker EXCEPT ![w] = y]
    BY <1>1, <1>2
  <1>4. /\ y.msg = worker[w].msg /\ y.msg < next /\ y.step \in {"park", "backoff"}
        /\ y.step = "backoff" => y.attempt < MaxAttempts
    BY <1>1, <1>2, Before
  <1>5. UNCHANGED <<phase, next, dlq, outcome, lost, overtaken, restarts, committed>>
    BY DEF HandlerFails, reader
  <1> HIDE DEF x, y
  <1> QED BY <1>3, <1>4, <1>5, WorkerAlone

LEMMA BackoffEndsKeeps ==
  ASSUME IInv, NEW w \in Workers, BackoffEnds(w)
  PROVE  IInv'
  <1> DEFINE x == [worker[w] EXCEPT !.step = "handle", !.attempt = worker[w].attempt + 1]
  <1>1. worker[w].attempt < MaxAttempts
    BY Before DEF BackoffEnds, HandsOver
  <1>2. x \in Worker /\ x.step = "handle" /\ x.msg = worker[w].msg
    BY <1>1, Before, WorkerFields
  <1>3. worker' = [worker EXCEPT ![w] = x]
    BY DEF BackoffEnds
  <1> HIDE DEF x
  <1> QED BY <1>2, <1>3, Before, WorkerAlone DEF BackoffEnds, reader

LEMMA CancelledKeeps ==
  ASSUME IInv, NEW w \in Workers, Cancelled(w)
  PROVE  IInv'
  <1> DEFINE x == [worker[w] EXCEPT !.step = "stopped"]
  <1>1. x \in Worker /\ x.step = "stopped" /\ x.msg = worker[w].msg
    BY Before, WorkerFields
  <1>2. worker' = [worker EXCEPT ![w] = x]
    BY DEF Cancelled, Goto
  <1> HIDE DEF x
  <1> QED BY <1>1, <1>2, Before, WorkerAlone DEF Cancelled, reader

(* A worker that has parked or lost its message goes on to commit it. *)
LEMMA ParkKeeps ==
  ASSUME IInv, NEW w \in Workers, Goto(w, "commit"),
         UNCHANGED <<phase, next, committed, sender, handled, overtaken, restarts>>,
         buffer' \in Seq(Handed), Len(buffer') <= BufferSize,
         parked' \subseteq Messages, lost' \subseteq Messages,
         \A m \in Disposed : m # NoMessage => m \in Disposed',
         worker[w].msg \in Disposed' \union {NoMessage}
  PROVE  IInv'
  <1> DEFINE x == [worker[w] EXCEPT !.step = "commit"]
  <1>1. x \in Worker /\ x.step = "commit" /\ x.msg = worker[w].msg
    BY Before, WorkerFields
  <1>2. worker' = [worker EXCEPT ![w] = x]
    BY DEF Goto
  <1> HIDE DEF x
  <1>3. worker'[w] = x
    BY <1>2, Before
  <1>4. HandsOver(w)'
    BY <1>1, <1>3, Before DEF HandsOver
  <1>5. /\ handled' \subseteq Messages /\ UNCHANGED <<phase, sender, restarts>>
        /\ UNCHANGED <<committed, overtaken>> /\ UNCHANGED next
        /\ worker[w].msg \in {NoMessage, x.msg}
    BY <1>1, Before
  <1> QED BY <1>1, <1>2, <1>4, <1>5, WorkerKeeps

LEMMA EnqueueKeeps ==
  ASSUME IInv, NEW w \in Workers, Enqueue(w)
  PROVE  IInv'
  <1>1. /\ buffer' = Append(buffer, worker[w].msg) /\ Len(buffer) < BufferSize
        /\ UNCHANGED <<phase, next, committed, sender, handled, parked, lost, overtaken, restarts>>
        /\ Goto(w, "commit")
    BY DEF Enqueue, reader, outcome
  <1>2. /\ buffer' \in Seq(Handed) /\ Len(buffer') = Len(buffer) + 1
        /\ Range(buffer') = Range(buffer) \union {worker[w].msg}
    BY <1>1, Before, AppendProperties, RangeOfAppend
  <1>3. Len(buffer') <= BufferSize
    BY <1>1, <1>2, Before, LenProperties, ConstantsAssumption
  <1>4. Disposed' = Disposed \union {worker[w].msg}
    BY <1>1, <1>2 DEF Disposed, Settled, OnTheWay
  <1> QED BY <1>1, <1>2, <1>3, <1>4, Before, ParkKeeps

LEMMA SendNowKeeps ==
  ASSUME IInv, NEW w \in Workers, SendNow(w)
  PROVE  IInv'
  <1>1. /\ parked' = parked \union ({worker[w].msg} \ {NoMessage})
        /\ UNCHANGED <<phase, next, committed, buffer, sender, handled, lost, overtaken, restarts>>
        /\ Goto(w, "commit")
    BY DEF SendNow, With, reader, dlq
  <1>2. parked' \subseteq Messages
    BY <1>1, Before DEF Handed
  <1>3. Disposed' = Disposed \union ({worker[w].msg} \ {NoMessage})
    BY <1>1 DEF Disposed, Settled, OnTheWay
  <1> QED BY <1>1, <1>2, <1>3, Before, ParkKeeps

LEMMA PublishErrorFailsKeeps ==
  ASSUME IInv, NEW w \in Workers, PublishErrorFails(w)
  PROVE  IInv'
  <1>1. /\ lost' = lost \union ({worker[w].msg} \ {NoMessage}) /\ Goto(w, "commit")
        /\ UNCHANGED <<phase, next, committed, buffer, sender, handled, parked, overtaken, restarts>>
    BY DEF PublishErrorFails, With, reader, dlq, outcome
  <1>2. lost' \subseteq Messages
    BY <1>1, Before DEF Handed
  <1>3. Disposed' = Disposed \union ({worker[w].msg} \ {NoMessage})
    BY <1>1 DEF Disposed, Settled, OnTheWay
  <1> QED BY <1>1, <1>2, <1>3, Before, ParkKeeps

LEMMA CommitFailsKeeps ==
  ASSUME IInv, NEW w \in Workers, CommitFails(w)
  PROVE  IInv'
  <1>1. /\ worker' = [worker EXCEPT ![w] = Fetching]
        /\ UNCHANGED <<phase, dlq, outcome, lost, overtaken, restarts, committed>>
        /\ UNCHANGED next
    BY DEF CommitFails, reader
  <1>2. worker[w].msg \in {NoMessage, Fetching.msg} \union Disposed
    BY Before DEF CommitFails, HandsOver
  <1>3. Fetching.msg < next'
    BY <1>1, Before, NewWorkers, MessagesArePositive
  <1> QED BY <1>1, <1>2, <1>3, NewWorkers, WorkerAlone

(* The group's offset moves to m: whatever lies below was disposed of or is *)
(* held; and what is held by a worker that has not disposed of it is        *)
(* overtaken.                                                               *)
LEMMA CommitKeeps ==
  ASSUME IInv, NEW w \in Workers, Commit(w)
  PROVE  IInv'
  <1> DEFINE m == worker[w].msg
  <1>1. /\ m \in Messages /\ m \in Nat /\ m < next /\ next \in Nat
        /\ m \in Disposed
    BY Before, MessagesArePositive DEF Commit, HandsOver, Handed
  <1>2. /\ worker' = [worker EXCEPT ![w] = Fetching] /\ committed' = m
        /\ overtaken' = overtaken \union {worker[v].msg : v \in Earlier(w)}
        /\ UNCHANGED <<phase, next, buffer, sender, handled, parked, lost, restarts>>
    BY DEF Commit, dlq, outcome
  <1>3. Disposed' = Disposed
    BY <1>2 DEF Disposed, Settled, OnTheWay
  <1>4. GuaranteedDelivery'
    <2> SUFFICES ASSUME NEW k \in 1..m, k \notin overtaken'
                 PROVE  k \in Disposed
      BY <1>2, <1>3 DEF GuaranteedDelivery
    <2>1. k \in 1..(next - 1) /\ k \notin overtaken
      BY <1>1, <1>2
    <2>2. k \in Disposed \/ \E v \in Workers : k = worker[v].msg
      BY <2>1 DEF IInv, FetchedIsAccountedFor
    <2>3. ASSUME NEW v \in Workers, k = worker[v].msg PROVE k \in Disposed
      <3>1. CASE k = m
        BY <1>1, <3>1
      <3>2. CASE k # m
        <4>1. k \in 1..(m - 1) /\ v # w
          BY <1>1, <2>3, <3>2
        <4>2. v \notin Earlier(w)
          BY <1>2, <2>3
        <4>3. worker[v].step = "commit"
          BY <2>3, <4>1, <4>2 DEF Earlier
        <4>4. k \in Disposed \union {NoMessage}
          BY <2>3, <4>3, Before DEF HandsOver
        <4> QED BY <4>1, <4>4 DEF NoMessage
      <3> QED BY <3>1, <3>2
    <2> QED BY <2>2, <2>3
  <1>5. /\ committed' \in Messages /\ committed' < next'
        /\ overtaken' \subseteq Messages /\ overtaken \subseteq overtaken'
    <2>1. ASSUME NEW v \in Earlier(w) PROVE worker[v].msg \in Messages
      BY <2>1, <1>1, Before DEF Earlier, Handed, NoMessage
    <2> QED BY <1>1, <1>2, <2>1, Before
  <1> HIDE DEF m
  <1>6. worker'[w] = Fetching
    BY <1>2, Before
  <1>7. HandsOver(w)'
    BY <1>1, <1>2, <1>6, NewWorkers, MessagesArePositive DEF HandsOver
  <1>8. /\ buffer' \in Seq(Handed) /\ Len(buffer') <= BufferSize
        /\ handled' \subseteq Messages /\ parked' \subseteq Messages
        /\ lost' \subseteq Messages
        /\ UNCHANGED <<phase, sender, restarts>> /\ UNCHANGED next
    BY <1>2, Before
  <1>9. m \in Disposed'
    BY <1>1, <1>3
  <1> QED BY <1>2, <1>3, <1>4, <1>5, <1>7, <1>8, <1>9, NewWorkers, WorkerKeeps DEF m

(* The same for the steps that leave the workers alone. *)
LEMMA OthersKeep ==
  ASSUME IInv, UNCHANGED <<worker, next, committed, handled, overtaken, restarts>>,
         phase' \in {"running", "stopping", "closing"},
         sender' \in Sender, buffer' \in Seq(Handed), Len(buffer') <= BufferSize,
         parked' \subseteq Messages, lost' \subseteq Messages,
         \A m \in Disposed : m # NoMessage => m \in Disposed'
  PROVE  IInv'
  <1>1. TypeOK' /\ next \in Nat
    BY DEF IInv, TypeOK
  <1>2. /\ next' >= next /\ restarts' = restarts /\ overtaken \subseteq overtaken'
        /\ \A k \in 1..(next' - 1) : k < next \/ \E w \in Workers : k = worker'[w].msg
        /\ \A w \in Workers : worker'[w] = worker[w]
        /\ committed' = committed
    BY <1>1
  <1> QED BY <1>1, <1>2, Keeps

LEMMA SenderBefore ==
  ASSUME IInv
  PROVE  /\ sender \in Sender /\ sender.msg \in Handed
         /\ phase \in {"running", "stopping", "closing"}
         /\ buffer \in Seq(Handed) /\ Len(buffer) <= BufferSize
         /\ parked \subseteq Messages /\ lost \subseteq Messages
  BY SenderFields DEF IInv, TypeOK

LEMMA TakeKeeps ==
  ASSUME IInv, NEW from \in {"idle", "drain"}, NEW to \in {"send", "drain_send"},
         Take(from, to)
  PROVE  IInv'
  <1>1. /\ sender.step = from /\ buffer # <<>> /\ buffer' = Tail(buffer)
        /\ sender' = [step |-> to, msg |-> Head(buffer)]
        /\ UNCHANGED <<phase, worker, next, committed, handled, parked, lost, overtaken, restarts>>
    BY DEF Take, reader, outcome
  <1>2. /\ Head(buffer) \in Handed /\ buffer' \in Seq(Handed)
        /\ Len(buffer') = Len(buffer) - 1
        /\ Range(buffer) = Range(buffer') \union {Head(buffer)}
    BY <1>1, SenderBefore, RangeOfTail
  <1>3. Len(buffer') <= BufferSize
    BY <1>2, SenderBefore, LenProperties, ConstantsAssumption
  <1>4. /\ sender' \in Sender /\ sender'.step = to /\ sender'.msg = Head(buffer)
    BY <1>1, <1>2, SenderBefore, SenderFields
  <1>5. /\ OnTheWay = Range(buffer)
        /\ OnTheWay' = Range(buffer') \union {Head(buffer)}
    BY <1>1, <1>4 DEF OnTheWay
  <1>6. Disposed' = Disposed
    BY <1>1, <1>2, <1>5 DEF Disposed, Settled
  <1> QED BY <1>1, <1>2, <1>3, <1>4, <1>6, SenderBefore, OthersKeep

LEMMA SenderSendsKeeps ==
  ASSUME IInv, SenderSends
  PROVE  IInv'
  <1> DEFINE s == IF sender.step = "send" THEN "idle" ELSE "drain"
  <1>1. /\ sender.step \in {"send", "drain_send"}
        /\ sender' = [sender EXCEPT !.step = s]
        /\ parked' = parked \union ({sender.msg} \ {NoMessage})
        /\ UNCHANGED <<phase, worker, next, committed, buffer, handled, lost, overtaken, restarts>>
    BY DEF SenderSends, With, reader
  <1>2. s \in {"idle", "drain"}
    OBVIOUS
  <1> HIDE DEF s
  <1>3. sender' \in Sender /\ sender'.step = s
    BY <1>1, <1>2, SenderBefore DEF Sender
  <1>4. parked' \subseteq Messages
    BY <1>1, SenderBefore DEF Handed
  <1>5. OnTheWay = Range(buffer) \union {sender.msg} /\ OnTheWay' = Range(buffer)
    BY <1>1, <1>2, <1>3 DEF OnTheWay
  <1>6. \A m \in Disposed : m # NoMessage => m \in Disposed'
    BY <1>1, <1>5 DEF Disposed, Settled
  <1> QED BY <1>1, <1>2, <1>3, <1>4, <1>6, SenderBefore, OthersKeep

LEMMA SendFailsKeeps ==
  ASSUME IInv, SendFails
  PROVE  IInv'
  <1>1. /\ sender.step = "send" /\ sender' = [sender EXCEPT !.step = "backoff"]
        /\ UNCHANGED <<phase, worker, next, committed, buffer, handled, parked, lost,
                      overtaken, restarts>>
    BY DEF SendFails, reader, outcome
  <1>2. sender' \in Sender /\ sender'.step = "backoff" /\ sender'.msg = sender.msg
    BY <1>1, SenderBefore, SenderFields
  <1>3. Disposed' = Disposed
    BY <1>1, <1>2 DEF Disposed, Settled, OnTheWay
  <1> QED BY <1>1, <1>2, <1>3, SenderBefore, OthersKeep

LEMMA LastSendFailsKeeps ==
  ASSUME IInv, LastSendFails
  PROVE  IInv'
  <1>1. /\ sender.step = "drain_send" /\ sender' = [sender EXCEPT !.step = "drain"]
        /\ lost' = lost \union ({sender.msg} \ {NoMessage})
        /\ UNCHANGED <<phase, worker, next, committed, buffer, handled, parked,
                      overtaken, restarts>>
    BY DEF LastSendFails, With, reader, outcome
  <1>2. /\ sender' \in Sender /\ sender'.step = "drain"
        /\ lost' \subseteq Messages
    BY <1>1, SenderBefore, SenderFields DEF Handed
  <1>3. OnTheWay = OnTheWay' \union {sender.msg}
    BY <1>1, <1>2 DEF OnTheWay
  <1>4. \A m \in Disposed : m # NoMessage => m \in Disposed'
    BY <1>1, <1>3 DEF Disposed, Settled
  <1> QED BY <1>1, <1>2, <1>4, SenderBefore, OthersKeep

(* What goes back is in the buffer again; what does not is lost. *)
LEMMA PutBackKeeps ==
  ASSUME IInv, PutBack
  PROVE  IInv'
  <1>1. /\ sender.step = "backoff" /\ sender' = Listening
        /\ UNCHANGED <<phase, worker, next, committed, handled, parked, overtaken, restarts>>
    BY DEF PutBack, reader, outcome
  <1>2. /\ sender.msg \in Handed /\ buffer \in Seq(Handed) /\ Len(buffer) <= BufferSize
        /\ sender' \in Sender /\ sender'.step = "idle"
        /\ lost \subseteq Messages
    BY <1>1, SenderBefore, SenderFields
  <1>3. OnTheWay = Range(buffer) \union {sender.msg} /\ OnTheWay' = Range(buffer')
    BY <1>1, <1>2 DEF OnTheWay
  <1>4. /\ buffer' \in Seq(Handed) /\ Len(buffer') <= BufferSize /\ lost' \subseteq Messages
        /\ \A m \in Disposed : m # NoMessage => m \in Disposed'
    <2>1. CASE Len(buffer) < BufferSize /\ buffer' = Append(buffer, sender.msg) /\ UNCHANGED lost
      <3>1. /\ buffer' \in Seq(Handed) /\ Len(buffer') = Len(buffer) + 1
            /\ Range(buffer') = Range(buffer) \union {sender.msg}
        BY <1>2, <2>1, AppendProperties, RangeOfAppend
      <3>2. Len(buffer') <= BufferSize
        BY <1>2, <2>1, <3>1, LenProperties, ConstantsAssumption
      <3> QED BY <1>1, <1>2, <1>3, <2>1, <3>1, <3>2 DEF Disposed, Settled
    <2>2. CASE lost' = With(lost, sender.msg) /\ UNCHANGED buffer
      BY <1>1, <1>2, <1>3, <2>2 DEF With, Handed, Disposed, Settled
    <2> QED BY <2>1, <2>2 DEF PutBack
  <1> QED BY <1>1, <1>2, <1>4, SenderBefore, OthersKeep

LEMMA AbandonBufferKeeps ==
  ASSUME IInv, AbandonBuffer
  PROVE  IInv'
  <1>1. /\ sender' = [sender EXCEPT !.step = "returned"]
        /\ lost' = lost \union (OnTheWay \ {NoMessage})
        /\ UNCHANGED <<phase, worker, next, committed, buffer, handled, parked,
                      overtaken, restarts>>
    BY DEF AbandonBuffer, reader, outcome
  <1>2. sender' \in Sender
    BY <1>1, SenderBefore, SenderFields
  <1>3. OnTheWay \subseteq Handed
    <2>1. Range(buffer) \subseteq Handed
      BY SenderBefore, LenProperties, ElementOfSeq DEF Range
    <2> QED BY <2>1, SenderBefore DEF OnTheWay
  <1>4. lost' \subseteq Messages
    BY <1>1, <1>3, SenderBefore DEF Handed
  <1>5. \A m \in Disposed : m # NoMessage => m \in Disposed'
    BY <1>1 DEF Disposed, Settled
  <1> QED BY <1>1, <1>2, <1>4, <1>5, SenderBefore, OthersKeep

(* BeginDrain and Drained: the goroutine moves on with no message in its hand. *)
LEMMA SenderMovesKeeps ==
  ASSUME IInv, NEW s \in {"drain", "returned"}, sender' = [sender EXCEPT !.step = s],
         sender.step \in {"idle", "drain"},
         UNCHANGED <<phase, worker, reader, buffer, outcome, lost, overtaken, restarts>>
  PROVE  IInv'
  <1>1. sender' \in Sender /\ sender'.step = s
    BY SenderBefore DEF Sender
  <1>2. Disposed' = Disposed
    BY <1>1 DEF OnTheWay, Disposed, Settled, outcome
  <1> QED BY <1>1, <1>2, SenderBefore, OthersKeep DEF reader, outcome

LEMMA SenderStepKeeps ==
  ASSUME IInv, SenderStep
  PROVE  IInv'
  <1>1. CASE SenderTakes
    BY <1>1, TakeKeeps DEF SenderTakes
  <1>2. CASE BeginDrain
    BY <1>2, SenderMovesKeeps DEF BeginDrain
  <1>3. CASE Drained
    BY <1>3, SenderMovesKeeps DEF Drained
  <1> QED BY <1>1, <1>2, <1>3, SenderSendsKeeps, SendFailsKeeps, LastSendFailsKeeps,
             PutBackKeeps, AbandonBufferKeeps DEF SenderStep

LEMMA PhaseKeeps ==
  ASSUME IInv, Stop \/ Close
  PROVE  IInv'
  <1>1. /\ phase' \in {"running", "stopping", "closing"}
        /\ UNCHANGED <<worker, next, committed, buffer, sender, handled, parked,
                      lost, overtaken, restarts>>
    BY DEF Stop, Close, reader, dlq, outcome
  <1>2. Disposed' = Disposed
    BY <1>1 DEF Disposed, Settled, OnTheWay
  <1> QED BY <1>1, <1>2, SenderBefore, OthersKeep

(* The reader goes back to the group's offset: below it, GuaranteedDelivery *)
(* says, all is disposed of or overtaken; what was on its way is lost now.  *)
LEMMA RestartKeeps ==
  ASSUME IInv, Restart
  PROVE  IInv'
  <1>1. /\ restarts < MaxRestarts /\ restarts' = restarts + 1 /\ phase' = "running"
        /\ worker' = [w \in Workers |-> Fetching] /\ next' = committed + 1
        /\ buffer' = <<>> /\ sender' = Listening
        /\ lost' = lost \union (OnTheWay \intersect 1..committed)
        /\ UNCHANGED <<committed, handled, parked, overtaken>>
    BY DEF Restart, outcome
  <1>2. /\ committed \in Nat /\ committed \in Messages \union {0} /\ restarts \in 0..MaxRestarts
        /\ handled \subseteq Messages /\ parked \subseteq Messages
        /\ lost \subseteq Messages /\ overtaken \subseteq Messages
    BY MessagesArePositive DEF IInv, TypeOK
  <1>3. buffer' \in Seq(Handed) /\ Len(buffer') <= BufferSize
    BY <1>1, EmptySeq, ConstantsAssumption
  <1>4. sender' \in Sender /\ sender'.step = "idle"
    BY <1>1 DEF Listening, Sender, Handed
  <1>5. next' \in Nat /\ committed' < next' /\ restarts' \in 0..MaxRestarts /\ restarts' # 0
    BY <1>1, <1>2, ConstantsAssumption
  <1>6. worker' \in [Workers -> Worker] /\ \A w \in Workers : worker'[w] = Fetching
    BY <1>1, NewWorkers
  <1>7. TypeOK'
    <2>1. 1..committed \subseteq Messages
      BY <1>2, ConstantsAssumption DEF Messages
    <2>2. lost' \subseteq Messages
      BY <1>1, <1>2, <2>1
    <2> QED BY <1>1, <1>2, <1>3, <1>4, <1>5, <1>6, <2>2 DEF TypeOK
  <1>8. \A w \in Workers : HandsOver(w)'
    BY <1>1, <1>2, <1>6, NewWorkers DEF HandsOver, NoMessage
  <1>9. 1..committed \subseteq Disposed' \union overtaken'
    <2>1. 1..committed \subseteq handled \union parked \union OnTheWay \union lost \union overtaken
      BY DEF IInv, GuaranteedDelivery, Disposed, Settled
    <2> QED BY <1>1, <2>1 DEF Disposed, Settled
  <1>10. GuaranteedDelivery'
    BY <1>1, <1>9 DEF GuaranteedDelivery
  <1>11. FetchedIsAccountedFor'
    <2>1. next' - 1 = committed
      BY <1>1, <1>2
    <2> QED BY <1>5, <1>9, <2>1 DEF FetchedIsAccountedFor
  <1> QED BY <1>5, <1>7, <1>8, <1>10, <1>11 DEF IInv

LEMMA NextKeeps == IInv /\ [Next]_vars => IInv'
  <1> SUFFICES ASSUME IInv, [Next]_vars PROVE IInv'
    OBVIOUS
  <1>1. ASSUME NEW w \in Workers, WorkerStep(w) PROVE IInv'
    BY <1>1, FetchKeeps, FetchFailsKeeps, PauseEndsKeeps, HandlerSucceedsKeeps,
       HandlerFailsKeeps, BackoffEndsKeeps, CancelledKeeps, EnqueueKeeps, SendNowKeeps,
       PublishErrorFailsKeeps, CommitKeeps, CommitFailsKeeps DEF WorkerStep
  <1>2. CASE UNCHANGED vars
    <2>1. UNCHANGED <<phase, worker, next, committed, buffer, sender, handled, parked,
                      lost, overtaken, restarts>>
      BY <1>2 DEF vars
    <2>2. Disposed' = Disposed
      BY <2>1 DEF Disposed, Settled, OnTheWay
    <2> QED BY <2>1, <2>2, SenderBefore, OthersKeep
  <1> QED BY <1>1, <1>2, SenderStepKeeps, PhaseKeeps, RestartKeeps DEF Next

(* IInv holds in every state of every behaviour of the consumer and its *)
(* dead-letter queue (processor.go:74-175, dlq.go:74-182).              *)
THEOREM Inductive == Spec => []IInv
  BY InitIInv, NextKeeps, PTL DEF Spec

(* A committed message has been handled, is in the dead-letter topic or on *)
(* its way there, or was lost by the dead-letter queue or overtaken by     *)
(* another worker's commit (processor.go:37 and 106-175).                  *)
THEOREM DeliveryIsGuaranteed == Spec => []GuaranteedDelivery
  <1>1. IInv => GuaranteedDelivery
    BY DEF IInv
  <1> QED BY <1>1, Inductive, PTL

(* What the reader has gone past is handled, in the dead-letter topic or on *)
(* its way there, lost by the dead-letter queue, in a worker's hands or,    *)
(* after a restart, overtaken by another worker's commit                    *)
(* (processor.go:74-175).                                                   *)
THEOREM NothingFetchedIsForgotten == Spec => []FetchedIsAccountedFor
  <1>1. IInv => FetchedIsAccountedFor
    BY DEF IInv
  <1> QED BY <1>1, Inductive, PTL

(* With WorkersCount 1 (options_processor.go:12, the default) nobody is      *)
(* overtaken: of what is committed, only the dead-letter queue can lose any. *)
THEOREM OneWorkerDelivers ==
  ASSUME NEW w0, Workers = {w0}
  PROVE  Spec => [](overtaken = {} /\ 1..committed \subseteq Disposed)
  <1> DEFINE Alone == overtaken = {}
  <1>1. Init => Alone
    BY DEF Init
  <1>2. Alone /\ [Next]_vars => Alone'
    <2> SUFFICES ASSUME overtaken = {}, [Next]_vars PROVE overtaken' = {}
      OBVIOUS
    <2>1. ASSUME NEW w \in Workers, Commit(w) PROVE overtaken' = {}
      BY <2>1 DEF Commit, Earlier
    <2>2. ASSUME NEW w \in Workers, WorkerStep(w) PROVE overtaken' = {}
      BY <2>1, <2>2 DEF WorkerStep, Fetch, FetchFails, PauseEnds, HandlerSucceeds,
         HandlerFails, BackoffEnds, Cancelled, Enqueue, SendNow, PublishErrorFails, CommitFails
    <2>3. CASE SenderStep
      BY <2>3 DEF SenderStep, SenderTakes, Take, SenderSends, SendFails, LastSendFails,
         PutBack, AbandonBuffer, BeginDrain, Drained
    <2> QED BY <2>2, <2>3 DEF Next, Stop, Close, Restart, vars
  <1>3. IInv /\ Alone => (overtaken = {} /\ 1..committed \subseteq Disposed)
    BY DEF IInv, GuaranteedDelivery
  <1> HIDE DEF Alone
  <1> QED BY <1>1, <1>2, <1>3, Inductive, PTL DEF Spec
=============================================================================
