---------------------------- MODULE OutboxProofs ----------------------------
(***************************************************************************)
(* Outbox, for every number of events, workers, retries and crashes and    *)
(* every batch size.  A worker acts on a copy of the row that others may   *)
(* have changed; but rows never become absent again, failures are only     *)
(* counted up and receivers forget nothing (Forward), so that what a       *)
(* worker knows stays true whatever the others do.                         *)
(***************************************************************************)
EXTENDS Outbox, FiniteSetTheorems, SequenceTheorems, TLAPS

(* What no step undoes. *)
Forward ==
    /\ \A e \in Events : rows[e].state # "absent" => rows'[e].state # "absent"
    /\ \A e \in Events : failures[e] <= failures'[e]
    /\ \A e \in Events : Contains(published, e) => Contains(published', e)
    /\ notified \subseteq notified'

(* The parts of IInv that speak of the table. *)
CopiesKnown(w) ==
    \A i \in 1..Len(worker[w].todo) :
        rows[worker[w].todo[i].id].state # "absent"
        /\ Failed(worker[w].todo[i].id, worker[w].todo[i].attempt)
StepKnown(w) ==
    /\ worker[w].step = "send" => ~worker[w].failed
    /\ worker[w].step = "notify" =>
          Current(w) \notin Skipped /\ (worker[w].failed \/ Contains(published, Current(w)))
    /\ worker[w].step = "mark" =>
          IF worker[w].failed THEN Current(w) \notin Skipped
          ELSE Current(w) \in Received \union Skipped
InOrder ==
    \A e \in Events : rows[e].state = "absent" =>
        \A later \in e..NumEvents : rows[later].state = "absent"
Counted == \A e \in Events : Failed(e, rows[e].attempt)

LEMMA Parts ==
  /\ IInv <=> /\ TypeOK /\ InOrder /\ Counted /\ ProcessedWasReceived
              /\ \A w \in Workers : CopiesKnown(w) /\ StepKnown(w)
  /\ IInv' <=> /\ TypeOK' /\ InOrder' /\ Counted' /\ ProcessedWasReceived'
               /\ \A w \in Workers : CopiesKnown(w)' /\ StepKnown(w)'
  BY DEF IInv, KnowsWhatItDid, CopiesKnown, StepKnown, InOrder, Counted

-----------------------------------------------------------------------------
LEMMA WorkerFields ==
  ASSUME NEW x \in Worker
  PROVE  LET y == [x EXCEPT !.step = "mark"]
         IN  y \in Worker /\ y.step = "mark" /\ y.todo = x.todo /\ y.failed = x.failed
  BY DEF Worker

LEMMA RowFields ==
  ASSUME NEW x \in EventRow
  PROVE  /\ x.attempt \in Nat /\ x.due \in BOOLEAN
         /\ x.state \in {"absent", "pending", "processed", "deleted"}
         /\ \A s \in {"processed", "deleted"} :
              LET y == [x EXCEPT !.state = s]
              IN  y \in EventRow /\ y.state = s /\ y.attempt = x.attempt
         /\ LET y == [x EXCEPT !.due = TRUE]
            IN  y \in EventRow /\ y.state = x.state /\ y.attempt = x.attempt
         /\ NewOutboxEvent \in EventRow
         /\ NewOutboxEvent.state = "pending" /\ NewOutboxEvent.attempt = 0
  BY DEF EventRow, NewOutboxEvent, Absent

LEMMA FailedRowFields ==
  ASSUME NEW x \in EventRow, NEW n \in Nat
  PROVE  /\ FailedRow(x, n) \in EventRow
         /\ FailedRow(x, n).state = x.state /\ FailedRow(x, n).attempt = n
  BY DEF EventRow, FailedRow

(* The first of a worker's copies. *)
LEMMA CurrentCopy ==
  ASSUME TypeOK, NEW w \in Workers, worker[w].step # "idle"
  PROVE  /\ worker[w] \in Worker /\ worker[w].todo \in Seq(Taken)
         /\ Len(worker[w].todo) \in Nat /\ Len(worker[w].todo) >= 1
         /\ worker[w].todo[1] \in Taken
         /\ Current(w) \in Events /\ worker[w].todo[1].attempt \in Nat
         /\ CopiesKnown(w) =>
              /\ rows[Current(w)].state # "absent"
              /\ Failed(Current(w), worker[w].todo[1].attempt)
  <1>1. worker[w] \in Worker /\ worker[w].todo # <<>>
    BY DEF TypeOK
  <1>2. worker[w].todo \in Seq(Taken)
    BY <1>1 DEF Worker
  <1>3. Len(worker[w].todo) \in Nat /\ Len(worker[w].todo) >= 1
    BY <1>1, <1>2, LenProperties, EmptySeq
  <1>4. worker[w].todo[1] \in Taken
    BY <1>2, <1>3, LenProperties
  <1>5. Current(w) \in Events /\ worker[w].todo[1].attempt \in Nat
    BY <1>4 DEF Current, Taken
  <1>6. CopiesKnown(w) =>
            rows[Current(w)].state # "absent" /\ Failed(Current(w), worker[w].todo[1].attempt)
    BY <1>3 DEF CopiesKnown, Current
  <1> QED BY <1>1, <1>2, <1>3, <1>4, <1>5, <1>6

(* A batch holds copies of rows that are pending. *)
LEMMA BatchOfRows ==
  ASSUME TypeOK, NEW batch \in Batches
  PROVE  /\ batch \in Seq(Taken)
         /\ \A i \in 1..Len(batch) :
              /\ batch[i].id \in Events
              /\ rows[batch[i].id].state = "pending"
              /\ batch[i].attempt = rows[batch[i].id].attempt
  <1> DEFINE S == {e \in Events : Eligible(e)}
             N(q) == IF Len(q) < BatchSize THEN Len(q) ELSE BatchSize
             copy(e) == [id |-> e, attempt |-> rows[e].attempt]
  <1>1. PICK q \in SetToSeqs(S) : batch = [i \in 1..N(q) |-> copy(q[i])]
    BY DEF Batches
  <1>2. IsFiniteSet(S)
    <2>1. IsFiniteSet(Events)
      BY ConstantsAssumption, FS_Interval DEF Events
    <2> QED BY <2>1, FS_Subset
  <1>3. Cardinality(S) \in Nat
    BY <1>2, FS_CardinalityType
  <1>4. q \in [1..Cardinality(S) -> S]
    BY <1>1 DEF SetToSeqs
  <1>5. q \in Seq(S) /\ Len(q) \in Nat /\ q \in [1..Len(q) -> S]
    <2>1. q \in Seq(S)
      BY <1>3, <1>4, SeqDef
    <2> QED BY <2>1, LenProperties
  <1>6. N(q) \in Nat /\ N(q) <= Len(q)
    BY <1>5, ConstantsAssumption
  <1> HIDE DEF N
  <1>7. \A e \in S : copy(e) \in Taken /\ rows[e].state = "pending" /\ e \in Events
    <2> TAKE e \in S
    <2>1. e \in Events /\ rows[e] \in EventRow /\ rows[e].state = "pending"
      BY DEF TypeOK, Eligible
    <2>2. rows[e].attempt \in Nat
      BY <2>1, RowFields
    <2> QED BY <2>1, <2>2 DEF Taken
  <1>8. \A i \in 1..N(q) : q[i] \in S
    BY <1>5, <1>6
  <1>9. batch \in [1..N(q) -> Taken]
    BY <1>1, <1>7, <1>8
  <1>10. batch \in Seq(Taken) /\ Len(batch) = N(q)
    <2>1. batch \in Seq(Taken)
      BY <1>6, <1>9, SeqDef
    <2>2. DOMAIN batch = 1..N(q) /\ DOMAIN batch = 1..Len(batch) /\ Len(batch) \in Nat
      BY <1>9, <2>1, LenProperties
    <2> QED BY <1>6, <2>1, <2>2
  <1>11. ASSUME NEW i \in 1..Len(batch)
         PROVE  /\ batch[i].id \in Events
                /\ rows[batch[i].id].state = "pending"
                /\ batch[i].attempt = rows[batch[i].id].attempt
    <2>1. i \in 1..N(q) /\ batch[i] = copy(q[i]) /\ q[i] \in S
      BY <1>1, <1>8, <1>10
    <2> QED BY <1>7, <2>1
  <1> QED BY <1>10, <1>11

-----------------------------------------------------------------------------
(* What a worker knows survives the steps of others. *)
LEMMA FailedGrows ==
  ASSUME TypeOK, TypeOK', Forward, NEW e \in Events, NEW n \in Nat, Failed(e, n)
  PROVE  Failed(e, n)'
  <1>1. failures[e] \in 0..(MaxRetries + 1) /\ failures'[e] \in 0..(MaxRetries + 1)
    BY DEF TypeOK
  <1>2. failures[e] <= failures'[e]
    BY DEF Forward
  <1>3. MaxRetries \in Nat
    BY ConstantsAssumption
  <1> QED BY <1>1, <1>2, <1>3 DEF Failed

LEMMA ReceivedGrows ==
  ASSUME Forward, NEW e \in Events, e \in Received
  PROVE  e \in Received'
  BY DEF Forward, Received

(* Copies that were there before. *)
LEMMA CopiesKept ==
  ASSUME TypeOK, TypeOK', Forward, NEW w \in Workers, CopiesKnown(w),
         \A i \in 1..Len(worker'[w].todo) :
             \E j \in 1..Len(worker[w].todo) : worker'[w].todo[i] = worker[w].todo[j]
  PROVE  CopiesKnown(w)'
  <1> DEFINE Known(copy) == /\ rows'[copy.id].state # "absent"
                            /\ \/ copy.attempt <= failures'[copy.id]
                               \/ failures'[copy.id] > MaxRetries
  <1>1. ASSUME NEW i \in 1..Len(worker'[w].todo) PROVE Known(worker'[w].todo[i])
    <2>1. PICK j \in 1..Len(worker[w].todo) : worker'[w].todo[i] = worker[w].todo[j]
      OBVIOUS
    <2> DEFINE copy == worker[w].todo[j]
    <2>2. copy \in Taken
      <3>1. worker[w] \in Worker
        BY DEF TypeOK
      <3>2. worker[w].todo \in Seq(Taken)
        BY <3>1 DEF Worker
      <3> QED BY <3>2, LenProperties
    <2>3. /\ rows[copy.id].state # "absent"
          /\ copy.attempt <= failures[copy.id] \/ failures[copy.id] > MaxRetries
      BY DEF CopiesKnown, Failed
    <2> HIDE DEF copy
    <2>4. copy.id \in Events /\ copy.attempt \in Nat
      BY <2>2 DEF Taken
    <2>5. /\ rows'[copy.id].state # "absent"
          /\ failures[copy.id] <= failures'[copy.id]
      BY <2>3, <2>4 DEF Forward
    <2>6. failures[copy.id] \in Nat /\ failures'[copy.id] \in Nat /\ MaxRetries \in Nat
      BY <2>4, ConstantsAssumption DEF TypeOK
    <2>7. Known(copy)
      BY <2>3, <2>4, <2>5, <2>6
    <2> QED BY <2>1, <2>7 DEF copy
  <1> QED BY <1>1 DEF CopiesKnown, Failed

LEMMA OthersKeep ==
  ASSUME TypeOK, TypeOK', Forward, NEW v \in Workers, worker'[v] = worker[v],
         CopiesKnown(v), StepKnown(v)
  PROVE  CopiesKnown(v)' /\ StepKnown(v)'
  <1>1. CopiesKnown(v)'
    BY CopiesKept
  <1>2. StepKnown(v)'
    <2>1. Current(v)' = Current(v)
      BY DEF Current
    <2>2. worker[v].step # "idle" => Current(v) \in Events
      BY CurrentCopy
    <2>3. Current(v) \in Events /\ Contains(published, Current(v))
            => Contains(published', Current(v))
      BY DEF Forward
    <2>4. Current(v) \in Events /\ Current(v) \in Received => Current(v) \in Received'
      BY ReceivedGrows
    <2>5. worker[v].step = "notify" /\ Contains(published, Current(v))
            => Contains(published', Current(v))
      BY <2>2, <2>3
    <2>6. worker[v].step = "mark" /\ Current(v) \in Received => Current(v) \in Received'
      BY <2>2, <2>4
    <2>7. Contains(published, Current(v))' <=> Contains(published', Current(v))
      BY <2>1 DEF Contains
    <2> HIDE DEF Current
    <2>8. worker'[v].step = "send" => ~worker'[v].failed
      BY DEF StepKnown
    <2>9. worker'[v].step = "notify" =>
             Current(v)' \notin Skipped
             /\ (worker'[v].failed \/ Contains(published, Current(v))')
      BY <2>1, <2>5, <2>7 DEF StepKnown
    <2>10. worker'[v].step = "mark" =>
             IF worker'[v].failed THEN Current(v)' \notin Skipped
             ELSE Current(v)' \in Received' \union Skipped
      BY <2>1, <2>6 DEF StepKnown
    <2> QED BY <2>8, <2>9, <2>10 DEF StepKnown
  <1> QED BY <1>1, <1>2

(* The next of the batch, or an end of it. *)
LEMMA Advancing ==
  ASSUME TypeOK, NEW w \in Workers, worker[w].step # "idle", Advance(w)
  PROVE  /\ worker' \in [Workers -> Worker]
         /\ \A v \in Workers : worker'[v].step = "idle" <=> worker'[v].todo = <<>>
         /\ \A v \in Workers : v # w => worker'[v] = worker[v]
         /\ worker'[w].step \in {"idle", "send"} /\ ~worker'[w].failed
         /\ \A i \in 1..Len(worker'[w].todo) :
               \E j \in 1..Len(worker[w].todo) : worker'[w].todo[i] = worker[w].todo[j]
  <1> DEFINE todo == worker[w].todo
             next == [step |-> "send", todo |-> Tail(todo), failed |-> FALSE]
  <1>1. todo \in Seq(Taken) /\ Len(todo) \in Nat /\ Len(todo) >= 1
    BY CurrentCopy
  <1>2. /\ Tail(todo) \in Seq(Taken) /\ Len(Tail(todo)) = Len(todo) - 1
        /\ \A i \in 1..Len(Tail(todo)) : Tail(todo)[i] = todo[i + 1]
    <2>1. todo # <<>>
      BY <1>1, EmptySeq
    <2> QED BY <1>1, <2>1, HeadTailProperties
  <1>3. Idle \in Worker /\ Idle.todo = <<>> /\ Idle.step = "idle" /\ ~Idle.failed
        /\ Len(Idle.todo) = 0
    <2>1. <<>> \in Seq(Taken) /\ Len(<<>>) = 0
      BY EmptySeq
    <2> QED BY <2>1 DEF Idle, Worker
  <1>4. next \in Worker /\ next.todo = Tail(todo) /\ next.step = "send" /\ ~next.failed
    BY <1>2 DEF Worker
  <1>5. worker' = [worker EXCEPT ![w] = IF Len(todo) = 1 THEN Idle ELSE next]
    BY DEF Advance
  <1>6. worker \in [Workers -> Worker]
    BY DEF TypeOK
  <1> HIDE DEF todo, next
  <1>7. worker'[w] = (IF Len(todo) = 1 THEN Idle ELSE next)
        /\ \A v \in Workers : v # w => worker'[v] = worker[v]
    BY <1>5, <1>6
  <1>8. worker' \in [Workers -> Worker]
    BY <1>3, <1>4, <1>5, <1>6
  <1>9. Len(todo) # 1 => Tail(todo) # <<>>
    <2>1. ASSUME Len(todo) # 1, Tail(todo) = <<>> PROVE FALSE
      <3>1. Len(<<>>) = 0
        BY EmptySeq
      <3>2. Len(Tail(todo)) = 0
        BY <2>1, <3>1
      <3>3. Len(Tail(todo)) = Len(todo) - 1
        BY <1>2
      <3> QED BY <1>1, <2>1, <3>2, <3>3
    <2> QED BY <2>1
  <1>10. \A v \in Workers : worker'[v].step = "idle" <=> worker'[v].todo = <<>>
    <2> TAKE v \in Workers
    <2>1. CASE v = w
      BY <1>3, <1>4, <1>7, <1>9, <2>1
    <2>2. CASE v # w
      BY <1>7, <2>2 DEF TypeOK
    <2> QED BY <2>1, <2>2
  <1>11. worker'[w].step \in {"idle", "send"} /\ ~worker'[w].failed
    BY <1>3, <1>4, <1>7
  <1>12. ASSUME NEW i \in 1..Len(worker'[w].todo)
         PROVE  \E j \in 1..Len(todo) : worker'[w].todo[i] = todo[j]
    <2>1. Len(todo) # 1 /\ worker'[w].todo = Tail(todo)
      BY <1>3, <1>4, <1>7
    <2>2. i + 1 \in 1..Len(todo) /\ Tail(todo)[i] = todo[i + 1]
      BY <1>1, <1>2, <2>1
    <2> QED BY <2>1, <2>2
  <1> QED BY <1>7, <1>8, <1>10, <1>11, <1>12 DEF todo

-----------------------------------------------------------------------------
LEMMA TableKept ==
  ASSUME IInv, TypeOK', Forward, rows' = rows
  PROVE  InOrder' /\ Counted' /\ ProcessedWasReceived'
  <1>1. InOrder'
    BY Parts DEF InOrder
  <1>2. Counted'
    <2> SUFFICES ASSUME NEW e \in Events
                 PROVE  rows[e].attempt <= failures'[e] \/ failures'[e] > MaxRetries
      BY DEF Counted, Failed
    <2>1. rows[e].attempt <= failures[e] \/ failures[e] > MaxRetries
      BY Parts DEF Counted, Failed
    <2>2. failures[e] \in Nat /\ failures'[e] \in Nat /\ rows[e] \in EventRow
      BY Parts DEF TypeOK
    <2>3. rows[e].attempt \in Nat /\ failures[e] <= failures'[e]
      BY <2>2, RowFields DEF Forward
    <2> QED BY <2>1, <2>2, <2>3, ConstantsAssumption
  <1>3. ProcessedWasReceived'
    BY Parts, ReceivedGrows DEF ProcessedWasReceived
  <1> QED BY <1>1, <1>2, <1>3

LEMMA WorkerMoves ==
  ASSUME IInv, TypeOK', Forward, NEW w \in Workers,
         \A v \in Workers : v # w => worker'[v] = worker[v],
         CopiesKnown(w)', StepKnown(w)', InOrder', Counted', ProcessedWasReceived'
  PROVE  IInv'
  <1>1. TypeOK /\ \A v \in Workers : CopiesKnown(v) /\ StepKnown(v)
    BY Parts
  <1>2. \A v \in Workers : v # w => CopiesKnown(v)' /\ StepKnown(v)'
    <2> TAKE v \in Workers
    <2>1. v # w => worker'[v] = worker[v]
      OBVIOUS
    <2> QED BY <1>1, <2>1, OthersKeep
  <1>3. \A v \in Workers : CopiesKnown(v)' /\ StepKnown(v)'
    <2> TAKE v \in Workers
    <2>1. CASE v = w
      BY <2>1
    <2>2. CASE v # w
      BY <1>2, <2>2
    <2> QED BY <2>1, <2>2
  <1> QED BY <1>3, Parts

LEMMA NobodyMoves ==
  ASSUME IInv, TypeOK', Forward, worker' = worker,
         InOrder', Counted', ProcessedWasReceived'
  PROVE  IInv'
  <1>1. TypeOK /\ \A v \in Workers : CopiesKnown(v) /\ StepKnown(v)
    BY Parts
  <1>2. \A v \in Workers : CopiesKnown(v)' /\ StepKnown(v)'
    BY <1>1, OthersKeep
  <1> QED BY <1>2, Parts

LEMMA Still == 
  ASSUME TypeOK, rows' = rows, failures' = failures, published' = published, notified' = notified
  PROVE  Forward
  <1>1. \A e \in Events : failures[e] \in Nat
    BY DEF TypeOK
  <1>2. \A e \in Events : Contains(published, e) => Contains(published', e)
    BY DEF Contains
  <1> QED BY <1>1, <1>2 DEF Forward

-----------------------------------------------------------------------------
LEMMA InitIInv == Init => IInv
  <1> SUFFICES ASSUME Init PROVE IInv
    OBVIOUS
  <1>1. /\ <<>> \in Seq(Taken) /\ <<>> \in Seq(Events) /\ Len(<<>>) = 0
    BY EmptySeq
  <1>2. Idle \in Worker /\ Idle.todo = <<>> /\ Idle.step = "idle"
    BY <1>1 DEF Idle, Worker
  <1>3. Absent \in EventRow /\ Absent.state = "absent" /\ Absent.attempt = 0
    BY DEF Absent, EventRow
  <1>4. TypeOK
    BY <1>1, <1>2, <1>3, ConstantsAssumption DEF Init, TypeOK
  <1>5. InOrder /\ ProcessedWasReceived
    BY <1>3 DEF Init, InOrder, ProcessedWasReceived, Events
  <1>6. Counted
    BY <1>3 DEF Init, Counted, Failed
  <1>7. \A w \in Workers : CopiesKnown(w) /\ StepKnown(w)
    BY <1>1, <1>2 DEF Init, CopiesKnown, StepKnown
  <1> QED BY <1>4, <1>5, <1>6, <1>7, Parts

(* Only pending events are taken, with the attempts they have. *)
LEMMA GetUnprocessedKeeps ==
  ASSUME IInv, NEW w \in Workers, GetUnprocessed(w)
  PROVE  IInv'
  <1>1. TypeOK /\ Counted
    BY Parts
  <1>2. PICK batch \in Batches :
            /\ batch # <<>>
            /\ worker' = [worker EXCEPT ![w] = [step |-> "send", todo |-> batch, failed |-> FALSE]]
    BY DEF GetUnprocessed
  <1>3. UNCHANGED <<rows, published, notified, failures, crashes>>
    BY DEF GetUnprocessed
  <1> DEFINE taken == [step |-> "send", todo |-> batch, failed |-> FALSE]
  <1>4. /\ batch \in Seq(Taken)
        /\ \A i \in 1..Len(batch) :
              /\ batch[i].id \in Events
              /\ rows[batch[i].id].state = "pending"
              /\ batch[i].attempt = rows[batch[i].id].attempt
    BY <1>1, BatchOfRows
  <1>5. taken \in Worker /\ taken.step = "send" /\ taken.todo = batch /\ ~taken.failed
    BY <1>4 DEF Worker
  <1>6. /\ worker' \in [Workers -> Worker] /\ worker'[w] = taken
        /\ \A v \in Workers : v # w => worker'[v] = worker[v]
    BY <1>1, <1>2, <1>5 DEF TypeOK
  <1> HIDE DEF taken
  <1>7. TypeOK'
    <2>1. \A v \in Workers : worker'[v].step = "idle" <=> worker'[v].todo = <<>>
      BY <1>1, <1>2, <1>5, <1>6 DEF TypeOK
    <2> QED BY <1>1, <1>3, <1>6, <2>1 DEF TypeOK
  <1>8. Forward
    BY <1>1, <1>3, Still
  <1>9. CopiesKnown(w)'
    <2>1. ASSUME NEW i \in 1..Len(batch)
          PROVE  /\ rows[batch[i].id].state # "absent"
                 /\ Failed(batch[i].id, batch[i].attempt)
      BY <1>1, <1>4 DEF Counted
    <2>2. \A i \in 1..Len(batch) :
              /\ rows'[batch[i].id].state # "absent"
              /\ \/ batch[i].attempt <= failures'[batch[i].id]
                 \/ failures'[batch[i].id] > MaxRetries
      BY <1>3, <2>1 DEF Failed
    <2> QED BY <1>5, <1>6, <2>2 DEF CopiesKnown, Failed
  <1>10. StepKnown(w)'
    BY <1>5, <1>6 DEF StepKnown
  <1> QED BY <1>3, <1>6, <1>7, <1>8, <1>9, <1>10, TableKept, WorkerMoves

(* A step of a worker on its first event, whose copies stay. *)
LEMMA SameEvent ==
  ASSUME IInv, NEW w \in Workers, worker[w].step # "idle",
         NEW x \in Worker, x.step # "idle", x.todo = worker[w].todo,
         worker' = [worker EXCEPT ![w] = x]
  PROVE  /\ worker' \in [Workers -> Worker] /\ worker'[w] = x
         /\ \A v \in Workers : v # w => worker'[v] = worker[v]
         /\ \A v \in Workers : worker'[v].step = "idle" <=> worker'[v].todo = <<>>
         /\ TypeOK' /\ Forward => CopiesKnown(w)'
         /\ Current(w)' = Current(w) /\ Current(w) \in Events
         /\ rows[Current(w)].state # "absent"
  <1>1. TypeOK /\ CopiesKnown(w)
    BY Parts
  <1>2. /\ worker' \in [Workers -> Worker] /\ worker'[w] = x
        /\ \A v \in Workers : v # w => worker'[v] = worker[v]
    BY <1>1 DEF TypeOK
  <1>3. \A v \in Workers : worker'[v].step = "idle" <=> worker'[v].todo = <<>>
    BY <1>1, <1>2 DEF TypeOK
  <1>4. TypeOK' /\ Forward => CopiesKnown(w)'
    BY <1>1, <1>2, CopiesKept
  <1>5. Current(w)' = Current(w)
    BY <1>2 DEF Current
  <1>6. Current(w) \in Events /\ rows[Current(w)].state # "absent"
    BY <1>1, CurrentCopy
  <1> QED BY <1>2, <1>3, <1>4, <1>5, <1>6

LEMMA ExtractFailsKeeps ==
  ASSUME IInv, NEW w \in Workers, ExtractFails(w)
  PROVE  IInv'
  <1> DEFINE x == [worker[w] EXCEPT !.step = "mark", !.failed = TRUE]
  <1>1. /\ TypeOK /\ worker[w] \in Worker
        /\ worker[w].step = "send" /\ Current(w) \notin Skipped
        /\ worker' = [worker EXCEPT ![w] = x]
        /\ UNCHANGED <<rows, published, notified, failures, crashes>>
    BY Parts DEF ExtractFails, TypeOK, Skipped
  <1>2. x \in Worker /\ x.step = "mark" /\ x.todo = worker[w].todo /\ x.failed
    BY <1>1 DEF Worker
  <1> HIDE DEF x
  <1>3. /\ worker' \in [Workers -> Worker] /\ worker'[w] = x
        /\ \A v \in Workers : v # w => worker'[v] = worker[v]
        /\ \A v \in Workers : worker'[v].step = "idle" <=> worker'[v].todo = <<>>
        /\ TypeOK' /\ Forward => CopiesKnown(w)'
        /\ Current(w)' = Current(w)
    BY <1>1, <1>2, SameEvent
  <1>4. TypeOK'
    BY <1>1, <1>3 DEF TypeOK
  <1>5. Forward
    BY <1>1, Still
  <1>6. StepKnown(w)'
    BY <1>1, <1>2, <1>3 DEF StepKnown
  <1> QED BY <1>1, <1>3, <1>4, <1>5, <1>6, TableKept, WorkerMoves

LEMMA SkipUnsupportedKeeps ==
  ASSUME IInv, NEW w \in Workers, SkipUnsupported(w)
  PROVE  IInv'
  <1> DEFINE x == [worker[w] EXCEPT !.step = "mark"]
  <1>1. /\ TypeOK /\ StepKnown(w) /\ worker[w] \in Worker
        /\ worker[w].step = "send" /\ Current(w) \in Skipped
        /\ worker' = [worker EXCEPT ![w] = x]
        /\ UNCHANGED <<rows, published, notified, failures, crashes>>
    BY Parts DEF SkipUnsupported, TypeOK
  <1>2. x \in Worker /\ x.step = "mark" /\ x.todo = worker[w].todo /\ ~x.failed
    BY <1>1, WorkerFields DEF StepKnown
  <1> HIDE DEF x
  <1>3. /\ worker' \in [Workers -> Worker] /\ worker'[w] = x
        /\ \A v \in Workers : v # w => worker'[v] = worker[v]
        /\ \A v \in Workers : worker'[v].step = "idle" <=> worker'[v].todo = <<>>
        /\ TypeOK' /\ Forward => CopiesKnown(w)'
        /\ Current(w)' = Current(w)
    BY <1>1, <1>2, SameEvent
  <1>4. TypeOK'
    BY <1>1, <1>3 DEF TypeOK
  <1>5. Forward
    BY <1>1, Still
  <1>6. StepKnown(w)'
    BY <1>1, <1>2, <1>3 DEF StepKnown
  <1> QED BY <1>1, <1>3, <1>4, <1>5, <1>6, TableKept, WorkerMoves

LEMMA Published ==
  ASSUME NEW p \in Seq(Events), NEW e \in Events
  PROVE  /\ Append(p, e) \in Seq(Events)
         /\ Contains(Append(p, e), e)
         /\ \A f \in Events : Contains(Append(p, e), f) <=> f = e \/ Contains(p, f)
  <1>1. /\ Append(p, e) \in Seq(Events) /\ Len(Append(p, e)) = Len(p) + 1
        /\ \A i \in 1..Len(p) : Append(p, e)[i] = p[i]
        /\ Append(p, e)[Len(p) + 1] = e
    BY AppendProperties
  <1>2. Len(p) \in Nat
    BY LenProperties
  <1>3. Contains(Append(p, e), e)
    BY <1>1, <1>2 DEF Contains
  <1>4. ASSUME NEW f \in Events
        PROVE  Contains(Append(p, e), f) <=> f = e \/ Contains(p, f)
    <2>1. ASSUME Contains(Append(p, e), f), f # e PROVE Contains(p, f)
      <3>1. PICK i \in 1..Len(Append(p, e)) : Append(p, e)[i] = f
        BY <2>1 DEF Contains
      <3>2. i \in 1..Len(p) /\ p[i] = f
        BY <1>1, <1>2, <2>1, <3>1
      <3> QED BY <3>2 DEF Contains
    <2>2. ASSUME Contains(p, f) PROVE Contains(Append(p, e), f)
      <3>1. PICK i \in 1..Len(p) : p[i] = f
        BY <2>2 DEF Contains
      <3>2. i \in 1..Len(Append(p, e)) /\ Append(p, e)[i] = f
        BY <1>1, <1>2, <3>1
      <3> QED BY <3>2 DEF Contains
    <2> QED BY <1>3, <2>1, <2>2
  <1> QED BY <1>1, <1>3, <1>4

LEMMA SendKeeps ==
  ASSUME IInv, NEW w \in Workers, NEW stored \in BOOLEAN, NEW acked \in BOOLEAN,
         Send(w, stored, acked)
  PROVE  IInv'
  <1> DEFINE f == ~acked
             x == [worker[w] EXCEPT !.step = "notify", !.failed = f]
  <1>1. /\ TypeOK /\ StepKnown(w) /\ worker[w] \in Worker
        /\ worker[w].step = "send" /\ Current(w) \notin Skipped
        /\ acked => stored
        /\ worker' = [worker EXCEPT ![w] = x]
        /\ published' = IF stored /\ ~Contains(published, Current(w))
                        THEN Append(published, Current(w)) ELSE published
        /\ UNCHANGED <<rows, notified, failures, crashes>>
    BY Parts DEF Send, TypeOK, Skipped
  <1>2. x \in Worker /\ x.step = "notify" /\ x.todo = worker[w].todo /\ x.failed = f
    <2>1. f \in BOOLEAN
      OBVIOUS
    <2> HIDE DEF f
    <2> QED BY <1>1, <2>1 DEF Worker
  <1> HIDE DEF x
  <1>3. /\ worker' \in [Workers -> Worker] /\ worker'[w] = x
        /\ \A v \in Workers : v # w => worker'[v] = worker[v]
        /\ \A v \in Workers : worker'[v].step = "idle" <=> worker'[v].todo = <<>>
        /\ TypeOK' /\ Forward => CopiesKnown(w)'
        /\ Current(w)' = Current(w) /\ Current(w) \in Events
    BY <1>1, <1>2, SameEvent
  <1> DEFINE e == Current(w)
  <1>4. published \in Seq(Events)
    BY <1>1 DEF TypeOK
  <1>5. /\ published' \in Seq(Events)
        /\ stored => Contains(published', e)
        /\ \A g \in Events : Contains(published, g) => Contains(published', g)
    <2> HIDE DEF e
    <2>1. e \in Events
      BY <1>3 DEF e
    <2>2. CASE stored /\ ~Contains(published, e)
      <3>1. published' = Append(published, e)
        BY <1>1, <2>2 DEF e
      <3> QED BY <1>4, <2>1, <3>1, Published
    <2>3. CASE ~(stored /\ ~Contains(published, e))
      <3>1. published' = published
        BY <1>1, <2>3 DEF e
      <3> QED BY <1>4, <2>3, <3>1
    <2> QED BY <2>2, <2>3
  <1>6. TypeOK'
    BY <1>1, <1>3, <1>5 DEF TypeOK
  <1>7. Forward
    <2>1. \A g \in Events : failures[g] \in Nat
      BY <1>1 DEF TypeOK
    <2> QED BY <1>1, <1>5, <2>1 DEF Forward
  <1>8. StepKnown(w)'
    <2>1. worker'[w].step = "notify" /\ worker'[w].failed = ~acked
      BY <1>2, <1>3
    <2>2. Contains(published', e) => Contains(published, Current(w))'
      BY <1>3 DEF Contains
    <2>3. (Current(w) \notin Skipped)'
      BY <1>1, <1>3
    <2> QED BY <1>1, <1>5, <2>1, <2>2, <2>3 DEF StepKnown
  <1> QED BY <1>1, <1>3, <1>6, <1>7, <1>8, TableKept, WorkerMoves

LEMMA DeliverKeeps ==
  ASSUME IInv, NEW w \in Workers, NEW ok \in BOOLEAN, Deliver(w, ok)
  PROVE  IInv'
  <1> DEFINE f == worker[w].failed \/ ~ok
             x == [worker[w] EXCEPT !.step = "mark", !.failed = f]
  <1>1. /\ TypeOK /\ StepKnown(w) /\ worker[w] \in Worker
        /\ worker[w].step = "notify"
        /\ worker' = [worker EXCEPT ![w] = x]
        /\ notified' = IF ok THEN notified \union {Current(w)} ELSE notified
        /\ UNCHANGED <<rows, published, failures, crashes>>
    BY Parts DEF Deliver, TypeOK
  <1>2. x \in Worker /\ x.step = "mark" /\ x.todo = worker[w].todo /\ x.failed = f
    <2>1. f \in BOOLEAN
      OBVIOUS
    <2> HIDE DEF f
    <2> QED BY <1>1, <2>1 DEF Worker
  <1> HIDE DEF x
  <1>3. /\ worker' \in [Workers -> Worker] /\ worker'[w] = x
        /\ \A v \in Workers : v # w => worker'[v] = worker[v]
        /\ \A v \in Workers : worker'[v].step = "idle" <=> worker'[v].todo = <<>>
        /\ TypeOK' /\ Forward => CopiesKnown(w)'
        /\ Current(w)' = Current(w) /\ Current(w) \in Events
    BY <1>1, <1>2, SameEvent
  <1>4. TypeOK'
    BY <1>1, <1>3 DEF TypeOK
  <1>5. Forward
    <2>1. \A g \in Events : failures[g] \in Nat
      BY <1>1 DEF TypeOK
    <2>2. \A g \in Events : Contains(published, g) => Contains(published', g)
      BY <1>1
    <2> QED BY <1>1, <2>1, <2>2 DEF Forward
  <1>6. StepKnown(w)'
    <2>1. worker'[w].step = "mark" /\ worker'[w].failed = f
      BY <1>2, <1>3
    <2>2. Current(w)' \notin Skipped
      BY <1>1, <1>3 DEF StepKnown
    <2>3. ~f => Current(w) \in Received'
      BY <1>1, <1>3 DEF StepKnown, Received
    <2> HIDE DEF f
    <2> QED BY <1>3, <2>1, <2>2, <2>3 DEF StepKnown
  <1> QED BY <1>1, <1>3, <1>4, <1>5, <1>6, TableKept, WorkerMoves

(* The first event of a batch is done with. *)
LEMMA FirstIsDone ==
  ASSUME IInv, NEW w \in Workers, worker[w].step = "mark", Advance(w)
  PROVE  /\ worker' \in [Workers -> Worker]
         /\ \A v \in Workers : worker'[v].step = "idle" <=> worker'[v].todo = <<>>
         /\ \A v \in Workers : v # w => worker'[v] = worker[v]
         /\ TypeOK' /\ Forward => CopiesKnown(w)'
         /\ StepKnown(w)'
  <1>1. TypeOK /\ CopiesKnown(w)
    BY Parts
  <1>2. /\ worker' \in [Workers -> Worker]
        /\ \A v \in Workers : worker'[v].step = "idle" <=> worker'[v].todo = <<>>
        /\ \A v \in Workers : v # w => worker'[v] = worker[v]
        /\ worker'[w].step \in {"idle", "send"} /\ ~worker'[w].failed
        /\ \A i \in 1..Len(worker'[w].todo) :
              \E j \in 1..Len(worker[w].todo) : worker'[w].todo[i] = worker[w].todo[j]
    BY <1>1, Advancing
  <1>3. TypeOK' /\ Forward => CopiesKnown(w)'
    BY <1>1, <1>2, CopiesKept
  <1>4. StepKnown(w)'
    BY <1>2 DEF StepKnown
  <1> QED BY <1>2, <1>3, <1>4

(* Rows are marked or deleted. *)
LEMMA StatesChange ==
  ASSUME IInv, TypeOK', Forward, failures' = failures,
         \A e \in Events :
             /\ rows'[e].attempt = rows[e].attempt
             /\ rows'[e].state = "absent" <=> rows[e].state = "absent"
             /\ \/ rows'[e].state = rows[e].state
                \/ rows[e].state = "processed"
                \/ rows'[e].state = "processed" /\ e \in Received \union Skipped
  PROVE  InOrder' /\ Counted' /\ ProcessedWasReceived'
  <1>1. InOrder'
    <2>1. \A e \in Events : \A later \in e..NumEvents : later \in Events
      BY ConstantsAssumption DEF Events
    <2> QED BY <2>1, Parts DEF InOrder
  <1>2. Counted'
    BY Parts DEF Counted, Failed
  <1>3. ProcessedWasReceived'
    <2> SUFFICES ASSUME NEW e \in Events \ Skipped,
                        rows'[e].state \in {"processed", "deleted"}
                 PROVE  e \in Received'
      BY DEF ProcessedWasReceived
    <2>1. rows[e].state \in {"processed", "deleted"} => e \in Received
      BY Parts DEF ProcessedWasReceived
    <2>2. e \in Received
      BY <2>1
    <2> QED BY <2>2, ReceivedGrows
  <1> QED BY <1>1, <1>2, <1>3

LEMMA MarkProcessedKeeps ==
  ASSUME IInv, NEW w \in Workers, NEW ok \in BOOLEAN, MarkProcessed(w, ok)
  PROVE  IInv'
  <1> DEFINE e == Current(w)
             r == [rows[e] EXCEPT !.state = "processed"]
  <1>1. /\ TypeOK /\ CopiesKnown(w) /\ StepKnown(w)
        /\ worker[w].step = "mark" /\ ~worker[w].failed /\ Advance(w)
        /\ rows' = IF ok /\ Present(e) THEN [rows EXCEPT ![e] = r] ELSE rows
        /\ UNCHANGED <<published, notified, failures, crashes>>
    BY Parts DEF MarkProcessed
  <1>2. /\ worker' \in [Workers -> Worker]
        /\ \A v \in Workers : worker'[v].step = "idle" <=> worker'[v].todo = <<>>
        /\ \A v \in Workers : v # w => worker'[v] = worker[v]
        /\ TypeOK' /\ Forward => CopiesKnown(w)'
        /\ StepKnown(w)'
    BY <1>1, FirstIsDone
  <1>3. e \in Events /\ rows[e].state # "absent" /\ e \in Received \union Skipped
    BY <1>1, CurrentCopy DEF StepKnown
  <1>4. rows \in [Events -> EventRow] /\ rows[e] \in EventRow
    BY <1>1, <1>3 DEF TypeOK
  <1>5. r \in EventRow /\ r.state = "processed" /\ r.attempt = rows[e].attempt
    BY <1>4, RowFields
  <1> HIDE DEF e, r
  <1>6. rows' \in [Events -> EventRow]
    BY <1>1, <1>4, <1>5
  <1>7. ASSUME NEW f \in Events
        PROVE  /\ rows'[f].attempt = rows[f].attempt
               /\ rows'[f].state = "absent" <=> rows[f].state = "absent"
               /\ \/ rows'[f].state = rows[f].state
                  \/ rows'[f].state = "processed" /\ f \in Received \union Skipped
    <2>1. rows'[f] = rows[f] \/ (f = e /\ rows'[f] = r)
      BY <1>1, <1>4
    <2> QED BY <1>3, <1>5, <2>1
  <1>8. TypeOK'
    BY <1>1, <1>2, <1>6 DEF TypeOK
  <1>9. Forward
    <2>1. \A f \in Events : failures[f] \in Nat
      BY <1>1 DEF TypeOK
    <2>2. \A f \in Events : Contains(published, f) => Contains(published', f)
      BY <1>1
    <2> QED BY <1>1, <1>7, <2>1, <2>2 DEF Forward
  <1>10. InOrder' /\ Counted' /\ ProcessedWasReceived'
    BY <1>1, <1>7, <1>8, <1>9, StatesChange
  <1> QED BY <1>2, <1>8, <1>9, <1>10, WorkerMoves

(* The attempt number written is one more than that of the copy, of which *)
(* no more have failed than are counted; and now one more has.            *)
LEMMA MarkFailedKeeps ==
  ASSUME IInv, NEW w \in Workers, NEW ok \in BOOLEAN, MarkFailed(w, ok)
  PROVE  IInv'
  <1> DEFINE e == Current(w)
             n == worker[w].todo[1].attempt
             r == FailedRow(rows[e], n + 1)
  <1>1. /\ TypeOK /\ CopiesKnown(w) /\ StepKnown(w)
        /\ worker[w].step = "mark" /\ worker[w].failed /\ Advance(w)
        /\ rows' = IF ok /\ Present(e) THEN [rows EXCEPT ![e] = r] ELSE rows
        /\ failures' = [failures EXCEPT ![e] = IF failures[e] > MaxRetries THEN failures[e]
                                              ELSE failures[e] + 1]
        /\ UNCHANGED <<published, notified, crashes>>
    BY Parts DEF MarkFailed
  <1>2. /\ worker' \in [Workers -> Worker]
        /\ \A v \in Workers : worker'[v].step = "idle" <=> worker'[v].todo = <<>>
        /\ \A v \in Workers : v # w => worker'[v] = worker[v]
        /\ TypeOK' /\ Forward => CopiesKnown(w)'
        /\ StepKnown(w)'
    BY <1>1, FirstIsDone
  <1>3. /\ e \in Events /\ n \in Nat /\ rows[e].state # "absent"
        /\ n <= failures[e] \/ failures[e] > MaxRetries
    BY <1>1, CurrentCopy DEF Failed
  <1>4. /\ rows \in [Events -> EventRow] /\ rows[e] \in EventRow
        /\ failures \in [Events -> 0..(MaxRetries + 1)]
    BY <1>1, <1>3 DEF TypeOK
  <1>5. r \in EventRow /\ r.state = rows[e].state /\ r.attempt = n + 1
    <2>1. n + 1 \in Nat
      BY <1>3
    <2> QED BY <1>4, <2>1, FailedRowFields
  <1> HIDE DEF e, n, r
  <1>6. rows' \in [Events -> EventRow]
    BY <1>1, <1>4, <1>5
  <1>7. /\ failures' \in [Events -> 0..(MaxRetries + 1)]
        /\ \A f \in Events : failures[f] <= failures'[f]
        /\ n + 1 <= failures'[e] \/ failures'[e] > MaxRetries
    BY <1>1, <1>3, <1>4, ConstantsAssumption
  <1>8. \A f \in Events : rows'[f] = rows[f] \/ (f = e /\ rows'[f] = r)
    BY <1>1, <1>4
  <1>9. \A f \in Events : rows'[f].state = rows[f].state
    BY <1>5, <1>8
  <1>10. TypeOK'
    BY <1>1, <1>2, <1>6, <1>7 DEF TypeOK
  <1>11. Forward
    <2>1. \A f \in Events : Contains(published, f) => Contains(published', f)
      BY <1>1
    <2> QED BY <1>1, <1>7, <1>9, <2>1 DEF Forward
  <1>12. InOrder'
    <2>1. \A f \in Events : \A later \in f..NumEvents : later \in Events
      BY ConstantsAssumption DEF Events
    <2> QED BY <1>9, <2>1, Parts DEF InOrder
  <1>13. ProcessedWasReceived'
    BY <1>9, <1>11, Parts, ReceivedGrows DEF ProcessedWasReceived
  <1>14. Counted'
    <2> SUFFICES ASSUME NEW f \in Events
                 PROVE  rows'[f].attempt <= failures'[f] \/ failures'[f] > MaxRetries
      BY DEF Counted, Failed
    <2>1. CASE rows'[f] = rows[f]
      <3>1. rows[f].attempt <= failures[f] \/ failures[f] > MaxRetries
        BY Parts DEF Counted, Failed
      <3>2. rows[f].attempt \in Nat
        <4>1. rows[f] \in EventRow
          BY <1>4
        <4> QED BY <4>1, RowFields
      <3>3. failures[f] \in Nat /\ failures'[f] \in Nat
        BY <1>4, <1>7
      <3> QED BY <1>7, <2>1, <3>1, <3>2, <3>3, ConstantsAssumption
    <2>2. CASE f = e /\ rows'[f] = r
      BY <1>5, <1>7, <2>2
    <2> QED BY <1>8, <2>1, <2>2
  <1> QED BY <1>2, <1>10, <1>11, <1>12, <1>13, <1>14, WorkerMoves

LEMMA CrashKeeps ==
  ASSUME IInv, NEW w \in Workers, Crash(w)
  PROVE  IInv'
  <1>1. TypeOK
    BY Parts
  <1>2. Idle \in Worker /\ Idle.todo = <<>> /\ Idle.step = "idle" /\ Len(Idle.todo) = 0
    <2>1. <<>> \in Seq(Taken) /\ Len(<<>>) = 0
      BY EmptySeq
    <2> QED BY <2>1 DEF Idle, Worker
  <1>3. /\ worker' \in [Workers -> Worker] /\ worker'[w] = Idle
        /\ \A v \in Workers : v # w => worker'[v] = worker[v]
    BY <1>1, <1>2 DEF TypeOK, Crash
  <1>4. \A v \in Workers : worker'[v].step = "idle" <=> worker'[v].todo = <<>>
    BY <1>1, <1>2, <1>3 DEF TypeOK
  <1>5. crashes' \in 0..MaxCrashes
    BY <1>1, ConstantsAssumption DEF TypeOK, Crash
  <1>6. UNCHANGED <<rows, published, notified, failures>>
    BY DEF Crash
  <1>7. TypeOK'
    BY <1>1, <1>3, <1>4, <1>5, <1>6 DEF TypeOK
  <1>8. Forward
    BY <1>1, <1>6, Still
  <1>9. CopiesKnown(w)' /\ StepKnown(w)'
    BY <1>2, <1>3 DEF CopiesKnown, StepKnown
  <1> QED BY <1>3, <1>6, <1>7, <1>8, <1>9, TableKept, WorkerMoves

-----------------------------------------------------------------------------
(* The steps of dispatcher, time and cleanup. *)
LEMMA DispatchKeeps ==
  ASSUME IInv, NEW n \in Events, Dispatch(n)
  PROVE  IInv'
  <1>1. PICK last \in n..NumEvents :
            rows' = [e \in Events |-> IF e \in n..last THEN NewOutboxEvent ELSE rows[e]]
    BY DEF Dispatch
  <1>2. /\ TypeOK /\ rows[n].state = "absent"
        /\ UNCHANGED <<worker, published, notified, failures, crashes>>
    BY Parts DEF Dispatch
  <1>3. n \in Int /\ last \in Int /\ NumEvents \in Int /\ n <= last /\ last <= NumEvents
    BY ConstantsAssumption DEF Events
  <1>4. /\ NewOutboxEvent \in EventRow /\ NewOutboxEvent.state = "pending"
        /\ NewOutboxEvent.attempt = 0
    BY DEF NewOutboxEvent, Absent, EventRow
  <1>5. \A e \in Events : e \in n..last => rows[e].state = "absent"
    <2>1. \A e \in n..NumEvents : rows[e].state = "absent"
      BY <1>2, Parts DEF InOrder
    <2> QED BY <1>3, <2>1
  <1>6. \A e \in Events : IF e \in n..last THEN rows'[e] = NewOutboxEvent
                         ELSE rows'[e] = rows[e]
    BY <1>1
  <1>7. rows' \in [Events -> EventRow]
    BY <1>1, <1>2, <1>4 DEF TypeOK
  <1>8. TypeOK'
    BY <1>2, <1>7 DEF TypeOK
  <1>9. Forward
    <2>1. \A e \in Events : failures[e] \in Nat
      BY <1>2 DEF TypeOK
    <2>2. \A e \in Events : Contains(published, e) => Contains(published', e)
      BY <1>2
    <2>3. \A e \in Events : rows[e].state # "absent" => rows'[e].state # "absent"
      BY <1>5, <1>6
    <2> QED BY <1>2, <2>1, <2>2, <2>3 DEF Forward
  <1>10. InOrder'
    <2> SUFFICES ASSUME NEW e \in Events, rows'[e].state = "absent",
                        NEW later \in e..NumEvents
                 PROVE  rows'[later].state = "absent"
      BY DEF InOrder
    <2>1. later \in Events /\ e \in Int /\ later \in Int /\ e <= later
      BY ConstantsAssumption DEF Events
    <2>2. e \notin n..last /\ rows[e].state = "absent"
      BY <1>4, <1>6
    <2>3. rows[later].state = "absent"
      BY <2>2, Parts DEF InOrder
    <2>4. CASE e < n
      <3>1. n \in e..NumEvents /\ e < n
        BY <1>3, <2>1, <2>4
      <3>2. rows[e].state # "absent"
        BY <2>1, <2>4 DEF Dispatch
      <3> QED BY <2>2, <3>2
    <2>5. CASE e > last
      BY <1>3, <1>6, <2>1, <2>3, <2>5
    <2> QED BY <1>3, <2>1, <2>2, <2>4, <2>5
  <1>11. Counted'
    <2> SUFFICES ASSUME NEW e \in Events
                 PROVE  rows'[e].attempt <= failures[e] \/ failures[e] > MaxRetries
      BY <1>2 DEF Counted, Failed
    <2>1. rows[e].attempt <= failures[e] \/ failures[e] > MaxRetries
      BY Parts DEF Counted, Failed
    <2>2. failures[e] \in 0..(MaxRetries + 1)
      BY <1>2 DEF TypeOK
    <2> QED BY <1>4, <1>6, <2>1, <2>2, ConstantsAssumption
  <1>12. ProcessedWasReceived'
    <2> SUFFICES ASSUME NEW e \in Events \ Skipped,
                        rows'[e].state \in {"processed", "deleted"}
                 PROVE  e \in Received'
      BY DEF ProcessedWasReceived
    <2>1. rows[e].state \in {"processed", "deleted"}
      BY <1>4, <1>6
    <2>2. e \in Received
      BY <2>1, Parts DEF ProcessedWasReceived
    <2> QED BY <1>9, <2>2, ReceivedGrows
  <1> QED BY <1>2, <1>8, <1>9, <1>10, <1>11, <1>12, NobodyMoves

LEMMA BackoffElapsesKeeps ==
  ASSUME IInv, NEW e \in Events, BackoffElapses(e)
  PROVE  IInv'
  <1> DEFINE r == [rows[e] EXCEPT !.due = TRUE]
  <1>1. /\ TypeOK /\ rows \in [Events -> EventRow]
        /\ rows' = [rows EXCEPT ![e] = r]
        /\ UNCHANGED <<worker, published, notified, failures, crashes>>
    BY Parts DEF BackoffElapses, TypeOK
  <1>2. r \in EventRow /\ r.state = rows[e].state /\ r.attempt = rows[e].attempt
    <2>1. rows[e] \in EventRow
      BY <1>1
    <2> QED BY <2>1, RowFields
  <1> HIDE DEF r
  <1>3. \A f \in Events : rows'[f].state = rows[f].state /\ rows'[f].attempt = rows[f].attempt
    BY <1>1, <1>2
  <1>4. rows' \in [Events -> EventRow]
    BY <1>1, <1>2
  <1>5. TypeOK'
    BY <1>1, <1>4 DEF TypeOK
  <1>6. Forward
    <2>1. \A f \in Events : failures[f] \in Nat
      BY <1>1 DEF TypeOK
    <2>2. \A f \in Events : Contains(published, f) => Contains(published', f)
      BY <1>1
    <2> QED BY <1>1, <1>3, <2>1, <2>2 DEF Forward
  <1>7. InOrder' /\ Counted' /\ ProcessedWasReceived'
    BY <1>1, <1>3, <1>5, <1>6, StatesChange
  <1> QED BY <1>1, <1>5, <1>6, <1>7, NobodyMoves

LEMMA DeleteOldProcessedKeeps ==
  ASSUME IInv, NEW S \in SUBSET Events, DeleteOldProcessed(S)
  PROVE  IInv'
  <1> DEFINE r(e) == [rows[e] EXCEPT !.state = "deleted"]
  <1>1. /\ TypeOK /\ rows \in [Events -> EventRow]
        /\ \A e \in S : rows[e].state = "processed"
        /\ rows' = [e \in Events |-> IF e \in S THEN r(e) ELSE rows[e]]
        /\ UNCHANGED <<worker, published, notified, failures, crashes>>
    BY Parts DEF DeleteOldProcessed, TypeOK
  <1>2. \A e \in Events : r(e) \in EventRow /\ r(e).state = "deleted"
                         /\ r(e).attempt = rows[e].attempt
    <2> TAKE e \in Events
    <2>1. rows[e] \in EventRow
      BY <1>1
    <2> QED BY <2>1, RowFields
  <1> HIDE DEF r
  <1>3. \A e \in Events : rows'[e].attempt = rows[e].attempt
                         /\ \/ rows'[e].state = rows[e].state
                            \/ rows[e].state = "processed" /\ rows'[e].state = "deleted"
    BY <1>1, <1>2
  <1>4. rows' \in [Events -> EventRow]
    BY <1>1, <1>2
  <1>5. TypeOK'
    BY <1>1, <1>4 DEF TypeOK
  <1>6. Forward
    <2>1. \A f \in Events : failures[f] \in Nat
      BY <1>1 DEF TypeOK
    <2>2. \A f \in Events : Contains(published, f) => Contains(published', f)
      BY <1>1
    <2> QED BY <1>1, <1>3, <2>1, <2>2 DEF Forward
  <1>7. InOrder' /\ Counted' /\ ProcessedWasReceived'
    BY <1>1, <1>3, <1>5, <1>6, StatesChange
  <1> QED BY <1>1, <1>5, <1>6, <1>7, NobodyMoves

LEMMA NextKeeps == IInv /\ [Next]_vars => IInv'
  <1> SUFFICES ASSUME IInv, [Next]_vars PROVE IInv'
    OBVIOUS
  <1>1. CASE UNCHANGED vars
    BY <1>1 DEF vars, IInv, TypeOK, KnowsWhatItDid, Failed, ProcessedWasReceived,
                Received, Current
  <1>2. CASE Next
    BY <1>2, DispatchKeeps, BackoffElapsesKeeps, GetUnprocessedKeeps, ExtractFailsKeeps,
       SkipUnsupportedKeeps, CrashKeeps, SendKeeps, DeliverKeeps, MarkProcessedKeeps, MarkFailedKeeps,
       DeleteOldProcessedKeeps DEF Next, WorkerStep
  <1> QED BY <1>1, <1>2

(* IInv holds in every state of every behaviour of dispatcher, workers and *)
(* cleanup (outbox_worker.go, event_dispatcher.go, notification.go).       *)
THEOREM Inductive == Spec => []IInv
  BY InitIInv, NextKeeps, PTL DEF Spec

(* What counts as processed has reached Kafka and the webhooks, whichever *)
(* worker marked it (outbox_worker.go, processBatch).                     *)
THEOREM NothingIsSkipped == Spec => []ProcessedWasReceived
  <1>1. IInv => ProcessedWasReceived
    BY DEF IInv
  <1> QED BY <1>1, Inductive, PTL

(* An event whose attempts are used up has failed that often, though the    *)
(* number is computed from stale rows (outbox_worker.go, MarkFailed).       *)
THEOREM NobodyGivesUpEarly == Spec => []GivenUpLate
  <1>1. IInv => GivenUpLate
    <2> SUFFICES ASSUME IInv, NEW e \in Events, rows[e].attempt > MaxRetries
                 PROVE  failures[e] > MaxRetries
      BY DEF GivenUpLate
    <2>1. rows[e].attempt <= failures[e] \/ failures[e] > MaxRetries
      BY DEF IInv, Failed
    <2>2. rows[e] \in EventRow /\ failures[e] \in Nat
      BY DEF IInv, TypeOK
    <2>3. rows[e].attempt \in Nat
      BY <2>2, RowFields
    <2> QED BY <2>1, <2>2, <2>3, ConstantsAssumption
  <1> QED BY <1>1, Inductive, PTL

-----------------------------------------------------------------------------
(* The refinement of Delivery, step by step. *)
status == [e \in Events |-> StatusOf(e)]

LEMMA StatusOfRow ==
  ASSUME TypeOK, NEW e \in Events
  PROVE  /\ status[e] = StatusOf(e)
         /\ rows[e].state = "absent" <=> status[e] = "none"
         /\ rows[e].state = "pending" <=> status[e] \in {"pending", "abandoned"}
         /\ rows[e].state \in {"processed", "deleted"} <=> status[e] = "complete"
         /\ rows[e].state = "pending" /\ rows[e].attempt <= MaxRetries => status[e] = "pending"
  <1>1. rows[e].state \in {"absent", "pending", "processed", "deleted"}
    <2>1. rows[e] \in EventRow
      BY DEF TypeOK
    <2> QED BY <2>1, RowFields
  <1> QED BY <1>1 DEF StatusOf, status

(* Statuses that stay, and one that changes. *)
LEMMA StatusSame ==
  ASSUME \A e \in Events : rows'[e].state = rows[e].state /\ rows'[e].attempt = rows[e].attempt
  PROVE  status' = status
  BY DEF status, StatusOf

LEMMA InitMaps == Init => AtLeastOnce!Init
  <1> SUFFICES ASSUME Init PROVE AtLeastOnce!Init
    OBVIOUS
  <1>1. \A e \in Events : StatusOf(e) = "none"
    BY DEF Init, StatusOf, Absent
  <1>2. Received = {}
    BY DEF Init, Received
  <1> QED BY <1>1, <1>2 DEF AtLeastOnce!Init

LEMMA SendMaps ==
  ASSUME IInv, NEW w \in Workers, NEW stored \in BOOLEAN, NEW acked \in BOOLEAN,
         Send(w, stored, acked)
  PROVE  AtLeastOnce!Next \/ UNCHANGED <<status, Received>>
  <1> DEFINE e == Current(w)
  <1>1. /\ TypeOK /\ CopiesKnown(w) /\ published \in Seq(Events)
        /\ worker[w].step = "send" /\ e \notin Skipped
        /\ published' = IF stored /\ ~Contains(published, e) THEN Append(published, e)
                        ELSE published
        /\ rows' = rows /\ notified' = notified
    BY Parts DEF Send, TypeOK, Skipped
  <1>2. e \in Events /\ rows[e].state # "absent"
    BY <1>1, CurrentCopy
  <1> HIDE DEF e
  <1>3. status' = status
    BY <1>1, StatusSame
  <1>4. Received' = Received \/ Received' = Received \union {e}
    <2>1. CASE published' = published
      BY <1>1, <2>1 DEF Received
    <2>2. CASE published' = Append(published, e)
      <3>1. \A f \in Events : Contains(published', f) <=> f = e \/ Contains(published, f)
        BY <1>1, <1>2, <2>2, Published
      <3>2. notified \subseteq Events
        BY <1>1 DEF TypeOK
      <3> QED BY <1>1, <3>1, <3>2 DEF Received
    <2> QED BY <1>1, <2>1, <2>2
  <1>5. status[e] # "none"
    BY <1>1, <1>2, StatusOfRow
  <1>6. Received' = Received \union {e} => AtLeastOnce!Receive(e)
    BY <1>1, <1>3, <1>5 DEF AtLeastOnce!Receive, status
  <1> QED BY <1>2, <1>3, <1>4, <1>6 DEF AtLeastOnce!Next

LEMMA DeliverMaps ==
  ASSUME IInv, NEW w \in Workers, NEW ok \in BOOLEAN, Deliver(w, ok)
  PROVE  AtLeastOnce!Next \/ UNCHANGED <<status, Received>>
  <1> DEFINE e == Current(w)
  <1>1. /\ TypeOK /\ CopiesKnown(w) /\ StepKnown(w) /\ worker[w].step = "notify"
        /\ notified' = IF ok THEN notified \union {e} ELSE notified
        /\ rows' = rows /\ published' = published
    BY Parts DEF Deliver
  <1>2. e \in Events /\ rows[e].state # "absent" /\ e \notin Skipped
    BY <1>1, CurrentCopy DEF StepKnown
  <1> HIDE DEF e
  <1>3. status' = status
    BY <1>1, StatusSame
  <1>4. Received' = Received \/ Received' = Received \union {e}
    BY <1>1 DEF Received
  <1>5. status[e] # "none"
    BY <1>1, <1>2, StatusOfRow
  <1>6. Received' = Received \union {e} => AtLeastOnce!Receive(e)
    BY <1>2, <1>3, <1>5 DEF AtLeastOnce!Receive, status
  <1> QED BY <1>2, <1>3, <1>4, <1>6 DEF AtLeastOnce!Next

LEMMA MarkProcessedMaps ==
  ASSUME IInv, NEW w \in Workers, NEW ok \in BOOLEAN, MarkProcessed(w, ok)
  PROVE  AtLeastOnce!Next \/ UNCHANGED <<status, Received>>
  <1> DEFINE e == Current(w)
             r == [rows[e] EXCEPT !.state = "processed"]
  <1>1. /\ TypeOK /\ TypeOK' /\ CopiesKnown(w) /\ StepKnown(w)
        /\ worker[w].step = "mark" /\ ~worker[w].failed
        /\ rows' = IF ok /\ Present(e) THEN [rows EXCEPT ![e] = r] ELSE rows
        /\ published' = published /\ notified' = notified
    BY Parts, MarkProcessedKeeps DEF MarkProcessed
  <1>2. e \in Events /\ rows[e].state # "absent" /\ e \in Received \union Skipped
    BY <1>1, CurrentCopy DEF StepKnown
  <1>3. rows \in [Events -> EventRow] /\ rows[e] \in EventRow
    BY <1>1, <1>2 DEF TypeOK
  <1>4. r.state = "processed" /\ r.attempt = rows[e].attempt
    BY <1>3, RowFields
  <1> HIDE DEF e, r
  <1>5. Received' = Received
    BY <1>1 DEF Received
  <1>6. CASE rows' = rows
    BY <1>5, <1>6, StatusSame
  <1>7. CASE rows' = [rows EXCEPT ![e] = r] /\ rows[e].state = "pending"
    <2>1. \A f \in Events : IF f = e THEN rows'[f] = r ELSE rows'[f] = rows[f]
      BY <1>3, <1>7
    <2>2. status[e] \in {"pending", "abandoned"}
      BY <1>1, <1>2, <1>7, StatusOfRow
    <2>3. status' = [status EXCEPT ![e] = "complete"]
      <3>1. \A f \in Events : StatusOf(f)' = IF f = e THEN "complete" ELSE StatusOf(f)
        BY <1>4, <2>1 DEF StatusOf
      <3> QED BY <3>1 DEF status
    <2>4. AtLeastOnce!Complete(e)
      BY <1>2, <1>5, <2>2, <2>3 DEF AtLeastOnce!Complete, status
    <2> QED BY <1>2, <2>4 DEF AtLeastOnce!Next
  <1>8. CASE rows' = [rows EXCEPT ![e] = r] /\ rows[e].state = "processed"
    <2>1. \A f \in Events : rows'[f].state = rows[f].state /\ rows'[f].attempt = rows[f].attempt
      BY <1>3, <1>4, <1>8
    <2> QED BY <1>5, <2>1, StatusSame
  <1> QED BY <1>1, <1>6, <1>7, <1>8 DEF Present

LEMMA MarkFailedMaps ==
  ASSUME IInv, NEW w \in Workers, NEW ok \in BOOLEAN, MarkFailed(w, ok)
  PROVE  AtLeastOnce!Next \/ UNCHANGED <<status, Received>>
  <1> DEFINE e == Current(w)
             n == worker[w].todo[1].attempt + 1
             r == FailedRow(rows[e], n)
  <1>1. /\ TypeOK /\ CopiesKnown(w) /\ StepKnown(w)
        /\ worker[w].step = "mark" /\ worker[w].failed
        /\ rows' = IF ok /\ Present(e) THEN [rows EXCEPT ![e] = r] ELSE rows
        /\ published' = published /\ notified' = notified
    BY Parts DEF MarkFailed
  <1>2. e \in Events /\ n \in Nat /\ e \notin Skipped
    BY <1>1, CurrentCopy DEF StepKnown
  <1>3. rows \in [Events -> EventRow] /\ rows[e] \in EventRow
    BY <1>1, <1>2 DEF TypeOK
  <1> HIDE DEF e, n
  <1>4. r.state = rows[e].state
    BY <1>2, <1>3, FailedRowFields
  <1> HIDE DEF r
  <1>5. Received' = Received
    BY <1>1 DEF Received
  <1>6. CASE rows' = rows
    BY <1>5, <1>6, StatusSame
  <1>7. CASE rows' = [rows EXCEPT ![e] = r]
    <2>1. \A f \in Events : IF f = e THEN rows'[f] = r ELSE rows'[f] = rows[f]
      BY <1>3, <1>7
    <2>2. CASE rows[e].state = "pending"
      <3>1. status[e] \in {"pending", "abandoned"}
        BY <1>1, <1>2, <2>2, StatusOfRow
      <3> DEFINE now == IF r.attempt <= MaxRetries THEN "pending" ELSE "abandoned"
      <3>2. now \in {"pending", "abandoned"}
        OBVIOUS
      <3>3. \A f \in Events : StatusOf(f)' = IF f = e THEN now ELSE StatusOf(f)
        BY <1>4, <2>1, <2>2 DEF StatusOf
      <3> HIDE DEF now
      <3>4. status' = [status EXCEPT ![e] = now]
        BY <3>3 DEF status
      <3>5. AtLeastOnce!Reschedule(e)
        BY <1>2, <1>5, <3>1, <3>2, <3>4 DEF AtLeastOnce!Reschedule, status
      <3> QED BY <1>2, <3>5 DEF AtLeastOnce!Next
    <2>3. CASE rows[e].state = "processed"
      <3>1. \A f \in Events : StatusOf(f)' = StatusOf(f)
        BY <1>4, <2>1, <2>3 DEF StatusOf
      <3>2. status' = status
        BY <3>1 DEF status
      <3> QED BY <1>5, <3>2
    <2>4. CASE ~Present(e)
      BY <1>1, <1>5, <2>4, StatusSame
    <2> QED BY <2>2, <2>3, <2>4 DEF Present
  <1> QED BY <1>1, <1>6, <1>7

LEMMA DispatchMaps ==
  ASSUME IInv, NEW n \in Events, Dispatch(n)
  PROVE  AtLeastOnce!Next \/ UNCHANGED <<status, Received>>
  <1>1. PICK last \in n..NumEvents :
            rows' = [e \in Events |-> IF e \in n..last THEN NewOutboxEvent ELSE rows[e]]
    BY DEF Dispatch
  <1> DEFINE S == n..last
  <1>2. /\ TypeOK /\ rows[n].state = "absent"
        /\ published' = published /\ notified' = notified
    BY Parts DEF Dispatch
  <1>3. S \in SUBSET Events /\ \A e \in S : rows[e].state = "absent"
    <2>1. \A e \in n..NumEvents : rows[e].state = "absent"
      BY <1>2, Parts DEF InOrder
    <2>2. n \in Int /\ last \in Int /\ NumEvents \in Int /\ 1 <= n /\ last <= NumEvents
      BY ConstantsAssumption DEF Events
    <2> QED BY <2>1, <2>2 DEF Events
  <1>4. Received' = Received
    BY <1>2 DEF Received
  <1> HIDE DEF S
  <1>5. \A e \in Events : IF e \in S THEN rows'[e] = NewOutboxEvent ELSE rows'[e] = rows[e]
    BY <1>1 DEF S
  <1>6. \A e \in S : status[e] = "none"
    BY <1>2, <1>3, StatusOfRow
  <1>7. \A e \in Events : StatusOf(e)' = IF e \in S THEN "pending" ELSE StatusOf(e)
    <2>1. NewOutboxEvent.state = "pending" /\ NewOutboxEvent.attempt = 0 /\ 0 <= MaxRetries
      BY ConstantsAssumption DEF NewOutboxEvent, Absent
    <2> QED BY <1>5, <2>1 DEF StatusOf
  <1>8. status' = [e \in Events |-> IF e \in S THEN "pending" ELSE status[e]]
    BY <1>7 DEF status
  <1>9. AtLeastOnce!Submit(S)
    BY <1>4, <1>6, <1>8 DEF AtLeastOnce!Submit, status
  <1> QED BY <1>3, <1>9 DEF AtLeastOnce!Next

LEMMA StepMaps ==
  IInv /\ [Next]_vars => [AtLeastOnce!Next]_(AtLeastOnce!vars)
  <1> SUFFICES ASSUME IInv, [Next]_vars
               PROVE  AtLeastOnce!Next \/ UNCHANGED <<status, Received>>
    BY DEF AtLeastOnce!vars, status
  <1>1. ASSUME rows' = rows, published' = published, notified' = notified
        PROVE  UNCHANGED <<status, Received>>
    <2>1. Received' = Received
      BY <1>1 DEF Received
    <2> QED BY <1>1, <2>1, StatusSame
  <1>2. CASE UNCHANGED vars
    BY <1>1, <1>2 DEF vars
  <1>3. ASSUME NEW w \in Workers,
               GetUnprocessed(w) \/ ExtractFails(w) \/ SkipUnsupported(w) \/ Crash(w)
        PROVE  UNCHANGED <<status, Received>>
    BY <1>1, <1>3 DEF GetUnprocessed, ExtractFails, SkipUnsupported, Crash
  <1>4. ASSUME NEW e \in Events, BackoffElapses(e)
        PROVE  UNCHANGED <<status, Received>>
    <2> DEFINE r == [rows[e] EXCEPT !.due = TRUE]
    <2>1. /\ rows \in [Events -> EventRow] /\ rows' = [rows EXCEPT ![e] = r]
          /\ published' = published /\ notified' = notified
      BY <1>4, Parts DEF BackoffElapses, TypeOK
    <2>2. r.state = rows[e].state /\ r.attempt = rows[e].attempt
      <3>1. rows[e] \in EventRow
        BY <2>1
      <3> QED BY <3>1, RowFields
    <2> HIDE DEF r
    <2>3. \A f \in Events : rows'[f].state = rows[f].state /\ rows'[f].attempt = rows[f].attempt
      BY <2>1, <2>2
    <2>4. Received' = Received
      BY <2>1 DEF Received
    <2> QED BY <2>3, <2>4, StatusSame
  <1>5. ASSUME NEW S \in SUBSET Events, DeleteOldProcessed(S)
        PROVE  UNCHANGED <<status, Received>>
    <2> DEFINE r(e) == [rows[e] EXCEPT !.state = "deleted"]
    <2>1. /\ rows \in [Events -> EventRow]
          /\ \A e \in S : rows[e].state = "processed"
          /\ rows' = [e \in Events |-> IF e \in S THEN r(e) ELSE rows[e]]
          /\ published' = published /\ notified' = notified
      BY <1>5, Parts DEF DeleteOldProcessed, TypeOK
    <2>2. \A e \in Events : r(e).state = "deleted"
      <3> TAKE e \in Events
      <3>1. rows[e] \in EventRow
        BY <2>1
      <3> QED BY <3>1, RowFields
    <2> HIDE DEF r
    <2>3. \A e \in Events : StatusOf(e)' = StatusOf(e)
      BY <2>1, <2>2 DEF StatusOf
    <2>4. status' = status
      BY <2>3 DEF status
    <2>5. Received' = Received
      BY <2>1 DEF Received
    <2> QED BY <2>4, <2>5
  <1>6. CASE Next
    BY <1>3, <1>4, <1>5, <1>6, DispatchMaps, SendMaps, DeliverMaps, MarkProcessedMaps,
       MarkFailedMaps DEF Next, WorkerStep
  <1> QED BY <1>2, <1>6

(* The outbox is an implementation of at-least-once delivery: every behaviour *)
(* of rows, workers, Kafka and webhooks, seen through StatusOf and Received,  *)
(* is one of module Delivery (event_dispatcher.go, outbox_worker.go,          *)
(* notification.go, outbox.go).                                               *)
THEOREM Refinement == Spec => AtLeastOnceSpec
  <1>1. Init => AtLeastOnce!Init
    BY InitMaps
  <1> QED BY <1>1, Inductive, StepMaps, PTL DEF Spec, AtLeastOnceSpec, AtLeastOnce!Spec
=============================================================================
