-------------------------- MODULE CatalogueProofs --------------------------
(***************************************************************************)
(* Catalogue, for every number of requests, attempts and deletions.  A     *)
(* step is one of three kinds: it moves one request and its transaction    *)
(* on, it lets the writes of one transaction take effect, or it deletes a  *)
(* row.  The ids of an attempt are new because everything in the tables is *)
(* of an attempt that is over.                                             *)
(***************************************************************************)
EXTENDS Catalogue, FiniteSetTheorems, SequenceTheorems, TLAPS

RowRecord == [id : Ids, parents : Seq(Ids)]
Steps == {"new", "resolve", "begin", "check", "write", "commit", "backoff", "done"}
Asked == Kinds \ {"invoice"}
Lists == Seq(Ids)
Positions == 0..2
Attempts == 1..MaxAttempts
Built == Ids \union {NoId}
Answers == {0, 201, 404, 500}
RequestRecord ==
    [step : Steps, kind : Asked, parents : Lists, looked : Positions,
     attempt : Attempts, built : Built, answer : Answers]
TxRecord == [rows : SUBSET RowRecord, events : SUBSET Ids, gone : SUBSET Ids]

(* The parts of the invariant about request r when its record is q and its *)
(* transaction x.                                                          *)
InOrder(q) ==
    /\ q.step = "new" => q = Incoming
    /\ Len(q.parents) <= 2
    /\ q.step # "new" /\ q.kind \in {"subscription", "intent"} => q.parents # <<>>
    /\ q.step \in {"resolve", "check"} => q.looked < Len(q.parents)
    /\ q.step = "backoff" => q.attempt < MaxAttempts
    /\ q.step # "done" => q.answer = 0
OverOf(q) == IF q.step \in {"backoff", "done"} THEN q.attempt ELSE q.attempt - 1
MakesOf(q) == {q.kind} \union IF q.kind = "subscription" THEN {"invoice"} ELSE {}
Written(r, q, x) == q.step = "commit" =>
    /\ q.built = <<q.kind, r, q.attempt>>
    /\ \E row \in x.rows : row.id = <<q.kind, r, q.attempt>>
    /\ \A row \in x.rows : \E kind \in MakesOf(q) : row.id = <<kind, r, q.attempt>>
    /\ x.events = {id \in IdsOf(x.rows) : id[1] \in Announced}
GoneFound(q, x) ==
    /\ q.step = "check" =>
          /\ x.gone \subseteq Range(q.parents)
          /\ \A i \in 1..q.looked : q.parents[i] \notin x.gone
    /\ q.step \in {"write", "commit"} /\ q.kind \in {"subscription", "intent"} => x.gone = {}

(* q is p but for its step, the position and the answer. *)
SameRequest(q, p) ==
    q.kind = p.kind /\ q.parents = p.parents /\ q.attempt = p.attempt /\ q.built = p.built

LEMMA IdParts ==
  ASSUME NEW id \in Ids
  PROVE  /\ id[1] \in Kinds /\ id[2] \in 0..MaxRequest /\ id[3] \in 1..MaxAttempts
         /\ id = <<id[1], id[2], id[3]>>
  BY DEF Ids

LEMMA IdTyped ==
  ASSUME NEW kind \in Kinds, NEW r \in Requests, NEW n \in 1..MaxAttempts
  PROVE  <<kind, r, n>> \in Ids
  BY ConstantsAssumption DEF Ids, Requests

LEMMA NumbersTyped ==
  /\ MaxRequest \in Nat /\ MaxAttempts \in Nat /\ MaxAttempts >= 1
  /\ \A r \in Requests : r \in Nat /\ r # 0
  BY ConstantsAssumption DEF Requests

LEMMA TypesNamed ==
  TypeOK <=> /\ rows \subseteq RowRecord
             /\ deleted \subseteq IdsOf(rows) /\ outbox \subseteq Ids
             /\ request \in [Requests -> RequestRecord]
             /\ tx \in [Requests -> TxRecord]
             /\ lost \in [Requests -> 0..MaxAttempts]
  BY DEF TypeOK, RowRecord, RequestRecord, TxRecord,
         Steps, Asked, Lists, Positions, Attempts, Built, Answers

LEMMA TypesNamedNext ==
  TypeOK' <=> /\ rows' \subseteq RowRecord
              /\ deleted' \subseteq IdsOf(rows)' /\ outbox' \subseteq Ids
              /\ request' \in [Requests -> RequestRecord]
              /\ tx' \in [Requests -> TxRecord]
              /\ lost' \in [Requests -> 0..MaxAttempts]
  BY DEF TypeOK, RowRecord, RequestRecord, TxRecord, IdsOf,
         Steps, Asked, Lists, Positions, Attempts, Built, Answers

LEMMA PartsNamed ==
  /\ RequestsInOrder <=> \A r \in Requests : InOrder(request[r])
  /\ WrittenTogether <=> \A r \in Requests : Written(r, request[r], tx[r])
  /\ GoneIsFound <=> \A r \in Requests : tx[r].gone \subseteq deleted /\ GoneFound(request[r], tx[r])
  /\ \A r \in Requests : Over(r) = OverOf(request[r]) /\ Makes(r) = MakesOf(request[r])
  <1>1. RequestsInOrder <=> \A r \in Requests : InOrder(request[r])
    BY DEF RequestsInOrder, InOrder
  <1>2. WrittenTogether <=> \A r \in Requests : Written(r, request[r], tx[r])
    BY DEF WrittenTogether, Written, Id, Makes, MakesOf
  <1>3. GoneIsFound <=> \A r \in Requests : tx[r].gone \subseteq deleted /\ GoneFound(request[r], tx[r])
    BY DEF GoneIsFound, GoneFound
  <1>4. \A r \in Requests : Over(r) = OverOf(request[r]) /\ Makes(r) = MakesOf(request[r])
    BY DEF Over, OverOf, Makes, MakesOf
  <1> QED BY <1>1, <1>2, <1>3, <1>4

LEMMA PartsNamedNext ==
  /\ RequestsInOrder' <=> \A r \in Requests : InOrder(request'[r])
  /\ WrittenTogether' <=> \A r \in Requests : Written(r, request'[r], tx'[r])
  /\ GoneIsFound' <=> \A r \in Requests : tx'[r].gone \subseteq deleted' /\ GoneFound(request'[r], tx'[r])
  /\ \A r \in Requests : Over(r)' = OverOf(request'[r]) /\ Makes(r)' = MakesOf(request'[r])
  <1>1. RequestsInOrder' <=> \A r \in Requests : InOrder(request'[r])
    BY DEF RequestsInOrder, InOrder
  <1>2. WrittenTogether' <=> \A r \in Requests : Written(r, request'[r], tx'[r])
    BY DEF WrittenTogether, Written, Id, Makes, MakesOf
  <1>3. GoneIsFound' <=> \A r \in Requests : tx'[r].gone \subseteq deleted' /\ GoneFound(request'[r], tx'[r])
    BY DEF GoneIsFound, GoneFound
  <1>4. \A r \in Requests : Over(r)' = OverOf(request'[r]) /\ Makes(r)' = MakesOf(request'[r])
    BY DEF Over, OverOf, Makes, MakesOf
  <1> QED BY <1>1, <1>2, <1>3, <1>4

-----------------------------------------------------------------------------
(* The updates of a request's record. *)
Moved(r, s, n) == request' = [request EXCEPT ![r].looked = n, ![r].step = s]
Stepped(r, s) == request' = [request EXCEPT ![r].step = s]
Answered(r, s, n, a) ==
    request' = [request EXCEPT ![r].step = s, ![r].looked = n, ![r].answer = a]
Numbered(r, s, id) == request' = [request EXCEPT ![r].step = s, ![r].built = id]
Repeated(r, s, n) == request' = [request EXCEPT ![r].step = s, ![r].attempt = n]

LEMMA MoveOn ==
  ASSUME request \in [Requests -> RequestRecord], NEW r \in Requests,
         NEW s \in Steps, NEW n \in Positions,
         Moved(r, s, n)
  PROVE  \E q \in RequestRecord :
            /\ request' = [request EXCEPT ![r] = q] /\ SameRequest(q, request[r])
            /\ q.step = s /\ q.looked = n /\ q.answer = request[r].answer
  <1> DEFINE q == [request[r] EXCEPT !.looked = n, !.step = s]
  <1>1. request[r] \in RequestRecord
    OBVIOUS
  <1>2. request' = [request EXCEPT ![r] = q]
    BY DEF Moved
  <1>3. /\ q \in RequestRecord /\ q.step = s /\ q.looked = n /\ q.answer = request[r].answer
        /\ q.kind = request[r].kind /\ q.parents = request[r].parents
        /\ q.attempt = request[r].attempt /\ q.built = request[r].built
    BY <1>1 DEF RequestRecord
  <1> HIDE DEF q
  <1> QED BY <1>2, <1>3 DEF SameRequest

LEMMA MoveTo ==
  ASSUME request \in [Requests -> RequestRecord], NEW r \in Requests,
         NEW s \in Steps, Stepped(r, s)
  PROVE  \E q \in RequestRecord :
            /\ request' = [request EXCEPT ![r] = q] /\ SameRequest(q, request[r])
            /\ q.step = s /\ q.answer = request[r].answer
  <1> DEFINE q == [request[r] EXCEPT !.step = s]
  <1>1. request[r] \in RequestRecord /\ request' = [request EXCEPT ![r] = q]
    BY DEF Stepped
  <1>2. /\ q \in RequestRecord /\ q.step = s /\ q.answer = request[r].answer
        /\ q.kind = request[r].kind /\ q.parents = request[r].parents
        /\ q.attempt = request[r].attempt /\ q.built = request[r].built
    BY <1>1 DEF RequestRecord
  <1> HIDE DEF q
  <1> QED BY <1>1, <1>2 DEF SameRequest

LEMMA AnswerAs ==
  ASSUME request \in [Requests -> RequestRecord], NEW r \in Requests,
         NEW s \in Steps, NEW n \in Positions, NEW status \in Answers,
         Answered(r, s, n, status)
  PROVE  \E q \in RequestRecord :
            /\ request' = [request EXCEPT ![r] = q] /\ SameRequest(q, request[r])
            /\ q.step = s /\ q.answer = status
  <1> DEFINE q == [request[r] EXCEPT !.step = s, !.looked = n, !.answer = status]
  <1>1. request[r] \in RequestRecord
    OBVIOUS
  <1>2. request' = [request EXCEPT ![r] = q]
    BY DEF Answered
  <1>3. /\ q \in RequestRecord /\ q.step = s /\ q.answer = status
        /\ q.kind = request[r].kind /\ q.parents = request[r].parents
        /\ q.attempt = request[r].attempt /\ q.built = request[r].built
    BY <1>1 DEF RequestRecord
  <1> HIDE DEF q
  <1> QED BY <1>2, <1>3 DEF SameRequest

LEMMA AnswerIs ==
  ASSUME request \in [Requests -> RequestRecord], NEW r \in Requests,
         NEW status \in {201, 404, 500}, Answer(r, status)
  PROVE  \E q \in RequestRecord :
            /\ request' = [request EXCEPT ![r] = q] /\ SameRequest(q, request[r])
            /\ q.step = "done" /\ q.answer = status
  <1>1. "done" \in Steps /\ 0 \in Positions /\ status \in Answers
    BY DEF Steps, Positions, Answers
  <1>2. Answered(r, "done", 0, status)
    BY DEF Answer, Answered
  <1> QED BY <1>1, <1>2, AnswerAs

LEMMA Builds ==
  ASSUME request \in [Requests -> RequestRecord], NEW r \in Requests, NEW s \in Steps,
         NEW id \in Built, Numbered(r, s, id)
  PROVE  \E q \in RequestRecord :
            /\ request' = [request EXCEPT ![r] = q]
            /\ q.kind = request[r].kind /\ q.parents = request[r].parents
            /\ q.attempt = request[r].attempt /\ q.answer = request[r].answer
            /\ q.step = s /\ q.built = id
  <1> DEFINE q == [request[r] EXCEPT !.step = s, !.built = id]
  <1>1. request[r] \in RequestRecord
    OBVIOUS
  <1>2. request' = [request EXCEPT ![r] = q]
    BY DEF Numbered
  <1>3. /\ q \in RequestRecord /\ q.step = s /\ q.built = id
        /\ q.kind = request[r].kind /\ q.parents = request[r].parents
        /\ q.attempt = request[r].attempt /\ q.answer = request[r].answer
    BY <1>1 DEF RequestRecord
  <1> HIDE DEF q
  <1> QED BY <1>2, <1>3

LEMMA Repeats ==
  ASSUME request \in [Requests -> RequestRecord], NEW r \in Requests, NEW s \in Steps,
         NEW n \in Attempts, Repeated(r, s, n)
  PROVE  \E q \in RequestRecord :
            /\ request' = [request EXCEPT ![r] = q]
            /\ q.kind = request[r].kind /\ q.parents = request[r].parents
            /\ q.built = request[r].built /\ q.answer = request[r].answer
            /\ q.step = s /\ q.attempt = n
  <1> DEFINE q == [request[r] EXCEPT !.step = s, !.attempt = n]
  <1>1. request[r] \in RequestRecord
    OBVIOUS
  <1>2. request' = [request EXCEPT ![r] = q]
    BY DEF Repeated
  <1>3. /\ q \in RequestRecord /\ q.step = s /\ q.attempt = n
        /\ q.kind = request[r].kind /\ q.parents = request[r].parents
        /\ q.built = request[r].built /\ q.answer = request[r].answer
    BY <1>1 DEF RequestRecord
  <1> HIDE DEF q
  <1> QED BY <1>2, <1>3

-----------------------------------------------------------------------------
LEMMA InitIInv == Init => IInv
  <1> SUFFICES ASSUME Init PROVE IInv
    OBVIOUS
  <1> USE NumbersTyped
  <1>1. \A kind \in Kinds : <<kind, 0, 1>> \in Ids
    BY DEF Ids
  <1>2. <<"customer", 0, 1>> \in Ids /\ <<"product", 0, 1>> \in Ids /\ <<"price", 0, 1>> \in Ids
    BY <1>1 DEF Kinds
  <1>3. rows \subseteq RowRecord
    <2>1. <<>> \in Seq(Ids) /\ <<<<"product", 0, 1>>>> \in Seq(Ids)
      BY <1>2
    <2> QED BY <1>2, <2>1 DEF Init, Seeds, Row, RowRecord
  <1>4. /\ Incoming \in RequestRecord /\ NoTx \in TxRecord
    <2>1. <<>> \in Seq(Ids) /\ "customer" \in Kinds \ {"invoice"}
      BY DEF Kinds
    <2>2. 0 \in 0..2 /\ 1 \in 1..MaxAttempts
      OBVIOUS
    <2> QED BY <2>1, <2>2 DEF Incoming, RequestRecord, NoTx, TxRecord,
                              Steps, Asked, Lists, Positions, Attempts, Built, Answers
  <1>5. TypeOK
    <2>1. request \in [Requests -> RequestRecord] /\ tx \in [Requests -> TxRecord]
      BY <1>4 DEF Init
    <2>2. lost \in [Requests -> 0..MaxAttempts]
      <3>1. 0 \in 0..MaxAttempts
        OBVIOUS
      <3> QED BY <3>1 DEF Init
    <2>3. deleted \subseteq IdsOf(rows) /\ outbox \subseteq Ids
      BY <1>2 DEF Init
    <2> QED BY <1>3, <2>1, <2>2, <2>3, TypesNamed
  <1>6. IdsOf(rows) = {<<"customer", 0, 1>>, <<"product", 0, 1>>, <<"price", 0, 1>>}
    <2> DEFINE product == <<"product", 0, 1>>
               c == Row(<<"customer", 0, 1>>, <<>>)
               p == Row(product, <<>>)
               o == Row(<<"price", 0, 1>>, <<product>>)
    <2>1. rows = {c, p, o}
      BY DEF Init, Seeds
    <2>2. c.id = <<"customer", 0, 1>> /\ p.id = product /\ o.id = <<"price", 0, 1>>
      BY DEF Row
    <2> HIDE DEF c, p, o
    <2> QED BY <2>1, <2>2 DEF IdsOf
  <1>7. \A r \in Requests : InOrder(request[r]) /\ Written(r, request[r], tx[r])
                            /\ tx[r].gone = {} /\ GoneFound(request[r], tx[r])
    BY DEF Init, InOrder, Incoming, Written, GoneFound, NoTx
  <1>8. \A r \in Requests : MadeBy(r) = {} /\ lost[r] = 0 /\ Over(r) = 0 /\ request[r].answer = 0
    <2> TAKE r \in Requests
    <2>1. r # 0
      OBVIOUS
    <2>2. \A id \in IdsOf(rows) : id[2] = 0
      BY <1>6
    <2> QED BY <2>1, <2>2 DEF Init, MadeBy, Of, Over, Incoming
  <1>9. \A row \in rows : row.id[2] \notin Requests
    <2>1. \A row \in rows : row.id \in IdsOf(rows)
      BY DEF IdsOf
    <2> QED BY <1>6, <2>1
  <1>10. RowsOfAttemptsOver /\ RowsAreAccountedFor
    BY <1>8, <1>9, FS_EmptySet DEF RowsOfAttemptsOver, RowsAreAccountedFor
  <1>11. AnswerNamesRow
    BY <1>8 DEF AnswerNamesRow
  <1>12. EventsMatchRows
    BY <1>6 DEF EventsMatchRows, Of, Init
  <1> QED BY <1>5, <1>7, <1>10, <1>11, <1>12, PartsNamed DEF IInv

-----------------------------------------------------------------------------
(* A step that moves one request on, to q and x, and leaves the tables. *)
MovesTo(r, q, x) ==
    /\ q \in RequestRecord /\ x \in TxRecord
    /\ request' = [request EXCEPT ![r] = q]
    /\ tx' = [tx EXCEPT ![r] = x]
    /\ UNCHANGED <<rows, deleted, outbox, lost>>
    /\ InOrder(q) /\ Written(r, q, x) /\ GoneFound(q, x) /\ x.gone \subseteq deleted
    /\ OverOf(q) >= OverOf(request[r])
    /\ q.answer # 201 /\ request[r].answer # 201
    /\ q.kind = request[r].kind \/ request[r].step = "new"

LEMMA RequestMoves ==
  ASSUME IInv, NEW r \in Requests, NEW q, NEW x, MovesTo(r, q, x)
  PROVE  IInv'
  <1> USE NumbersTyped
  <1>1. /\ rows \subseteq RowRecord /\ deleted \subseteq IdsOf(rows) /\ outbox \subseteq Ids
        /\ request \in [Requests -> RequestRecord] /\ tx \in [Requests -> TxRecord]
        /\ lost \in [Requests -> 0..MaxAttempts]
    BY TypesNamed DEF IInv
  <1>0. /\ q \in RequestRecord /\ x \in TxRecord
        /\ request' = [request EXCEPT ![r] = q] /\ tx' = [tx EXCEPT ![r] = x]
        /\ InOrder(q) /\ Written(r, q, x) /\ GoneFound(q, x) /\ x.gone \subseteq deleted
        /\ OverOf(q) >= OverOf(request[r])
        /\ q.answer # 201 /\ request[r].answer # 201
        /\ q.kind = request[r].kind \/ request[r].step = "new"
    BY DEF MovesTo
  <1>2. rows' = rows /\ deleted' = deleted /\ outbox' = outbox /\ lost' = lost
    BY DEF MovesTo
  <1>3. /\ request'[r] = q /\ tx'[r] = x
        /\ \A p \in Requests \ {r} : request'[p] = request[p] /\ tx'[p] = tx[p]
    BY <1>0, <1>1
  <1>4. TypeOK'
    <2>1. request' \in [Requests -> RequestRecord] /\ tx' \in [Requests -> TxRecord]
      BY <1>0, <1>1
    <2> QED BY <1>0, <1>1, <1>2, <2>1 DEF TypeOK, RowRecord, RequestRecord, TxRecord, IdsOf,
                                      Steps, Asked, Lists, Positions, Attempts, Built, Answers
  <1>5. \A p \in Requests : InOrder(request'[p]) /\ Written(p, request'[p], tx'[p])
                            /\ tx'[p].gone \subseteq deleted' /\ GoneFound(request'[p], tx'[p])
    BY <1>0, <1>2, <1>3, PartsNamed DEF IInv
  <1>6. RequestsInOrder' /\ WrittenTogether' /\ GoneIsFound'
    BY <1>5, PartsNamedNext
  <1>7. ASSUME NEW row \in rows, row.id[2] \in Requests
        PROVE  row.id[1] \in MakesOf(request'[row.id[2]]) /\ row.id[3] <= OverOf(request'[row.id[2]])
    <2>1. row.id \in Ids /\ row.id[3] \in 1..MaxAttempts
      BY <1>1, IdParts DEF RowRecord
    <2>2. row.id[1] \in Makes(row.id[2]) /\ row.id[3] <= Over(row.id[2])
      BY <1>7 DEF IInv, RowsOfAttemptsOver
    <2>3. CASE row.id[2] # r
      BY <1>0, <1>3, <1>7, <2>2, <2>3, PartsNamed
    <2>4. CASE row.id[2] = r
      <3>1. request[r].step # "new"
        BY <2>1, <2>2, <2>4 DEF IInv, RequestsInOrder, Over, Incoming
      <3>2. MakesOf(q) = Makes(r)
        BY <1>0, <3>1 DEF Makes, MakesOf
      <3>3. OverOf(q) \in Int /\ OverOf(request[r]) \in Int
        BY <1>0, <1>1 DEF OverOf, RequestRecord, Attempts
      <3> QED BY <1>0, <1>3, <2>1, <2>2, <2>4, <3>2, <3>3, PartsNamed
    <2> QED BY <2>3, <2>4
  <1>8. ASSUME NEW p \in Requests
        PROVE  /\ MadeBy(p)' = MadeBy(p)
               /\ lost[p] <= OverOf(request'[p])
               /\ request'[p].answer = 201 <=> request[p].answer = 201
    <2>2. CASE p # r
      <3>1. MadeBy(p)' = MadeBy(p)
        BY <1>0, <1>2, <1>3, <2>2 DEF MadeBy, Of, IdsOf
      <3>2. lost[p] <= OverOf(request[p])
        BY PartsNamed DEF IInv, RowsOfAttemptsOver
      <3> QED BY <1>0, <1>3, <2>2, <3>1, <3>2
    <2>3. CASE p = r
      <3>1. request'[p].kind = request[p].kind \/ \A row \in rows : row.id[2] # r
        <4>1. CASE request[r].step = "new"
          <5>1. Over(r) = 0
            BY <4>1 DEF IInv, RequestsInOrder, Over, Incoming
          <5>2. \A row \in rows : row.id[3] \in 1..MaxAttempts
            BY <1>1, IdParts DEF RowRecord
          <5> QED BY <5>1, <5>2 DEF IInv, RowsOfAttemptsOver
        <4> QED BY <1>0, <1>3, <2>3, <4>1
      <3>2. MadeBy(p)' = MadeBy(p)
        BY <1>0, <1>2, <1>3, <2>3, <3>1 DEF MadeBy, Of, IdsOf
      <3>3. lost[r] <= OverOf(q)
        <4>1. OverOf(q) \in Int /\ OverOf(request[r]) \in Int /\ lost[r] \in Int
          BY <1>0, <1>1 DEF OverOf, RequestRecord, Attempts
        <4>2. lost[r] <= OverOf(request[r])
          BY PartsNamed DEF IInv, RowsOfAttemptsOver
        <4> QED BY <1>0, <4>1, <4>2
      <3> QED BY <1>0, <1>3, <2>3, <3>2, <3>3
    <2> QED BY <2>2, <2>3
  <1>9. RowsOfAttemptsOver'
    BY <1>2, <1>7, <1>8, PartsNamedNext DEF RowsOfAttemptsOver, IInv
  <1>10. RowsAreAccountedFor'
    BY <1>2, <1>8 DEF RowsAreAccountedFor, IInv
  <1>11. AnswerNamesRow'
    BY <1>0, <1>2, <1>3 DEF AnswerNamesRow, IInv, IdsOf
  <1>12. EventsMatchRows'
    BY <1>2 DEF EventsMatchRows, IInv, Of, IdsOf
  <1> QED BY <1>0, <1>4, <1>6, <1>9, <1>10, <1>11, <1>12 DEF IInv

-----------------------------------------------------------------------------
(* A step that leaves the tables, and r's transaction as x. *)
LeavesTx(r, x) ==
    /\ x \in TxRecord /\ x.gone \subseteq deleted
    /\ tx' = [tx EXCEPT ![r] = x]
    /\ UNCHANGED <<rows, deleted, outbox, lost>>

(* The request is answered, with an error. *)
LEMMA KeepsError ==
  ASSUME IInv, NEW r \in Requests, NEW status \in {404, 500}, Answer(r, status),
         request[r].step \notin {"new", "done"}, NEW x, LeavesTx(r, x)
  PROVE  IInv'
  <1>1. /\ request \in [Requests -> RequestRecord] /\ request[r] \in RequestRecord
        /\ InOrder(request[r])
    BY TypesNamed, PartsNamed DEF IInv
  <1>2. PICK q \in RequestRecord :
           /\ request' = [request EXCEPT ![r] = q] /\ SameRequest(q, request[r])
           /\ q.step = "done" /\ q.answer = status
    BY <1>1, AnswerIs
  <1>3. InOrder(q)
    BY <1>1, <1>2 DEF InOrder, SameRequest
  <1>4. Written(r, q, x) /\ GoneFound(q, x)
    BY <1>2 DEF Written, GoneFound
  <1>5. OverOf(q) >= OverOf(request[r])
    BY <1>1, <1>2, NumbersTyped DEF OverOf, SameRequest, RequestRecord, Attempts
  <1>6. q.kind = request[r].kind /\ q.answer # 201 /\ request[r].answer # 201
    BY <1>1, <1>2 DEF SameRequest, InOrder
  <1>7. MovesTo(r, q, x)
    BY <1>2, <1>3, <1>4, <1>5, <1>6 DEF MovesTo, LeavesTx
  <1> QED BY <1>7, RequestMoves

(* The transaction of the request is what it was. *)
LEMMA TxUntouched ==
  ASSUME IInv, NEW r \in Requests, UNCHANGED <<tables, tx, lost>>
  PROVE  LeavesTx(r, tx[r])
  BY TypesNamed, PartsNamed DEF IInv, LeavesTx, tables

LEMMA KeepsErrorOnly ==
  ASSUME IInv, NEW r \in Requests, NEW status \in {404, 500}, Answer(r, status),
         request[r].step \notin {"new", "done"}, UNCHANGED <<tables, tx, lost>>
  PROVE  IInv'
  <1>1. LeavesTx(r, tx[r])
    BY TxUntouched
  <1> QED BY <1>1, KeepsError

LEMMA KeepsAccept ==
  ASSUME IInv, NEW r \in Requests, NEW kind \in Kinds \ {"invoice"}, NEW parents \in Seq(Ids),
         Len(parents) <= 2, kind \in {"subscription", "intent"} => parents # <<>>,
         Accept(r, kind, parents)
  PROVE  IInv'
  <1>1. /\ request \in [Requests -> RequestRecord] /\ request[r] \in RequestRecord
        /\ request[r].step = "new" /\ request[r] = Incoming
    BY TypesNamed, PartsNamed DEF IInv, Accept, InOrder
  <1> DEFINE s == IF parents = <<>> THEN "begin" ELSE "resolve"
  <1>2. s \in Steps /\ kind \in Asked /\ parents \in Lists
    BY DEF Steps, Asked, Lists
  <1>3. PICK q \in RequestRecord :
           /\ request' = [request EXCEPT ![r] = q]
           /\ q.step = s /\ q.kind = kind /\ q.parents = parents
           /\ q.looked = 0 /\ q.attempt = 1 /\ q.answer = 0
    <2> DEFINE q == [request[r] EXCEPT !.step = s, !.kind = kind, !.parents = parents]
    <2>1. request' = [request EXCEPT ![r] = q]
      BY DEF Accept
    <2>2. request[r].looked = 0 /\ request[r].attempt = 1 /\ request[r].answer = 0
      BY <1>1 DEF Incoming
    <2> HIDE DEF s
    <2>3. /\ q \in RequestRecord /\ q.step = s /\ q.kind = kind /\ q.parents = parents
          /\ q.looked = request[r].looked /\ q.attempt = request[r].attempt
          /\ q.answer = request[r].answer
      BY <1>1, <1>2 DEF RequestRecord
    <2> HIDE DEF q
    <2> QED BY <2>1, <2>2, <2>3
  <1>4. InOrder(q)
    <2>1. parents # <<>> => Len(parents) > 0
      BY EmptySeq, LenProperties
    <2> QED BY <1>3, <2>1 DEF InOrder
  <1>5. Written(r, q, tx[r]) /\ GoneFound(q, tx[r])
    BY <1>3 DEF Written, GoneFound
  <1>6. OverOf(q) >= OverOf(request[r]) /\ q.answer # 201 /\ request[r].answer # 201
    BY <1>1, <1>3 DEF OverOf, Incoming
  <1>7. LeavesTx(r, tx[r])
    BY TxUntouched DEF Accept
  <1>8. MovesTo(r, q, tx[r])
    BY <1>1, <1>3, <1>4, <1>5, <1>6, <1>7 DEF MovesTo, LeavesTx
  <1> QED BY <1>8, RequestMoves

LEMMA KeepsPost ==
  ASSUME IInv, NEW r \in Requests, Post(r)
  PROVE  IInv'
  <1>1. \A kind : \A id \in Of(kind) : id \in Ids
    BY TypesNamed DEF IInv, Of, IdsOf, RowRecord
  <1>2. /\ <<>> \in Seq(Ids) /\ Len(<<>>) <= 2
        /\ \A a \in Ids : <<a>> \in Seq(Ids) /\ Len(<<a>>) <= 2 /\ <<a>> # <<>>
        /\ \A a, b \in Ids : <<a, b>> \in Seq(Ids) /\ Len(<<a, b>>) <= 2 /\ <<a, b>> # <<>>
    OBVIOUS
  <1>3. {"customer", "product", "price", "subscription", "intent", "endpoint"}
           = Kinds \ {"invoice"}
    BY DEF Kinds
  <1>4. PICK kind \in Kinds \ {"invoice"}, parents \in Seq(Ids) :
           /\ Len(parents) <= 2 /\ (kind \in {"subscription", "intent"} => parents # <<>>)
           /\ Accept(r, kind, parents)
    <2>1. CASE PostCustomer(r) \/ PostProduct(r)
      BY <1>2, <1>3, <2>1 DEF PostCustomer, PostProduct
    <2>2. CASE PostPrice(r) \/ PostEndpoint(r) \/ PostIntent(r)
      <3>1. PICK kind \in {"price", "endpoint", "intent"}, a \in Ids : Accept(r, kind, <<a>>)
        BY <1>1, <2>2 DEF PostPrice, PostEndpoint, PostIntent
      <3> QED BY <1>2, <1>3, <3>1
    <2>3. CASE PostSubscription(r)
      <3>1. PICK a \in Ids, b \in Ids : Accept(r, "subscription", <<a, b>>)
        BY <1>1, <2>3 DEF PostSubscription
      <3> QED BY <1>2, <1>3, <3>1
    <2> QED BY <2>1, <2>2, <2>3 DEF Post
  <1> QED BY <1>4, KeepsAccept

LEMMA KeepsLookUp ==
  ASSUME IInv, NEW r \in Requests,
         NEW next \in {"begin", "write"},
         request[r].step = IF next = "begin" THEN "resolve" ELSE "check",
         LookUp(r, next), UNCHANGED <<tables, tx, lost>>
  PROVE  IInv'
  <1> USE NumbersTyped
  <1> DEFINE p == request[r]
             id == p.parents[p.looked + 1]
             n == p.looked + 1
             s == IF n = Len(p.parents) THEN next ELSE p.step
  <1>1. /\ request \in [Requests -> RequestRecord] /\ p \in RequestRecord /\ InOrder(p)
        /\ p.step \in {"resolve", "check"} /\ p.answer = 0
        /\ tx[r].gone \subseteq deleted /\ GoneFound(p, tx[r])
    BY TypesNamed, PartsNamed DEF IInv, InOrder
  <1>2. LeavesTx(r, tx[r])
    BY TxUntouched
  <1>3. CASE ~Found(id)
    <2>1. NotFound(r, id[1]) \in {404, 500}
      BY DEF NotFound, handleServiceError, respondServiceError
    <2>2. Answer(r, NotFound(r, id[1]))
      BY <1>3 DEF LookUp
    <2> QED BY <1>1, <1>2, <2>1, <2>2, KeepsError
  <1>4. CASE Found(id)
    <2>1. /\ p.parents \in Seq(Ids) /\ Len(p.parents) \in Nat /\ Len(p.parents) <= 2
          /\ p.looked \in Nat /\ p.looked < Len(p.parents)
          /\ DOMAIN p.parents = 1..Len(p.parents)
      BY <1>1, LenProperties DEF InOrder, RequestRecord, Lists, Positions
    <2>2. n \in Positions /\ s \in Steps /\ n <= Len(p.parents) /\ n \in Nat
      BY <1>1, <2>1 DEF Positions, Steps
    <2>3. Moved(r, s, n)
      BY <1>1, <1>4 DEF LookUp, Moved
    <2> HIDE DEF s, n
    <2>4. PICK q \in RequestRecord :
             /\ request' = [request EXCEPT ![r] = q] /\ SameRequest(q, p)
             /\ q.step = s /\ q.looked = n /\ q.answer = p.answer
      BY <1>1, <2>2, <2>3, MoveOn
    <2>5. s \in {"resolve", "check", "begin", "write"}
          /\ (s \in {"resolve", "check"} => n < Len(p.parents) /\ s = p.step)
          /\ (s = "write" => n = Len(p.parents) /\ p.step = "check")
      BY <1>1, <2>1, <2>2 DEF s
    <2>6. id \notin tx[r].gone
      BY <1>1, <1>4 DEF Found, FindCustomer, FindProduct, FindPrice, FindInvoice
    <2>7. p.step = "check" =>
             /\ tx[r].gone \subseteq Range(p.parents)
             /\ \A i \in 1..n : p.parents[i] \notin tx[r].gone
      <3> SUFFICES ASSUME p.step = "check", NEW i \in 1..n
                   PROVE  p.parents[i] \notin tx[r].gone
        BY <1>1 DEF GoneFound
      <3>1. i \in 1..p.looked \/ i = n
        BY <2>1 DEF n
      <3> QED BY <1>1, <2>6, <3>1 DEF GoneFound, n
    <2>8. GoneFound(q, tx[r])
      <3>1. CASE s = "check"
        BY <2>4, <2>5, <2>7, <3>1 DEF GoneFound, SameRequest
      <3>2. CASE s = "write"
        <4>1. \A i \in 1..Len(p.parents) : p.parents[i] \notin tx[r].gone
          BY <2>5, <2>7, <3>2
        <4>2. tx[r].gone = {}
          BY <2>1, <2>5, <2>7, <3>2, <4>1 DEF Range
        <4> QED BY <2>4, <3>2, <4>2 DEF GoneFound
      <3>3. CASE s \in {"resolve", "begin"}
        BY <2>4, <3>3 DEF GoneFound
      <3> QED BY <2>5, <3>1, <3>2, <3>3
    <2>9. InOrder(q)
      BY <1>1, <2>1, <2>2, <2>4, <2>5 DEF InOrder, SameRequest
    <2>10. Written(r, q, tx[r])
      BY <2>4, <2>5 DEF Written
    <2>11. OverOf(q) >= OverOf(p)
      BY <1>1, <2>4, <2>5 DEF OverOf, SameRequest, RequestRecord, Attempts
    <2>12. q.answer # 201 /\ p.answer # 201 /\ q.kind = p.kind
      BY <1>1, <2>4 DEF SameRequest
    <2>13. MovesTo(r, q, tx[r])
      <3> DEFINE x == tx[r]
      <3>1. LeavesTx(r, x) /\ GoneFound(q, x) /\ Written(r, q, x)
        BY <1>2, <2>8, <2>10
      <3> HIDE DEF x, p
      <3>2. MovesTo(r, q, x)
        BY <2>4, <2>9, <2>11, <2>12, <3>1 DEF MovesTo, LeavesTx, p
      <3> QED BY <3>2 DEF x
    <2> QED BY <2>13, RequestMoves
  <1> QED BY <1>3, <1>4

LEMMA KeepsBegin ==
  ASSUME IInv, NEW r \in Requests, Begin(r)
  PROVE  IInv'
  <1> DEFINE p == request[r]
             x == [NoTx EXCEPT !.gone = deleted \intersect Range(p.parents)]
             s == IF p.kind \in {"subscription", "intent"} THEN "check" ELSE "write"
  <1>1. /\ request \in [Requests -> RequestRecord] /\ p \in RequestRecord /\ InOrder(p)
        /\ p.step = "begin" /\ p.answer = 0
        /\ deleted \subseteq Ids
    BY TypesNamed, PartsNamed DEF IInv, InOrder, Begin, IdsOf, RowRecord
  <1>2. /\ x \in TxRecord /\ x.gone = deleted \intersect Range(p.parents)
    BY <1>1 DEF NoTx, TxRecord
  <1>3. LeavesTx(r, x)
    <2>1. tx' = [tx EXCEPT ![r] = x] /\ UNCHANGED <<rows, deleted, outbox, lost>>
      BY DEF Begin, tables
    <2> HIDE DEF x
    <2> QED BY <1>2, <2>1 DEF LeavesTx
  <1>4. s \in Steps /\ 0 \in Positions
    BY DEF Steps, Positions
  <1>5. Moved(r, s, 0)
    BY DEF Begin, Moved
  <1> HIDE DEF x, s
  <1>6. PICK q \in RequestRecord :
           /\ request' = [request EXCEPT ![r] = q] /\ SameRequest(q, p)
           /\ q.step = s /\ q.looked = 0 /\ q.answer = p.answer
    BY <1>1, <1>4, <1>5, MoveOn
  <1>7. InOrder(q)
    <2>1. p.parents # <<>> => Len(p.parents) > 0
      BY <1>1, EmptySeq, LenProperties DEF RequestRecord, Lists
    <2> QED BY <1>1, <1>6, <2>1 DEF InOrder, SameRequest, s
  <1>8. Written(r, q, x) /\ GoneFound(q, x)
    <2>1. q.step \in {"check", "write"}
          /\ (q.step = "write" => q.kind \notin {"subscription", "intent"})
      BY <1>6 DEF s, SameRequest
    <2> QED BY <1>2, <1>6, <2>1 DEF Written, GoneFound, SameRequest
  <1>9. OverOf(q) >= OverOf(p)
    BY <1>1, <1>6, NumbersTyped DEF OverOf, SameRequest, RequestRecord, Attempts, s
  <1>10. MovesTo(r, q, x)
    BY <1>1, <1>3, <1>6, <1>7, <1>8, <1>9 DEF MovesTo, LeavesTx, SameRequest
  <1> QED BY <1>10, RequestMoves

(* The service builds and inserts what the request asks for. *)
LEMMA KeepsWrite ==
  ASSUME IInv, NEW r \in Requests, request[r].step = "write",
         NEW made \in SUBSET RowRecord, NEW announced \in SUBSET Ids,
         \E row \in made : row.id = Id(r, request[r].kind),
         \A row \in made : \E kind \in Makes(r) : row.id = Id(r, kind),
         announced = {id \in IdsOf(made) : id[1] \in Announced},
         Write(r, made, announced)
  PROVE  IInv'
  <1> DEFINE p == request[r]
             x == [tx[r] EXCEPT !.rows = made, !.events = announced]
             id == Id(r, p.kind)
  <1>1. /\ request \in [Requests -> RequestRecord] /\ p \in RequestRecord /\ InOrder(p)
        /\ p.step = "write" /\ p.answer = 0
        /\ tx \in [Requests -> TxRecord] /\ tx[r] \in TxRecord
        /\ tx[r].gone \subseteq deleted /\ GoneFound(p, tx[r])
    BY TypesNamed, PartsNamed DEF IInv, InOrder
  <1>2. /\ x \in TxRecord /\ x.rows = made /\ x.events = announced /\ x.gone = tx[r].gone
    BY <1>1 DEF TxRecord
  <1>3. LeavesTx(r, x)
    <2>1. tx' = [tx EXCEPT ![r] = x]
      BY <1>1 DEF Write
    <2>2. UNCHANGED <<rows, deleted, outbox, lost>>
      BY DEF Write, tables
    <2> HIDE DEF x
    <2> QED BY <1>1, <1>2, <2>1, <2>2 DEF LeavesTx
  <1>4. id \in Built /\ "commit" \in Steps /\ id = <<p.kind, r, p.attempt>>
    <2>1. p.kind \in Kinds /\ p.attempt \in 1..MaxAttempts
      BY <1>1 DEF RequestRecord, Asked, Attempts
    <2>2. id = <<p.kind, r, p.attempt>>
      BY DEF Id
    <2> QED BY <2>1, <2>2, IdTyped DEF Built, Steps
  <1>5. Numbered(r, "commit", id)
    BY DEF Write, Numbered
  <1> HIDE DEF x, id
  <1>6. PICK q \in RequestRecord :
           /\ request' = [request EXCEPT ![r] = q]
           /\ q.kind = p.kind /\ q.parents = p.parents
           /\ q.attempt = p.attempt /\ q.answer = p.answer
           /\ q.step = "commit" /\ q.built = id
    BY <1>1, <1>4, <1>5, Builds
  <1>7. InOrder(q)
    BY <1>1, <1>6 DEF InOrder
  <1>8. Written(r, q, x)
    <2>1. \A kind : Id(r, kind) = <<kind, r, q.attempt>>
      BY <1>6 DEF Id
    <2>2. Makes(r) = MakesOf(q)
      BY <1>6 DEF Makes, MakesOf
    <2>3. /\ q.built = <<q.kind, r, q.attempt>>
          /\ \E row \in x.rows : row.id = <<q.kind, r, q.attempt>>
          /\ \A row \in x.rows : \E kind \in MakesOf(q) : row.id = <<kind, r, q.attempt>>
      BY <1>2, <1>4, <1>6, <2>1, <2>2
    <2>4. x.events = {e \in IdsOf(x.rows) : e[1] \in Announced}
      BY <1>2
    <2> QED BY <2>3, <2>4 DEF Written
  <1>9. GoneFound(q, x)
    BY <1>1, <1>2, <1>6 DEF GoneFound
  <1>10. OverOf(q) >= OverOf(p)
    BY <1>1, <1>6, NumbersTyped DEF OverOf, RequestRecord, Attempts
  <1>11. q.answer # 201 /\ p.answer # 201
    BY <1>1, <1>6
  <1>12. MovesTo(r, q, x)
    BY <1>3, <1>6, <1>7, <1>8, <1>9, <1>10, <1>11 DEF MovesTo, LeavesTx
  <1> QED BY <1>12, RequestMoves

LEMMA KeepsCreate ==
  ASSUME IInv, NEW r \in Requests,
         \/ CreateProduct(r) \/ CreatePrice(r) \/ CreateCustomer(r)
         \/ CreateEndpoint(r) \/ CreatePaymentIntent(r) \/ CreateSubscription(r)
  PROVE  IInv'
  <1> DEFINE p == request[r]
  <1>1. p \in RequestRecord /\ p.parents \in Seq(Ids) /\ p.attempt \in 1..MaxAttempts
    BY TypesNamed DEF IInv, RequestRecord, Lists, Attempts
  <1>2. \A kind \in Kinds : Id(r, kind) \in Ids /\ Id(r, kind)[1] = kind
    BY <1>1, IdTyped DEF Id
  <1>3. \A kind \in Kinds, parents \in Seq(Ids) :
          Row(Id(r, kind), parents) \in RowRecord /\ Row(Id(r, kind), parents).id = Id(r, kind)
    BY <1>2 DEF Row, RowRecord
  <1>4. <<>> \in Seq(Ids)
    OBVIOUS
  <1>5. ASSUME NEW kind \in Kinds, NEW parents \in Seq(Ids), p.step = "write", p.kind = kind,
               NEW made, made = {Row(Id(r, kind), parents)},
               NEW announced, announced = IF kind \in Announced THEN {Id(r, kind)} ELSE {},
               Write(r, made, announced)
        PROVE  IInv'
    <2> DEFINE row == Row(Id(r, kind), parents)
    <2>1. row \in RowRecord /\ row.id = Id(r, kind)
      BY <1>3
    <2> HIDE DEF row
    <2>2. made = {row}
      BY <1>5 DEF row
    <2>3. IdsOf(made) = {Id(r, kind)}
      BY <2>1, <2>2 DEF IdsOf
    <2>4. announced = {id \in IdsOf(made) : id[1] \in Announced} /\ announced \in SUBSET Ids
      BY <1>2, <1>5, <2>3
    <2>5. /\ made \in SUBSET RowRecord
          /\ \E o \in made : o.id = Id(r, p.kind)
          /\ \A o \in made : \E k \in Makes(r) : o.id = Id(r, k)
      BY <1>5, <2>1, <2>2 DEF Makes
    <2> QED BY <1>5, <2>4, <2>5, KeepsWrite
  <1>6. CASE CreateProduct(r)
    BY <1>4, <1>5, <1>6 DEF CreateProduct, At, NewProduct, Kinds, Announced
  <1>7. CASE CreatePrice(r)
    BY <1>1, <1>5, <1>7 DEF CreatePrice, At, NewPrice, Kinds, Announced
  <1>8. CASE CreateEndpoint(r)
    BY <1>1, <1>5, <1>8 DEF CreateEndpoint, At, NewWebhookEndpoint, Kinds, Announced
  <1>9. CASE CreatePaymentIntent(r)
    BY <1>1, <1>5, <1>9 DEF CreatePaymentIntent, At, NewPaymentIntent, Kinds, Announced
  <1>10. CASE CreateCustomer(r)
    BY <1>4, <1>5, <1>10 DEF CreateCustomer, At, NewCustomer, Kinds, Announced
  <1>11. CASE CreateSubscription(r)
    <2> DEFINE s == NewSubscription(r)
               i == NewInvoice(r)
               made == {s, i}
    <2>1. "subscription" \in Kinds /\ "invoice" \in Kinds
      BY DEF Kinds
    <2>2. /\ s \in RowRecord /\ s.id = Id(r, "subscription")
          /\ i \in RowRecord /\ i.id = Id(r, "invoice")
      <3>1. <<Id(r, "subscription")>> \in Seq(Ids)
        BY <1>2, <2>1
      <3> QED BY <1>1, <1>3, <2>1, <3>1 DEF NewSubscription, NewInvoice
    <2>3. p.step = "write" /\ p.kind = "subscription" /\ Write(r, made, IdsOf(made))
      BY <1>11 DEF CreateSubscription, At
    <2> HIDE DEF s, i
    <2>4. IdsOf(made) = {Id(r, "subscription"), Id(r, "invoice")}
      BY <2>2 DEF IdsOf
    <2>5. IdsOf(made) = {id \in IdsOf(made) : id[1] \in Announced} /\ IdsOf(made) \in SUBSET Ids
      BY <1>2, <2>1, <2>4 DEF Announced
    <2>6. /\ made \in SUBSET RowRecord
          /\ \E o \in made : o.id = Id(r, p.kind)
          /\ \A o \in made : \E k \in Makes(r) : o.id = Id(r, k)
      BY <2>2, <2>3 DEF Makes
    <2> HIDE DEF made
    <2> QED BY <2>3, <2>5, <2>6, KeepsWrite
  <1> QED BY <1>6, <1>7, <1>8, <1>9, <1>10, <1>11

(* Nothing is done but that the request waits to be repeated. *)
LEMMA KeepsBackoff ==
  ASSUME IInv, NEW r \in Requests, request[r].step \in {"begin", "check", "write", "commit"},
         request[r].attempt < MaxAttempts, Stepped(r, "backoff"), NEW x, LeavesTx(r, x)
  PROVE  IInv'
  <1> DEFINE p == request[r]
  <1>1. /\ request \in [Requests -> RequestRecord] /\ p \in RequestRecord /\ InOrder(p)
        /\ p.answer = 0
    BY TypesNamed, PartsNamed DEF IInv, InOrder
  <1>2. "backoff" \in Steps
    BY DEF Steps
  <1>3. PICK q \in RequestRecord :
           /\ request' = [request EXCEPT ![r] = q] /\ SameRequest(q, p)
           /\ q.step = "backoff" /\ q.answer = p.answer
    BY <1>1, <1>2, MoveTo
  <1>4. InOrder(q)
    BY <1>1, <1>3 DEF InOrder, SameRequest
  <1>5. Written(r, q, x) /\ GoneFound(q, x)
    BY <1>3 DEF Written, GoneFound
  <1>6. OverOf(q) >= OverOf(p)
    BY <1>1, <1>3, NumbersTyped DEF OverOf, SameRequest, RequestRecord, Attempts
  <1>7. q.answer # 201 /\ p.answer # 201 /\ q.kind = p.kind
    BY <1>1, <1>3 DEF SameRequest
  <1>8. MovesTo(r, q, x)
    BY <1>3, <1>4, <1>5, <1>6, <1>7 DEF MovesTo, LeavesTx
  <1> QED BY <1>8, RequestMoves

LEMMA NoTxLeft ==
  ASSUME IInv, NEW r \in Requests, tx' = [tx EXCEPT ![r] = NoTx], UNCHANGED <<tables, lost>>
  PROVE  LeavesTx(r, NoTx)
  BY DEF LeavesTx, NoTx, TxRecord, tables

LEMMA KeepsFails ==
  ASSUME IInv, NEW r \in Requests, NEW retryable \in BOOLEAN, Fails(r, retryable)
  PROVE  IInv'
  <1>1. LeavesTx(r, NoTx)
    BY NoTxLeft DEF Fails
  <1>2. request[r].step \in {"begin", "check", "write"} /\ Retry(r, retryable)
    BY DEF Fails
  <1>3. CASE request[r].attempt < MaxAttempts /\ Stepped(r, "backoff")
    BY <1>1, <1>2, <1>3, KeepsBackoff
  <1>4. CASE Answer(r, 500)
    <2>1. 500 \in {404, 500} /\ request[r].step \notin {"new", "done"}
      BY <1>2
    <2> QED BY <1>1, <1>4, <2>1, KeepsError
  <1> QED BY <1>2, <1>3, <1>4 DEF Retry, Stepped

LEMMA KeepsCancelled ==
  ASSUME IInv, NEW r \in Requests, LookUpFails(r) \/ Cancelled(r)
  PROVE  IInv'
  <1>1. /\ 500 \in {404, 500} /\ request[r].step \notin {"new", "done"}
        /\ Answer(r, 500) /\ UNCHANGED <<tables, tx, lost>>
    BY DEF LookUpFails, Cancelled
  <1>2. LeavesTx(r, tx[r])
    BY <1>1, TxUntouched
  <1> QED BY <1>1, <1>2, KeepsError

LEMMA KeepsBackoffEnds ==
  ASSUME IInv, NEW r \in Requests, BackoffEnds(r)
  PROVE  IInv'
  <1> DEFINE p == request[r]
             n == p.attempt + 1
             x == tx[r]
  <1>1. /\ request \in [Requests -> RequestRecord] /\ p \in RequestRecord /\ InOrder(p)
        /\ p.step = "backoff" /\ p.answer = 0 /\ p.attempt < MaxAttempts
    BY TypesNamed, PartsNamed DEF IInv, InOrder, BackoffEnds
  <1>2. "begin" \in Steps /\ n \in Attempts
    BY <1>1, NumbersTyped DEF Steps, Attempts, RequestRecord
  <1>3. Repeated(r, "begin", n)
    BY DEF BackoffEnds, Repeated
  <1>4. LeavesTx(r, x)
    BY TxUntouched DEF BackoffEnds
  <1> HIDE DEF n, x
  <1>5. PICK q \in RequestRecord :
           /\ request' = [request EXCEPT ![r] = q]
           /\ q.kind = p.kind /\ q.parents = p.parents
           /\ q.built = p.built /\ q.answer = p.answer
           /\ q.step = "begin" /\ q.attempt = n
    BY <1>1, <1>2, <1>3, Repeats
  <1>6. InOrder(q)
    BY <1>1, <1>5 DEF InOrder
  <1>7. Written(r, q, x) /\ GoneFound(q, x)
    BY <1>5 DEF Written, GoneFound
  <1>8. OverOf(q) >= OverOf(p)
    BY <1>1, <1>5, NumbersTyped DEF OverOf, RequestRecord, Attempts, n
  <1>9. q.answer # 201 /\ p.answer # 201
    BY <1>1, <1>5
  <1>10. MovesTo(r, q, x)
    BY <1>4, <1>5, <1>6, <1>7, <1>8, <1>9 DEF MovesTo, LeavesTx
  <1> QED BY <1>10, RequestMoves

-----------------------------------------------------------------------------
(* What r's transaction has written takes effect, and r goes on as q: it   *)
(* is answered with 201, or the commit counts as lost.                     *)
Applies(r, q) ==
    /\ request[r].step = "commit"
    /\ q \in RequestRecord /\ SameRequest(q, request[r])
    /\ request' = [request EXCEPT ![r] = q]
    /\ \/ q.step = "backoff" /\ q.answer = 0 /\ q.attempt < MaxAttempts
       \/ q.step = "done" /\ q.answer \in {201, 500}
    /\ rows' = rows \union tx[r].rows
    /\ outbox' = outbox \union tx[r].events
    /\ deleted' = deleted
    /\ tx' = [tx EXCEPT ![r] = NoTx]
    /\ lost' = IF q.answer = 201 THEN lost ELSE [lost EXCEPT ![r] = lost[r] + 1]

(* The ids that come in, id among them, are of the attempt under way, so   *)
(* they are new.                                                           *)
ComesIn(r, id, new) ==
    /\ id = <<request[r].kind, r, request[r].attempt>>
    /\ id \in Ids /\ id \in new /\ id \notin IdsOf(rows)
    /\ id[1] = request[r].kind /\ id[2] = r
    /\ \A e \in new : /\ e[1] \in MakesOf(request[r]) /\ e[2] = r /\ e[3] = request[r].attempt
                      /\ e[1] = request[r].kind => e = id
    /\ request[r].built = id
    /\ tx[r].events = {e \in new : e[1] \in Announced}

LEMMA NewIds ==
  ASSUME IInv, NEW r \in Requests, request[r].step = "commit"
  PROVE  \E id : ComesIn(r, id, IdsOf(tx[r].rows))
  <1> DEFINE p == request[r]
             id == <<p.kind, r, p.attempt>>
             new == IdsOf(tx[r].rows)
  <1>1. /\ p \in RequestRecord /\ Written(r, p, tx[r]) /\ tx[r] \in TxRecord
        /\ p.kind \in Kinds /\ p.attempt \in 1..MaxAttempts
    BY TypesNamed, PartsNamed DEF IInv, RequestRecord, Asked, Attempts
  <1>2. /\ p.built = id
        /\ \E row \in tx[r].rows : row.id = id
        /\ \A row \in tx[r].rows : \E kind \in MakesOf(p) : row.id = <<kind, r, p.attempt>>
        /\ tx[r].events = {e \in new : e[1] \in Announced}
    BY <1>1 DEF Written
  <1>3. id \in Ids /\ id \in new
    BY <1>1, <1>2, IdTyped DEF IdsOf
  <1>4. \A e \in new : /\ e[1] \in MakesOf(p) /\ e[2] = r /\ e[3] = p.attempt
                       /\ e[1] = p.kind => e = id
    <2> TAKE e \in new
    <2>1. PICK kind \in MakesOf(p) : e = <<kind, r, p.attempt>>
      BY <1>2 DEF IdsOf
    <2> QED BY <2>1
  <1>5. id \notin IdsOf(rows)
    <2> SUFFICES ASSUME NEW row \in rows, row.id = id PROVE FALSE
      BY DEF IdsOf
    <2>1. row.id[2] = r /\ row.id[3] = p.attempt
      OBVIOUS
    <2>2. row.id[3] <= Over(r)
      BY <2>1 DEF IInv, RowsOfAttemptsOver
    <2>3. Over(r) = p.attempt - 1
      BY DEF Over
    <2> QED BY <1>1, <2>1, <2>2, <2>3, NumbersTyped
  <1>6. id = <<p.kind, r, p.attempt>> /\ id[1] = p.kind /\ id[2] = r
    OBVIOUS
  <1> HIDE DEF id, new
  <1>7. tx[r].events = {e \in new : e[1] \in Announced} /\ p.built = id
    BY <1>2
  <1>8. ComesIn(r, id, new)
    BY <1>3, <1>4, <1>5, <1>6, <1>7 DEF ComesIn
  <1> QED BY <1>8 DEF new

LEMMA KeepsApplies ==
  ASSUME IInv, NEW r \in Requests, NEW q, Applies(r, q)
  PROVE  IInv'
  <1> USE NumbersTyped
  <1> DEFINE p == request[r]
             new == IdsOf(tx[r].rows)
             grown == IdsOf(rows) \union new
  <1>1. /\ rows \subseteq RowRecord /\ deleted \subseteq IdsOf(rows) /\ outbox \subseteq Ids
        /\ request \in [Requests -> RequestRecord] /\ tx \in [Requests -> TxRecord]
        /\ lost \in [Requests -> 0..MaxAttempts]
        /\ p \in RequestRecord /\ tx[r] \in TxRecord /\ InOrder(p)
    BY TypesNamed, PartsNamed DEF IInv
  <1>2. /\ p.step = "commit" /\ q \in RequestRecord /\ q.kind = p.kind /\ q.parents = p.parents
        /\ q.attempt = p.attempt /\ q.built = p.built
        /\ q.step \in {"backoff", "done"} /\ (q.step = "backoff" => q.attempt < MaxAttempts)
        /\ q.answer \in {0, 201, 500} /\ (q.step # "done" => q.answer = 0)
    BY DEF Applies, SameRequest
  <1>3. PICK id : ComesIn(r, id, new)
    BY <1>2, NewIds
  <1>4. /\ id \in Ids /\ id \in new /\ id \notin IdsOf(rows) /\ id[1] = p.kind /\ id[2] = r
        /\ \A e \in new : /\ e[1] \in MakesOf(p) /\ e[2] = r /\ e[3] = p.attempt
                          /\ e[1] = p.kind => e = id
        /\ p.built = id
        /\ tx[r].events = {e \in new : e[1] \in Announced}
    BY <1>3 DEF ComesIn
  <1>5. /\ rows' = rows \union tx[r].rows /\ deleted' = deleted
        /\ outbox' = outbox \union tx[r].events
    BY DEF Applies
  <1>6. IdsOf(rows)' = grown
    BY <1>5 DEF IdsOf
  <1>7. /\ request'[r] = q /\ tx'[r] = NoTx
        /\ \A o \in Requests \ {r} : request'[o] = request[o] /\ tx'[o] = tx[o] /\ lost'[o] = lost[o]
        /\ lost'[r] = IF q.answer = 201 THEN lost[r] ELSE lost[r] + 1
    BY <1>1 DEF Applies
  <1>8. /\ lost[r] \in Nat /\ lost[r] <= p.attempt - 1 /\ p.attempt \in 1..MaxAttempts
        /\ OverOf(p) = p.attempt - 1 /\ OverOf(q) = p.attempt
    <2>1. lost[r] <= Over(r)
      BY DEF IInv, RowsOfAttemptsOver
    <2>2. Over(r) = p.attempt - 1
      BY <1>2 DEF Over
    <2> QED BY <1>1, <1>2, <2>1, <2>2 DEF OverOf, RequestRecord, Attempts
  <1>9. TypeOK'
    <2>1. rows' \subseteq RowRecord /\ outbox' \subseteq Ids /\ deleted' \subseteq IdsOf(rows)'
      BY <1>1, <1>5, <1>6 DEF TxRecord
    <2>2. request' \in [Requests -> RequestRecord]
      BY <1>1, <1>2 DEF Applies
    <2>3. tx' \in [Requests -> TxRecord]
      BY <1>1 DEF Applies, NoTx, TxRecord
    <2>4. lost' \in [Requests -> 0..MaxAttempts]
      <3>1. lost[r] + 1 \in 0..MaxAttempts
        BY <1>8
      <3> QED BY <1>1, <3>1 DEF Applies
    <2> QED BY <2>1, <2>2, <2>3, <2>4, TypesNamedNext
  <1>10. \A o \in Requests : InOrder(request'[o]) /\ Written(o, request'[o], tx'[o])
                             /\ tx'[o].gone \subseteq deleted' /\ GoneFound(request'[o], tx'[o])
    <2> SUFFICES ASSUME NEW o \in Requests
                 PROVE  InOrder(request'[o]) /\ Written(o, request'[o], tx'[o])
                        /\ tx'[o].gone \subseteq deleted' /\ GoneFound(request'[o], tx'[o])
      OBVIOUS
    <2>1. CASE o # r
      BY <1>5, <1>7, <2>1, PartsNamed DEF IInv
    <2>2. CASE o = r
      <3>1. InOrder(q)
        BY <1>1, <1>2 DEF InOrder
      <3>2. Written(r, q, NoTx) /\ GoneFound(q, NoTx) /\ NoTx.gone = {}
        BY <1>2 DEF Written, GoneFound, NoTx
      <3> QED BY <1>7, <2>2, <3>1, <3>2
    <2> QED BY <2>1, <2>2
  <1>11. RequestsInOrder' /\ WrittenTogether' /\ GoneIsFound'
    BY <1>10, PartsNamedNext
  <1>12. \A e \in grown : e[2] \in Requests =>
            e[1] \in MakesOf(request'[e[2]]) /\ e[3] <= OverOf(request'[e[2]])
    <2> SUFFICES ASSUME NEW e \in grown, e[2] \in Requests
                 PROVE  e[1] \in MakesOf(request'[e[2]]) /\ e[3] <= OverOf(request'[e[2]])
      OBVIOUS
    <2>0. MakesOf(q) = MakesOf(p)
      BY <1>2 DEF MakesOf
    <2>1. CASE e \in new
      BY <1>4, <1>7, <1>8, <2>0, <2>1
    <2>2. CASE e \in IdsOf(rows)
      <3>1. e[1] \in MakesOf(request[e[2]]) /\ e[3] <= OverOf(request[e[2]])
        BY <2>2, PartsNamed DEF IInv, RowsOfAttemptsOver, IdsOf
      <3>2. e[3] \in Nat
        BY <1>1, <2>2, IdParts DEF IdsOf, RowRecord
      <3>3. CASE e[2] # r
        BY <1>7, <3>1, <3>3
      <3>4. CASE e[2] = r
        BY <1>7, <1>8, <2>0, <3>1, <3>2, <3>4
      <3> QED BY <3>3, <3>4
    <2> QED BY <2>1, <2>2
  <1> HIDE DEF new, grown, p
  <1>13. ASSUME NEW o \in Requests
         PROVE  MadeBy(o)' = IF o = r THEN MadeBy(r) \union {id} ELSE MadeBy(o)
    <2>1. MadeBy(o)' = {e \in grown : e[1] = request'[o].kind /\ e[2] = o}
      BY <1>6 DEF MadeBy, Of
    <2>2. MadeBy(o) = {e \in IdsOf(rows) : e[1] = request[o].kind /\ e[2] = o}
      BY DEF MadeBy, Of
    <2>3. CASE o # r
      BY <1>4, <1>7, <2>1, <2>2, <2>3 DEF grown
    <2>4. CASE o = r
      BY <1>2, <1>4, <1>7, <2>1, <2>2, <2>4 DEF grown, p
    <2> QED BY <2>3, <2>4
  <1>14. /\ IsFiniteSet(MadeBy(r) \union {id})
         /\ Cardinality(MadeBy(r) \union {id}) = Cardinality(MadeBy(r)) + 1
    <2>1. IsFiniteSet(MadeBy(r)) /\ id \notin MadeBy(r)
      BY <1>4 DEF IInv, RowsOfAttemptsOver, MadeBy, Of
    <2> QED BY <2>1, FS_AddElement
  <1>15. RowsOfAttemptsOver'
    <2>1. ASSUME NEW row \in rows', row.id[2] \in Requests
          PROVE  row.id[1] \in Makes(row.id[2])' /\ row.id[3] <= Over(row.id[2])'
      <3>1. row.id \in grown
        BY <1>5 DEF grown, new, IdsOf
      <3> QED BY <1>12, <2>1, <3>1, PartsNamedNext
    <2>2. ASSUME NEW o \in Requests
          PROVE  lost'[o] <= Over(o)' /\ IsFiniteSet(MadeBy(o)')
      <3>1. lost[o] <= OverOf(request[o]) /\ IsFiniteSet(MadeBy(o))
        BY PartsNamed DEF IInv, RowsOfAttemptsOver
      <3>2. CASE o # r
        BY <1>7, <1>13, <3>1, <3>2, PartsNamedNext
      <3>3. CASE o = r
        <4>1. lost'[r] <= lost[r] + 1
          BY <1>7, <1>8
        <4>2. Over(r)' = p.attempt
          BY <1>7, <1>8, PartsNamedNext
        <4>3. lost'[r] \in Nat /\ lost'[r] <= Over(r)'
          BY <1>7, <1>8, <4>1, <4>2
        <4>4. IsFiniteSet(MadeBy(r)')
          BY <1>13, <1>14
        <4> QED BY <3>3, <4>3, <4>4
      <3> QED BY <3>2, <3>3
    <2> QED BY <2>1, <2>2 DEF RowsOfAttemptsOver
  <1>16. RowsAreAccountedFor'
    <2> SUFFICES ASSUME NEW o \in Requests
                 PROVE  Cardinality(MadeBy(o)') = lost'[o] + IF request'[o].answer = 201 THEN 1 ELSE 0
      BY DEF RowsAreAccountedFor
    <2>1. Cardinality(MadeBy(o)) = lost[o] + IF request[o].answer = 201 THEN 1 ELSE 0
      BY DEF IInv, RowsAreAccountedFor
    <2>2. CASE o # r
      BY <1>7, <1>13, <2>1, <2>2
    <2>3. CASE o = r
      <3>1. request[r].answer = 0
        BY <1>1, <1>2 DEF InOrder, p
      <3>2. Cardinality(MadeBy(r)) = lost[r]
        BY <1>8, <2>1, <2>3, <3>1
      <3>3. Cardinality(MadeBy(r)') = lost[r] + 1
        BY <1>13, <1>14, <3>2
      <3>4. lost'[r] + (IF request'[r].answer = 201 THEN 1 ELSE 0) = lost[r] + 1
        BY <1>7, <1>8
      <3> QED BY <2>3, <3>3, <3>4
    <2> QED BY <2>2, <2>3
  <1>17. AnswerNamesRow'
    <2> SUFFICES ASSUME NEW o \in Requests, request'[o].answer = 201
                 PROVE  request'[o].built \in grown
      BY <1>6 DEF AnswerNamesRow
    <2>1. CASE o # r
      BY <1>7, <2>1 DEF IInv, AnswerNamesRow, grown
    <2>2. CASE o = r
      BY <1>2, <1>4, <1>7, <2>2 DEF grown
    <2> QED BY <2>1, <2>2
  <1>18. EventsMatchRows'
    <2>1. \A kind : Of(kind)' = {e \in grown : e[1] = kind}
      BY <1>6 DEF Of
    <2>2. outbox = {e \in IdsOf(rows) : e[1] \in Announced}
      BY DEF IInv, EventsMatchRows, Of, Announced
    <2>3. outbox' = {e \in grown : e[1] \in Announced}
      BY <1>4, <1>5, <2>2 DEF grown
    <2> QED BY <2>1, <2>3 DEF EventsMatchRows, Announced
  <1> QED BY <1>9, <1>11, <1>15, <1>16, <1>17, <1>18 DEF IInv

LEMMA KeepsCommit ==
  ASSUME IInv, NEW r \in Requests, Commit(r)
  PROVE  IInv'
  <1>1. request \in [Requests -> RequestRecord] /\ 201 \in {201, 404, 500}
    BY TypesNamed DEF IInv
  <1>2. /\ request[r].step = "commit" /\ Answer(r, 201) /\ tx' = [tx EXCEPT ![r] = NoTx]
        /\ rows' = rows \union tx[r].rows /\ outbox' = outbox \union tx[r].events
        /\ deleted' = deleted /\ lost' = lost
    BY DEF Commit, Applied
  <1>3. PICK q \in RequestRecord :
           /\ request' = [request EXCEPT ![r] = q] /\ SameRequest(q, request[r])
           /\ q.step = "done" /\ q.answer = 201
    BY <1>1, <1>2, AnswerIs
  <1>4. Applies(r, q)
    BY <1>2, <1>3 DEF Applies
  <1> QED BY <1>4, KeepsApplies

LEMMA KeepsCommitFails ==
  ASSUME IInv, NEW r \in Requests, NEW retryable \in BOOLEAN, CommitFails(r, retryable)
  PROVE  IInv'
  <1>1. /\ request \in [Requests -> RequestRecord] /\ request[r] \in RequestRecord
        /\ InOrder(request[r])
    BY TypesNamed, PartsNamed DEF IInv
  <1>2. /\ request[r].step = "commit" /\ Retry(r, retryable) /\ tx' = [tx EXCEPT ![r] = NoTx]
        /\ request[r].answer = 0
    BY <1>1 DEF CommitFails, InOrder
  <1>3. \/ request[r].attempt < MaxAttempts /\ Stepped(r, "backoff")
        \/ Answer(r, 500)
    BY <1>2 DEF Retry, Stepped
  <1>4. CASE UNCHANGED <<tables, lost>>
    <2>1. LeavesTx(r, NoTx)
      BY <1>2, <1>4, NoTxLeft
    <2>2. CASE request[r].attempt < MaxAttempts /\ Stepped(r, "backoff")
      BY <1>2, <2>1, <2>2, KeepsBackoff
    <2>3. CASE Answer(r, 500)
      <3>1. 500 \in {404, 500} /\ request[r].step \notin {"new", "done"}
        BY <1>2
      <3> QED BY <2>1, <2>3, <3>1, KeepsError
    <2> QED BY <1>3, <2>2, <2>3
  <1>5. CASE Applied(r) /\ lost' = [lost EXCEPT ![r] = @ + 1]
    <2>1. /\ rows' = rows \union tx[r].rows /\ outbox' = outbox \union tx[r].events
          /\ deleted' = deleted /\ lost' = [lost EXCEPT ![r] = lost[r] + 1]
      BY <1>5 DEF Applied
    <2>2. PICK q \in RequestRecord :
             /\ request' = [request EXCEPT ![r] = q] /\ SameRequest(q, request[r])
             /\ \/ q.step = "backoff" /\ q.answer = 0 /\ request[r].attempt < MaxAttempts
                \/ q.step = "done" /\ q.answer = 500
      <3>1. CASE request[r].attempt < MaxAttempts /\ Stepped(r, "backoff")
        <4>1. "backoff" \in Steps
          BY DEF Steps
        <4>2. PICK q \in RequestRecord :
                 /\ request' = [request EXCEPT ![r] = q] /\ SameRequest(q, request[r])
                 /\ q.step = "backoff" /\ q.answer = request[r].answer
          BY <1>1, <3>1, <4>1, MoveTo
        <4> QED BY <1>2, <3>1, <4>2
      <3>2. CASE Answer(r, 500)
        <4>1. 500 \in {201, 404, 500}
          OBVIOUS
        <4> QED BY <1>1, <3>2, <4>1, AnswerIs
      <3> QED BY <1>3, <3>1, <3>2
    <2>3. q.attempt = request[r].attempt
      BY <2>2 DEF SameRequest
    <2>4. Applies(r, q)
      BY <1>2, <2>1, <2>2, <2>3 DEF Applies
    <2> QED BY <2>4, KeepsApplies
  <1> QED BY <1>4, <1>5 DEF CommitFails

LEMMA KeepsDelete ==
  ASSUME IInv, NEW id \in IdsOf(rows), SoftDelete(id)
  PROVE  IInv'
  <1>1. /\ deleted' = deleted \union {id}
        /\ rows' = rows /\ outbox' = outbox /\ request' = request /\ tx' = tx /\ lost' = lost
    BY DEF SoftDelete
  <1>2. TypeOK'
    <2>1. IdsOf(rows)' = IdsOf(rows)
      BY <1>1 DEF IdsOf
    <2> QED BY <1>1, <2>1, TypesNamed, TypesNamedNext DEF IInv
  <1>3. RequestsInOrder' /\ WrittenTogether' /\ GoneIsFound'
    BY <1>1, PartsNamed, PartsNamedNext DEF IInv
  <1>4. /\ \A kind : Of(kind)' = Of(kind)
        /\ \A r \in Requests : MadeBy(r)' = MadeBy(r) /\ Over(r)' = Over(r) /\ Makes(r)' = Makes(r)
    BY <1>1 DEF Of, MadeBy, IdsOf, Over, Makes
  <1>5. RowsOfAttemptsOver' /\ RowsAreAccountedFor' /\ AnswerNamesRow' /\ EventsMatchRows'
    <2>1. RowsOfAttemptsOver'
      BY <1>1, <1>4 DEF IInv, RowsOfAttemptsOver
    <2>2. RowsAreAccountedFor'
      BY <1>1, <1>4 DEF IInv, RowsAreAccountedFor
    <2>3. AnswerNamesRow' /\ EventsMatchRows'
      BY <1>1, <1>4 DEF IInv, AnswerNamesRow, EventsMatchRows, IdsOf
    <2> QED BY <2>1, <2>2, <2>3
  <1> QED BY <1>2, <1>3, <1>5 DEF IInv

LEMMA KeepsHandle ==
  ASSUME IInv, NEW r \in Requests, Handle(r)
  PROVE  IInv'
  <1>1. CASE ResolveProduct(r) \/ ResolveCustomer(r) \/ ResolveCustomerAndPrice(r) \/ ResolveInvoice(r)
    <2>1. /\ request[r].step = "resolve" /\ LookUp(r, "begin") /\ UNCHANGED <<tables, tx, lost>>
          /\ "begin" \in {"begin", "write"}
      BY <1>1 DEF ResolveProduct, ResolveCustomer, ResolveCustomerAndPrice, ResolveInvoice, At
    <2> QED BY <2>1, KeepsLookUp
  <1>2. CASE Recheck(r)
    <2>1. /\ request[r].step = "check" /\ LookUp(r, "write") /\ UNCHANGED <<tables, tx, lost>>
          /\ "write" \in {"begin", "write"}
      BY <1>2 DEF Recheck
    <2> QED BY <2>1, KeepsLookUp
  <1>3. CASE LookUpFails(r) \/ Cancelled(r)
    BY <1>3, KeepsCancelled
  <1>4. CASE Begin(r)
    BY <1>4, KeepsBegin
  <1>5. CASE \/ CreateProduct(r) \/ CreatePrice(r) \/ CreateCustomer(r)
             \/ CreateEndpoint(r) \/ CreatePaymentIntent(r) \/ CreateSubscription(r)
    BY <1>5, KeepsCreate
  <1>6. CASE Commit(r)
    BY <1>6, KeepsCommit
  <1>7. ASSUME NEW retryable \in BOOLEAN, Fails(r, retryable) \/ CommitFails(r, retryable)
        PROVE  IInv'
    BY <1>7, KeepsFails, KeepsCommitFails
  <1>8. CASE BackoffEnds(r)
    BY <1>8, KeepsBackoffEnds
  <1> QED BY <1>1, <1>2, <1>3, <1>4, <1>5, <1>6, <1>7, <1>8 DEF Handle

LEMMA KeepsStutter ==
  ASSUME IInv, UNCHANGED vars
  PROVE  IInv'
  <1>1. /\ deleted' = deleted /\ rows' = rows /\ outbox' = outbox
        /\ request' = request /\ tx' = tx /\ lost' = lost
    BY DEF vars
  <1>2. TypeOK'
    <2>1. IdsOf(rows)' = IdsOf(rows)
      BY <1>1 DEF IdsOf
    <2> QED BY <1>1, <2>1, TypesNamed, TypesNamedNext DEF IInv
  <1>3. RequestsInOrder' /\ WrittenTogether' /\ GoneIsFound'
    BY <1>1, PartsNamed, PartsNamedNext DEF IInv
  <1>4. /\ \A kind : Of(kind)' = Of(kind)
        /\ \A r \in Requests : MadeBy(r)' = MadeBy(r) /\ Over(r)' = Over(r) /\ Makes(r)' = Makes(r)
    BY <1>1 DEF Of, MadeBy, IdsOf, Over, Makes
  <1>5. RowsOfAttemptsOver' /\ RowsAreAccountedFor'
    BY <1>1, <1>4 DEF IInv, RowsOfAttemptsOver, RowsAreAccountedFor
  <1>6. AnswerNamesRow' /\ EventsMatchRows'
    BY <1>1, <1>4 DEF IInv, AnswerNamesRow, EventsMatchRows, IdsOf
  <1> QED BY <1>2, <1>3, <1>5, <1>6 DEF IInv

LEMMA NextIInv == IInv /\ [Next]_vars => IInv'
  <1> SUFFICES ASSUME IInv, [Next]_vars PROVE IInv'
    OBVIOUS
  <1>1. ASSUME NEW r \in Requests, Post(r) PROVE IInv'
    BY <1>1, KeepsPost
  <1>2. ASSUME NEW r \in Requests, Handle(r) PROVE IInv'
    BY <1>2, KeepsHandle
  <1>3. CASE Delete
    <2>1. PICK id \in IdsOf(rows) : SoftDelete(id)
      BY <1>3 DEF Delete, DeleteProduct, DeletePrice, DeleteInvoice, DeleteCustomer, Of
    <2> QED BY <2>1, KeepsDelete
  <1>4. CASE UNCHANGED vars
    BY <1>4, KeepsStutter
  <1> QED BY <1>1, <1>2, <1>3, <1>4 DEF Next

-----------------------------------------------------------------------------
(* The inductive invariant holds: beside the four properties below, a       *)
(* request takes its steps in order, only attempts that are over have left  *)
(* rows, a transaction about to commit has written one row of its request's *)
(* kind and the events of what it wrote, and what has been looked up again  *)
(* was there when the transaction began (manager.go:53-127).                *)
THEOREM Inductive == Spec => []IInv
  BY InitIInv, NextIInv, PTL DEF Spec

(* The variables have their types. *)
THEOREM TypeCorrect == Spec => []TypeOK
  <1>1. IInv => TypeOK
    BY DEF IInv
  <1> QED BY Inductive, <1>1, PTL

(* However often the transaction manager repeats a transaction, and whatever *)
(* fails, a request leaves one row of its kind with the answer 201 and none  *)
(* with any other, but for the commits that took effect and were reported as *)
(* errors (manager.go:53-127, billing.go:82).                                *)
THEOREM RowsAccounted == Spec => []RowsAreAccountedFor
  <1>1. IInv => RowsAreAccountedFor
    BY DEF IInv
  <1> QED BY Inductive, <1>1, PTL

(* The entity in the answer 201 is the committed one, of the last attempt *)
(* (product.go:43-60, billing.go:79-150).                                 *)
THEOREM AnswersNameRows == Spec => []AnswerNamesRow
  <1>1. IInv => AnswerNamesRow
    BY DEF IInv
  <1> QED BY Inductive, <1>1, PTL

(* The customers, subscriptions and invoices in the tables are those whose *)
(* creation is in the outbox, however many attempts were rolled back       *)
(* (customer.go:45-66, billing.go:135-144).                                *)
THEOREM EventsMatch == Spec => []EventsMatchRows
  <1>1. IInv => EventsMatchRows
    BY DEF IInv
  <1> QED BY Inductive, <1>1, PTL

(* Rows come from a transaction at its commit and from nothing else. *)
LEMMA RowsComeFromCommits ==
  ASSUME [Next]_vars
  PROVE  \/ rows' = rows
         \/ \E r \in Requests : request[r].step = "commit" /\ rows' = rows \union tx[r].rows
  <1> USE DEF tables
  <1>1. ASSUME NEW r \in Requests, Post(r)
        PROVE  rows' = rows
    BY <1>1 DEF Post, PostCustomer, PostProduct, PostPrice, PostEndpoint, PostIntent,
                PostSubscription, Accept
  <1>2. ASSUME NEW r \in Requests, Handle(r)
        PROVE  rows' = rows \/ (request[r].step = "commit" /\ rows' = rows \union tx[r].rows)
    <2>1. CASE \/ ResolveProduct(r) \/ ResolveCustomer(r) \/ ResolveCustomerAndPrice(r)
               \/ ResolveInvoice(r) \/ Recheck(r)
      BY <2>1 DEF ResolveProduct, ResolveCustomer, ResolveCustomerAndPrice, ResolveInvoice, Recheck
    <2>2. CASE LookUpFails(r) \/ Cancelled(r) \/ Begin(r) \/ BackoffEnds(r)
      BY <2>2 DEF LookUpFails, Cancelled, Begin, BackoffEnds
    <2>3. CASE \/ CreateProduct(r) \/ CreatePrice(r) \/ CreateCustomer(r)
               \/ CreateEndpoint(r) \/ CreatePaymentIntent(r) \/ CreateSubscription(r)
      BY <2>3 DEF CreateProduct, CreatePrice, CreateCustomer, CreateEndpoint,
                  CreatePaymentIntent, CreateSubscription, Write
    <2>4. CASE Commit(r)
      BY <2>4 DEF Commit, Applied
    <2>5. ASSUME NEW retryable \in BOOLEAN, Fails(r, retryable)
          PROVE  rows' = rows
      BY <2>5 DEF Fails
    <2>6. ASSUME NEW retryable \in BOOLEAN, CommitFails(r, retryable)
          PROVE  rows' = rows \/ (request[r].step = "commit" /\ rows' = rows \union tx[r].rows)
      BY <2>6 DEF CommitFails, Applied
    <2> QED BY <1>2, <2>1, <2>2, <2>3, <2>4, <2>5, <2>6 DEF Handle
  <1>3. CASE Delete
    BY <1>3 DEF Delete, DeleteProduct, DeletePrice, DeleteInvoice, DeleteCustomer, SoftDelete
  <1>4. CASE UNCHANGED vars
    BY <1>4 DEF vars
  <1> QED BY <1>1, <1>2, <1>3, <1>4 DEF Next

(* The transaction itself reads the customer and the price, or the invoice, *)
(* so no subscription and no intent is created for one that had been        *)
(* deleted when the transaction began (billing.go:84-92, payment.go:56-59). *)
THEOREM SubscribesToLiveRows == Spec => SubscribedToLiveRows
  <1> DEFINE Live == \A row \in rows' \ rows :
                        row.id[1] \in {"subscription", "intent"} => tx[row.id[2]].gone = {}
  <1>1. IInv /\ [Next]_vars => Live
    <2> SUFFICES ASSUME IInv, [Next]_vars, NEW row \in rows', row \notin rows,
                        row.id[1] \in {"subscription", "intent"}
                 PROVE  tx[row.id[2]].gone = {}
      OBVIOUS
    <2>1. PICK r \in Requests : request[r].step = "commit" /\ row \in tx[r].rows
      BY RowsComeFromCommits
    <2>2. Written(r, request[r], tx[r]) /\ GoneFound(request[r], tx[r])
      BY PartsNamed DEF IInv
    <2>3. PICK kind \in MakesOf(request[r]) : row.id = <<kind, r, request[r].attempt>>
      BY <2>1, <2>2 DEF Written
    <2>4. row.id[2] = r /\ request[r].kind \in {"subscription", "intent"}
      BY <2>3 DEF MakesOf
    <2> QED BY <2>1, <2>2, <2>4 DEF GoneFound
  <1> HIDE DEF Live
  <1>2. Spec => [][Live]_vars
    BY <1>1, Inductive, PTL DEF Spec
  <1> QED BY <1>2 DEF SubscribedToLiveRows, Live
=============================================================================
