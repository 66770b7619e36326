--------------------------- MODULE WebhooksProofs ---------------------------
(***************************************************************************)
(* Webhooks, for every number of calls, endpoints, workers and attempts.   *)
(* Update writes old attempt numbers back and MarkFailed adds one to       *)
(* whatever is there; so every copy, and the row, must stay behind the     *)
(* requests made less the failures that are not recorded yet.              *)
(***************************************************************************)
EXTENDS Webhooks, SequenceTheorems, FiniteSetTheorems, TLAPS

(* An element more, at any place. *)
IsInsertion(l, S, s, i, e) ==
    /\ l \in Seq(S) /\ Len(l) = Len(s) + 1
    /\ \A k \in 1..(Len(s) + 1) : l[k] = IF k < i THEN s[k] ELSE IF k = i THEN e ELSE s[k - 1]

LEMMA InsertAtElements ==
  ASSUME NEW S, NEW s \in Seq(S), NEW e \in S, NEW i \in 1..(Len(s) + 1)
  PROVE  IsInsertion(InsertAt(s, i, e), S, s, i, e)
  <1> DEFINE a == SubSeq(s, 1, i - 1)
             b == <<e>>
             c == SubSeq(s, i, Len(s))
  <1>1. Len(s) \in Nat /\ \A k \in 1..Len(s) : s[k] \in S
    BY LenProperties
  <1>2. /\ a \in Seq(S) /\ Len(a) = i - 1
        /\ \A k \in 1..(i - 1) : a[k] = s[k]
    <2>1. /\ a \in Seq(S) /\ Len(a) = IF 1 <= i - 1 THEN (i - 1) - 1 + 1 ELSE 0
          /\ \A k \in 1..((i - 1) - 1 + 1) : a[k] = s[1 + k - 1]
      <3>1. 1 \in Int /\ i - 1 \in Int /\ \A k \in 1..(i - 1) : s[k] \in S
        BY <1>1
      <3> QED BY <3>1, SubSeqProperties
    <2> QED BY <1>1, <2>1
  <1>3. /\ c \in Seq(S) /\ Len(c) = Len(s) - i + 1
        /\ \A k \in 1..(Len(s) - i + 1) : c[k] = s[i + k - 1]
    <2>1. /\ c \in Seq(S) /\ Len(c) = IF i <= Len(s) THEN Len(s) - i + 1 ELSE 0
          /\ \A k \in 1..(Len(s) - i + 1) : c[k] = s[i + k - 1]
      <3>1. i \in Int /\ Len(s) \in Int /\ \A k \in i..Len(s) : s[k] \in S
        BY <1>1
      <3> QED BY <3>1, SubSeqProperties
    <2> QED BY <1>1, <2>1
  <1>4. b \in Seq(S) /\ Len(b) = 1 /\ b[1] = e
    OBVIOUS
  <1>5. InsertAt(s, i, e) = (a \o b) \o c
    BY DEF InsertAt
  <1> HIDE DEF a, b, c
  <1> DEFINE ab == a \o b
             l == ab \o c
  <1>6. /\ ab \in Seq(S) /\ Len(ab) = i
        /\ \A k \in 1..(i - 1) : ab[k] = a[k]
        /\ ab[i] = e
    <2>1. /\ ab \in Seq(S) /\ Len(ab) = Len(a) + Len(b)
          /\ \A k \in 1..(Len(a) + Len(b)) : ab[k] = IF k <= Len(a) THEN a[k] ELSE b[k - Len(a)]
      BY <1>2, <1>4, ConcatProperties
    <2>2. Len(a) = i - 1 /\ Len(a) + Len(b) = i
      BY <1>2, <1>4
    <2> HIDE DEF ab
    <2>3. \A k \in 1..(i - 1) : ab[k] = a[k]
      BY <2>1, <2>2
    <2>4. ab[i] = b[1]
      <3>1. i \in 1..(Len(a) + Len(b)) /\ ~(i <= Len(a)) /\ i - Len(a) = 1
        BY <2>2
      <3>2. ab[i] = b[i - Len(a)]
        BY <2>1, <3>1
      <3> QED BY <3>1, <3>2
    <2> QED BY <1>4, <2>1, <2>2, <2>3, <2>4
  <1> HIDE DEF ab
  <1>7. /\ l \in Seq(S) /\ Len(l) = Len(s) + 1
        /\ \A k \in 1..(Len(s) + 1) : l[k] = IF k <= i THEN ab[k] ELSE c[k - i]
    <2>1. /\ l \in Seq(S) /\ Len(l) = Len(ab) + Len(c)
          /\ \A k \in 1..(Len(ab) + Len(c)) :
                l[k] = IF k <= Len(ab) THEN ab[k] ELSE c[k - Len(ab)]
      BY <1>3, <1>6, ConcatProperties
    <2>2. Len(ab) = i /\ Len(ab) + Len(c) = Len(s) + 1
      BY <1>1, <1>3, <1>6
    <2> HIDE DEF l
    <2> QED BY <2>1, <2>2
  <1> HIDE DEF l
  <1>8. ASSUME NEW k \in 1..(Len(s) + 1)
        PROVE  l[k] = IF k < i THEN s[k] ELSE IF k = i THEN e ELSE s[k - 1]
    <2>1. CASE k < i
      <3>1. k \in 1..(i - 1)
        BY <2>1
      <3>2. l[k] = ab[k]
        BY <1>7, <2>1
      <3> QED BY <1>2, <1>6, <2>1, <3>1, <3>2
    <2>2. CASE k = i
      <3>1. l[k] = ab[k]
        BY <1>7, <2>2
      <3> QED BY <1>6, <2>2, <3>1
    <2>3. CASE k > i
      <3>1. k - i \in 1..(Len(s) - i + 1) /\ i + (k - i) - 1 = k - 1
        BY <1>1, <2>3
      <3>2. l[k] = c[k - i]
        BY <1>7, <2>3
      <3>3. c[k - i] = s[i + (k - i) - 1]
        BY <1>3, <3>1
      <3>4. s[i + (k - i) - 1] = s[k - 1]
        BY <3>1
      <3> QED BY <2>3, <3>2, <3>3, <3>4
    <2> QED BY <2>1, <2>2, <2>3
  <1>9. InsertAt(s, i, e) = l
    BY <1>5 DEF l, ab
  <1> QED BY <1>7, <1>8, <1>9 DEF IsInsertion

LEMMA InsertNew ==
  ASSUME NEW S, NEW s \in Seq(S), NEW e \in S, NEW i \in 1..(Len(s) + 1),
         IsInjective(s), e \notin Range(s)
  PROVE  /\ InsertAt(s, i, e) \in Seq(S) /\ IsInjective(InsertAt(s, i, e))
         /\ Range(InsertAt(s, i, e)) \subseteq Range(s) \union {e}
  <1> DEFINE l == InsertAt(s, i, e)
             old(k) == IF k < i THEN k ELSE k - 1
  <1>1. /\ l \in Seq(S) /\ Len(l) = Len(s) + 1
        /\ \A k \in 1..(Len(s) + 1) :
              l[k] = IF k < i THEN s[k] ELSE IF k = i THEN e ELSE s[k - 1]
    <2>1. IsInsertion(l, S, s, i, e)
      BY InsertAtElements
    <2> HIDE DEF l
    <2> QED BY <2>1 DEF IsInsertion
  <1>2. Len(s) \in Nat /\ DOMAIN s = 1..Len(s) /\ DOMAIN l = 1..(Len(s) + 1)
    BY <1>1, LenProperties
  <1> HIDE DEF l
  <1>3. \A k \in 1..(Len(s) + 1) :
          IF k = i THEN l[k] = e
          ELSE old(k) \in 1..Len(s) /\ l[k] = s[old(k)] /\ l[k] \in Range(s)
    BY <1>1, <1>2 DEF Range
  <1>4. \A j, k \in 1..(Len(s) + 1) : j # i /\ k # i /\ old(j) = old(k) => j = k
    BY <1>2
  <1>5. \A j, k \in 1..Len(s) : s[j] = s[k] => j = k
    BY <1>2 DEF IsInjective
  <1> HIDE DEF old
  <1>6. \A j, k \in 1..(Len(s) + 1) : l[j] = l[k] => j = k
    BY <1>3, <1>4, <1>5
  <1>7. IsInjective(l)
    BY <1>2, <1>6 DEF IsInjective
  <1>8. Range(l) \subseteq Range(s) \union {e}
    <2> SUFFICES ASSUME NEW k \in 1..(Len(s) + 1) PROVE l[k] \in Range(s) \union {e}
      BY <1>2 DEF Range
    <2> QED BY <1>3
  <1> QED BY <1>1, <1>7, <1>8 DEF l

(* An element less. *)
LEMMA RemoveAtElements ==
  ASSUME NEW S, NEW s \in Seq(S), NEW i \in 1..Len(s)
  PROVE  /\ RemoveAt(s, i) \in Seq(S)
         /\ Len(RemoveAt(s, i)) = Len(s) - 1
         /\ \A k \in 1..(Len(s) - 1) :
              RemoveAt(s, i)[k] = IF k < i THEN s[k] ELSE s[k + 1]
  <1> DEFINE a == SubSeq(s, 1, i - 1)
             c == SubSeq(s, i + 1, Len(s))
  <1>1. Len(s) \in Nat /\ \A k \in 1..Len(s) : s[k] \in S
    BY LenProperties
  <1>2. /\ a \in Seq(S) /\ Len(a) = i - 1
        /\ \A k \in 1..(i - 1) : a[k] = s[k]
    <2>1. /\ a \in Seq(S) /\ Len(a) = IF 1 <= i - 1 THEN (i - 1) - 1 + 1 ELSE 0
          /\ \A k \in 1..((i - 1) - 1 + 1) : a[k] = s[1 + k - 1]
      <3>1. 1 \in Int /\ i - 1 \in Int /\ \A k \in 1..(i - 1) : s[k] \in S
        BY <1>1
      <3> QED BY <3>1, SubSeqProperties
    <2> QED BY <1>1, <2>1
  <1>3. /\ c \in Seq(S) /\ Len(c) = Len(s) - i
        /\ \A k \in 1..(Len(s) - i) : c[k] = s[i + k]
    <2>1. /\ c \in Seq(S)
          /\ Len(c) = IF i + 1 <= Len(s) THEN Len(s) - (i + 1) + 1 ELSE 0
          /\ \A k \in 1..(Len(s) - (i + 1) + 1) : c[k] = s[(i + 1) + k - 1]
      <3>1. i + 1 \in Int /\ Len(s) \in Int /\ \A k \in (i + 1)..Len(s) : s[k] \in S
        BY <1>1
      <3> QED BY <3>1, SubSeqProperties
    <2> QED BY <1>1, <2>1
  <1>4. RemoveAt(s, i) = a \o c
    BY DEF RemoveAt
  <1> HIDE DEF a, c
  <1> DEFINE l == a \o c
  <1>5. /\ l \in Seq(S) /\ Len(l) = Len(s) - 1
        /\ \A k \in 1..(Len(s) - 1) : l[k] = IF k <= i - 1 THEN a[k] ELSE c[k - (i - 1)]
    <2>1. /\ l \in Seq(S) /\ Len(l) = Len(a) + Len(c)
          /\ \A k \in 1..(Len(a) + Len(c)) :
                l[k] = IF k <= Len(a) THEN a[k] ELSE c[k - Len(a)]
      BY <1>2, <1>3, ConcatProperties
    <2>2. Len(a) + Len(c) = Len(s) - 1
      BY <1>1, <1>2, <1>3
    <2> HIDE DEF l
    <2> QED BY <1>2, <2>1, <2>2
  <1> HIDE DEF l
  <1>6. ASSUME NEW k \in 1..(Len(s) - 1)
        PROVE  l[k] = IF k < i THEN s[k] ELSE s[k + 1]
    <2>1. CASE k < i
      <3>1. k \in 1..(i - 1) /\ k <= i - 1
        BY <2>1
      <3> QED BY <1>2, <1>5, <2>1, <3>1
    <2>2. CASE k >= i
      <3>1. k - (i - 1) \in 1..(Len(s) - i) /\ i + (k - (i - 1)) = k + 1 /\ ~(k <= i - 1)
        BY <1>1, <2>2
      <3>2. l[k] = c[k - (i - 1)]
        BY <1>5, <3>1
      <3>3. c[k - (i - 1)] = s[i + (k - (i - 1))]
        BY <1>3, <3>1
      <3>4. s[i + (k - (i - 1))] = s[k + 1]
        BY <3>1
      <3> QED BY <2>2, <3>2, <3>3, <3>4
    <2> QED BY <2>1, <2>2
  <1> QED BY <1>4, <1>5, <1>6 DEF l

LEMMA RemoveOnly ==
  ASSUME NEW S, NEW s \in Seq(S), NEW i \in 1..Len(s), IsInjective(s)
  PROVE  /\ RemoveAt(s, i) \in Seq(S) /\ IsInjective(RemoveAt(s, i))
         /\ Range(RemoveAt(s, i)) \subseteq Range(s) \ {s[i]}
  <1> DEFINE l == RemoveAt(s, i)
             old(k) == IF k < i THEN k ELSE k + 1
  <1>1. /\ l \in Seq(S) /\ Len(l) = Len(s) - 1
        /\ \A k \in 1..(Len(s) - 1) : l[k] = IF k < i THEN s[k] ELSE s[k + 1]
    BY RemoveAtElements
  <1>2. Len(s) \in Nat /\ DOMAIN s = 1..Len(s) /\ DOMAIN l = 1..(Len(s) - 1)
    BY <1>1, LenProperties
  <1> HIDE DEF l
  <1>3. \A j, k \in 1..Len(s) : s[j] = s[k] => j = k
    BY <1>2 DEF IsInjective
  <1>4. \A k \in 1..(Len(s) - 1) :
          old(k) \in 1..Len(s) /\ old(k) # i /\ l[k] = s[old(k)]
    BY <1>1, <1>2
  <1>5. \A j, k \in 1..(Len(s) - 1) : old(j) = old(k) => j = k
    BY <1>2
  <1> HIDE DEF old
  <1>6. IsInjective(l)
    BY <1>2, <1>3, <1>4, <1>5 DEF IsInjective
  <1>7. Range(l) \subseteq Range(s) \ {s[i]}
    <2> SUFFICES ASSUME NEW k \in 1..(Len(s) - 1) PROVE l[k] \in Range(s) \ {s[i]}
      BY <1>2 DEF Range
    <2> QED BY <1>2, <1>3, <1>4 DEF Range
  <1> QED BY <1>1, <1>6, <1>7 DEF l

(* Requests for a log whose failure, if they failed, is recorded. *)
Recorded(l) == sends[l] - Cardinality(FailureToRecord(l))

(* What no step undoes. *)
Forward ==
    /\ \A l \in Logs : row[l].status # "none" => row'[l].status # "none"
    /\ \A l \in Logs : sends'[l] < MaxSends => sends[l] < MaxSends /\ Recorded(l) <= Recorded(l)'
    /\ accepted \subseteq accepted'

(* The parts of IInv that speak of the table. *)
DueOK ==
    /\ due \in Seq(Logs) /\ IsInjective(due)
    /\ \A l \in Range(due) : row[l].status \in {"pending", "failed"}
WorkersOK ==
    /\ worker \in [Workers -> Worker]
    /\ \A w \in Workers : worker[w].step = "idle" <=> worker[w].batch = <<>>
OthersOK ==
    /\ endpoint \in [Endpoints -> {"absent", "active", "deleted"}]
    /\ row \in [Logs -> WebhookLog]
    /\ deliver \in [Calls -> Call]
    /\ sends \in [Logs -> 0..MaxSends]
    /\ accepted \subseteq Logs
    /\ crashes \in 0..MaxCrashes
CopiesKnown(w) ==
    \A i \in 1..Len(worker[w].batch) :
        /\ row[worker[w].batch[i].log].status # "none"
        /\ Counted(worker[w].batch[i].log, worker[w].batch[i].attempt)
StepKnown(w) == worker[w].step = "record" /\ worker[w].ok => Current(w).log \in accepted
NotYetWritten ==
    \A c \in Calls, e \in Endpoints :
        deliver[c].state = "idle" \/ e \in deliver[c].todo => row[<<c, e>>].status = "none"
RowsCounted == \A l \in Logs : Counted(l, 1) /\ Counted(l, row[l].attempt)

LEMMA RangeOfDue ==
  /\ due \in Seq(Logs) => Range(due) = {due[i] : i \in 1..Len(due)}
  /\ due' \in Seq(Logs) => Range(due') = {due'[i] : i \in 1..Len(due')}
  <1>1. ASSUME NEW s \in Seq(Logs) PROVE Range(s) = {s[i] : i \in 1..Len(s)}
    <2>1. DOMAIN s = 1..Len(s)
      BY LenProperties
    <2> QED BY <2>1 DEF Range
  <1> QED BY <1>1

LEMMA Parts ==
  /\ IInv <=> /\ DueOK /\ WorkersOK /\ OthersOK /\ NotYetWritten /\ RowsCounted
              /\ \A w \in Workers : CopiesKnown(w) /\ StepKnown(w)
              /\ DeliveredWasAccepted
  /\ IInv' <=> /\ DueOK' /\ WorkersOK' /\ OthersOK' /\ NotYetWritten' /\ RowsCounted'
               /\ \A w \in Workers : CopiesKnown(w)' /\ StepKnown(w)'
               /\ DeliveredWasAccepted'
  <1>1. TypeOK <=> DueOK /\ WorkersOK /\ OthersOK
    BY RangeOfDue DEF TypeOK, DueOK, WorkersOK, OthersOK
  <1>2. TypeOK' <=> DueOK' /\ WorkersOK' /\ OthersOK'
    BY RangeOfDue DEF TypeOK, DueOK, WorkersOK, OthersOK
  <1> QED BY <1>1, <1>2 DEF IInv, KnowsWhatItDid, CopiesKnown, StepKnown, NotYetWritten,
          RowsCounted

-----------------------------------------------------------------------------
(* A worker that has found the endpoint, and one that has its answer. *)
ToSend(x) == [x EXCEPT !.step = "send"]
ToRecord(x, ok) == [x EXCEPT !.step = "record", !.ok = ok]

LEMMA WorkerFields ==
  ASSUME NEW x \in Worker, NEW ok \in BOOLEAN
  PROVE  /\ x.batch \in Seq(Polled)
         /\ /\ ToSend(x) \in Worker /\ ToSend(x).step = "send" /\ ToSend(x).batch = x.batch
         /\ /\ ToRecord(x, ok) \in Worker /\ ToRecord(x, ok).step = "record"
            /\ ToRecord(x, ok).batch = x.batch /\ ToRecord(x, ok).ok = ok
  BY DEF Worker, ToSend, ToRecord

LEMMA RowFields ==
  ASSUME NEW x \in WebhookLog
  PROVE  /\ x.attempt \in Nat /\ x.status \in {"none", "pending", "failed", "delivered"}
         /\ FailedRow(x) \in WebhookLog /\ FailedRow(x).status = "failed"
         /\ FailedRow(x).attempt = x.attempt + 1
  <1>1. x.attempt \in Nat /\ x.status \in {"none", "pending", "failed", "delivered"}
    BY DEF WebhookLog
  <1> DEFINE n == x.attempt + 1
  <1>2. n \in Nat
    BY <1>1
  <1>3. FailedRow(x) = [x EXCEPT !.status = "failed", !.attempt = n]
    BY DEF FailedRow
  <1> HIDE DEF n
  <1>4. LET y == [x EXCEPT !.status = "failed", !.attempt = n]
        IN  y \in WebhookLog /\ y.status = "failed" /\ y.attempt = n
    BY <1>2 DEF WebhookLog
  <1> QED BY <1>1, <1>3, <1>4 DEF n

(* The first of a worker's copies. *)
LEMMA CurrentCopy ==
  ASSUME WorkersOK, NEW w \in Workers, worker[w].step # "idle"
  PROVE  /\ worker[w] \in Worker /\ worker[w].batch \in Seq(Polled)
         /\ Len(worker[w].batch) \in Nat /\ Len(worker[w].batch) >= 1
         /\ Current(w) \in Polled /\ Current(w).log \in Logs /\ Current(w).attempt \in Nat
         /\ CopiesKnown(w) =>
              /\ row[Current(w).log].status # "none"
              /\ Counted(Current(w).log, Current(w).attempt)
  <1>1. worker[w] \in Worker /\ worker[w].batch # <<>>
    BY DEF WorkersOK
  <1>2. worker[w].batch \in Seq(Polled)
    BY <1>1 DEF Worker
  <1>3. Len(worker[w].batch) \in Nat /\ Len(worker[w].batch) >= 1
    BY <1>1, <1>2, LenProperties, EmptySeq
  <1>4. Current(w) \in Polled
    BY <1>2, <1>3, LenProperties DEF Current
  <1>5. Current(w).log \in Logs /\ Current(w).attempt \in Nat
    BY <1>4 DEF Polled
  <1>6. CopiesKnown(w) => /\ row[Current(w).log].status # "none"
                          /\ Counted(Current(w).log, Current(w).attempt)
    BY <1>3 DEF CopiesKnown, Current
  <1> QED BY <1>1, <1>2, <1>3, <1>4, <1>5, <1>6

(* The queue of due rows. *)
LEMMA Inserted ==
  ASSUME DueOK, NEW l \in Logs, ~Contains(due, l), BecomesDue(l)
  PROVE  due' \in Seq(Logs) /\ IsInjective(due') /\ Range(due') \subseteq Range(due) \union {l}
  <1>1. PICK i \in 1..(Len(due) + 1) : due' = InsertAt(due, i, l)
    BY DEF BecomesDue
  <1>2. due \in Seq(Logs) /\ IsInjective(due)
    BY DEF DueOK
  <1>3. l \notin Range(due)
    BY <1>2, RangeOfDue DEF Contains
  <1> QED BY <1>1, <1>2, <1>3, InsertNew

LEMMA Removed ==
  ASSUME DueOK, NEW l \in Logs, IsDueNoMore(l)
  PROVE  due' \in Seq(Logs) /\ IsInjective(due') /\ Range(due') \subseteq Range(due) \ {l}
  <1>1. due \in Seq(Logs) /\ IsInjective(due)
    BY DEF DueOK
  <1>2. CASE Contains(due, l)
    <2>1. PICK i \in 1..Len(due) : due[i] = l /\ due' = RemoveAt(due, i)
      BY <1>2 DEF IsDueNoMore
    <2> QED BY <1>1, <2>1, RemoveOnly
  <1>3. CASE ~Contains(due, l)
    <2>1. due' = due
      BY <1>3 DEF IsDueNoMore
    <2>2. l \notin Range(due)
      BY <1>1, <1>3, RangeOfDue DEF Contains
    <2> QED BY <1>1, <2>1, <2>2
  <1> QED BY <1>2, <1>3

-----------------------------------------------------------------------------
(* Who has a failure to record. *)
LEMMA Finite ==
  ASSUME NEW F \in SUBSET Workers
  PROVE  IsFiniteSet(F) /\ Cardinality(F) \in Nat
  BY ConstantsAssumption, FS_Subset, FS_CardinalityType

LEMMA OneWorkersFailures ==
  ASSUME NEW w \in Workers, \A v \in Workers : v # w => worker'[v] = worker[v], NEW l \in Logs
  PROVE  /\ FailureToRecord(l) \in SUBSET Workers /\ FailureToRecord(l)' \in SUBSET Workers
         /\ FailureToRecord(l)' \subseteq FailureToRecord(l) \union {w}
         /\ FailureToRecord(l) \subseteq FailureToRecord(l)' \union {w}
  BY DEF FailureToRecord, Current

LEMMA CountOfFailures ==
  ASSUME NEW w \in Workers, \A v \in Workers : v # w => worker'[v] = worker[v], NEW l \in Logs
  PROVE  /\ Cardinality(FailureToRecord(l)) \in Nat /\ Cardinality(FailureToRecord(l)') \in Nat
         /\ Cardinality(FailureToRecord(l)') <= Cardinality(FailureToRecord(l)) + 1
         /\ w \notin FailureToRecord(l)' =>
              Cardinality(FailureToRecord(l)') <= Cardinality(FailureToRecord(l))
         /\ w \in FailureToRecord(l) /\ w \notin FailureToRecord(l)' =>
              Cardinality(FailureToRecord(l)') = Cardinality(FailureToRecord(l)) - 1
  <1> DEFINE F == FailureToRecord(l)
             G == FailureToRecord(l)'
  <1>1. F \in SUBSET Workers /\ G \in SUBSET Workers /\ G \subseteq F \union {w} /\ F \subseteq G \union {w}
    BY OneWorkersFailures
  <1> HIDE DEF F, G
  <1>2. /\ IsFiniteSet(F) /\ Cardinality(F) \in Nat
        /\ IsFiniteSet(G) /\ Cardinality(G) \in Nat
    BY <1>1, Finite
  <1>3. /\ IsFiniteSet(F \union {w})
        /\ Cardinality(F \union {w}) = IF w \in F THEN Cardinality(F) ELSE Cardinality(F) + 1
    BY <1>2, FS_AddElement
  <1>4. Cardinality(G) <= Cardinality(F \union {w})
    BY <1>1, <1>3, FS_Subset
  <1>5. Cardinality(G) <= Cardinality(F) + 1
    BY <1>2, <1>3, <1>4
  <1>6. w \notin G => Cardinality(G) <= Cardinality(F)
    <2>1. w \notin G => G \in SUBSET F
      BY <1>1
    <2> QED BY <1>2, <2>1, FS_Subset
  <1>7. w \in F /\ w \notin G => Cardinality(G) = Cardinality(F) - 1
    <2>1. w \in F /\ w \notin G => G = F \ {w}
      BY <1>1
    <2>2. Cardinality(F \ {w}) = IF w \in F THEN Cardinality(F) - 1 ELSE Cardinality(F)
      BY <1>2, FS_RemoveElement
    <2> QED BY <2>1, <2>2
  <1> QED BY <1>2, <1>5, <1>6, <1>7 DEF F, G

(* What is counted stays counted. *)
LEMMA CountsLast ==
  ASSUME OthersOK, OthersOK', Forward, NEW l \in Logs, NEW n \in Nat, Counted(l, n)
  PROVE  Counted(l, n)'
  <1>1. sends[l] \in Nat /\ sends'[l] \in Nat /\ MaxSends \in Nat
    BY ConstantsAssumption DEF OthersOK
  <1>2. /\ FailureToRecord(l) \in SUBSET Workers
        /\ FailureToRecord(l)' \in SUBSET Workers
    BY DEF FailureToRecord
  <1>3. Cardinality(FailureToRecord(l)) \in Nat /\ Cardinality(FailureToRecord(l)') \in Nat
    BY <1>2, Finite
  <1>4. sends'[l] < MaxSends =>
          /\ sends[l] < MaxSends
          /\ sends[l] - Cardinality(FailureToRecord(l))
                <= sends'[l] - Cardinality(FailureToRecord(l)')
    BY DEF Forward, Recorded
  <1>5. sends[l] < MaxSends => n + Cardinality(FailureToRecord(l)) <= sends[l] + 1
    BY DEF Counted
  <1>6. sends'[l] < MaxSends => n + Cardinality(FailureToRecord(l)') <= sends'[l] + 1
    BY <1>1, <1>3, <1>4, <1>5
  <1> QED BY <1>6 DEF Counted

(* Copies that were there before. *)
LEMMA CopiesKept ==
  ASSUME WorkersOK, OthersOK, OthersOK', Forward, NEW w \in Workers, CopiesKnown(w),
         \A i \in 1..Len(worker'[w].batch) :
             \E j \in 1..Len(worker[w].batch) : worker'[w].batch[i] = worker[w].batch[j]
  PROVE  CopiesKnown(w)'
  <1> SUFFICES ASSUME NEW i \in 1..Len(worker'[w].batch)
               PROVE  /\ row'[worker'[w].batch[i].log].status # "none"
                      /\ Counted(worker[w].batch[i].log, worker[w].batch[i].attempt)'
    BY DEF CopiesKnown
  <1>1. PICK j \in 1..Len(worker[w].batch) : worker'[w].batch[i] = worker[w].batch[j]
    OBVIOUS
  <1>2. worker[w].batch[j] \in Polled
    <2>1. worker[w] \in Worker
      BY DEF WorkersOK
    <2>2. worker[w].batch \in Seq(Polled)
      BY <2>1 DEF Worker
    <2> QED BY <2>2, LenProperties
  <1>3. PICK l \in Logs, n \in Nat : worker[w].batch[j].log = l /\ worker[w].batch[j].attempt = n
    BY <1>2 DEF Polled
  <1>4. row[l].status # "none" /\ Counted(l, n)
    BY <1>3 DEF CopiesKnown
  <1>5. row'[l].status # "none" /\ Counted(l, n)'
    BY <1>4, CountsLast DEF Forward
  <1>6. worker'[w].batch[i].log = l /\ worker'[w].batch[i].attempt = n
    BY <1>1, <1>3
  <1>7. Counted(worker[w].batch[i].log, worker[w].batch[i].attempt)'
    BY <1>5, <1>6 DEF Counted, FailureToRecord
  <1> QED BY <1>5, <1>6, <1>7

(* What a worker knows survives the steps of others. *)
LEMMA OthersKeep ==
  ASSUME WorkersOK, OthersOK, OthersOK', Forward, NEW v \in Workers, worker'[v] = worker[v],
         CopiesKnown(v), StepKnown(v)
  PROVE  CopiesKnown(v)' /\ StepKnown(v)'
  <1>1. CopiesKnown(v)'
    BY CopiesKept
  <1>2. StepKnown(v)'
    BY DEF StepKnown, Current, Forward
  <1> QED BY <1>1, <1>2

(* On to the next log of the batch. *)
LEMMA Advancing ==
  ASSUME WorkersOK, NEW w \in Workers, worker[w].step # "idle", NextLog(w)
  PROVE  /\ WorkersOK'
         /\ \A v \in Workers : v # w => worker'[v] = worker[v]
         /\ worker'[w].step \in {"idle", "lookup"}
         /\ \A i \in 1..Len(worker'[w].batch) :
               \E j \in 1..Len(worker[w].batch) : worker'[w].batch[i] = worker[w].batch[j]
  <1> DEFINE batch == worker[w].batch
             next == [step |-> "lookup", batch |-> Tail(batch), ok |-> FALSE]
  <1>1. batch \in Seq(Polled) /\ Len(batch) \in Nat /\ Len(batch) >= 1
    BY CurrentCopy
  <1>2. /\ Tail(batch) \in Seq(Polled) /\ Len(Tail(batch)) = Len(batch) - 1
        /\ \A i \in 1..Len(Tail(batch)) : Tail(batch)[i] = batch[i + 1]
    <2>1. batch # <<>>
      BY <1>1, EmptySeq
    <2> QED BY <1>1, <2>1, HeadTailProperties
  <1>3. Idle \in Worker /\ Idle.batch = <<>> /\ Idle.step = "idle" /\ Len(Idle.batch) = 0
    <2>1. <<>> \in Seq(Polled) /\ Len(<<>>) = 0
      BY EmptySeq
    <2> QED BY <2>1 DEF Idle, Worker
  <1>4. next \in Worker /\ next.batch = Tail(batch) /\ next.step = "lookup"
    BY <1>2 DEF Worker
  <1>5. worker' = [worker EXCEPT ![w] = IF Len(batch) = 1 THEN Idle ELSE next]
    BY DEF NextLog
  <1>6. worker \in [Workers -> Worker]
    BY DEF WorkersOK
  <1> HIDE DEF batch, next
  <1>7. worker'[w] = (IF Len(batch) = 1 THEN Idle ELSE next)
        /\ \A v \in Workers : v # w => worker'[v] = worker[v]
    BY <1>5, <1>6
  <1>8. worker' \in [Workers -> Worker]
    BY <1>3, <1>4, <1>5, <1>6
  <1>9. Len(batch) # 1 => Tail(batch) # <<>>
    <2>1. ASSUME Len(batch) # 1, Tail(batch) = <<>> PROVE FALSE
      <3>1. Len(<<>>) = 0
        BY EmptySeq
      <3>2. Len(Tail(batch)) = 0
        BY <2>1, <3>1
      <3>3. Len(Tail(batch)) = Len(batch) - 1
        BY <1>2
      <3> QED BY <1>1, <2>1, <3>2, <3>3
    <2> QED BY <2>1
  <1>10. \A v \in Workers : worker'[v].step = "idle" <=> worker'[v].batch = <<>>
    <2> TAKE v \in Workers
    <2>1. CASE v = w
      BY <1>3, <1>4, <1>7, <1>9, <2>1
    <2>2. CASE v # w
      BY <1>7, <2>2 DEF WorkersOK
    <2> QED BY <2>1, <2>2
  <1>11. worker'[w].step \in {"idle", "lookup"}
    BY <1>3, <1>4, <1>7
  <1>12. ASSUME NEW i \in 1..Len(worker'[w].batch)
         PROVE  \E j \in 1..Len(batch) : worker'[w].batch[i] = batch[j]
    <2>1. Len(batch) # 1 /\ worker'[w].batch = Tail(batch)
      BY <1>3, <1>4, <1>7
    <2>2. i + 1 \in 1..Len(batch) /\ Tail(batch)[i] = batch[i + 1]
      BY <1>1, <1>2, <2>1
    <2> QED BY <2>1, <2>2
  <1> QED BY <1>7, <1>8, <1>10, <1>11, <1>12 DEF batch, WorkersOK

(* A worker that makes no request can only leave those with a failure to   *)
(* record.                                                                 *)
LEMMA ForwardWithoutSend ==
  ASSUME OthersOK, NEW w \in Workers, \A v \in Workers : v # w => worker'[v] = worker[v],
         worker'[w] = worker[w] \/ worker'[w].step # "record",
         sends' = sends, accepted' = accepted,
         \A l \in Logs : row[l].status # "none" => row'[l].status # "none"
  PROVE  Forward
  <1> SUFFICES ASSUME NEW l \in Logs
               PROVE  Recorded(l) <= Recorded(l)'
    BY DEF Forward
  <1>1. sends[l] \in Nat
    BY ConstantsAssumption DEF OthersOK
  <1>2. Cardinality(FailureToRecord(l)) \in Nat /\ Cardinality(FailureToRecord(l)') \in Nat
    BY CountOfFailures
  <1>3. Cardinality(FailureToRecord(l)') <= Cardinality(FailureToRecord(l))
    <2>1. CASE worker'[w] = worker[w]
      <3>1. FailureToRecord(l)' = FailureToRecord(l)
        BY <2>1 DEF FailureToRecord, Current
      <3> QED BY <1>2, <3>1
    <2>2. CASE worker'[w].step # "record"
      <3>1. w \notin FailureToRecord(l)'
        BY <2>2 DEF FailureToRecord
      <3> QED BY <3>1, CountOfFailures
    <2> QED BY <2>1, <2>2
  <1>4. sends[l] - Cardinality(FailureToRecord(l)) <= sends[l] - Cardinality(FailureToRecord(l)')
    BY <1>1, <1>2, <1>3
  <1> QED BY <1>4 DEF Recorded

LEMMA ForwardWithoutWorkers ==
  ASSUME OthersOK, UNCHANGED <<worker, sends, accepted>>,
         \A l \in Logs : row[l].status # "none" => row'[l].status # "none"
  PROVE  Forward
  <1> SUFFICES ASSUME NEW l \in Logs
               PROVE  Recorded(l) <= Recorded(l)'
    BY DEF Forward
  <1>1. FailureToRecord(l)' = FailureToRecord(l) /\ FailureToRecord(l) \in SUBSET Workers
    BY DEF FailureToRecord, Current
  <1>2. sends[l] \in Nat /\ Cardinality(FailureToRecord(l)) \in Nat
    BY <1>1, Finite, ConstantsAssumption DEF OthersOK
  <1>3. sends[l] - Cardinality(FailureToRecord(l)) <= sends[l] - Cardinality(FailureToRecord(l)')
    BY <1>1, <1>2
  <1> QED BY <1>3 DEF Recorded

-----------------------------------------------------------------------------
LEMMA TableKept ==
  ASSUME IInv, OthersOK', Forward, row' = row, due' = due, deliver' = deliver
  PROVE  DueOK' /\ NotYetWritten' /\ RowsCounted' /\ DeliveredWasAccepted'
  <1>1. DueOK'
    BY Parts DEF DueOK
  <1>2. NotYetWritten'
    BY Parts DEF NotYetWritten
  <1>3. RowsCounted'
    <2> SUFFICES ASSUME NEW l \in Logs
                 PROVE  Counted(l, 1)' /\ Counted(l, row[l].attempt)'
      BY DEF RowsCounted
    <2>1. OthersOK /\ Counted(l, 1) /\ Counted(l, row[l].attempt)
      BY Parts DEF RowsCounted
    <2> DEFINE n == row[l].attempt
    <2>2. n \in Nat
      <3>1. row[l] \in WebhookLog
        BY <2>1 DEF OthersOK
      <3> QED BY <3>1, RowFields
    <2>3. Counted(l, 1)'
      BY <2>1, CountsLast
    <2>4. PICK m \in Nat : m = n
      BY <2>2
    <2>5. Counted(l, m)'
      BY <2>1, <2>4, CountsLast
    <2>6. Counted(l, row[l].attempt)'
      BY <2>4, <2>5 DEF Counted
    <2> QED BY <2>3, <2>6
  <1>4. DeliveredWasAccepted'
    BY Parts DEF DeliveredWasAccepted, Forward
  <1> QED BY <1>1, <1>2, <1>3, <1>4

LEMMA WorkerMoves ==
  ASSUME IInv, WorkersOK', OthersOK', Forward, NEW w \in Workers,
         \A v \in Workers : v # w => worker'[v] = worker[v],
         CopiesKnown(w)', StepKnown(w)',
         DueOK', NotYetWritten', RowsCounted', DeliveredWasAccepted'
  PROVE  IInv'
  <1>1. WorkersOK /\ OthersOK /\ \A v \in Workers : CopiesKnown(v) /\ StepKnown(v)
    BY Parts
  <1>2. \A v \in Workers : v # w => CopiesKnown(v)' /\ StepKnown(v)'
    <2> TAKE v \in Workers
    <2>1. v # w => worker'[v] = worker[v]
      OBVIOUS
    <2> QED BY <1>1, <2>1, OthersKeep
  <1>3. \A v \in Workers : CopiesKnown(v)' /\ StepKnown(v)'
    <2> TAKE v \in Workers
    <2>1. CASE v = w
      BY <2>1
    <2>2. CASE v # w
      BY <1>2, <2>2
    <2> QED BY <2>1, <2>2
  <1> QED BY <1>3, Parts

LEMMA NobodyMoves ==
  ASSUME IInv, OthersOK', worker' = worker, Forward, DueOK', NotYetWritten', RowsCounted', DeliveredWasAccepted'
  PROVE  IInv'
  <1>1. WorkersOK /\ OthersOK /\ \A v \in Workers : CopiesKnown(v) /\ StepKnown(v)
    BY Parts
  <1>2. WorkersOK'
    BY <1>1 DEF WorkersOK
  <1>3. \A v \in Workers : CopiesKnown(v)' /\ StepKnown(v)'
    BY <1>1, OthersKeep
  <1> QED BY <1>2, <1>3, Parts

-----------------------------------------------------------------------------
(* The initial state, and one lemma for each action. *)
LEMMA InitIInv == Init => IInv
  <1> SUFFICES ASSUME Init PROVE IInv
    OBVIOUS
  <1>1. Len(<<>>) = 0 /\ <<>> \in Seq(Logs) /\ <<>> \in Seq(Polled)
    BY EmptySeq
  <1>2. WorkersOK /\ \A w \in Workers : CopiesKnown(w) /\ StepKnown(w)
    BY <1>1 DEF Init, WorkersOK, Worker, Idle, CopiesKnown, StepKnown
  <1>3. DueOK
    BY <1>1, RangeOfDue DEF Init, DueOK, IsInjective
  <1>4. OthersOK
    BY ConstantsAssumption DEF Init, OthersOK, WebhookLog, NoLog, Call, NoCall
  <1>5. NotYetWritten /\ DeliveredWasAccepted
    BY DEF Init, NotYetWritten, DeliveredWasAccepted, NoLog, NoCall, Logs
  <1>6. RowsCounted
    <2> SUFFICES ASSUME NEW l \in Logs PROVE Counted(l, 1) /\ Counted(l, row[l].attempt)
      BY DEF RowsCounted
    <2>1. FailureToRecord(l) = {}
      BY DEF Init, Idle, FailureToRecord
    <2>2. Cardinality(FailureToRecord(l)) = 0
      BY <2>1, FS_EmptySet
    <2>3. sends[l] = 0 /\ row[l].attempt = 0
      BY DEF Init, NoLog
    <2> QED BY <2>2, <2>3 DEF Counted
  <1> QED BY <1>2, <1>3, <1>4, <1>5, <1>6, Parts

LEMMA CreateEndpointKeeps ==
  ASSUME IInv, NEW e \in Endpoints, CreateEndpoint(e) \/ DeleteEndpoint(e) PROVE IInv'
  <1>1. OthersOK /\ UNCHANGED <<row, due, deliver, worker, sends, accepted, crashes>>
    BY Parts DEF CreateEndpoint, DeleteEndpoint
  <1>2. OthersOK'
    BY <1>1 DEF CreateEndpoint, DeleteEndpoint, OthersOK
  <1>3. Forward
    BY <1>1, ForwardWithoutWorkers
  <1>4. DueOK' /\ NotYetWritten' /\ RowsCounted' /\ DeliveredWasAccepted'
    BY <1>1, <1>2, <1>3, TableKept
  <1> QED BY <1>1, <1>2, <1>3, <1>4, NobodyMoves

(* What the table keeps while only calls of Deliver go on. *)
LEMMA CallMoves ==
  ASSUME IInv, OthersOK', NotYetWritten',
         UNCHANGED <<row, due, worker, sends, accepted, crashes>>
  PROVE  IInv'
  <1>1. OthersOK
    BY Parts
  <1>2. Forward
    BY <1>1, ForwardWithoutWorkers
  <1>3. DueOK' /\ DeliveredWasAccepted'
    BY Parts DEF DueOK, DeliveredWasAccepted
  <1>4. RowsCounted'
    BY Parts DEF RowsCounted, Counted, FailureToRecord, Current
  <1> QED BY <1>2, <1>3, <1>4, NobodyMoves

LEMMA CallFields ==
  ASSUME NEW x \in Call, NEW T \in SUBSET Endpoints
  PROVE  /\ x.todo \in SUBSET Endpoints
         /\ \A y : y = [x EXCEPT !.state = "returned"] =>
               y \in Call /\ y.state = "returned" /\ y.todo = x.todo
         /\ \A y : y = [x EXCEPT !.todo = T] =>
               y \in Call /\ y.state = x.state /\ y.todo = T
  BY DEF Call

LEMMA GetActiveKeeps ==
  ASSUME IInv, NEW c \in Calls, GetActiveByCustomerID(c) PROVE IInv'
  <1> DEFINE call == [state |-> "running", todo |-> Active]
  <1>1. /\ OthersOK /\ NotYetWritten /\ deliver[c].state = "idle"
        /\ deliver' = [deliver EXCEPT ![c] = call]
        /\ UNCHANGED <<endpoint, row, due, worker, sends, accepted, crashes>>
    BY Parts DEF GetActiveByCustomerID
  <1>2. call \in Call /\ call.state # "idle" /\ call.todo \subseteq Endpoints
    BY DEF Call, Active
  <1> HIDE DEF call
  <1>3. deliver \in [Calls -> Call]
    BY <1>1 DEF OthersOK
  <1>4. OthersOK'
    BY <1>1, <1>2, <1>3 DEF OthersOK
  <1>5. NotYetWritten'
    <2>1. \A e \in Endpoints : row[<<c, e>>].status = "none"
      BY <1>1 DEF NotYetWritten
    <2>2. \A d \in Calls : d # c => deliver'[d] = deliver[d]
      BY <1>1, <1>3
    <2> QED BY <1>1, <2>1, <2>2 DEF NotYetWritten
  <1> QED BY <1>1, <1>4, <1>5, CallMoves

LEMMA LogFailsKeeps ==
  ASSUME IInv, NEW c \in Calls, NEW e \in Endpoints, LogFails(c, e) PROVE IInv'
  <1> DEFINE todo == deliver[c].todo \ {e}
             call == [deliver[c] EXCEPT !.todo = todo]
  <1>1. /\ OthersOK /\ NotYetWritten
        /\ deliver' = [deliver EXCEPT ![c] = call]
        /\ UNCHANGED <<endpoint, row, due, worker, sends, accepted, crashes>>
    BY Parts DEF LogFails
  <1>2. deliver \in [Calls -> Call] /\ deliver[c] \in Call
    BY <1>1 DEF OthersOK
  <1>3. call \in Call /\ call.state = deliver[c].state /\ call.todo \subseteq deliver[c].todo
    <2>1. todo \in SUBSET Endpoints /\ todo \subseteq deliver[c].todo
      BY <1>2 DEF Call
    <2> HIDE DEF todo
    <2> QED BY <1>2, <2>1, CallFields
  <1> HIDE DEF call
  <1>4. OthersOK'
    BY <1>1, <1>2, <1>3 DEF OthersOK
  <1>5. NotYetWritten'
    <2>1. \A d \in Calls : /\ deliver'[d].state = deliver[d].state
                           /\ deliver'[d].todo \subseteq deliver[d].todo
      BY <1>1, <1>2, <1>3
    <2> QED BY <1>1, <2>1 DEF NotYetWritten
  <1> QED BY <1>1, <1>4, <1>5, CallMoves

LEMMA DeliverReturnsKeeps ==
  ASSUME IInv, NEW c \in Calls, DeliverReturns(c) PROVE IInv'
  <1> DEFINE call == [deliver[c] EXCEPT !.state = "returned"]
  <1>1. /\ OthersOK /\ NotYetWritten /\ deliver[c].todo = {}
        /\ deliver' = [deliver EXCEPT ![c] = call]
        /\ UNCHANGED <<endpoint, row, due, worker, sends, accepted, crashes>>
    BY Parts DEF DeliverReturns
  <1>2. deliver \in [Calls -> Call] /\ deliver[c] \in Call
    BY <1>1 DEF OthersOK
  <1>3. call \in Call /\ call.state # "idle" /\ call.todo = {}
    BY <1>1, <1>2, CallFields
  <1> HIDE DEF call
  <1>4. OthersOK'
    BY <1>1, <1>2, <1>3 DEF OthersOK
  <1>5. NotYetWritten'
    <2>1. \A d \in Calls : deliver'[d] = IF d = c THEN call ELSE deliver[d]
      BY <1>1, <1>2
    <2> QED BY <1>1, <1>3, <2>1 DEF NotYetWritten
  <1> QED BY <1>1, <1>4, <1>5, CallMoves

(* Steps of one worker that change no table. *)
LEMMA QuietStep ==
  ASSUME IInv, WorkersOK', crashes' \in 0..MaxCrashes, NEW w \in Workers,
         \A v \in Workers : v # w => worker'[v] = worker[v],
         worker'[w].step # "record",
         UNCHANGED <<endpoint, row, due, deliver, sends, accepted>>
  PROVE  OthersOK' /\ Forward /\ (CopiesKnown(w)' => IInv')
  <1>1. OthersOK
    BY Parts
  <1>2. OthersOK'
    BY <1>1 DEF OthersOK
  <1>3. Forward
    BY <1>1, ForwardWithoutSend
  <1>4. DueOK' /\ NotYetWritten' /\ RowsCounted' /\ DeliveredWasAccepted'
    BY <1>2, <1>3, TableKept
  <1>5. StepKnown(w)'
    BY DEF StepKnown
  <1>6. CopiesKnown(w)' => IInv'
    BY <1>2, <1>3, <1>4, <1>5, WorkerMoves
  <1> QED BY <1>2, <1>3, <1>6

LEMMA MovesOnKeeps ==
  ASSUME IInv, NEW w \in Workers, EndpointMissing(w) \/ GiveUp(w) \/ RecordFails(w)
  PROVE  IInv'
  <1>1. /\ WorkersOK /\ OthersOK /\ CopiesKnown(w) /\ worker[w].step # "idle" /\ NextLog(w)
        /\ UNCHANGED <<endpoint, row, due, deliver, sends, accepted, crashes>>
    BY Parts DEF EndpointMissing, GiveUp, RecordFails
  <1>2. /\ WorkersOK'
        /\ \A v \in Workers : v # w => worker'[v] = worker[v]
        /\ worker'[w].step \in {"idle", "lookup"}
        /\ \A i \in 1..Len(worker'[w].batch) :
              \E j \in 1..Len(worker[w].batch) : worker'[w].batch[i] = worker[w].batch[j]
    BY <1>1, Advancing
  <1>3. crashes' \in 0..MaxCrashes
    BY <1>1 DEF OthersOK
  <1>4. OthersOK' /\ Forward /\ (CopiesKnown(w)' => IInv')
    BY <1>1, <1>2, <1>3, QuietStep
  <1>5. CopiesKnown(w)'
    BY <1>1, <1>2, <1>4, CopiesKept
  <1> QED BY <1>4, <1>5

LEMMA CrashKeeps ==
  ASSUME IInv, NEW w \in Workers, Crash(w) PROVE IInv'
  <1>1. /\ WorkersOK /\ OthersOK /\ crashes < MaxCrashes /\ crashes' = crashes + 1
        /\ worker' = [worker EXCEPT ![w] = Idle]
        /\ UNCHANGED <<endpoint, row, due, deliver, sends, accepted>>
    BY Parts DEF Crash
  <1>2. Idle \in Worker /\ Idle.batch = <<>> /\ Idle.step = "idle" /\ Len(Idle.batch) = 0
    <2>1. <<>> \in Seq(Polled) /\ Len(<<>>) = 0
      BY EmptySeq
    <2> QED BY <2>1 DEF Idle, Worker
  <1>3. /\ worker \in [Workers -> Worker]
        /\ worker'[w] = Idle /\ \A v \in Workers : v # w => worker'[v] = worker[v]
    BY <1>1 DEF WorkersOK
  <1>4. WorkersOK'
    <2>1. worker' \in [Workers -> Worker]
      BY <1>1, <1>2, <1>3
    <2>2. \A v \in Workers : worker'[v].step = "idle" <=> worker'[v].batch = <<>>
      BY <1>1, <1>2, <1>3 DEF WorkersOK
    <2> QED BY <2>1, <2>2 DEF WorkersOK
  <1>5. crashes' \in 0..MaxCrashes
    BY <1>1, ConstantsAssumption DEF OthersOK
  <1>6. OthersOK' /\ Forward /\ (CopiesKnown(w)' => IInv')
    BY <1>1, <1>2, <1>3, <1>4, <1>5, QuietStep
  <1>7. CopiesKnown(w)'
    BY <1>2, <1>3 DEF CopiesKnown
  <1> QED BY <1>6, <1>7

LEMMA EndpointFoundKeeps ==
  ASSUME IInv, NEW w \in Workers, EndpointFound(w) PROVE IInv'
  <1> DEFINE x == ToSend(worker[w])
  <1>1. /\ WorkersOK /\ OthersOK /\ CopiesKnown(w) /\ worker[w].step = "lookup"
        /\ worker' = [worker EXCEPT ![w] = x]
        /\ UNCHANGED <<endpoint, row, due, deliver, sends, accepted, crashes>>
    BY Parts DEF EndpointFound, ToSend
  <1>2. worker \in [Workers -> Worker] /\ worker[w] \in Worker /\ worker[w].batch # <<>>
    BY <1>1 DEF WorkersOK
  <1>3. x \in Worker /\ x.step = "send" /\ x.batch = worker[w].batch
    BY <1>2, WorkerFields
  <1> HIDE DEF x
  <1>4. worker'[w] = x /\ \A v \in Workers : v # w => worker'[v] = worker[v]
    BY <1>1, <1>2
  <1>5. WorkersOK'
    <2>1. worker' \in [Workers -> Worker]
      BY <1>1, <1>2, <1>3
    <2>2. \A v \in Workers : worker'[v].step = "idle" <=> worker'[v].batch = <<>>
      BY <1>1, <1>2, <1>3, <1>4 DEF WorkersOK
    <2> QED BY <2>1, <2>2 DEF WorkersOK
  <1>6. crashes' \in 0..MaxCrashes
    BY <1>1 DEF OthersOK
  <1>7. OthersOK' /\ Forward /\ (CopiesKnown(w)' => IInv')
    BY <1>1, <1>3, <1>4, <1>5, <1>6, QuietStep
  <1>8. \A i \in 1..Len(worker'[w].batch) :
            \E j \in 1..Len(worker[w].batch) : worker'[w].batch[i] = worker[w].batch[j]
    BY <1>3, <1>4
  <1>9. CopiesKnown(w)'
    BY <1>1, <1>7, <1>8, CopiesKept
  <1> QED BY <1>7, <1>9

LEMMA PollKeeps ==
  ASSUME IInv, NEW w \in Workers, Poll(w) PROVE IInv'
  <1> DEFINE n == IF Len(due) < BatchSize THEN Len(due) ELSE BatchSize
             batch == [i \in 1..n |-> [log |-> due[i], attempt |-> row[due[i]].attempt]]
             x == [step |-> "lookup", batch |-> batch, ok |-> FALSE]
  <1>1. /\ WorkersOK /\ OthersOK /\ DueOK /\ RowsCounted /\ worker[w].step = "idle" /\ due # <<>>
        /\ worker' = [worker EXCEPT ![w] = x]
        /\ UNCHANGED <<endpoint, row, due, deliver, sends, accepted, crashes>>
    BY Parts DEF Poll
  <1>2. due \in Seq(Logs) /\ Len(due) \in Nat /\ Len(due) >= 1
    BY <1>1, LenProperties, EmptySeq DEF DueOK
  <1>3. n \in Nat /\ n >= 1 /\ n <= Len(due)
    BY <1>2, ConstantsAssumption
  <1> HIDE DEF n
  <1>4. \A i \in 1..n : /\ due[i] \in Logs /\ row[due[i]].status # "none"
                        /\ row[due[i]].attempt \in Nat
    <2> TAKE i \in 1..n
    <2>1. i \in 1..Len(due) /\ due[i] \in Logs
      BY <1>2, <1>3, LenProperties
    <2>2. due[i] \in Range(due)
      BY <1>2, <2>1, RangeOfDue
    <2>3. row[due[i]].status \in {"pending", "failed"} /\ row[due[i]] \in WebhookLog
      BY <1>1, <2>1, <2>2 DEF DueOK, OthersOK
    <2> QED BY <2>1, <2>3, RowFields
  <1>5. batch \in [1..n -> Polled]
    BY <1>4 DEF Polled
  <1>6. batch \in Seq(Polled) /\ Len(batch) = n /\ batch # <<>>
    <2>1. batch \in Seq(Polled)
      BY <1>3, <1>5, SeqDef
    <2>2. DOMAIN batch = 1..n /\ DOMAIN batch = 1..Len(batch) /\ Len(batch) \in Nat
      BY <1>5, <2>1, LenProperties
    <2>3. Len(batch) = n
      BY <1>3, <2>2
    <2>4. Len(<<>>) = 0
      BY EmptySeq
    <2> HIDE DEF batch
    <2> QED BY <1>3, <2>1, <2>3, <2>4
  <1>7. \A i \in 1..n : batch[i].log = due[i] /\ batch[i].attempt = row[due[i]].attempt
    OBVIOUS
  <1> HIDE DEF batch
  <1>8. x \in Worker /\ x.step = "lookup" /\ x.batch = batch
    BY <1>6 DEF Worker
  <1> HIDE DEF x
  <1>9. worker'[w] = x /\ \A v \in Workers : v # w => worker'[v] = worker[v]
    BY <1>1 DEF WorkersOK
  <1>10. WorkersOK'
    <2>1. worker' \in [Workers -> Worker]
      BY <1>1, <1>8 DEF WorkersOK
    <2>2. \A v \in Workers : worker'[v].step = "idle" <=> worker'[v].batch = <<>>
      BY <1>1, <1>6, <1>8, <1>9 DEF WorkersOK
    <2> QED BY <2>1, <2>2 DEF WorkersOK
  <1>11. crashes' \in 0..MaxCrashes
    BY <1>1 DEF OthersOK
  <1>12. OthersOK' /\ Forward /\ (CopiesKnown(w)' => IInv')
    BY <1>8, <1>9, <1>10, <1>11, <1>1, QuietStep
  <1>13. CopiesKnown(w)'
    <2> SUFFICES ASSUME NEW i \in 1..n
                 PROVE  /\ row'[worker'[w].batch[i].log].status # "none"
                        /\ Counted(worker[w].batch[i].log, worker[w].batch[i].attempt)'
      BY <1>6, <1>8, <1>9 DEF CopiesKnown
    <2>1. PICK l \in Logs, m \in Nat : due[i] = l /\ row[due[i]].attempt = m
      BY <1>4
    <2>2. Counted(l, m)
      BY <1>1, <2>1 DEF RowsCounted
    <2>3. Counted(l, m)'
      BY <1>1, <1>12, <2>2, CountsLast
    <2>4. worker'[w].batch[i].log = l /\ worker'[w].batch[i].attempt = m
      BY <1>7, <1>8, <1>9, <2>1
    <2>5. row'[l].status # "none"
      BY <1>1, <1>4, <2>1
    <2>6. Counted(worker[w].batch[i].log, worker[w].batch[i].attempt)'
      BY <2>3, <2>4 DEF Counted, FailureToRecord
    <2> QED BY <2>4, <2>5, <2>6
  <1> QED BY <1>12, <1>13

LEMMA SendKeeps ==
  ASSUME IInv, NEW w \in Workers, NEW answer, Send(w, answer) PROVE IInv'
  <1> DEFINE l == Current(w).log
             ok == answer = "2xx"
             x == ToRecord(worker[w], ok)
             n == IF sends[l] < MaxSends THEN sends[l] + 1 ELSE sends[l]
  <1>1. /\ WorkersOK /\ OthersOK /\ CopiesKnown(w) /\ worker[w].step = "send"
        /\ sends' = [sends EXCEPT ![l] = n]
        /\ accepted' = IF ok THEN accepted \union {l} ELSE accepted
        /\ worker' = [worker EXCEPT ![w] = x]
        /\ UNCHANGED <<endpoint, row, due, deliver, crashes>>
    BY Parts DEF Send, ToRecord
  <1>2. worker \in [Workers -> Worker] /\ worker[w] \in Worker /\ worker[w].batch # <<>>
    BY <1>1 DEF WorkersOK
  <1>3. x \in Worker /\ x.step = "record" /\ x.batch = worker[w].batch /\ x.ok = ok
    <2>1. ok \in BOOLEAN
      OBVIOUS
    <2> HIDE DEF ok
    <2> QED BY <1>2, <2>1, WorkerFields
  <1>4. l \in Logs
    BY <1>1, CurrentCopy
  <1> HIDE DEF l, ok, x
  <1>5. worker'[w] = x /\ \A v \in Workers : v # w => worker'[v] = worker[v]
    BY <1>1, <1>2
  <1>6. WorkersOK'
    <2>1. worker' \in [Workers -> Worker]
      BY <1>1, <1>2, <1>3
    <2>2. \A v \in Workers : worker'[v].step = "idle" <=> worker'[v].batch = <<>>
      BY <1>1, <1>2, <1>3, <1>5 DEF WorkersOK
    <2> QED BY <2>1, <2>2 DEF WorkersOK
  <1>7. sends \in [Logs -> 0..MaxSends] /\ MaxSends \in Nat /\ n \in 0..MaxSends
    <2>1. sends \in [Logs -> 0..MaxSends] /\ MaxSends \in Nat /\ sends[l] \in 0..MaxSends
      BY <1>1, <1>4, ConstantsAssumption DEF OthersOK
    <2> QED BY <2>1
  <1>8. sends'[l] = n /\ \A k \in Logs : k # l => sends'[k] = sends[k]
    BY <1>1, <1>4, <1>7
  <1>9. OthersOK'
    <2>1. sends' \in [Logs -> 0..MaxSends]
      BY <1>1, <1>7
    <2>2. accepted' \subseteq Logs
      BY <1>1, <1>4 DEF OthersOK
    <2> QED BY <1>1, <2>1, <2>2 DEF OthersOK
  <1>10. Current(w)' = Current(w)
    BY <1>3, <1>5 DEF Current
  <1>11. Forward
    <2>1. ASSUME NEW k \in Logs, sends'[k] < MaxSends
          PROVE  sends[k] < MaxSends /\ Recorded(k) <= Recorded(k)'
      <3>1. sends[k] \in Nat /\ sends'[k] \in Nat
        BY <1>7, <1>9 DEF OthersOK
      <3>2. /\ Cardinality(FailureToRecord(k)) \in Nat /\ Cardinality(FailureToRecord(k)') \in Nat
            /\ Cardinality(FailureToRecord(k)') <= Cardinality(FailureToRecord(k)) + 1
            /\ w \notin FailureToRecord(k)' =>
                 Cardinality(FailureToRecord(k)') <= Cardinality(FailureToRecord(k))
        BY <1>5, CountOfFailures
      <3>3. CASE k = l
        <4>1. sends[k] < MaxSends /\ sends'[k] = sends[k] + 1
          BY <1>7, <1>8, <2>1, <3>1, <3>3
        <4>2. sends[k] - Cardinality(FailureToRecord(k))
                 <= sends'[k] - Cardinality(FailureToRecord(k)')
          BY <3>1, <3>2, <4>1
        <4> QED BY <4>1, <4>2 DEF Recorded
      <3>4. CASE k # l
        <4>1. sends'[k] = sends[k]
          BY <1>8, <3>4
        <4>2. w \notin FailureToRecord(k)'
          BY <1>10, <3>4 DEF FailureToRecord, l
        <4>3. sends[k] - Cardinality(FailureToRecord(k))
                 <= sends'[k] - Cardinality(FailureToRecord(k)')
          BY <3>1, <3>2, <4>1, <4>2
        <4> QED BY <2>1, <4>1, <4>3 DEF Recorded
      <3> QED BY <3>3, <3>4
    <2> QED BY <1>1, <2>1 DEF Forward
  <1>12. DueOK' /\ NotYetWritten' /\ RowsCounted' /\ DeliveredWasAccepted'
    BY <1>1, <1>9, <1>11, TableKept
  <1>13. CopiesKnown(w)'
    <2>1. \A i \in 1..Len(worker'[w].batch) :
              \E j \in 1..Len(worker[w].batch) : worker'[w].batch[i] = worker[w].batch[j]
      BY <1>3, <1>5
    <2> QED BY <1>1, <1>9, <1>11, <2>1, CopiesKept
  <1>14. StepKnown(w)'
    <2>1. worker'[w].ok => l \in accepted'
      BY <1>1, <1>3, <1>5
    <2> QED BY <1>10, <2>1 DEF StepKnown, l
  <1> QED BY <1>5, <1>6, <1>9, <1>11, <1>12, <1>13, <1>14, WorkerMoves

-----------------------------------------------------------------------------
(* One row is written. *)
LEMMA RowWritten ==
  ASSUME IInv, OthersOK', Forward, NEW l \in Logs, NEW n \in Nat,
         row'[l].attempt = n, Counted(l, n)',
         \A k \in Logs : k # l => row'[k] = row[k]
  PROVE  RowsCounted'
  <1> SUFFICES ASSUME NEW k \in Logs
               PROVE  Counted(k, 1)' /\ Counted(k, row[k].attempt)'
    BY DEF RowsCounted
  <1>1. OthersOK /\ Counted(k, 1) /\ Counted(k, row[k].attempt)
    BY Parts DEF RowsCounted
  <1>2. Counted(k, 1)'
    BY <1>1, CountsLast
  <1>3. row[k].attempt \in Nat
    <2>1. row[k] \in WebhookLog
      BY <1>1 DEF OthersOK
    <2> QED BY <2>1, RowFields
  <1>4. PICK m \in Nat : m = row[k].attempt
    BY <1>3
  <1>5. k # l => Counted(k, m)'
    BY <1>1, <1>4, CountsLast
  <1>6. Counted(k, row[k].attempt)'
    <2>1. CASE k = l
      BY <2>1 DEF Counted, FailureToRecord
    <2>2. CASE k # l
      BY <1>4, <1>5, <2>2 DEF Counted
    <2> QED BY <2>1, <2>2
  <1> QED BY <1>2, <1>6

(* One row leaves the queue, and is not absent for it. *)
LEMMA RowOut ==
  ASSUME IInv, NEW l \in Logs, IsDueNoMore(l), NEW r \in WebhookLog, r.status # "none",
         row[l].status # "none", row' = [row EXCEPT ![l] = r], deliver' = deliver
  PROVE  /\ row'[l] = r /\ \A k \in Logs : k # l => row'[k] = row[k]
         /\ row' \in [Logs -> WebhookLog]
         /\ \A k \in Logs : row[k].status # "none" => row'[k].status # "none"
         /\ DueOK' /\ NotYetWritten'
  <1>1. DueOK /\ OthersOK /\ NotYetWritten
    BY Parts
  <1>2. row \in [Logs -> WebhookLog]
    BY <1>1 DEF OthersOK
  <1>3. row'[l] = r /\ \A k \in Logs : k # l => row'[k] = row[k]
    BY <1>2
  <1>4. row' \in [Logs -> WebhookLog]
    BY <1>2
  <1>5. \A k \in Logs : row[k].status # "none" => row'[k].status # "none"
    BY <1>3
  <1>6. DueOK'
    <2>1. due' \in Seq(Logs) /\ IsInjective(due') /\ Range(due') \subseteq Range(due) \ {l}
      BY <1>1, Removed
    <2>2. Range(due) \subseteq Logs
      BY <1>1, RangeOfDue, LenProperties DEF DueOK
    <2>3. \A k \in Range(due') : row'[k].status \in {"pending", "failed"}
      BY <1>1, <1>3, <2>1, <2>2 DEF DueOK
    <2> QED BY <2>1, <2>3 DEF DueOK
  <1>7. NotYetWritten'
    <2> SUFFICES ASSUME NEW c \in Calls, NEW e \in Endpoints,
                        deliver[c].state = "idle" \/ e \in deliver[c].todo
                 PROVE  row'[<<c, e>>].status = "none"
      BY DEF NotYetWritten
    <2>1. row[<<c, e>>].status = "none" /\ <<c, e>> \in Logs
      BY <1>1 DEF NotYetWritten, Logs
    <2> QED BY <1>3, <2>1
  <1> QED BY <1>3, <1>4, <1>5, <1>6, <1>7

LEMMA MarkDeliveredKeeps ==
  ASSUME IInv, NEW w \in Workers, MarkDelivered(w) PROVE IInv'
  <1> DEFINE l == Current(w).log
             n == Current(w).attempt
             r == [status |-> "delivered", attempt |-> n]
  <1>1. /\ WorkersOK /\ OthersOK /\ CopiesKnown(w) /\ StepKnown(w) /\ DeliveredWasAccepted
        /\ worker[w].step = "record" /\ worker[w].ok
        /\ row' = [row EXCEPT ![l] = r] /\ IsDueNoMore(l) /\ NextLog(w)
        /\ UNCHANGED <<endpoint, deliver, sends, accepted, crashes>>
    BY Parts DEF MarkDelivered
  <1>2. l \in Logs /\ n \in Nat /\ row[l].status # "none" /\ Counted(l, n)
    BY <1>1, CurrentCopy
  <1>3. l \in accepted
    BY <1>1 DEF StepKnown
  <1>4. PICK m \in Nat : m = n /\ Counted(l, m)
    BY <1>2
  <1> HIDE DEF l, n
  <1>5. r \in WebhookLog /\ r.status = "delivered" /\ r.attempt = n
    BY <1>2 DEF WebhookLog
  <1> HIDE DEF r
  <1>6. /\ row'[l] = r /\ \A k \in Logs : k # l => row'[k] = row[k]
        /\ row' \in [Logs -> WebhookLog]
        /\ \A k \in Logs : row[k].status # "none" => row'[k].status # "none"
        /\ DueOK' /\ NotYetWritten'
    <2>1. r.status # "none" /\ deliver' = deliver
      BY <1>1, <1>5
    <2> QED BY <1>1, <1>2, <1>5, <2>1, RowOut
  <1>7. /\ WorkersOK'
        /\ \A v \in Workers : v # w => worker'[v] = worker[v]
        /\ worker'[w].step \in {"idle", "lookup"}
        /\ \A i \in 1..Len(worker'[w].batch) :
              \E j \in 1..Len(worker[w].batch) : worker'[w].batch[i] = worker[w].batch[j]
    BY <1>1, Advancing
  <1>8. OthersOK'
    BY <1>1, <1>6 DEF OthersOK
  <1>9. Forward
    BY <1>1, <1>6, <1>7, ForwardWithoutSend
  <1>10. RowsCounted'
    <2>1. row'[l].attempt = m
      BY <1>4, <1>5, <1>6
    <2>2. \E k \in Logs : k = l
      BY <1>2
    <2>3. PICK k \in Logs : k = l
      BY <2>2
    <2>4. Counted(k, m)
      BY <1>4, <2>3
    <2>5. Counted(k, m)'
      BY <1>1, <1>8, <1>9, <2>4, CountsLast
    <2> QED BY <1>6, <1>8, <1>9, <2>1, <2>3, <2>5, RowWritten
  <1>11. DeliveredWasAccepted'
    BY <1>1, <1>3, <1>5, <1>6 DEF DeliveredWasAccepted
  <1>12. CopiesKnown(w)' /\ StepKnown(w)'
    <2>1. CopiesKnown(w)'
      BY <1>1, <1>7, <1>8, <1>9, CopiesKept
    <2> QED BY <1>7, <2>1 DEF StepKnown
  <1> QED BY <1>6, <1>7, <1>8, <1>9, <1>10, <1>11, <1>12, WorkerMoves

LEMMA MarkFailedKeeps ==
  ASSUME IInv, NEW w \in Workers, MarkFailed(w) PROVE IInv'
  <1> DEFINE r == FailedRow(row[Current(w).log])
  <1>1. /\ WorkersOK /\ OthersOK /\ CopiesKnown(w) /\ DeliveredWasAccepted /\ RowsCounted
        /\ worker[w].step = "record" /\ ~worker[w].ok /\ ~Exhausted(Current(w).attempt)
        /\ row' = [row EXCEPT ![Current(w).log] = r]
        /\ IsDueNoMore(Current(w).log) /\ NextLog(w)
        /\ UNCHANGED <<endpoint, deliver, sends, accepted, crashes>>
    BY Parts DEF MarkFailed
  <1>2. PICK l \in Logs : l = Current(w).log
    BY <1>1, CurrentCopy
  <1>3. row[l].status # "none"
    BY <1>1, <1>2, CurrentCopy
  <1>4. row[l] \in WebhookLog
    BY <1>1 DEF OthersOK
  <1>5. /\ r \in WebhookLog /\ r.status = "failed"
        /\ r.attempt = row[l].attempt + 1 /\ row[l].attempt \in Nat
    BY <1>2, <1>4, RowFields
  <1> HIDE DEF r
  <1>6. /\ row'[l] = r /\ \A k \in Logs : k # l => row'[k] = row[k]
        /\ row' \in [Logs -> WebhookLog]
        /\ \A k \in Logs : row[k].status # "none" => row'[k].status # "none"
        /\ DueOK' /\ NotYetWritten'
    <2>1. r.status # "none" /\ deliver' = deliver
      BY <1>1, <1>5
    <2>2. row' = [row EXCEPT ![l] = r] /\ IsDueNoMore(l)
      BY <1>1, <1>2
    <2> QED BY <1>3, <1>5, <2>1, <2>2, RowOut
  <1>7. /\ WorkersOK'
        /\ \A v \in Workers : v # w => worker'[v] = worker[v]
        /\ worker'[w].step \in {"idle", "lookup"}
        /\ \A i \in 1..Len(worker'[w].batch) :
              \E j \in 1..Len(worker[w].batch) : worker'[w].batch[i] = worker[w].batch[j]
    BY <1>1, Advancing
  <1>8. OthersOK'
    BY <1>1, <1>6 DEF OthersOK
  <1>9. Forward
    BY <1>1, <1>6, <1>7, ForwardWithoutSend
  <1>10. PICK m \in Nat : m = row[l].attempt + 1
    BY <1>5
  <1>11. Counted(l, m)'
    <2>1. w \in FailureToRecord(l)
      BY <1>1, <1>2 DEF FailureToRecord
    <2>2. w \notin FailureToRecord(l)'
      BY <1>7 DEF FailureToRecord
    <2>3. /\ Cardinality(FailureToRecord(l)) \in Nat /\ Cardinality(FailureToRecord(l)') \in Nat
          /\ Cardinality(FailureToRecord(l)') = Cardinality(FailureToRecord(l)) - 1
      BY <1>7, <2>1, <2>2, CountOfFailures
    <2>4. sends[l] < MaxSends =>
             row[l].attempt + Cardinality(FailureToRecord(l)) <= sends[l] + 1
      BY <1>1 DEF RowsCounted, Counted
    <2>5. sends[l] \in Nat
      BY <1>1, ConstantsAssumption DEF OthersOK
    <2>6. sends[l] < MaxSends => m + Cardinality(FailureToRecord(l)') <= sends[l] + 1
      BY <1>5, <1>10, <2>3, <2>4, <2>5
    <2>7. sends' = sends
      BY <1>1
    <2> QED BY <2>6, <2>7 DEF Counted
  <1>12. RowsCounted'
    <2>1. row'[l].attempt = m
      BY <1>5, <1>6, <1>10
    <2> QED BY <1>6, <1>8, <1>9, <1>11, <2>1, RowWritten
  <1>13. DeliveredWasAccepted'
    BY <1>1, <1>5, <1>6 DEF DeliveredWasAccepted
  <1>14. CopiesKnown(w)' /\ StepKnown(w)'
    <2>1. CopiesKnown(w)'
      BY <1>1, <1>7, <1>8, <1>9, CopiesKept
    <2> QED BY <1>7, <2>1 DEF StepKnown
  <1> QED BY <1>6, <1>7, <1>8, <1>9, <1>12, <1>13, <1>14, WorkerMoves

LEMMA LogEndpointKeeps ==
  ASSUME IInv, NEW c \in Calls, NEW e \in Endpoints, LogEndpoint(c, e) PROVE IInv'
  <1> DEFINE todo == deliver[c].todo \ {e}
             call == [deliver[c] EXCEPT !.todo = todo]
  <1>1. PICK l \in Logs : l = <<c, e>>
    BY DEF Logs
  <1>2. /\ OthersOK /\ DueOK /\ NotYetWritten /\ RowsCounted /\ DeliveredWasAccepted
        /\ deliver[c].state = "running" /\ e \in deliver[c].todo
        /\ row' = [row EXCEPT ![l] = NewWebhookLog] /\ BecomesDue(l)
        /\ deliver' = [deliver EXCEPT ![c] = call]
        /\ UNCHANGED <<endpoint, worker, sends, accepted, crashes>>
    BY <1>1, Parts DEF LogEndpoint
  <1>3. deliver \in [Calls -> Call] /\ deliver[c] \in Call /\ row \in [Logs -> WebhookLog]
    BY <1>2 DEF OthersOK
  <1>4. call \in Call /\ call.state = "running" /\ call.todo = todo
    <2>1. todo \in SUBSET Endpoints
      BY <1>3 DEF Call
    <2> HIDE DEF todo
    <2> QED BY <1>2, <1>3, <2>1, CallFields
  <1> HIDE DEF call
  <1>5. row[l].status = "none"
    BY <1>1, <1>2 DEF NotYetWritten
  <1>6. /\ NewWebhookLog \in WebhookLog /\ NewWebhookLog.status = "pending"
        /\ NewWebhookLog.attempt = 1
    BY DEF NewWebhookLog, WebhookLog
  <1>7. row'[l] = NewWebhookLog /\ \A k \in Logs : k # l => row'[k] = row[k]
    BY <1>2, <1>3
  <1>8. OthersOK'
    <2>1. row' \in [Logs -> WebhookLog] /\ deliver' \in [Calls -> Call]
      BY <1>2, <1>3, <1>4, <1>6
    <2> QED BY <1>2, <2>1 DEF OthersOK
  <1>9. Forward
    <2>1. \A k \in Logs : row[k].status # "none" => row'[k].status # "none"
      BY <1>5, <1>7
    <2> QED BY <1>2, <2>1, ForwardWithoutWorkers
  <1>10. DueOK'
    <2>1. ~Contains(due, l)
      <3>1. l \notin Range(due)
        BY <1>2, <1>5 DEF DueOK
      <3> QED BY <1>2, <3>1, RangeOfDue DEF Contains, DueOK
    <2>2. due' \in Seq(Logs) /\ IsInjective(due') /\ Range(due') \subseteq Range(due) \union {l}
      BY <1>2, <2>1, Inserted
    <2>3. Range(due) \subseteq Logs
      BY <1>2, RangeOfDue, LenProperties DEF DueOK
    <2>4. \A k \in Range(due') : row'[k].status \in {"pending", "failed"}
      BY <1>2, <1>6, <1>7, <2>2, <2>3 DEF DueOK
    <2> QED BY <2>2, <2>4 DEF DueOK
  <1>11. NotYetWritten'
    <2>1. deliver'[c] = call /\ \A d \in Calls : d # c => deliver'[d] = deliver[d]
      BY <1>2, <1>3
    <2> SUFFICES ASSUME NEW d \in Calls, NEW f \in Endpoints,
                        deliver'[d].state = "idle" \/ f \in deliver'[d].todo
                 PROVE  row'[<<d, f>>].status = "none"
      BY DEF NotYetWritten
    <2>2. deliver[d].state = "idle" \/ f \in deliver[d].todo
      BY <1>4, <2>1
    <2>3. row[<<d, f>>].status = "none" /\ <<d, f>> \in Logs
      BY <1>2, <2>2 DEF NotYetWritten, Logs
    <2>4. <<d, f>> # l
      <3>1. d = c => f # e
        BY <1>4, <2>1
      <3> QED BY <1>1, <3>1
    <2> QED BY <1>7, <2>3, <2>4
  <1>12. RowsCounted'
    <2>1. Counted(l, 1)'
      BY <1>2, <1>8, <1>9, CountsLast DEF RowsCounted
    <2>2. row'[l].attempt = 1
      BY <1>6, <1>7
    <2> QED BY <1>7, <1>8, <1>9, <2>1, <2>2, RowWritten
  <1>13. DeliveredWasAccepted'
    BY <1>2, <1>6, <1>7 DEF DeliveredWasAccepted
  <1> QED BY <1>2, <1>8, <1>9, <1>10, <1>11, <1>12, <1>13, NobodyMoves

LEMMA BackoffElapsesKeeps ==
  ASSUME IInv, NEW l \in Logs, BackoffElapses(l) PROVE IInv'
  <1>1. /\ OthersOK /\ DueOK /\ row[l].status = "failed" /\ ~Contains(due, l) /\ BecomesDue(l)
        /\ UNCHANGED <<endpoint, row, deliver, worker, sends, accepted, crashes>>
    BY Parts DEF BackoffElapses
  <1>2. OthersOK'
    BY <1>1 DEF OthersOK
  <1>3. Forward
    BY <1>1, ForwardWithoutWorkers
  <1>4. DueOK'
    <2>1. due' \in Seq(Logs) /\ IsInjective(due') /\ Range(due') \subseteq Range(due) \union {l}
      BY <1>1, Inserted
    <2>2. \A k \in Range(due') : row'[k].status \in {"pending", "failed"}
      BY <1>1, <2>1 DEF DueOK
    <2> QED BY <2>1, <2>2 DEF DueOK
  <1>5. NotYetWritten' /\ DeliveredWasAccepted'
    BY <1>1, Parts DEF NotYetWritten, DeliveredWasAccepted
  <1>6. RowsCounted'
    BY <1>1, Parts DEF RowsCounted, Counted, FailureToRecord, Current
  <1> QED BY <1>1, <1>2, <1>3, <1>4, <1>5, <1>6, NobodyMoves

LEMMA NextKeeps == IInv /\ [Next]_vars => IInv'
  <1> SUFFICES ASSUME IInv, [Next]_vars PROVE IInv'
    OBVIOUS
  <1>1. CASE UNCHANGED vars
    BY <1>1 DEF vars, IInv, TypeOK, KnowsWhatItDid, Counted, FailureToRecord,
                DeliveredWasAccepted, Current
  <1>2. CASE Next
    BY <1>2, CreateEndpointKeeps, GetActiveKeeps, DeliverReturnsKeeps, LogEndpointKeeps,
       LogFailsKeeps, PollKeeps, EndpointFoundKeeps, MovesOnKeeps, CrashKeeps, SendKeeps,
       MarkDeliveredKeeps, MarkFailedKeeps, BackoffElapsesKeeps DEF Next, WorkerStep
  <1> QED BY <1>1, <1>2

(* IInv holds in every state of every behaviour of Deliver and the retry    *)
(* workers (service/webhook.go, worker/webhook_retry.go).                   *)
THEOREM Inductive == Spec => []IInv
  BY InitIInv, NextKeeps, PTL DEF Spec

(* A row is delivered only if its endpoint answered 2xx, whichever worker  *)
(* wrote it last (webhook_retry.go, retryWebhook).                           *)
THEOREM NothingIsMadeUp == Spec => []DeliveredWasAccepted
  <1>1. IInv => DeliveredWasAccepted
    BY DEF IInv
  <1> QED BY <1>1, Inductive, PTL

(* The attempt number of a row is never ahead of the requests made for it,  *)
(* though it is written from stale copies (webhook_log.go, MarkFailed and   *)
(* Update).                                                                 *)
THEOREM NobodyCountsAhead == Spec => []AttemptsAreSends
  <1>1. IInv => AttemptsAreSends
    <2> SUFFICES ASSUME IInv, NEW l \in Logs, sends[l] < MaxSends
                 PROVE  row[l].attempt <= sends[l] + 1
      BY DEF AttemptsAreSends
    <2>1. row[l].attempt + Cardinality(FailureToRecord(l)) <= sends[l] + 1
      BY DEF IInv, Counted
    <2>2. FailureToRecord(l) \in SUBSET Workers
      BY DEF FailureToRecord
    <2>3. Cardinality(FailureToRecord(l)) \in Nat
      BY <2>2, Finite
    <2>4. row[l] \in WebhookLog /\ sends[l] \in Nat
      BY ConstantsAssumption DEF IInv, TypeOK
    <2>5. row[l].attempt \in Nat
      BY <2>4, RowFields
    <2> QED BY <2>1, <2>3, <2>4, <2>5
  <1> QED BY <1>1, Inductive, PTL
=============================================================================
