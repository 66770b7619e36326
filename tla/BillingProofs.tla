--------------------------- MODULE BillingProofs ---------------------------
(***************************************************************************)
(* Billing, for every number of subscriptions, drivers, callers, attempts  *)
(* and every period length: IInv is inductive.  A copy of a row that some  *)
(* transaction read may be written back at any later time, so what is      *)
(* shown of the table is shown of the copies in flight as well.            *)
(***************************************************************************)
EXTENDS Billing, FiniteSetTheorems, SequenceTheorems, TLAPS

(* The whole periods that went by end at or before now, and less than a    *)
(* period before it: what Renew's integer division computes.               *)
LEMMA WholePeriods ==
  ASSUME NEW x \in Nat
  PROVE  /\ x \div PeriodLen \in Nat
         /\ PeriodLen * (x \div PeriodLen) <= x
         /\ x < PeriodLen * (x \div PeriodLen) + PeriodLen
  BY ConstantsAssumption

(* Renew moves a due row by at least a period, to the period of now. *)
LEMMA RenewedRow ==
  ASSUME NEW row \in Row, Shape(row), NEW now \in Nat, StillDue(row, now)
  PROVE  /\ Renewed(row, now) \in Row
         /\ Shape(Renewed(row, now))
         /\ Renewed(row, now).status = row.status
         /\ Renewed(row, now).end >= row.end + PeriodLen
         /\ Renewed(row, now).end - PeriodLen <= now
         /\ now < Renewed(row, now).end
  <1>1. /\ row.start \in Nat /\ row.end \in Nat
        /\ row.next = row.end /\ row.end = row.start + PeriodLen
        /\ row.end <= now /\ row.end - row.start = PeriodLen
        /\ PeriodLen \in Nat \ {0}
    BY ConstantsAssumption DEF Row, Shape, StillDue
  <1> DEFINE missed == MissedPeriods(row, now)
             start == IF now > row.end THEN row.end + (row.end - row.start) * missed ELSE row.end
  <1>2. missed = (now - row.end) \div PeriodLen
    BY <1>1 DEF MissedPeriods
  <1>3. now - row.end \in Nat
    BY <1>1
  <1>4. /\ missed \in Nat
        /\ PeriodLen * missed <= now - row.end
        /\ now - row.end < PeriodLen * missed + PeriodLen
        /\ PeriodLen * missed \in Nat
    <2>1. missed \in Nat /\ PeriodLen * missed <= now - row.end
          /\ now - row.end < PeriodLen * missed + PeriodLen
      BY <1>2, <1>3, WholePeriods
    <2>2. PeriodLen * missed \in Nat
      BY <2>1, <1>1
    <2> QED BY <2>1, <2>2
  <1>5. start \in Nat /\ start >= row.end /\ start <= now /\ now < start + PeriodLen
    <2>1. (row.end - row.start) * missed = PeriodLen * missed
      BY <1>1
    <2> HIDE DEF missed
    <2> QED BY <1>1, <1>4, <2>1
  <1>6. Renewed(row, now) = [row EXCEPT !.start = start, !.end = start + PeriodLen,
                                        !.next = start + PeriodLen]
    BY DEF Renewed, NextBillingDate
  <1> HIDE DEF start, missed
  <1>7. Renewed(row, now) \in Row
    <2>1. start \in Nat /\ start + PeriodLen \in Nat
      BY <1>1, <1>5
    <2>2. Renewed(row, now) = [status |-> row.status, start |-> start,
              end |-> start + PeriodLen, next |-> start + PeriodLen, atEnd |-> row.atEnd]
      BY <1>6 DEF Row
    <2> QED BY <2>1, <2>2 DEF Row
  <1>8. /\ Renewed(row, now).status = row.status
        /\ Renewed(row, now).start = start
        /\ Renewed(row, now).end = start + PeriodLen
        /\ Renewed(row, now).next = start + PeriodLen
    BY <1>6 DEF Row
  <1> QED BY <1>1, <1>5, <1>7, <1>8 DEF Shape

LEMMA AppendInvoice ==
  ASSUME NEW q \in Seq(Invoice), NEW inv \in Invoice
  PROVE  /\ Append(q, inv) \in Seq(Invoice)
         /\ Len(Append(q, inv)) = Len(q) + 1
         /\ Len(q) \in Nat
         /\ \A i \in 1..Len(q) : Append(q, inv)[i] = q[i]
         /\ Append(q, inv)[Len(q) + 1] = inv
  OBVIOUS

LEMMA InvoiceFields ==
  ASSUME NEW inv \in Invoice
  PROVE  /\ inv.tries \in Nat /\ inv.start \in Nat /\ inv.end \in Nat /\ inv.created \in Nat
         /\ [inv EXCEPT !.status = "paid"] \in Invoice
         /\ \A n \in Nat, t \in {"uncollectible", "open"} :
               [inv EXCEPT !.tries = n, !.status = t] \in Invoice
  BY DEF Invoice

LEMMA InvoicesTyped ==
  ASSUME TypeOK, NEW s \in Subs, NEW i \in Renewals(s)
  PROVE  /\ invoices[s][i] \in Invoice /\ invoices[s][i].start \in Nat
         /\ invoices[s][i].end \in Nat
  <1>1. invoices[s] \in Seq(Invoice) /\ i \in 1..Len(invoices[s])
    BY DEF TypeOK, Renewals
  <1>2. invoices[s][i] \in Invoice
    BY <1>1
  <1> QED BY <1>2, InvoiceFields

LEMMA EventsTyped ==
  ASSUME NEW row \in Row, NEW paid \in BOOLEAN
  PROVE  RenewalEvents(row, paid) \in Seq(EventType)
  <1>1. <<"subscription.renewed">> \in Seq(EventType)
    BY DEF EventType
  <1>2. (IF Settled(row, paid).status # row.status THEN <<"subscription.updated">> ELSE <<>>)
          \in Seq(EventType)
    <2>1. <<"subscription.updated">> \in Seq(EventType) /\ <<>> \in Seq(EventType)
      BY DEF EventType
    <2> QED BY <2>1
  <1>3. <<"invoice.created", IF paid THEN "invoice.paid" ELSE "invoice.payment_failed">>
          \in Seq(EventType)
    BY DEF EventType
  <1> QED BY <1>1, <1>2, <1>3 DEF RenewalEvents

LEMMA InitIInv == Init => IInv
  <1> SUFFICES ASSUME Init PROVE IInv
    OBVIOUS
  <1>1. TypeOK
    <2>1. NoRow \in Row /\ NoJob \in Job /\ NoCall \in Call
      BY DEF NoRow, Row, Status, NoJob, Job, NoCall, Call
    <2> QED BY <2>1, ConstantsAssumption DEF Init, TypeOK
  <1>2. RowsWellFormed
    BY DEF Init, RowsWellFormed, NoRow, NoJob, NoCall, Exists
  <1>3. \A s \in Subs : Renewals(s) = {}
    BY DEF Init, Renewals
  <1>4. /\ ChargedInPeriod /\ InvoicesAhead /\ NoDoubleBilling /\ OpenWasDeclined
        /\ PastDueWasDeclined
    BY <1>3 DEF Init, ChargedInPeriod, InvoicesAhead, NoDoubleBilling, OpenWasDeclined,
                PastDueWasDeclined, NoRow
  <1>5. DeclineBehindCopies
    BY DEF Init, DeclineBehindCopies, NoJob, NoCall
  <1> QED BY <1>1, <1>2, <1>4, <1>5 DEF IInv

(* A step that writes neither table keeps what is said of the tables. *)
LEMMA TablesUntouched ==
  ASSUME IInv, UNCHANGED <<subs, invoices, clobbered>>
  PROVE  /\ ChargedInPeriod' /\ InvoicesAhead' /\ NoDoubleBilling' /\ OpenWasDeclined'
         /\ PastDueWasDeclined'
         /\ \A s \in Subs : Declined(s)' = Declined(s)
  BY DEF IInv, ChargedInPeriod, InvoicesAhead, NoDoubleBilling, OpenWasDeclined,
         PastDueWasDeclined, Renewals, Declined

(* A step that only writes invoices by appending one keeps earlier declines. *)
LEMMA DeclinesStay ==
  ASSUME TypeOK, NEW s \in Subs, NEW inv \in Invoice,
         invoices' = [invoices EXCEPT ![s] = Append(@, inv)]
  PROVE  /\ \A u \in Subs : Declined(u) => Declined(u)'
         /\ inv.kind = "renewal" /\ inv.tries > 0 => Declined(s)'
  <1>1. invoices[s] \in Seq(Invoice) /\ invoices'[s] = Append(invoices[s], inv)
    BY DEF TypeOK
  <1>2. \A i \in 1..Len(invoices[s]) :
           i \in 1..Len(invoices'[s]) /\ invoices'[s][i] = invoices[s][i]
    BY <1>1, AppendInvoice
  <1>3. \A u \in Subs \ {s} : invoices'[u] = invoices[u]
    BY DEF TypeOK
  <1>4. /\ Len(invoices'[s]) \in 1..Len(invoices'[s])
        /\ invoices'[s][Len(invoices'[s])] = inv
    BY <1>1, AppendInvoice
  <1>5. \A u \in Subs : Declined(u) => Declined(u)'
    BY <1>2, <1>3 DEF Declined, Renewals
  <1>6. inv.kind = "renewal" /\ inv.tries > 0 => Declined(s)'
    BY <1>4 DEF Declined, Renewals
  <1> QED BY <1>5, <1>6

(* One job replaced by another: how the actions say it, and what it means. *)
Replaced(d, s, j) == job' = [job EXCEPT ![d][s] = j]
OnlyReplaced(d, s, j) ==
    /\ job' \in [Drivers -> [Subs -> Job]]
    /\ job'[d][s] = j
    /\ \A e \in Drivers, u \in Subs : e # d \/ u # s => job'[e][u] = job[e][u]

LEMMA JobReplaced ==
  ASSUME TypeOK, NEW d \in Drivers, NEW s \in Subs, NEW j \in Job, Replaced(d, s, j)
  PROVE  OnlyReplaced(d, s, j)
  BY DEF TypeOK, Replaced, OnlyReplaced

LEMMA JobValues ==
  /\ NoJob \in Job
  /\ \A n \in Nat : /\ [NoJob EXCEPT !.pc = "ready", !.tries = n] \in Job
                    /\ [NoJob EXCEPT !.pc = "ready", !.tries = n].pc = "ready"
  /\ \A j \in Job : [j EXCEPT !.pc = "ready"] \in Job /\ [j EXCEPT !.pc = "ready"].pc = "ready"
  BY DEF NoJob, NoRow, Job, Row, Status

(* The steps that write neither table: only the clock, the lock and what is *)
(* in flight move.                                                          *)
(* What of a job matters when the tables stay: copies are old, or new. *)
LEMMA JobsKept ==
  ASSUME IInv, UNCHANGED <<clock, subs, invoices, call, overdue, clobbered>>, TypeOK',
         \A d \in Drivers, s \in Subs :
             \/ job'[d][s] = job[d][s]
             \/ job'[d][s].pc = "idle"
             \/ Exists(s) /\ job'[d][s].pc # "read"
             \/ Exists(s) /\ job'[d][s].row = subs[s] /\ job'[d][s].since = clock
  PROVE  IInv'
  <1>1. RowsWellFormed'
    BY DEF IInv, TypeOK, RowsWellFormed, Exists
  <1>2. \A s \in Subs : subs[s].status = "past_due" => Declined(s)
    BY DEF IInv, PastDueWasDeclined
  <1>3. DeclineBehindCopies'
    BY <1>2, TablesUntouched DEF IInv, TypeOK, DeclineBehindCopies
  <1> QED BY <1>1, <1>3, TablesUntouched DEF IInv

LEMMA KeepsTick ==
  ASSUME IInv, Tick
  PROVE  IInv'
  <1> USE ConstantsAssumption DEF Tick
  <1>1. UNCHANGED <<subs, invoices, clobbered>>
    OBVIOUS
  <1>2. TypeOK'
    BY DEF IInv, TypeOK, Listed, NoJob, NoRow, NoCall, Row, Status, Job, Call, Drivers
  <1>3. RowsWellFormed'
    BY DEF IInv, TypeOK, RowsWellFormed, Exists, Listed, NoJob, NoCall, Job, Call, Drivers, DueForRenewal
  <1>4. DeclineBehindCopies'
    BY <1>1, TablesUntouched DEF IInv, TypeOK, DeclineBehindCopies, Listed, NoJob, NoCall, Job, Call, Drivers, PastDueWasDeclined, OpenWasDeclined
  <1> QED BY <1>1, <1>2, <1>3, <1>4, TablesUntouched DEF IInv

LEMMA KeepsPoll ==
  ASSUME IInv, NEW p \in Pollers, Poll(p)
  PROVE  IInv'
  <1> USE ConstantsAssumption DEF Poll
  <1>1. UNCHANGED <<subs, invoices, clobbered>>
    OBVIOUS
  <1>2. TypeOK'
    BY DEF IInv, TypeOK, Listed, NoJob, NoRow, NoCall, Row, Status, Job, Call, Drivers
  <1>3. RowsWellFormed'
    BY DEF IInv, TypeOK, RowsWellFormed, Exists, Listed, NoJob, NoCall, Job, Call, Drivers, DueForRenewal
  <1>4. DeclineBehindCopies'
    BY <1>1, TablesUntouched DEF IInv, TypeOK, DeclineBehindCopies, Listed, NoJob, NoCall, Job, Call, Drivers, PastDueWasDeclined, OpenWasDeclined
  <1> QED BY <1>1, <1>2, <1>3, <1>4, TablesUntouched DEF IInv

LEMMA KeepsAdvanceTime ==
  ASSUME IInv, NEW a \in Advancers, NEW d \in 1..MaxTime, AdvanceTime(a, d)
  PROVE  IInv'
  <1> USE ConstantsAssumption DEF AdvanceTime
  <1>1. UNCHANGED <<subs, invoices, clobbered>>
    OBVIOUS
  <1>2. TypeOK'
    BY DEF IInv, TypeOK, Listed, NoJob, NoRow, NoCall, Row, Status, Job, Call, Drivers
  <1>3. RowsWellFormed'
    BY DEF IInv, TypeOK, RowsWellFormed, Exists, Listed, NoJob, NoCall, Job, Call, Drivers, DueForRenewal
  <1>4. DeclineBehindCopies'
    BY <1>1, TablesUntouched DEF IInv, TypeOK, DeclineBehindCopies, Listed, NoJob, NoCall, Job, Call, Drivers, PastDueWasDeclined, OpenWasDeclined
  <1> QED BY <1>1, <1>2, <1>3, <1>4, TablesUntouched DEF IInv

LEMMA KeepsCheckAndRenewSubscriptions ==
  ASSUME IInv, NEW a \in Advancers, CheckAndRenewSubscriptions(a)
  PROVE  IInv'
  <1> USE ConstantsAssumption DEF CheckAndRenewSubscriptions
  <1>1. UNCHANGED <<subs, invoices, clobbered>>
    OBVIOUS
  <1>2. TypeOK'
    BY DEF IInv, TypeOK, Listed, NoJob, NoRow, NoCall, Row, Status, Job, Call, Drivers
  <1>3. RowsWellFormed'
    BY DEF IInv, TypeOK, RowsWellFormed, Exists, Listed, NoJob, NoCall, Job, Call, Drivers, DueForRenewal
  <1>4. DeclineBehindCopies'
    BY <1>1, TablesUntouched DEF IInv, TypeOK, DeclineBehindCopies, Listed, NoJob, NoCall, Job, Call, Drivers, PastDueWasDeclined, OpenWasDeclined
  <1> QED BY <1>1, <1>2, <1>3, <1>4, TablesUntouched DEF IInv

LEMMA KeepsTakeLock ==
  ASSUME IInv, NEW a \in Advancers, NEW s \in Subs, TakeLock(a, s)
  PROVE  IInv'
  <1> DEFINE j == [job[a][s] EXCEPT !.pc = "ready"]
  <1>1. a \in Drivers /\ TypeOK /\ job[a][s] \in Job
    BY DEF IInv, TypeOK, Drivers
  <1>j. j \in Job /\ j.pc = "ready"
    BY <1>1, JobValues
  <1>2. job' = [job EXCEPT ![a][s] = j]
    BY DEF TakeLock
  <1> HIDE DEF j
  <1>3. /\ job' \in [Drivers -> [Subs -> Job]]
        /\ job'[a][s] = j
        /\ \A e \in Drivers, u \in Subs : e # a \/ u # s => job'[e][u] = job[e][u]
    <2>1. OnlyReplaced(a, s, j)
      <3>1. Replaced(a, s, j)
        BY <1>2 DEF Replaced
      <3> QED BY <1>1, <1>j, <3>1, JobReplaced
    <2> QED BY <2>1 DEF OnlyReplaced
  <1>4. TypeOK'
    BY <1>1, <1>3 DEF TypeOK, TakeLock
  <1>5. Exists(s)
    BY <1>1 DEF IInv, RowsWellFormed, TakeLock
  <1> QED BY <1>j, <1>3, <1>4, <1>5, JobsKept DEF TakeLock

LEMMA KeepsLockDenied ==
  ASSUME IInv, NEW a \in Advancers, NEW s \in Subs, LockDenied(a, s)
  PROVE  IInv'
  <1> USE ConstantsAssumption DEF LockDenied
  <1>1. UNCHANGED <<subs, invoices, clobbered>>
    OBVIOUS
  <1>2. TypeOK'
    BY DEF IInv, TypeOK, Listed, NoJob, NoRow, NoCall, Row, Status, Job, Call, Drivers
  <1>3. RowsWellFormed'
    BY DEF IInv, TypeOK, RowsWellFormed, Exists, Listed, NoJob, NoCall, Job, Call, Drivers, DueForRenewal
  <1>4. DeclineBehindCopies'
    BY <1>1, TablesUntouched DEF IInv, TypeOK, DeclineBehindCopies, Listed, NoJob, NoCall, Job, Call, Drivers, PastDueWasDeclined, OpenWasDeclined
  <1> QED BY <1>1, <1>2, <1>3, <1>4, TablesUntouched DEF IInv

LEMMA KeepsLockExpires ==
  ASSUME IInv, NEW s \in Subs, LockExpires(s)
  PROVE  IInv'
  <1> USE ConstantsAssumption DEF LockExpires
  <1>1. UNCHANGED <<subs, invoices, clobbered>>
    OBVIOUS
  <1>2. TypeOK'
    BY DEF IInv, TypeOK, Listed, NoJob, NoRow, NoCall, Row, Status, Job, Call, Drivers
  <1>3. RowsWellFormed'
    BY DEF IInv, TypeOK, RowsWellFormed, Exists, Listed, NoJob, NoCall, Job, Call, Drivers, DueForRenewal
  <1>4. DeclineBehindCopies'
    BY <1>1, TablesUntouched DEF IInv, TypeOK, DeclineBehindCopies, Listed, NoJob, NoCall, Job, Call, Drivers, PastDueWasDeclined, OpenWasDeclined
  <1> QED BY <1>1, <1>2, <1>3, <1>4, TablesUntouched DEF IInv

LEMMA KeepsDeletePrice ==
  ASSUME IInv, NEW s \in Subs, DeletePrice(s)
  PROVE  IInv'
  <1> USE ConstantsAssumption DEF DeletePrice
  <1>1. UNCHANGED <<subs, invoices, clobbered>>
    OBVIOUS
  <1>2. TypeOK'
    BY DEF IInv, TypeOK, Listed, NoJob, NoRow, NoCall, Row, Status, Job, Call, Drivers
  <1>3. RowsWellFormed'
    BY DEF IInv, TypeOK, RowsWellFormed, Exists, Listed, NoJob, NoCall, Job, Call, Drivers, DueForRenewal
  <1>4. DeclineBehindCopies'
    BY <1>1, TablesUntouched DEF IInv, TypeOK, DeclineBehindCopies, Listed, NoJob, NoCall, Job, Call, Drivers, PastDueWasDeclined, OpenWasDeclined
  <1> QED BY <1>1, <1>2, <1>3, <1>4, TablesUntouched DEF IInv

LEMMA KeepsRenewRead ==
  ASSUME IInv, NEW d \in Drivers, NEW s \in Subs, RenewRead(d, s)
  PROVE  IInv'
  <1> DEFINE j == [pc |-> "read", row |-> subs[s], since |-> clock, tries |-> job[d][s].tries + 1]
  <1>1. TypeOK /\ j \in Job /\ j.row = subs[s] /\ j.since = clock
    BY ConstantsAssumption DEF IInv, TypeOK, Job
  <1>2. job' = [job EXCEPT ![d][s] = j]
    BY DEF RenewRead
  <1> HIDE DEF j
  <1>3. OnlyReplaced(d, s, j)
    <2>1. Replaced(d, s, j)
      BY <1>2 DEF Replaced
    <2> QED BY <1>1, <2>1, JobReplaced
  <1>4. TypeOK'
    BY <1>1, <1>3 DEF TypeOK, RenewRead, OnlyReplaced
  <1>5. Exists(s)
    BY DEF IInv, RowsWellFormed, RenewRead, MayBegin
  <1> QED BY <1>1, <1>3, <1>4, <1>5, JobsKept DEF RenewRead, OnlyReplaced

LEMMA KeepsRenewNothing ==
  ASSUME IInv, NEW d \in Drivers, NEW s \in Subs, RenewNothing(d, s)
  PROVE  IInv'
  <1> USE ConstantsAssumption DEF RenewNothing, Finish
  <1>1. UNCHANGED <<subs, invoices, clobbered>>
    OBVIOUS
  <1>2. TypeOK'
    BY DEF IInv, TypeOK, Listed, NoJob, NoRow, NoCall, Row, Status, Job, Call, Drivers
  <1>3. RowsWellFormed'
    BY DEF IInv, TypeOK, RowsWellFormed, Exists, Listed, NoJob, NoCall, Job, Call, Drivers, DueForRenewal
  <1>4. DeclineBehindCopies'
    BY <1>1, TablesUntouched DEF IInv, TypeOK, DeclineBehindCopies, Listed, NoJob, NoCall, Job, Call, Drivers, PastDueWasDeclined, OpenWasDeclined
  <1> QED BY <1>1, <1>2, <1>3, <1>4, TablesUntouched DEF IInv

LEMMA KeepsRenewUnpriced ==
  ASSUME IInv, NEW d \in Drivers, NEW s \in Subs, RenewUnpriced(d, s)
  PROVE  IInv'
  <1> USE ConstantsAssumption DEF RenewUnpriced, Finish
  <1>1. UNCHANGED <<subs, invoices, clobbered>>
    OBVIOUS
  <1>2. TypeOK'
    BY DEF IInv, TypeOK, Listed, NoJob, NoRow, NoCall, Row, Status, Job, Call, Drivers
  <1>3. RowsWellFormed'
    BY DEF IInv, TypeOK, RowsWellFormed, Exists, Listed, NoJob, NoCall, Job, Call, Drivers, DueForRenewal
  <1>4. DeclineBehindCopies'
    BY <1>1, TablesUntouched DEF IInv, TypeOK, DeclineBehindCopies, Listed, NoJob, NoCall, Job, Call, Drivers, PastDueWasDeclined, OpenWasDeclined
  <1> QED BY <1>1, <1>2, <1>3, <1>4, TablesUntouched DEF IInv

(* How a renewal attempt ends, committed or not. *)
LEMMA JobEnds ==
  ASSUME IInv, NEW d \in Drivers, NEW s \in Subs, Finish(d, s) \/ Again(d, s)
  PROVE  /\ job' \in [Drivers -> [Subs -> Job]]
         /\ lock' \in [Subs -> Advancers \union {Nobody}]
         /\ job'[d][s].pc \in {"idle", "ready"}
         /\ \A e \in Drivers, u \in Subs : e # d \/ u # s => job'[e][u] = job[e][u]
  <1>1. TypeOK /\ job[d][s].tries \in Nat
    BY DEF IInv, TypeOK, Job
  <1>2. CASE Finish(d, s)
    <2>1. job' = [job EXCEPT ![d][s] = NoJob] /\ NoJob.pc = "idle"
      BY <1>2 DEF Finish, NoJob
    <2>2. lock' \in [Subs -> Advancers \union {Nobody}]
      BY <1>1, <1>2 DEF Finish, TypeOK
    <2>3. NoJob \in Job
      BY JobValues
    <2>4. /\ job' \in [Drivers -> [Subs -> Job]]
          /\ job'[d][s] = NoJob
          /\ \A e \in Drivers, u \in Subs : e # d \/ u # s => job'[e][u] = job[e][u]
      <3>1. OnlyReplaced(d, s, NoJob)
        <4>1. Replaced(d, s, NoJob)
          BY <2>1 DEF Replaced
        <4> QED BY <1>1, <2>3, <4>1, JobReplaced
      <3> QED BY <3>1 DEF OnlyReplaced
    <2> QED BY <2>1, <2>2, <2>4
  <1>3. CASE Again(d, s)
    <2> DEFINE j == [NoJob EXCEPT !.pc = "ready", !.tries = job[d][s].tries]
    <2>1. job' = [job EXCEPT ![d][s] = j]
      BY <1>3 DEF Again
    <2>2. j \in Job /\ j.pc = "ready"
      BY <1>1, JobValues
    <2> HIDE DEF j
    <2>3. lock' \in [Subs -> Advancers \union {Nobody}]
      BY <1>1, <1>3 DEF Again, TypeOK
    <2>4. /\ job' \in [Drivers -> [Subs -> Job]]
          /\ job'[d][s] = j
          /\ \A e \in Drivers, u \in Subs : e # d \/ u # s => job'[e][u] = job[e][u]
      <3>1. OnlyReplaced(d, s, j)
        <4>1. Replaced(d, s, j)
          BY <2>1 DEF Replaced
        <4> QED BY <1>1, <2>2, <4>1, JobReplaced
      <3> QED BY <3>1 DEF OnlyReplaced
    <2> QED BY <2>2, <2>3, <2>4
  <1> QED BY <1>2, <1>3

LEMMA KeepsRenewRollback ==
  ASSUME IInv, NEW d \in Drivers, NEW s \in Subs, RenewRollback(d, s)
  PROVE  IInv'
  <1>1. /\ job' \in [Drivers -> [Subs -> Job]]
        /\ lock' \in [Subs -> Advancers \union {Nobody}]
        /\ job'[d][s].pc \in {"idle", "ready"}
        /\ \A e \in Drivers, u \in Subs : e # d \/ u # s => job'[e][u] = job[e][u]
    BY JobEnds DEF RenewRollback
  <1>2. TypeOK'
    BY <1>1 DEF IInv, TypeOK, RenewRollback
  <1>3. Exists(s)
    BY DEF IInv, RowsWellFormed, RenewRollback
  <1> QED BY <1>1, <1>2, <1>3, JobsKept DEF RenewRollback

LEMMA KeepsCrash ==
  ASSUME IInv, NEW d \in Drivers, Crash(d)
  PROVE  IInv'
  <1> USE ConstantsAssumption DEF Crash
  <1>1. UNCHANGED <<subs, invoices, clobbered>>
    OBVIOUS
  <1>2. TypeOK'
    BY DEF IInv, TypeOK, Listed, NoJob, NoRow, NoCall, Row, Status, Job, Call, Drivers
  <1>3. RowsWellFormed'
    BY DEF IInv, TypeOK, RowsWellFormed, Exists, Listed, NoJob, NoCall, Job, Call, Drivers, DueForRenewal
  <1>4. DeclineBehindCopies'
    BY <1>1, TablesUntouched DEF IInv, TypeOK, DeclineBehindCopies, Listed, NoJob, NoCall, Job, Call, Drivers, PastDueWasDeclined, OpenWasDeclined
  <1> QED BY <1>1, <1>2, <1>3, <1>4, TablesUntouched DEF IInv

LEMMA KeepsCancelRead ==
  ASSUME IInv, NEW c \in Callers, NEW s \in Subs, NEW mode \in {"immediate", "period_end"}, CancelRead(c, s, mode)
  PROVE  IInv'
  <1> USE ConstantsAssumption DEF CancelRead
  <1>1. UNCHANGED <<subs, invoices, clobbered>>
    OBVIOUS
  <1>2. TypeOK'
    BY DEF IInv, TypeOK, Listed, NoJob, NoRow, NoCall, Row, Status, Job, Call, Drivers
  <1>3. RowsWellFormed'
    BY DEF IInv, TypeOK, RowsWellFormed, Exists, Listed, NoJob, NoCall, Job, Call, Drivers, DueForRenewal
  <1>4. DeclineBehindCopies'
    BY <1>1, TablesUntouched DEF IInv, TypeOK, DeclineBehindCopies, Listed, NoJob, NoCall, Job, Call, Drivers, PastDueWasDeclined, OpenWasDeclined
  <1> QED BY <1>1, <1>2, <1>3, <1>4, TablesUntouched DEF IInv

LEMMA KeepsCancelRollback ==
  ASSUME IInv, NEW c \in Callers, NEW s \in Subs, CancelRollback(c, s)
  PROVE  IInv'
  <1> USE ConstantsAssumption DEF CancelRollback
  <1>1. UNCHANGED <<subs, invoices, clobbered>>
    OBVIOUS
  <1>2. TypeOK'
    BY DEF IInv, TypeOK, Listed, NoJob, NoRow, NoCall, Row, Status, Job, Call, Drivers
  <1>3. RowsWellFormed'
    BY DEF IInv, TypeOK, RowsWellFormed, Exists, Listed, NoJob, NoCall, Job, Call, Drivers, DueForRenewal
  <1>4. DeclineBehindCopies'
    BY <1>1, TablesUntouched DEF IInv, TypeOK, DeclineBehindCopies, Listed, NoJob, NoCall, Job, Call, Drivers, PastDueWasDeclined, OpenWasDeclined
  <1> QED BY <1>1, <1>2, <1>3, <1>4, TablesUntouched DEF IInv

LEMMA KeepsOverdueList ==
  ASSUME IInv, OverdueList
  PROVE  IInv'
  <1>1. UNCHANGED <<clock, unpriced, subs, invoices, outbox, lock, phase, job, call, confirms,
                 clobbered>>
    BY DEF OverdueList
  <1>2. [NoCall EXCEPT !.pc = "listed"] \in Call /\ NoCall \in Call
    BY DEF NoCall, NoRow, Call, Row, Status
  <1>3. TypeOK'
    BY <1>1, <1>2 DEF IInv, TypeOK, OverdueList
  <1>4. \A s \in Subs : Overdue(s) => Declined(s) /\ Exists(s)
    <2> SUFFICES ASSUME NEW s \in Subs, Overdue(s) PROVE Declined(s) /\ Exists(s)
      OBVIOUS
    <2>1. PICK i \in 1..Len(invoices[s]) :
             invoices[s][i].kind = "renewal" /\ invoices[s][i].status = "open"
      BY DEF Overdue
    <2>2. i \in Renewals(s) /\ invoices[s][i].tries > 0
      BY <2>1 DEF IInv, OpenWasDeclined, Renewals
    <2>3. invoices[s] # <<>>
      BY <2>1
    <2> QED BY <2>2, <2>3 DEF Declined, IInv, RowsWellFormed
  <1>5. \A s \in Subs : /\ overdue'[s].pc # "read"
                        /\ overdue'[s].pc # "idle" => Overdue(s)
    BY DEF OverdueList, NoCall
  <1>6. ASSUME NEW s \in Subs, overdue'[s].pc # "idle"
        PROVE  Exists(s)' /\ Declined(s)'
    <2>1. Exists(s) /\ Declined(s)
      BY <1>4, <1>5, <1>6
    <2>2. Exists(s)'
      BY <1>1, <2>1 DEF Exists
    <2>3. Declined(s)'
      BY <1>1, <2>1 DEF Declined, Renewals
    <2> QED BY <2>2, <2>3
  <1>7. RowsWellFormed'
    <2>1. \A s \in Subs : overdue'[s].pc # "idle" => Exists(s)'
      BY <1>6
    <2>2. \A s \in Subs : overdue'[s].pc # "read"
      BY <1>5
    <2> QED BY <1>1, <2>1, <2>2 DEF IInv, RowsWellFormed, Exists
  <1>8. DeclineBehindCopies'
    BY <1>1, <1>6, TablesUntouched DEF IInv, DeclineBehindCopies
  <1> QED BY <1>1, <1>3, <1>7, <1>8, TablesUntouched DEF IInv

LEMMA KeepsOverdueRead ==
  ASSUME IInv, NEW s \in Subs, OverdueRead(s)
  PROVE  IInv'
  <1>1. UNCHANGED <<clock, unpriced, subs, invoices, outbox, lock, phase, job, call, confirms,
                 clobbered>>
    BY DEF OverdueRead
  <1>2. TypeOK'
    BY <1>1 DEF IInv, TypeOK, OverdueRead, NoCall, Call
  <1>3. /\ overdue[s].pc # "idle" /\ overdue'[s].row = subs[s]
        /\ \A u \in Subs \ {s} : overdue'[u] = overdue[u]
    BY DEF IInv, TypeOK, OverdueRead, NoCall
  <1>4. RowsWellFormed'
    BY <1>1, <1>3 DEF IInv, RowsWellFormed, Exists
  <1>5. DeclineBehindCopies'
    BY <1>1, <1>3, TablesUntouched DEF IInv, DeclineBehindCopies
  <1> QED BY <1>1, <1>2, <1>4, <1>5, TablesUntouched DEF IInv

LEMMA KeepsOverduePassed ==
  ASSUME IInv, NEW s \in Subs, OverduePassed(s)
  PROVE  IInv'
  <1>1. UNCHANGED <<clock, unpriced, subs, invoices, outbox, lock, phase, job, call, confirms,
                 clobbered>>
    BY DEF OverduePassed
  <1>2. TypeOK'
    BY <1>1 DEF IInv, TypeOK, OverduePassed, NoCall, NoRow, Row, Status, Call
  <1>3. /\ overdue'[s].pc = "idle"
        /\ \A u \in Subs \ {s} : overdue'[u] = overdue[u]
    BY DEF IInv, TypeOK, OverduePassed, NoCall
  <1>4. RowsWellFormed'
    BY <1>1, <1>3 DEF IInv, RowsWellFormed, Exists
  <1>5. DeclineBehindCopies'
    BY <1>1, <1>3, TablesUntouched DEF IInv, DeclineBehindCopies
  <1> QED BY <1>1, <1>2, <1>4, <1>5, TablesUntouched DEF IInv

(* The steps that write a table. *)

LEMMA KeepsCreateSubscription ==
  ASSUME IInv, NEW s \in Subs, CreateSubscription(s)
  PROVE  IInv'
  <1>1. /\ TypeOK /\ clock \in Nat /\ PeriodLen \in Nat /\ clock + PeriodLen \in Nat
    BY ConstantsAssumption DEF IInv, TypeOK
  <1>2. NewSubscription(clock) \in Row /\ Shape(NewSubscription(clock))
    BY <1>1 DEF NewSubscription, NextBillingDate, Row, Status, Shape
  <1>3. FirstInvoice(clock) \in Invoice /\ FirstInvoice(clock).kind = "first"
    BY <1>1 DEF FirstInvoice, Invoice
  <1>4. /\ subs' = [subs EXCEPT ![s] = NewSubscription(clock)]
        /\ invoices' = [invoices EXCEPT ![s] = <<FirstInvoice(clock)>>]
        /\ outbox' = [outbox EXCEPT ![s] =
               <<"subscription.created", "invoice.created", "invoice.paid">>]
        /\ UNCHANGED <<clock, unpriced, lock, phase, job, call, overdue, confirms, clobbered>>
    BY DEF CreateSubscription
  <1>5. TypeOK'
    <2>1. <<FirstInvoice(clock)>> \in Seq(Invoice)
      BY <1>3
    <2>2. <<"subscription.created", "invoice.created", "invoice.paid">> \in Seq(EventType)
      BY DEF EventType
    <2> QED BY <1>1, <1>2, <1>4, <2>1, <2>2 DEF TypeOK
  <1>6. /\ \A d \in Drivers : job[d][s].pc = "idle"
        /\ \A c \in Callers : call[c][s].pc # "read"
        /\ overdue[s].pc = "idle"
    BY DEF IInv, RowsWellFormed, CreateSubscription
  <1>7. /\ \A u \in Subs \ {s} : subs'[u] = subs[u] /\ invoices'[u] = invoices[u]
        /\ subs'[s] = NewSubscription(clock) /\ invoices'[s] = <<FirstInvoice(clock)>>
    BY <1>1, <1>4 DEF TypeOK
  <1>8. Renewals(s)' = {} /\ \A u \in Subs \ {s} : Renewals(u)' = Renewals(u)
    BY <1>3, <1>7 DEF Renewals
  <1>9. RowsWellFormed'
    <2>1. Exists(s)' /\ Shape(subs'[s])
      BY <1>2, <1>7 DEF Exists, Shape
    <2>2. \A u \in Subs \ {s} : Exists(u)' = Exists(u)
      BY <1>7 DEF Exists
    <2>3. \A u \in Subs : invoices'[u] # <<>> => Exists(u)'
      BY <1>7, <2>1, <2>2 DEF IInv, RowsWellFormed
    <2>4. \A u \in Subs : Exists(u)' => Shape(subs'[u])
      BY <1>7, <2>1, <2>2 DEF IInv, RowsWellFormed
    <2> QED BY <1>4, <1>6, <2>1, <2>2, <2>3, <2>4 DEF IInv, RowsWellFormed
  <1>10. ChargedInPeriod' /\ InvoicesAhead' /\ NoDoubleBilling' /\ OpenWasDeclined'
    BY <1>4, <1>7, <1>8 DEF IInv, ChargedInPeriod, InvoicesAhead, NoDoubleBilling, OpenWasDeclined
  <1>11. \A u \in Subs \ {s} : Declined(u)' = Declined(u)
    BY <1>7, <1>8 DEF Declined
  <1>12. DeclineBehindCopies'
    BY <1>4, <1>6, <1>11 DEF IInv, DeclineBehindCopies
  <1>13. PastDueWasDeclined'
    BY <1>7, <1>11 DEF IInv, PastDueWasDeclined, NewSubscription
  <1> QED BY <1>5, <1>9, <1>10, <1>12, <1>13 DEF IInv

(* A copy is written back over the row, without an invoice. *)
LEMMA CopyWritten ==
  ASSUME IInv, NEW s \in Subs, NEW read \in Row, NEW new \in Row, Shape(new),
         new.end = read.end, new.status = "past_due" => Declined(s),
         Overwrite(s, read, new), UNCHANGED invoices
  PROVE  /\ subs' \in [Subs -> Row] /\ clobbered' \in [Subs -> BOOLEAN]
         /\ \A u \in Subs : Exists(u) => Exists(u)'
         /\ \A u \in Subs : Exists(u)' => Shape(subs'[u])
         /\ \A u \in Subs : Declined(u)' = Declined(u)
         /\ ChargedInPeriod' /\ InvoicesAhead' /\ NoDoubleBilling' /\ OpenWasDeclined'
         /\ PastDueWasDeclined'
  <1>1. /\ subs' \in [Subs -> Row] /\ clobbered' \in [Subs -> BOOLEAN]
        /\ subs'[s] = new
        /\ \A u \in Subs \ {s} : subs'[u] = subs[u] /\ clobbered'[u] = clobbered[u]
        /\ ~clobbered'[s] => ~clobbered[s] /\ subs[s] = read
    BY DEF IInv, TypeOK, Overwrite
  <1>2. \A u \in Subs : Renewals(u)' = Renewals(u) /\ Declined(u)' = Declined(u)
    BY DEF Renewals, Declined
  <1>3. ChargedInPeriod' /\ OpenWasDeclined'
    BY <1>2 DEF IInv, ChargedInPeriod, OpenWasDeclined
  <1>4. InvoicesAhead' /\ NoDoubleBilling'
    BY <1>1, <1>2 DEF IInv, InvoicesAhead, NoDoubleBilling
  <1>5. PastDueWasDeclined'
    BY <1>1, <1>2 DEF IInv, PastDueWasDeclined
  <1>6. \A u \in Subs : Exists(u) => Exists(u)'
    BY <1>1 DEF IInv, RowsWellFormed, Exists, Shape
  <1>7. \A u \in Subs : Exists(u)' => Shape(subs'[u])
    BY <1>1 DEF IInv, RowsWellFormed, Exists
  <1>8. \A u \in Subs : Declined(u)' = Declined(u)
    BY <1>2
  <1> QED BY <1>1, <1>3, <1>4, <1>5, <1>6, <1>7, <1>8

LEMMA KeepsCancelCommit ==
  ASSUME IInv, NEW c \in Callers, NEW s \in Subs, CancelCommit(c, s)
  PROVE  IInv'
  <1> DEFINE row == call[c][s].row
             mode == call[c][s].mode
             new == Canceled(row, mode)
  <1>1. /\ TypeOK /\ row \in Row /\ mode \in {"immediate", "period_end"} /\ Shape(row)
        /\ row.status = "past_due" => Declined(s)
    BY DEF IInv, TypeOK, Call, RowsWellFormed, DeclineBehindCopies, CancelCommit
  <1>2. /\ new \in Row /\ new.end = row.end /\ Shape(new)
        /\ new.status \in {row.status, "canceled"}
    BY <1>1 DEF Canceled, Row, Status, Shape
  <1>3. Overwrite(s, row, new) /\ UNCHANGED invoices
    BY DEF CancelCommit
  <1> HIDE DEF row, new
  <1>4. /\ subs' \in [Subs -> Row] /\ clobbered' \in [Subs -> BOOLEAN]
        /\ \A u \in Subs : Exists(u) => Exists(u)'
        /\ \A u \in Subs : Exists(u)' => Shape(subs'[u])
        /\ \A u \in Subs : Declined(u)' = Declined(u)
        /\ ChargedInPeriod' /\ InvoicesAhead' /\ NoDoubleBilling' /\ OpenWasDeclined'
        /\ PastDueWasDeclined'
    BY <1>1, <1>2, <1>3, CopyWritten
  <1>5. TypeOK'
    <2>1. CancelEvent(mode) \in EventType
      BY <1>1 DEF CancelEvent, EventType
    <2>2. outbox' \in [Subs -> Seq(EventType)]
      BY <1>1, <2>1 DEF TypeOK, CancelCommit
    <2>3. call' \in [Callers -> [Subs -> Call]]
      BY <1>1 DEF TypeOK, CancelCommit, NoCall, NoRow, Call, Row, Status
    <2> QED BY <1>1, <1>4, <2>2, <2>3 DEF TypeOK, CancelCommit
  <1>6. /\ \A b \in Callers, u \in Subs : call'[b][u].pc = "read" => call'[b][u] = call[b][u]
        /\ UNCHANGED <<clock, unpriced, job, overdue, invoices>>
    BY <1>1 DEF TypeOK, CancelCommit, NoCall
  <1>7. RowsWellFormed'
    BY <1>4, <1>6 DEF IInv, RowsWellFormed
  <1>8. DeclineBehindCopies'
    BY <1>4, <1>6 DEF IInv, DeclineBehindCopies
  <1> QED BY <1>4, <1>5, <1>7, <1>8 DEF IInv

LEMMA KeepsOverdueWrite ==
  ASSUME IInv, NEW s \in Subs, OverdueWrite(s)
  PROVE  IInv'
  <1> DEFINE row == overdue[s].row
             new == [row EXCEPT !.status = "past_due"]
  <1>1. TypeOK /\ row \in Row /\ Shape(row) /\ Declined(s)
    BY DEF IInv, TypeOK, Call, RowsWellFormed, DeclineBehindCopies, OverdueWrite
  <1>2. new \in Row /\ new.end = row.end /\ Shape(new)
    BY <1>1 DEF Row, Status, Shape
  <1>3. Overwrite(s, row, new) /\ UNCHANGED invoices
    BY DEF OverdueWrite
  <1> HIDE DEF row, new
  <1>4. /\ subs' \in [Subs -> Row] /\ clobbered' \in [Subs -> BOOLEAN]
        /\ \A u \in Subs : Exists(u) => Exists(u)'
        /\ \A u \in Subs : Exists(u)' => Shape(subs'[u])
        /\ \A u \in Subs : Declined(u)' = Declined(u)
        /\ ChargedInPeriod' /\ InvoicesAhead' /\ NoDoubleBilling' /\ OpenWasDeclined'
        /\ PastDueWasDeclined'
    BY <1>1, <1>2, <1>3, CopyWritten
  <1>5. TypeOK'
    <2>1. NoCall \in Call
      BY DEF NoCall, NoRow, Call, Row, Status
    <2> QED BY <1>1, <1>4, <2>1 DEF TypeOK, OverdueWrite
  <1>6. /\ \A u \in Subs : overdue'[u].pc # "idle" => overdue'[u] = overdue[u]
        /\ UNCHANGED <<clock, unpriced, job, call, invoices>>
    BY <1>1 DEF TypeOK, OverdueWrite, NoCall
  <1>7. RowsWellFormed'
    BY <1>4, <1>6 DEF IInv, RowsWellFormed
  <1>8. DeclineBehindCopies'
    BY <1>4, <1>6 DEF IInv, DeclineBehindCopies
  <1> QED BY <1>4, <1>5, <1>7, <1>8 DEF IInv

(* ConfirmPayment changes status and tries of one invoice, tries upwards. *)
LEMMA KeepsConfirmPayment ==
  ASSUME IInv, NEW s \in Subs, NEW paid \in BOOLEAN, NEW i \in 1..Len(invoices[s]),
         ConfirmPayment(s, i, paid)
  PROVE  IInv'
  <1> DEFINE inv == invoices[s][i]
             new == IF paid THEN [inv EXCEPT !.status = "paid"]
                    ELSE [inv EXCEPT !.tries = inv.tries + 1,
                                     !.status = IF inv.tries + 1 >= 3 THEN "uncollectible" ELSE "open"]
  <1>1. /\ TypeOK /\ invoices[s] \in Seq(Invoice) /\ inv \in Invoice
        /\ UNCHANGED <<clock, unpriced, subs, lock, phase, job, call, overdue, clobbered>>
    BY DEF IInv, TypeOK, ConfirmPayment
  <1> DEFINE status == IF inv.tries + 1 >= 3 THEN "uncollectible" ELSE "open"
  <1>t. inv.tries \in Nat /\ inv.tries + 1 \in Nat /\ status \in {"uncollectible", "open"}
    <2>1. inv.tries \in Nat
      <3> HIDE DEF inv
      <3> QED BY <1>1, InvoiceFields
    <2>2. status \in {"uncollectible", "open"}
      OBVIOUS
    <2> QED BY <2>1, <2>2
  <1>2. /\ new \in Invoice /\ new.kind = inv.kind /\ new.start = inv.start
        /\ new.end = inv.end /\ new.created = inv.created
        /\ new.tries \in Nat /\ new.tries >= inv.tries
        /\ new.status = "open" => new.tries > 0
    <2> HIDE DEF inv
    <2>1. CASE paid
      <3>1. new = [inv EXCEPT !.status = "paid"]
        BY <2>1
      <3>2. new \in Invoice
        BY <1>1, <3>1, InvoiceFields
      <3> HIDE DEF new
      <3> QED BY <1>1, <1>t, <3>1, <3>2 DEF Invoice
    <2>2. CASE ~paid
      <3>1. new = [inv EXCEPT !.tries = inv.tries + 1, !.status = status]
        BY <2>2
      <3> HIDE DEF new, status
      <3>2. new \in Invoice
        BY <1>1, <1>t, <3>1, InvoiceFields
      <3>3. /\ new.kind = inv.kind /\ new.start = inv.start /\ new.end = inv.end
            /\ new.created = inv.created /\ new.tries = inv.tries + 1
        BY <1>1, <3>1 DEF Invoice
      <3> QED BY <1>t, <3>2, <3>3
    <2> QED BY <2>1, <2>2
  <1>3. /\ invoices' = [invoices EXCEPT ![s][i] = new]
        /\ outbox' \in [Subs -> Seq(EventType)]
        /\ confirms' \in 0..MaxConfirms
    <2>1. confirms' \in 0..MaxConfirms
      BY <1>1, ConstantsAssumption DEF TypeOK, ConfirmPayment
    <2>2. invoices' = [invoices EXCEPT ![s][i] = new]
      BY DEF ConfirmPayment
    <2>3. \/ outbox' = [outbox EXCEPT ![s] = Append(@, "invoice.paid")]
          \/ outbox' = [outbox EXCEPT ![s] = Append(@, "invoice.payment_failed")]
      BY DEF ConfirmPayment
    <2>4. \A e \in EventType : Append(outbox[s], e) \in Seq(EventType)
      BY <1>1 DEF TypeOK
    <2>5. "invoice.paid" \in EventType /\ "invoice.payment_failed" \in EventType
      BY DEF EventType
    <2> HIDE DEF new
    <2>6. outbox' \in [Subs -> Seq(EventType)]
      BY <1>1, <2>3, <2>4, <2>5 DEF TypeOK
    <2> QED BY <2>1, <2>2, <2>6
  <1> HIDE DEF new
  <1>4. /\ invoices' \in [Subs -> Seq(Invoice)]
        /\ \A u \in Subs : Len(invoices'[u]) = Len(invoices[u])
        /\ \A u \in Subs : \A j \in 1..Len(invoices[u]) :
              \/ invoices'[u][j] = invoices[u][j]
              \/ u = s /\ j = i /\ invoices'[u][j] = new
    <2>1. invoices' = [invoices EXCEPT ![s] = [invoices[s] EXCEPT ![i] = new]]
      BY <1>1, <1>3 DEF TypeOK
    <2>2. /\ [invoices[s] EXCEPT ![i] = new] \in Seq(Invoice)
          /\ Len([invoices[s] EXCEPT ![i] = new]) = Len(invoices[s])
          /\ \A j \in 1..Len(invoices[s]) :
                [invoices[s] EXCEPT ![i] = new][j] = IF j = i THEN new ELSE invoices[s][j]
      BY <1>1, <1>2
    <2> QED BY <1>1, <2>1, <2>2 DEF TypeOK
  <1>5. \A u \in Subs : \A j \in 1..Len(invoices[u]) :
           /\ invoices'[u][j].kind = invoices[u][j].kind
           /\ invoices'[u][j].start = invoices[u][j].start
           /\ invoices'[u][j].end = invoices[u][j].end
           /\ invoices'[u][j].created = invoices[u][j].created
           /\ invoices[u][j].tries > 0 => invoices'[u][j].tries > 0
           /\ invoices'[u][j].status = "open" =>
                 \/ invoices'[u][j].tries > 0
                 \/ invoices[u][j].status = "open"
    <2>1. inv.tries \in Nat
      BY <1>1 DEF Invoice
    <2> QED BY <1>2, <1>4, <2>1
  <1>6. TypeOK'
    BY <1>1, <1>3, <1>4 DEF TypeOK
  <1>7. \A u \in Subs : Renewals(u)' = Renewals(u) /\ (Declined(u) => Declined(u)')
    BY <1>4, <1>5 DEF Renewals, Declined
  <1>8. RowsWellFormed'
    <2>1. \A u \in Subs : invoices'[u] # <<>> => invoices[u] # <<>>
      BY <1>1, <1>4 DEF TypeOK
    <2> QED BY <1>1, <2>1 DEF IInv, RowsWellFormed, Exists
  <1>9. ChargedInPeriod'
    <2> SUFFICES ASSUME NEW u \in Subs, NEW j \in Renewals(u)
                 PROVE  /\ invoices'[u][j].start - PeriodLen <= invoices'[u][j].created
                        /\ invoices'[u][j].created < invoices'[u][j].start
      BY <1>7 DEF ChargedInPeriod
    <2>1. /\ invoices'[u][j].start = invoices[u][j].start
          /\ invoices'[u][j].created = invoices[u][j].created
      BY <1>5 DEF Renewals
    <2> QED BY <2>1 DEF IInv, ChargedInPeriod
  <1>r. \A u \in Subs : \A j \in Renewals(u) :
           /\ invoices'[u][j].start = invoices[u][j].start
           /\ invoices'[u][j].end = invoices[u][j].end
    BY <1>5 DEF Renewals
  <1>10. InvoicesAhead' /\ NoDoubleBilling'
    <2>1. InvoicesAhead'
      BY <1>1, <1>r, <1>7 DEF IInv, InvoicesAhead
    <2>2. NoDoubleBilling'
      BY <1>1, <1>r, <1>7 DEF IInv, NoDoubleBilling
    <2> QED BY <2>1, <2>2
  <1>11. OpenWasDeclined'
    BY <1>5, <1>7 DEF IInv, OpenWasDeclined, Renewals
  <1>12. DeclineBehindCopies' /\ PastDueWasDeclined'
    BY <1>1, <1>7 DEF IInv, DeclineBehindCopies, PastDueWasDeclined
  <1> QED BY <1>6, <1>8, <1>9, <1>10, <1>11, <1>12 DEF IInv

LEMMA KeepsRenewCommit ==
  ASSUME IInv, NEW d \in Drivers, NEW s \in Subs, NEW paid \in BOOLEAN, RenewCommit(d, s, paid)
  PROVE  IInv'
  <1> DEFINE row == job[d][s].row
  <1>1. /\ TypeOK /\ row \in Row /\ Shape(row) /\ job[d][s].since \in Nat /\ clock \in Nat
        /\ clock \in 0..MaxTime /\ job[d][s].pc = "read"
        /\ PeriodLen \in Nat \ {0} /\ Exists(s)
    BY ConstantsAssumption DEF IInv, TypeOK, Job, RowsWellFormed, RenewCommit
  <1>2. PICK now \in job[d][s].since..clock :
           /\ StillDue(row, now)
           /\ Overwrite(s, row, Settled(Renewed(row, now), paid))
           /\ invoices' = [invoices EXCEPT ![s] =
                              Append(@, RenewalInvoice(Renewed(row, now), now, paid))]
    BY DEF RenewCommit
  <1> DEFINE new == Renewed(row, now)
             inv == RenewalInvoice(new, now, paid)
             upd == Settled(new, paid)
  <1>3. now \in Nat /\ now <= clock
    BY <1>1, <1>2
  <1>4. /\ new \in Row /\ Shape(new) /\ new.end \in Nat /\ row.end \in Nat
        /\ new.end >= row.end + PeriodLen
        /\ new.end - PeriodLen <= now /\ now < new.end
    BY <1>1, <1>2, <1>3, RenewedRow DEF Row
  <1> HIDE DEF new
  <1>5. /\ inv \in Invoice /\ inv.kind = "renewal" /\ inv.start = new.end
        /\ inv.end = new.end + PeriodLen /\ inv.created = now
        /\ inv.status = "open" => inv.tries > 0
        /\ ~paid => inv.tries > 0
    BY <1>1, <1>3, <1>4 DEF RenewalInvoice, NextBillingDate, Invoice
  <1>6. /\ upd \in Row /\ Shape(upd) /\ upd.end = new.end
        /\ upd.status = "past_due" => ~paid
    BY <1>4 DEF Settled, Row, Status, Shape
  <1>7. Overwrite(s, row, upd) /\ invoices' = [invoices EXCEPT ![s] = Append(@, inv)]
    BY <1>2 DEF new
  <1> HIDE DEF inv, upd, row
  <1>8. /\ subs' \in [Subs -> Row] /\ clobbered' \in [Subs -> BOOLEAN]
        /\ subs'[s] = upd
        /\ \A u \in Subs \ {s} : subs'[u] = subs[u] /\ clobbered'[u] = clobbered[u]
        /\ ~clobbered'[s] => ~clobbered[s] /\ subs[s] = row
    BY <1>1, <1>6, <1>7 DEF TypeOK, Overwrite
  <1>9. /\ job' \in [Drivers -> [Subs -> Job]]
        /\ lock' \in [Subs -> Advancers \union {Nobody}]
        /\ job'[d][s].pc \in {"idle", "ready"}
        /\ \A e \in Drivers, u \in Subs : e # d \/ u # s => job'[e][u] = job[e][u]
    BY <1>1, JobEnds DEF RenewCommit
  <1> DEFINE n == Len(invoices[s])
  <1>10. /\ n \in Nat /\ invoices' \in [Subs -> Seq(Invoice)]
         /\ Len(invoices'[s]) = n + 1 /\ invoices'[s][n + 1] = inv
         /\ \A i \in 1..n : invoices'[s][i] = invoices[s][i]
         /\ \A u \in Subs \ {s} : invoices'[u] = invoices[u]
    <2>1. invoices[s] \in Seq(Invoice) /\ invoices'[s] = Append(invoices[s], inv)
      BY <1>1, <1>7 DEF TypeOK
    <2>2. Append(invoices[s], inv) \in Seq(Invoice)
      BY <1>5, <2>1, AppendInvoice
    <2>3. /\ n \in Nat /\ Len(invoices'[s]) = n + 1 /\ invoices'[s][n + 1] = inv
          /\ \A i \in 1..n : invoices'[s][i] = invoices[s][i]
      BY <1>5, <2>1, AppendInvoice
    <2>4. invoices' \in [Subs -> Seq(Invoice)] /\ \A u \in Subs \ {s} : invoices'[u] = invoices[u]
      BY <1>1, <1>7, <2>2 DEF TypeOK
    <2> QED BY <2>3, <2>4
  <1> HIDE DEF n
  <1>11. /\ Renewals(s)' = Renewals(s) \union {n + 1}
         /\ \A u \in Subs \ {s} : Renewals(u)' = Renewals(u)
         /\ Renewals(s) \subseteq 1..n
    BY <1>5, <1>10 DEF Renewals, n
  <1>12. TypeOK'
    <2>1. RenewalEvents(row, paid) \in Seq(EventType)
      BY <1>1, EventsTyped DEF row
    <2>2. outbox' = [outbox EXCEPT ![s] = @ \o RenewalEvents(row, paid)]
          /\ UNCHANGED <<clock, unpriced, phase, call, overdue, confirms>>
      BY DEF RenewCommit, row
    <2>3. outbox' \in [Subs -> Seq(EventType)]
      BY <1>1, <2>1, <2>2 DEF TypeOK
    <2> QED BY <1>1, <1>8, <1>9, <1>10, <2>2, <2>3 DEF TypeOK
  <1>13. UNCHANGED <<clock, unpriced, phase, call, overdue, confirms>>
    BY DEF RenewCommit
  <1>14. /\ \A u \in Subs : Declined(u) => Declined(u)'
         /\ ~paid => Declined(s)'
    BY <1>1, <1>5, <1>7, DeclinesStay
  <1>15. RowsWellFormed'
    <2>1. \A u \in Subs : Exists(u) => Exists(u)'
      BY <1>6, <1>8 DEF Exists, Shape
    <2>2. \A u \in Subs : Exists(u)' => Shape(subs'[u])
      BY <1>6, <1>8 DEF IInv, RowsWellFormed, Exists
    <2>3. \A e \in Drivers, u \in Subs :
             /\ job'[e][u].pc # "idle" => Exists(u)'
             /\ job'[e][u].pc = "read" => Shape(job'[e][u].row) /\ job'[e][u].since <= clock'
      BY <1>1, <1>9, <1>13, <2>1 DEF IInv, RowsWellFormed
    <2>4. \A u \in Subs : invoices'[u] # <<>> => Exists(u)'
      BY <1>1, <1>10, <2>1 DEF IInv, RowsWellFormed
    <2> QED BY <1>13, <2>1, <2>2, <2>3, <2>4 DEF IInv, RowsWellFormed
  <1>16. ChargedInPeriod'
    <2> SUFFICES ASSUME NEW u \in Subs, NEW i \in Renewals(u)'
                 PROVE  /\ invoices'[u][i].start - PeriodLen <= invoices'[u][i].created
                        /\ invoices'[u][i].created < invoices'[u][i].start
      BY DEF ChargedInPeriod
    <2>1. CASE u = s /\ i = n + 1
      BY <1>4, <1>5, <1>10, <2>1
    <2>2. CASE i \in Renewals(u) /\ invoices'[u][i] = invoices[u][i]
      BY <2>2 DEF IInv, ChargedInPeriod
    <2> QED BY <1>10, <1>11, <2>1, <2>2
  <1>17. InvoicesAhead'
    <2> SUFFICES ASSUME ~clobbered'[s], NEW i \in Renewals(s)'
                 PROVE  invoices'[s][i].end <= subs'[s].end + PeriodLen
      <3>1. ASSUME NEW u \in Subs \ {s}, ~clobbered'[u], NEW i \in Renewals(u)'
            PROVE  invoices'[u][i].end <= subs'[u].end + PeriodLen
        BY <1>8, <1>10, <1>11, <3>1 DEF IInv, InvoicesAhead
      <3> QED BY <3>1 DEF InvoicesAhead
    <2>1. CASE i = n + 1
      BY <1>1, <1>4, <1>5, <1>6, <1>8, <1>10, <2>1
    <2>2. CASE i \in Renewals(s)
      <3>1. invoices[s][i].end <= row.end + PeriodLen /\ invoices'[s][i] = invoices[s][i]
            /\ invoices[s][i].end \in Nat
        BY <1>1, <1>8, <1>10, <1>11, <2>2, InvoicesTyped DEF IInv, InvoicesAhead
      <3> QED BY <1>1, <1>4, <1>6, <1>8, <3>1
    <2> QED BY <1>11, <2>1, <2>2
  <1>18. NoDoubleBilling'
    <2> SUFFICES ASSUME ~clobbered'[s], NEW i \in Renewals(s)', NEW j \in Renewals(s)', i < j
                 PROVE  invoices'[s][i].end <= invoices'[s][j].start
      <3>1. ASSUME NEW u \in Subs \ {s}, ~clobbered'[u],
                   NEW i \in Renewals(u)', NEW j \in Renewals(u)', i < j
            PROVE  invoices'[u][i].end <= invoices'[u][j].start
        BY <1>8, <1>10, <1>11, <3>1 DEF IInv, NoDoubleBilling
      <3> QED BY <3>1 DEF NoDoubleBilling
    <2>1. i \in Renewals(s)
      BY <1>10, <1>11
    <2>2. CASE j = n + 1
      <3>1. invoices[s][i].end <= row.end + PeriodLen /\ invoices'[s][i] = invoices[s][i]
            /\ invoices[s][i].end \in Nat
        BY <1>1, <1>8, <1>10, <1>11, <2>1, InvoicesTyped DEF IInv, InvoicesAhead
      <3> QED BY <1>1, <1>4, <1>5, <1>10, <2>2, <3>1
    <2>3. CASE j \in Renewals(s)
      <3>1. invoices[s][i].end <= invoices[s][j].start
        BY <1>8, <2>1, <2>3 DEF IInv, NoDoubleBilling
      <3> QED BY <1>10, <1>11, <2>1, <2>3, <3>1
    <2> QED BY <1>11, <2>2, <2>3
  <1>19. OpenWasDeclined'
    <2> SUFFICES ASSUME NEW u \in Subs, NEW i \in Renewals(u)', invoices'[u][i].status = "open"
                 PROVE  invoices'[u][i].tries > 0
      BY DEF OpenWasDeclined
    <2>1. CASE u = s /\ i = n + 1
      BY <1>5, <1>10, <2>1
    <2>2. CASE i \in Renewals(u) /\ invoices'[u][i] = invoices[u][i]
      BY <2>2 DEF IInv, OpenWasDeclined
    <2> QED BY <1>10, <1>11, <2>1, <2>2
  <1>20. DeclineBehindCopies'
    BY <1>9, <1>13, <1>14 DEF IInv, DeclineBehindCopies
  <1>21. PastDueWasDeclined'
    BY <1>6, <1>8, <1>14 DEF IInv, PastDueWasDeclined
  <1> QED BY <1>12, <1>15, <1>16, <1>17, <1>18, <1>19, <1>20, <1>21 DEF IInv

LEMMA NextIInv == IInv /\ [Next]_vars => IInv'
  <1> SUFFICES ASSUME IInv, [Next]_vars PROVE IInv'
    OBVIOUS
  <1>1. CASE Tick
    BY <1>1, KeepsTick
  <1>2. ASSUME NEW s \in Subs, CreateSubscription(s) \/ DeletePrice(s) \/ LockExpires(s)
        PROVE  IInv'
    BY <1>2, KeepsCreateSubscription, KeepsDeletePrice, KeepsLockExpires
  <1>3. ASSUME NEW p \in Pollers, Poll(p) PROVE IInv'
    BY <1>3, KeepsPoll
  <1>4. ASSUME NEW a \in Advancers, CheckAndRenewSubscriptions(a) PROVE IInv'
    BY <1>4, KeepsCheckAndRenewSubscriptions
  <1>5. ASSUME NEW a \in Advancers, NEW d \in 1..MaxTime, AdvanceTime(a, d) PROVE IInv'
    BY <1>5, KeepsAdvanceTime
  <1>6. ASSUME NEW a \in Advancers, NEW s \in Subs, TakeLock(a, s) \/ LockDenied(a, s)
        PROVE  IInv'
    BY <1>6, KeepsTakeLock, KeepsLockDenied
  <1>7. ASSUME NEW d \in Drivers, NEW s \in Subs,
               RenewRead(d, s) \/ RenewUnpriced(d, s) \/ RenewNothing(d, s) \/ RenewRollback(d, s)
        PROVE  IInv'
    BY <1>7, KeepsRenewRead, KeepsRenewUnpriced, KeepsRenewNothing, KeepsRenewRollback
  <1>8. ASSUME NEW d \in Drivers, NEW s \in Subs, NEW paid \in BOOLEAN, RenewCommit(d, s, paid)
        PROVE  IInv'
    BY <1>8, KeepsRenewCommit
  <1>9. ASSUME NEW d \in Drivers, Crash(d) PROVE IInv'
    BY <1>9, KeepsCrash
  <1>10. ASSUME NEW c \in Callers, NEW s \in Subs, NEW mode \in {"immediate", "period_end"},
                CancelRead(c, s, mode)
         PROVE  IInv'
    BY <1>10, KeepsCancelRead
  <1>11. ASSUME NEW c \in Callers, NEW s \in Subs, CancelCommit(c, s) \/ CancelRollback(c, s)
         PROVE  IInv'
    BY <1>11, KeepsCancelCommit, KeepsCancelRollback
  <1>12. ASSUME NEW s \in Subs, OverdueRead(s) \/ OverduePassed(s) \/ OverdueWrite(s)
         PROVE  IInv'
    BY <1>12, KeepsOverdueRead, KeepsOverduePassed, KeepsOverdueWrite
  <1>15. CASE OverdueList
    BY <1>15, KeepsOverdueList
  <1>13. ASSUME NEW s \in Subs, NEW paid \in BOOLEAN, NEW i \in 1..Len(invoices[s]),
                ConfirmPayment(s, i, paid)
         PROVE  IInv'
    BY <1>13, KeepsConfirmPayment
  <1>14. CASE UNCHANGED vars
    <2>1. UNCHANGED <<subs, invoices, clobbered>> /\ TypeOK' /\ RowsWellFormed'
      BY <1>14 DEF vars, IInv, TypeOK, RowsWellFormed, Exists
    <2>2. DeclineBehindCopies'
      BY <1>14, <2>1, TablesUntouched DEF vars, IInv, DeclineBehindCopies
    <2> QED BY <2>1, <2>2, TablesUntouched DEF IInv
  <1> QED
    BY <1>1, <1>2, <1>3, <1>4, <1>5, <1>6, <1>7, <1>8, <1>9, <1>10, <1>11, <1>12, <1>13, <1>14,
       <1>15
    DEF Next

-----------------------------------------------------------------------------
(* The strengthened invariant holds in every reachable state. *)
THEOREM Inductive == Spec => []IInv
  BY InitIInv, NextIInv, PTL DEF Spec

(* The tables, the lock and everything in flight keep their types: no      *)
(* retry, stale write or clock jump makes a row that is not one.           *)
THEOREM TypeCorrect == Spec => []TypeOK
  <1>1. IInv => TypeOK
    BY DEF IInv
  <1> QED BY <1>1, Inductive, PTL

(* For any period length and any number of pollers, requests and retries,  *)
(* every renewal is charged within the period it follows (billing.go:215,  *)
(* subscription.go:158-171).                                               *)
THEOREM NobodyChargedEarly == Spec => []ChargedInPeriod
  <1>1. IInv => ChargedInPeriod
    BY DEF IInv
  <1> QED BY <1>1, Inductive, PTL

(* Without a lost update nobody is billed twice for the same time: what    *)
(* the recheck in RenewSubscription alone guarantees, and the renewal lock *)
(* has to add.                                                             *)
THEOREM NobodyBilledTwice == Spec => []NoDoubleBilling
  <1>1. IInv => NoDoubleBilling
    BY DEF IInv
  <1> QED BY <1>1, Inductive, PTL

(* past_due is written only after a renewal of the subscription was        *)
(* declined, whatever stale copy carries it.                               *)
THEOREM PastDueHasACause == Spec => []PastDueWasDeclined
  <1>1. IInv => PastDueWasDeclined
    BY DEF IInv
  <1> QED BY <1>1, Inductive, PTL

-----------------------------------------------------------------------------
(* Renewals under the lock alone, whose leases outlast them, lose no       *)
(* update: the holder is one of the advancers, and it has read the row     *)
(* since nobody else has written it.                                       *)

LEMMA InitLocked == Init => LockedInv
  BY DEF Init, LockedInv, RenewsUnderLock, CopiesFresh, NoLostUpdate, Busy, NoJob, Drivers

(* A step that writes no subscription: what is left to show is that who is *)
(* busy has the lock, and that what is read is the table's row.            *)
LEMMA LockedKept ==
  ASSUME LockedInv, RenewsUnderLock', UNCHANGED <<subs, clobbered>>,
         \A a \in Advancers, s \in Subs :
            \/ job'[a][s] = job[a][s]
            \/ job'[a][s].pc # "read"
            \/ job'[a][s].row = subs[s]
  PROVE  LockedInv'
  <1>1. CopiesFresh'
    BY DEF LockedInv, CopiesFresh
  <1>2. NoLostUpdate'
    BY DEF LockedInv, NoLostUpdate
  <1> QED BY <1>1, <1>2 DEF LockedInv

LEMMA LockedUntouched ==
  ASSUME LockedInv, UNCHANGED <<subs, clobbered, lock, job>>
  PROVE  LockedInv'
  <1>1. RenewsUnderLock'
    BY DEF LockedInv, RenewsUnderLock, Busy
  <1> QED BY <1>1, LockedKept

(* Steps that replace the jobs of one driver by such as do not renew. *)
LEMMA LockedIdle ==
  ASSUME TypeOK, LockedInv, UNCHANGED <<subs, clobbered, lock>>, NEW d \in Drivers,
         \A a \in Drivers \ {d} : job'[a] = job[a],
         \A s \in Subs : job'[d][s].pc \in {"idle", "listed"} \/ job'[d][s] = job[d][s]
  PROVE  LockedInv'
  <1>1. \A a \in Advancers, s \in Subs :
           job'[a][s] = job[a][s] \/ job'[a][s].pc \in {"idle", "listed"}
    BY DEF Drivers
  <1>2. RenewsUnderLock'
    BY <1>1 DEF LockedInv, RenewsUnderLock, Busy
  <1> QED BY <1>1, <1>2, LockedKept

LEMMA LockedCreate ==
  ASSUME IInv, LockedInv, NEW s \in Subs, CreateSubscription(s)
  PROVE  LockedInv'
  <1>1. /\ subs' = [subs EXCEPT ![s] = NewSubscription(clock)]
        /\ UNCHANGED <<clobbered, lock, job>> /\ ~Exists(s)
    BY DEF CreateSubscription
  <1>2. \A a \in Advancers : job[a][s].pc = "idle"
    BY <1>1 DEF IInv, RowsWellFormed, Drivers
  <1>3. \A u \in Subs \ {s} : subs'[u] = subs[u]
    BY <1>1 DEF IInv, TypeOK
  <1>4. RenewsUnderLock' /\ NoLostUpdate'
    BY <1>1 DEF LockedInv, RenewsUnderLock, NoLostUpdate, Busy
  <1>5. CopiesFresh'
    BY <1>1, <1>2, <1>3 DEF LockedInv, CopiesFresh
  <1> QED BY <1>4, <1>5 DEF LockedInv

(* The lease lapses only when its holder is gone: nobody is busy then. *)
LEMMA LockedExpires ==
  ASSUME ~LeaseMayLapse, TypeOK, LockedInv, NEW s \in Subs, LockExpires(s)
  PROVE  LockedInv'
  <1>1. /\ lock' = [lock EXCEPT ![s] = Nobody] /\ ~Busy(lock[s], s)
        /\ UNCHANGED <<subs, clobbered, job>>
    BY DEF LockExpires
  <1>2. \A a \in Advancers : ~Busy(a, s)
    BY <1>1 DEF LockedInv, RenewsUnderLock
  <1>3. RenewsUnderLock'
    BY <1>1, <1>2 DEF LockedInv, RenewsUnderLock, Busy, TypeOK
  <1> QED BY <1>1, <1>3, LockedKept

LEMMA LockedTakes ==
  ASSUME TypeOK, LockedInv, NEW a \in Advancers, NEW s \in Subs, TakeLock(a, s)
  PROVE  LockedInv'
  <1>1. /\ lock[s] = Nobody /\ lock' = [lock EXCEPT ![s] = a]
        /\ job' = [job EXCEPT ![a][s].pc = "ready"]
        /\ UNCHANGED <<subs, clobbered>>
    BY DEF TakeLock
  <1>2. \A b \in Advancers : ~Busy(b, s)
    BY <1>1, ConstantsAssumption DEF LockedInv, RenewsUnderLock
  <1>3. /\ job'[a][s].pc = "ready"
        /\ \A b \in Advancers, u \in Subs : b # a \/ u # s => job'[b][u] = job[b][u]
    BY <1>1 DEF TypeOK, Drivers, Job
  <1>4. /\ lock'[s] = a /\ \A u \in Subs \ {s} : lock'[u] = lock[u]
    BY <1>1 DEF TypeOK
  <1>5. RenewsUnderLock'
    <2> SUFFICES ASSUME NEW b \in Advancers, NEW u \in Subs, Busy(b, u)' PROVE lock'[u] = b
      BY DEF RenewsUnderLock
    <2>1. CASE b = a /\ u = s
      BY <1>4, <2>1
    <2>2. CASE b # a \/ u # s
      <3>1. Busy(b, u)
        BY <1>3, <2>2 DEF Busy
      <3>2. u # s
        BY <1>2, <3>1
      <3> QED BY <1>4, <3>1, <3>2 DEF LockedInv, RenewsUnderLock
    <2> QED BY <2>1, <2>2
  <1> QED BY <1>1, <1>3, <1>5, LockedKept

LEMMA LockedReads ==
  ASSUME IInv, LockedInv, NEW d \in Drivers, NEW s \in Subs, RenewRead(d, s)
  PROVE  LockedInv'
  <1> DEFINE j == [pc |-> "read", row |-> subs[s], since |-> clock, tries |-> job[d][s].tries + 1]
  <1>1. TypeOK /\ j \in Job /\ j.pc = "read" /\ j.row = subs[s]
    BY ConstantsAssumption DEF IInv, TypeOK, Job
  <1>2. Replaced(d, s, j)
    BY DEF RenewRead, Replaced
  <1> HIDE DEF j
  <1>3. OnlyReplaced(d, s, j)
    BY <1>1, <1>2, JobReplaced
  <1>4. /\ job'[d][s] = j
        /\ \A e \in Drivers, u \in Subs : e # d \/ u # s => job'[e][u] = job[e][u]
        /\ UNCHANGED <<subs, clobbered, lock>>
    BY <1>3 DEF OnlyReplaced, RenewRead
  <1>5. d \in Advancers => Busy(d, s)
    BY ConstantsAssumption DEF RenewRead, MayBegin, Busy
  <1>6. RenewsUnderLock'
    BY <1>4, <1>5 DEF LockedInv, RenewsUnderLock, Busy, Drivers
  <1> QED BY <1>1, <1>4, <1>6, LockedKept DEF Drivers

(* The holder, and no other advancer, works on the row; when it ends, it   *)
(* is not busy any more, or it starts over with the lock in its hands.     *)
LEMMA HolderEnds ==
  ASSUME IInv, LockedInv, NEW a \in Advancers, NEW s \in Subs, Busy(a, s),
         Finish(a, s) \/ Again(a, s)
  PROVE  /\ RenewsUnderLock' /\ job'[a][s].pc # "read"
         /\ \A b \in Advancers \ {a} : ~Busy(b, s)
         /\ \A b \in Advancers, u \in Subs : b # a \/ u # s => job'[b][u] = job[b][u]
  <1>1. /\ TypeOK /\ a \in Drivers
        /\ job'[a][s].pc \in {"idle", "ready"}
        /\ \A b \in Advancers, u \in Subs : b # a \/ u # s => job'[b][u] = job[b][u]
    BY JobEnds DEF IInv, Drivers
  <1>2. /\ lock[s] = a
        /\ \A b \in Advancers \ {a} : ~Busy(b, s)
    BY DEF LockedInv, RenewsUnderLock, Busy
  <1>3. \A u \in Subs \ {s} : lock'[u] = lock[u]
    BY <1>1 DEF TypeOK, Finish, Again
  <1>4. Busy(a, s)' => lock'[s] = a
    <2>1. CASE Finish(a, s)
      <3>1. job'[a][s] = NoJob
        BY <1>1, <2>1 DEF TypeOK, Finish
      <3> QED BY <3>1 DEF Busy, NoJob
    <2>2. CASE Again(a, s)
      BY <1>2, <2>2 DEF Again
    <2> QED BY <2>1, <2>2
  <1>5. RenewsUnderLock'
    <2> SUFFICES ASSUME NEW b \in Advancers, NEW u \in Subs, Busy(b, u)' PROVE lock'[u] = b
      BY DEF RenewsUnderLock
    <2>1. CASE b = a /\ u = s
      BY <1>4, <2>1
    <2>2. CASE b # a \/ u # s
      <3>1. Busy(b, u)
        BY <1>1, <2>2 DEF Busy
      <3>2. u # s
        BY <1>2, <2>2, <3>1
      <3> QED BY <1>3, <3>1, <3>2 DEF LockedInv, RenewsUnderLock
    <2> QED BY <2>1, <2>2
  <1> QED BY <1>1, <1>2, <1>5

LEMMA LockedEnds ==
  ASSUME IInv, LockedInv, OnlyLockedWriters, NEW d \in Drivers, NEW s \in Subs,
         RenewUnpriced(d, s) \/ RenewNothing(d, s) \/ RenewRollback(d, s)
  PROVE  LockedInv'
  <1>1. /\ job[d][s].pc # "idle" /\ (d \in Advancers => Busy(d, s))
        /\ (Finish(d, s) \/ Again(d, s))
        /\ UNCHANGED <<subs, clobbered>>
    BY ConstantsAssumption DEF RenewUnpriced, MayBegin, RenewNothing, RenewRollback, Busy
  <1>2. d \in Advancers
    BY <1>1 DEF OnlyLockedWriters, Quiet, Drivers
  <1> QED BY <1>1, <1>2, HolderEnds, LockedKept

(* What the holder has read is still in the table when it writes. *)
LEMMA LockedCommits ==
  ASSUME IInv, LockedInv, OnlyLockedWriters, NEW d \in Drivers, NEW s \in Subs,
         NEW paid \in BOOLEAN, RenewCommit(d, s, paid)
  PROVE  LockedInv'
  <1>1. /\ job[d][s].pc = "read" /\ (Finish(d, s) \/ Again(d, s))
        /\ \E new : Overwrite(s, job[d][s].row, new)
    BY DEF RenewCommit
  <1>2. d \in Advancers
    BY <1>1 DEF OnlyLockedWriters, Quiet, Drivers
  <1>3. TypeOK /\ subs[s] = job[d][s].row
    BY <1>1, <1>2 DEF IInv, LockedInv, CopiesFresh
  <1>4. /\ \A u \in Subs \ {s} : subs'[u] = subs[u]
        /\ \A u \in Subs : clobbered'[u] = clobbered[u]
    BY <1>1, <1>3 DEF Overwrite, TypeOK
  <1>5. /\ RenewsUnderLock' /\ job'[d][s].pc # "read"
        /\ \A b \in Advancers \ {d} : ~Busy(b, s)
        /\ \A b \in Advancers, u \in Subs : b # d \/ u # s => job'[b][u] = job[b][u]
    BY <1>1, <1>2, HolderEnds DEF Busy
  <1>6. CopiesFresh'
    <2> SUFFICES ASSUME NEW b \in Advancers, NEW u \in Subs, job'[b][u].pc = "read"
                 PROVE  job'[b][u].row = subs'[u]
      BY DEF CopiesFresh
    <2>1. job'[b][u] = job[b][u] /\ job[b][u].pc = "read"
      BY <1>5
    <2>2. u # s
      BY <1>5, <2>1 DEF Busy
    <2> QED BY <1>4, <2>1, <2>2 DEF LockedInv, CopiesFresh
  <1>7. NoLostUpdate'
    BY <1>4 DEF LockedInv, NoLostUpdate
  <1> QED BY <1>5, <1>6, <1>7 DEF LockedInv

LEMMA LockedStep ==
  ASSUME ~LeaseMayLapse, IInv, LockedInv, OnlyLockedWriters, [Next]_vars
  PROVE  LockedInv'
  <1>1. TypeOK
    BY DEF IInv
  <1>2. ASSUME NEW s \in Subs, CreateSubscription(s) \/ LockExpires(s) PROVE LockedInv'
    BY <1>1, <1>2, LockedCreate, LockedExpires
  <1>3. ASSUME NEW p \in Pollers, Poll(p) PROVE LockedInv'
    <2>1. /\ p \in Drivers /\ \A a \in Drivers \ {p} : job'[a] = job[a]
          /\ \A s \in Subs : job'[p][s].pc \in {"idle", "listed"}
      BY <1>1, <1>3 DEF Poll, TypeOK, Drivers, Listed, NoJob
    <2> QED BY <1>1, <1>3, <2>1, LockedIdle DEF Poll
  <1>4. ASSUME NEW a \in Advancers, CheckAndRenewSubscriptions(a) PROVE LockedInv'
    <2>1. /\ a \in Drivers /\ \A b \in Drivers \ {a} : job'[b] = job[b]
          /\ \A s \in Subs : job'[a][s].pc \in {"idle", "listed"}
      BY <1>1, <1>4 DEF CheckAndRenewSubscriptions, TypeOK, Drivers, Listed, NoJob
    <2> QED BY <1>1, <1>4, <2>1, LockedIdle DEF CheckAndRenewSubscriptions
  <1>5. ASSUME NEW a \in Advancers, NEW s \in Subs, TakeLock(a, s) PROVE LockedInv'
    BY <1>1, <1>5, LockedTakes
  <1>6. ASSUME NEW a \in Advancers, NEW s \in Subs, LockDenied(a, s) PROVE LockedInv'
    <2>1. /\ a \in Drivers /\ \A b \in Drivers \ {a} : job'[b] = job[b]
          /\ \A u \in Subs : job'[a][u].pc = "idle" \/ job'[a][u] = job[a][u]
      BY <1>1, <1>6 DEF LockDenied, TypeOK, Drivers, NoJob
    <2> QED BY <1>1, <1>6, <2>1, LockedIdle DEF LockDenied
  <1>7. ASSUME NEW d \in Drivers, NEW s \in Subs, RenewRead(d, s) PROVE LockedInv'
    BY <1>7, LockedReads
  <1>8. ASSUME NEW d \in Drivers, NEW s \in Subs,
               RenewUnpriced(d, s) \/ RenewNothing(d, s) \/ RenewRollback(d, s)
        PROVE  LockedInv'
    BY <1>8, LockedEnds
  <1>9. ASSUME NEW d \in Drivers, NEW s \in Subs, NEW paid \in BOOLEAN, RenewCommit(d, s, paid)
        PROVE  LockedInv'
    BY <1>9, LockedCommits
  <1>10. ASSUME NEW d \in Drivers, Crash(d) PROVE LockedInv'
    <2>1. /\ \A b \in Drivers \ {d} : job'[b] = job[b]
          /\ \A u \in Subs : job'[d][u].pc = "idle"
      BY <1>1, <1>10 DEF Crash, TypeOK, NoJob
    <2> QED BY <1>1, <1>10, <2>1, LockedIdle DEF Crash
  <1>11. ASSUME NEW c \in Callers, NEW s \in Subs, CancelCommit(c, s) PROVE LockedInv'
    BY <1>11 DEF CancelCommit, OnlyLockedWriters
  <1>12. ASSUME NEW s \in Subs, OverdueWrite(s) PROVE LockedInv'
    BY <1>12 DEF OverdueWrite, OnlyLockedWriters
  <1>13. CASE \/ Tick \/ OverdueList
              \/ \E s \in Subs : DeletePrice(s)
              \/ \E a \in Advancers, d \in 1..MaxTime : AdvanceTime(a, d)
              \/ \E c \in Callers, s \in Subs, mode \in {"immediate", "period_end"} :
                    CancelRead(c, s, mode)
              \/ \E c \in Callers, s \in Subs : CancelRollback(c, s)
              \/ \E s \in Subs : OverdueRead(s) \/ OverduePassed(s)
              \/ \E s \in Subs, paid \in BOOLEAN : \E i \in 1..Len(invoices[s]) :
                    ConfirmPayment(s, i, paid)
              \/ UNCHANGED vars
    <2>1. UNCHANGED <<subs, clobbered, lock, job>>
      BY <1>13 DEF Tick, DeletePrice, OverdueList, AdvanceTime, CancelRead, CancelRollback, OverdueRead,
                   OverduePassed, ConfirmPayment, vars
    <2> QED BY <2>1, LockedUntouched
  <1> QED
    BY <1>2, <1>3, <1>4, <1>5, <1>6, <1>7, <1>8, <1>9, <1>10, <1>11, <1>12, <1>13 DEF Next

(* time.go:121-140: as long as leases outlast the renewals, and no poller,  *)
(* cancellation or overdue worker writes, no renewal overwrites a row it    *)
(* has not read, for any number of requests, subscriptions and attempts:    *)
(* with a retry after an ambiguous commit, a crash of the holder, and locks *)
(* that are denied or expire among the steps.                               *)
THEOREM LockPreventsLostUpdates ==
  ASSUME ~LeaseMayLapse
  PROVE  Spec /\ []OnlyLockedWriters => []NoLostUpdate
  <1>1. IInv /\ OnlyLockedWriters /\ LockedInv /\ [Next]_vars => LockedInv'
    BY LockedStep
  <1>2. LockedInv => NoLostUpdate
    BY DEF LockedInv
  <1> QED BY <1>1, <1>2, InitLocked, Inductive, PTL DEF Spec

-----------------------------------------------------------------------------
(* One subscription.renewed event per renewal invoice: the two are written *)
(* by one commit, and nothing else writes either.                          *)

Announced(events) == {e \in 1..Len(events) : events[e] = "subscription.renewed"}

LEMMA SetsFinite ==
  ASSUME NEW s \in Subs, TypeOK
  PROVE  /\ IsFiniteSet(Renewals(s)) /\ Cardinality(Renewals(s)) \in Nat
         /\ IsFiniteSet(Announced(outbox[s])) /\ Cardinality(Announced(outbox[s])) \in Nat
  <1>1. Len(invoices[s]) \in Nat /\ Len(outbox[s]) \in Nat
    BY DEF TypeOK
  <1>2. IsFiniteSet(1..Len(invoices[s])) /\ IsFiniteSet(1..Len(outbox[s]))
    <2>1. \A n \in Nat : n \in Int /\ 1 \in Int
      OBVIOUS
    <2> QED BY <1>1, <2>1, FS_Interval
  <1>3. Renewals(s) \in SUBSET (1..Len(invoices[s]))
        /\ Announced(outbox[s]) \in SUBSET (1..Len(outbox[s]))
    BY DEF Renewals, Announced
  <1>4. IsFiniteSet(Renewals(s)) /\ IsFiniteSet(Announced(outbox[s]))
    BY <1>2, <1>3, FS_Subset
  <1> QED BY <1>4, FS_CardinalityType

(* Appending events of which only the first may be a renewal's. *)
LEMMA AnnouncedConcat ==
  ASSUME NEW q \in Seq(EventType), NEW ev \in Seq(EventType), ev # <<>>,
         \A i \in 2..Len(ev) : ev[i] # "subscription.renewed"
  PROVE  Announced(q \o ev) =
            IF ev[1] = "subscription.renewed" THEN Announced(q) \union {Len(q) + 1}
                                              ELSE Announced(q)
  <1>1. /\ Len(q) \in Nat /\ Len(ev) \in Nat /\ Len(ev) >= 1
        /\ Len(q \o ev) = Len(q) + Len(ev)
        /\ \A i \in 1..Len(q) : (q \o ev)[i] = q[i]
        /\ \A i \in 1..Len(ev) : (q \o ev)[Len(q) + i] = ev[i]
    <2>1. Len(q) \in Nat /\ Len(ev) \in Nat /\ Len(ev) >= 1
      BY EmptySeq, LenProperties
    <2>2. /\ Len(q \o ev) = Len(q) + Len(ev)
          /\ \A i \in 1..(Len(q) + Len(ev)) :
                (q \o ev)[i] = IF i <= Len(q) THEN q[i] ELSE ev[i - Len(q)]
      BY ConcatProperties
    <2>3. \A i \in 1..Len(q) : (q \o ev)[i] = q[i]
      BY <2>1, <2>2
    <2>4. ASSUME NEW i \in 1..Len(ev) PROVE (q \o ev)[Len(q) + i] = ev[i]
      <3>1. Len(q) + i \in 1..(Len(q) + Len(ev)) /\ ~(Len(q) + i <= Len(q))
            /\ (Len(q) + i) - Len(q) = i
        BY <2>1
      <3> QED BY <2>2, <3>1
    <2> QED BY <2>1, <2>2, <2>3, <2>4
  <1>2. ASSUME NEW e \in 1..Len(q \o ev)
        PROVE  \/ e \in 1..Len(q) /\ (q \o ev)[e] = q[e]
               \/ e = Len(q) + 1 /\ (q \o ev)[e] = ev[1]
               \/ e \notin 1..(Len(q) + 1) /\ (q \o ev)[e] # "subscription.renewed"
    <2>1. CASE e <= Len(q)
      BY <1>1, <2>1
    <2>2. CASE e > Len(q)
      <3>1. e - Len(q) \in 1..Len(ev) /\ Len(q) + (e - Len(q)) = e
        BY <1>1, <2>2
      <3>2. (q \o ev)[e] = ev[e - Len(q)]
        BY <1>1, <3>1
      <3> QED BY <1>1, <3>1, <3>2
    <2> QED BY <1>1, <2>1, <2>2
  <1>3. /\ 1..Len(q) \subseteq 1..Len(q \o ev)
        /\ Len(q) + 1 \in 1..Len(q \o ev) /\ Len(q) + 1 \notin 1..Len(q)
        /\ (q \o ev)[Len(q) + 1] = ev[1]
    BY <1>1
  <1> QED BY <1>1, <1>2, <1>3 DEF Announced

LEMMA AnnouncedAppend ==
  ASSUME NEW q \in Seq(EventType), NEW e \in EventType, e # "subscription.renewed"
  PROVE  Announced(Append(q, e)) = Announced(q)
  <1>1. /\ Len(q) \in Nat /\ Len(Append(q, e)) = Len(q) + 1
        /\ \A i \in 1..Len(q) : Append(q, e)[i] = q[i]
        /\ Append(q, e)[Len(q) + 1] = e
    BY AppendProperties, LenProperties
  <1> QED BY <1>1 DEF Announced

(* A step that writes no invoice but one's status and tries, and announces *)
(* no renewal.                                                             *)
LEMMA AnnouncedKept ==
  ASSUME ChargesAnnounced, \A s \in Subs : Renewals(s)' = Renewals(s),
         \A s \in Subs : Announced(outbox[s])' = Announced(outbox[s])
  PROVE  ChargesAnnounced'
  BY DEF ChargesAnnounced, Announced

LEMMA AnnouncedUntouched ==
  ASSUME ChargesAnnounced, UNCHANGED <<invoices, outbox>>
  PROVE  ChargesAnnounced'
  <1>1. \A s \in Subs : Renewals(s)' = Renewals(s) /\ Announced(outbox[s])' = Announced(outbox[s])
    BY DEF Renewals, Announced
  <1> QED BY <1>1, AnnouncedKept

(* A step that appends one event to one outbox and leaves the renewals. *)
LEMMA AnnouncedOther ==
  ASSUME TypeOK, ChargesAnnounced, \A u \in Subs : Renewals(u)' = Renewals(u),
         NEW s \in Subs, NEW e \in EventType, e # "subscription.renewed",
         outbox' = [outbox EXCEPT ![s] = Append(@, e)]
  PROVE  ChargesAnnounced'
  <1>1. \A u \in Subs : outbox[u] \in Seq(EventType)
    BY DEF TypeOK
  <1>2. /\ outbox'[s] = Append(outbox[s], e)
        /\ \A u \in Subs \ {s} : outbox'[u] = outbox[u]
    BY DEF TypeOK
  <1>3. Announced(Append(outbox[s], e)) = Announced(outbox[s])
    BY <1>1, AnnouncedAppend
  <1>4. \A u \in Subs : Announced(outbox'[u]) = Announced(outbox[u])
    BY <1>2, <1>3
  <1>5. \A u \in Subs : Announced(outbox[u])' = Announced(outbox'[u])
    BY DEF Announced
  <1> QED BY <1>4, <1>5, AnnouncedKept

LEMMA AnnouncedCreate ==
  ASSUME IInv, ChargesAnnounced, NEW s \in Subs, CreateSubscription(s)
  PROVE  ChargesAnnounced'
  <1>1. /\ TypeOK
        /\ invoices'[s] = <<FirstInvoice(clock)>>
        /\ outbox'[s] = <<"subscription.created", "invoice.created", "invoice.paid">>
        /\ \A u \in Subs \ {s} : invoices'[u] = invoices[u] /\ outbox'[u] = outbox[u]
    BY DEF IInv, TypeOK, CreateSubscription
  <1>2. Renewals(s)' = {}
    BY <1>1 DEF Renewals, FirstInvoice
  <1>3. {e \in 1..Len(outbox'[s]) : outbox'[s][e] = "subscription.renewed"} = {}
    BY <1>1
  <1>4. ASSUME NEW u \in Subs \ {s}
        PROVE  /\ Renewals(u)' = Renewals(u)
               /\ {e \in 1..Len(outbox'[u]) : outbox'[u][e] = "subscription.renewed"}
                    = {e \in 1..Len(outbox[u]) : outbox[u][e] = "subscription.renewed"}
    BY <1>1 DEF Renewals
  <1> QED BY <1>2, <1>3, <1>4 DEF ChargesAnnounced

(* A sequence of events that starts with a renewal's, the only one. *)
StartsRenewal(q) ==
    /\ q \in Seq(EventType) /\ Len(q) \in Nat /\ Len(q) >= 1
    /\ q[1] = "subscription.renewed"
    /\ \A i \in 2..Len(q) : q[i] # "subscription.renewed"

LEMMA RenewalFollowed ==
  ASSUME NEW p, StartsRenewal(p), NEW q \in Seq(EventType),
         \A i \in 1..Len(q) : q[i] # "subscription.renewed"
  PROVE  StartsRenewal(p \o q)
  <1>1. /\ p \in Seq(EventType) /\ Len(p) \in Nat /\ Len(p) >= 1 /\ Len(q) \in Nat
        /\ p[1] = "subscription.renewed"
        /\ \A i \in 2..Len(p) : p[i] # "subscription.renewed"
    BY DEF StartsRenewal
  <1>2. /\ p \o q \in Seq(EventType) /\ Len(p \o q) = Len(p) + Len(q)
        /\ \A i \in 1..(Len(p) + Len(q)) :
              (p \o q)[i] = IF i <= Len(p) THEN p[i] ELSE q[i - Len(p)]
    BY <1>1, ConcatProperties
  <1>3. (p \o q)[1] = "subscription.renewed"
    BY <1>1, <1>2
  <1>4. ASSUME NEW i \in 2..(Len(p) + Len(q)) PROVE (p \o q)[i] # "subscription.renewed"
    <2>1. CASE i <= Len(p)
      BY <1>1, <1>2, <2>1
    <2>2. CASE i > Len(p)
      <3>1. i - Len(p) \in 1..Len(q) /\ i \in 1..(Len(p) + Len(q)) /\ ~(i <= Len(p))
        BY <1>1, <2>2
      <3> QED BY <1>2, <3>1
    <2> QED BY <1>1, <2>1, <2>2
  <1> QED BY <1>1, <1>2, <1>3, <1>4 DEF StartsRenewal

(* The events of one renewal start with its announcement, the only one. *)
LEMMA RenewalAnnounces ==
  ASSUME NEW row \in Row, NEW paid \in BOOLEAN
  PROVE  /\ RenewalEvents(row, paid) \in Seq(EventType) /\ RenewalEvents(row, paid) # <<>>
         /\ RenewalEvents(row, paid)[1] = "subscription.renewed"
         /\ \A i \in 2..Len(RenewalEvents(row, paid)) :
               RenewalEvents(row, paid)[i] # "subscription.renewed"
  <1> DEFINE first == <<"subscription.renewed">>
             mid == IF Settled(row, paid).status # row.status THEN <<"subscription.updated">> ELSE <<>>
             last == <<"invoice.created", IF paid THEN "invoice.paid" ELSE "invoice.payment_failed">>
             all == (first \o mid) \o last
  <1>1. /\ first \in Seq(EventType) /\ Len(first) = 1
        /\ first[1] = "subscription.renewed"
    BY DEF EventType
  <1>2. /\ mid \in Seq(EventType) /\ Len(mid) \in Nat
        /\ \A i \in 1..Len(mid) : mid[i] # "subscription.renewed"
    <2>1. /\ <<"subscription.updated">> \in Seq(EventType) /\ <<>> \in Seq(EventType)
          /\ Len(<<"subscription.updated">>) = 1
          /\ <<"subscription.updated">>[1] # "subscription.renewed"
      BY DEF EventType
    <2> QED BY <2>1
  <1>3. /\ last \in Seq(EventType) /\ Len(last) = 2
        /\ \A i \in 1..2 : last[i] # "subscription.renewed"
    BY DEF EventType
  <1>4. RenewalEvents(row, paid) = all
    BY DEF RenewalEvents
  <1> HIDE DEF first, mid, last
  <1>5. StartsRenewal(first)
    BY <1>1 DEF StartsRenewal
  <1>6. StartsRenewal(first \o mid)
    BY <1>2, <1>5, RenewalFollowed
  <1>7. StartsRenewal(all)
    BY <1>3, <1>6, RenewalFollowed
  <1> HIDE DEF all
  <1>8. all # <<>>
    BY <1>7 DEF StartsRenewal
  <1> QED BY <1>4, <1>7, <1>8 DEF StartsRenewal

LEMMA AnnouncedCommit ==
  ASSUME IInv, ChargesAnnounced, NEW d \in Drivers, NEW s \in Subs, NEW paid \in BOOLEAN,
         RenewCommit(d, s, paid)
  PROVE  ChargesAnnounced'
  <1> DEFINE row == job[d][s].row
             ev == RenewalEvents(row, paid)
             n == Len(invoices[s]) + 1
             m == Len(outbox[s]) + 1
  <1>1. /\ TypeOK /\ row \in Row
        /\ invoices[s] \in Seq(Invoice) /\ outbox[s] \in Seq(EventType)
        /\ Len(invoices[s]) \in Nat /\ Len(outbox[s]) \in Nat
    BY DEF IInv, TypeOK, Job
  <1>2. PICK now \in Nat : invoices' = [invoices EXCEPT ![s] =
                              Append(@, RenewalInvoice(Renewed(row, now), now, paid))]
    <2>1. job[d][s].since \in Nat /\ clock \in Nat
      BY <1>1, ConstantsAssumption DEF TypeOK, Job
    <2>2. PICK now \in job[d][s].since..clock :
             invoices' = [invoices EXCEPT ![s] = Append(@, RenewalInvoice(Renewed(row, now), now, paid))]
      BY DEF RenewCommit
    <2>3. now \in Nat
      BY <2>1
    <2> QED BY <2>2, <2>3
  <1> DEFINE inv == RenewalInvoice(Renewed(row, now), now, paid)
  <1>3. /\ invoices'[s] = Append(invoices[s], inv) /\ inv.kind = "renewal"
        /\ \A u \in Subs \ {s} : invoices'[u] = invoices[u]
    BY <1>1, <1>2 DEF TypeOK, RenewalInvoice
  <1>4. /\ outbox'[s] = outbox[s] \o ev
        /\ \A u \in Subs \ {s} : outbox'[u] = outbox[u]
    BY <1>1 DEF TypeOK, RenewCommit
  <1> HIDE DEF inv
  <1>5. Renewals(s)' = Renewals(s) \union {n} /\ n \notin Renewals(s)
    <2>1. /\ Len(invoices'[s]) = Len(invoices[s]) + 1 /\ invoices'[s][n] = inv
          /\ \A i \in 1..Len(invoices[s]) : invoices'[s][i] = invoices[s][i]
      BY <1>1, <1>3
    <2> QED BY <1>1, <1>3, <2>1 DEF Renewals
  <1>6. Announced(outbox[s] \o ev) = Announced(outbox[s]) \union {m} /\ m \notin Announced(outbox[s])
    <2>1. /\ ev \in Seq(EventType) /\ ev # <<>> /\ ev[1] = "subscription.renewed"
          /\ \A i \in 2..Len(ev) : ev[i] # "subscription.renewed"
      BY <1>1, RenewalAnnounces
    <2> HIDE DEF ev
    <2>2. Announced(outbox[s] \o ev) = Announced(outbox[s]) \union {m}
      BY <1>1, <2>1, AnnouncedConcat
    <2>3. m \notin Announced(outbox[s])
      BY <1>1 DEF Announced
    <2> QED BY <2>2, <2>3
  <1> HIDE DEF n, m, ev, row
  <1>7. /\ Cardinality(Renewals(s) \union {n}) = Cardinality(Renewals(s)) + 1
        /\ Cardinality(Announced(outbox[s]) \union {m}) = Cardinality(Announced(outbox[s])) + 1
    <2>1. IsFiniteSet(Renewals(s)) /\ IsFiniteSet(Announced(outbox[s]))
      BY <1>1, SetsFinite
    <2> QED BY <1>5, <1>6, <2>1, FS_AddElement
  <1>8. Cardinality(Announced(outbox[s])) = Cardinality(Renewals(s))
    BY DEF ChargesAnnounced, Announced
  <1>9. Cardinality(Announced(outbox'[s])) = Cardinality(Renewals(s)')
    BY <1>4, <1>5, <1>6, <1>7, <1>8
  <1>10. ASSUME NEW u \in Subs \ {s}
         PROVE  Cardinality(Announced(outbox'[u])) = Cardinality(Renewals(u)')
    <2>1. Renewals(u)' = Renewals(u) /\ outbox'[u] = outbox[u]
      BY <1>3, <1>4 DEF Renewals
    <2> QED BY <2>1 DEF ChargesAnnounced, Announced
  <1> QED BY <1>9, <1>10 DEF ChargesAnnounced, Announced

(* A payment of an invoice changes its status and tries, never its kind. *)
LEMMA AnnouncedConfirm ==
  ASSUME TypeOK, ChargesAnnounced, NEW s \in Subs, NEW paid \in BOOLEAN,
         NEW i \in 1..Len(invoices[s]), ConfirmPayment(s, i, paid)
  PROVE  ChargesAnnounced'
  <1>1. invoices[s] \in Seq(Invoice) /\ invoices[s][i] \in Invoice
    BY DEF TypeOK
  <1>2. PICK new : /\ new \in Invoice /\ new.kind = invoices[s][i].kind
                   /\ invoices' = [invoices EXCEPT ![s][i] = new]
    <2> DEFINE inv == invoices[s][i]
    <2>i. inv \in Invoice
      BY <1>1
    <2>t. inv.tries \in Nat /\ inv.tries + 1 \in Nat
      <3>1. inv.tries \in Nat
        <4> HIDE DEF inv
        <4> QED BY <2>i, InvoiceFields
      <3> QED BY <3>1
    <2>1. CASE paid
      <3> DEFINE x == [inv EXCEPT !.status = "paid"]
      <3>1. x \in Invoice /\ x.kind = inv.kind
        <4> HIDE DEF inv
        <4> QED BY <2>i, InvoiceFields DEF Invoice
      <3>2. invoices' = [invoices EXCEPT ![s][i] = x]
        BY <2>1 DEF ConfirmPayment
      <3> HIDE DEF x
      <3> QED BY <3>1, <3>2
    <2>2. CASE ~paid
      <3> DEFINE status == IF inv.tries + 1 >= 3 THEN "uncollectible" ELSE "open"
                 x == [inv EXCEPT !.tries = inv.tries + 1, !.status = status]
      <3>0. status \in {"uncollectible", "open"}
        OBVIOUS
      <3>1. invoices' = [invoices EXCEPT ![s][i] = x]
        BY <2>2 DEF ConfirmPayment
      <3>2. x \in Invoice /\ x.kind = inv.kind
        <4> HIDE DEF inv, status
        <4> QED BY <2>i, <2>t, <3>0, InvoiceFields DEF Invoice
      <3> HIDE DEF x
      <3> QED BY <3>1, <3>2
    <2> QED BY <2>1, <2>2
  <1>3. /\ invoices' = [invoices EXCEPT ![s] = [invoices[s] EXCEPT ![i] = new]]
        /\ Len([invoices[s] EXCEPT ![i] = new]) = Len(invoices[s])
        /\ \A j \in 1..Len(invoices[s]) :
              [invoices[s] EXCEPT ![i] = new][j] = IF j = i THEN new ELSE invoices[s][j]
    BY <1>1, <1>2 DEF TypeOK
  <1>4. \A u \in Subs : /\ Len(invoices'[u]) = Len(invoices[u])
                        /\ \A j \in 1..Len(invoices[u]) :
                              invoices'[u][j].kind = invoices[u][j].kind
    BY <1>2, <1>3 DEF TypeOK
  <1>5. \A u \in Subs : Renewals(u)' = Renewals(u)
    BY <1>4 DEF Renewals
  <1>6. PICK e \in {"invoice.paid", "invoice.payment_failed"} :
           outbox' = [outbox EXCEPT ![s] = Append(@, e)]
    BY DEF ConfirmPayment
  <1>7. e \in EventType /\ e # "subscription.renewed"
    BY DEF EventType
  <1> QED BY <1>5, <1>6, <1>7, AnnouncedOther

LEMMA AnnouncedCancel ==
  ASSUME TypeOK, ChargesAnnounced, NEW c \in Callers, NEW s \in Subs, CancelCommit(c, s)
  PROVE  ChargesAnnounced'
  <1> DEFINE e == CancelEvent(call[c][s].mode)
  <1>1. e \in EventType /\ e # "subscription.renewed"
    BY DEF CancelEvent, EventType
  <1>2. outbox' = [outbox EXCEPT ![s] = Append(@, e)] /\ invoices' = invoices
    BY DEF CancelCommit
  <1>3. \A u \in Subs : Renewals(u)' = Renewals(u)
    BY <1>2 DEF Renewals
  <1> HIDE DEF e
  <1> QED BY <1>1, <1>2, <1>3, AnnouncedOther

LEMMA InitAnnounced == Init => ChargesAnnounced
  <1> SUFFICES ASSUME Init, NEW s \in Subs
               PROVE  {e \in 1..Len(outbox[s]) : outbox[s][e] = "subscription.renewed"} = Renewals(s)
    BY DEF ChargesAnnounced
  <1> QED BY DEF Init, Renewals

LEMMA AnnouncedStep == IInv /\ ChargesAnnounced /\ [Next]_vars => ChargesAnnounced'
  <1> SUFFICES ASSUME IInv, ChargesAnnounced, [Next]_vars PROVE ChargesAnnounced'
    OBVIOUS
  <1>1. TypeOK
    BY DEF IInv
  <1>2. CASE UNCHANGED <<invoices, outbox>>
    BY <1>2, AnnouncedUntouched
  <1>3. ASSUME NEW s \in Subs, CreateSubscription(s) PROVE ChargesAnnounced'
    BY <1>3, AnnouncedCreate
  <1>4. ASSUME NEW d \in Drivers, NEW s \in Subs, NEW paid \in BOOLEAN, RenewCommit(d, s, paid)
        PROVE  ChargesAnnounced'
    BY <1>4, AnnouncedCommit
  <1>5. ASSUME NEW c \in Callers, NEW s \in Subs, CancelCommit(c, s) PROVE ChargesAnnounced'
    BY <1>1, <1>5, AnnouncedCancel
  <1>6. ASSUME NEW s \in Subs, NEW paid \in BOOLEAN, NEW i \in 1..Len(invoices[s]),
               ConfirmPayment(s, i, paid)
        PROVE  ChargesAnnounced'
    BY <1>1, <1>6, AnnouncedConfirm
  <1>7. \/ UNCHANGED <<invoices, outbox>>
        \/ \E s \in Subs : CreateSubscription(s)
        \/ \E d \in Drivers, s \in Subs, paid \in BOOLEAN : RenewCommit(d, s, paid)
        \/ \E c \in Callers, s \in Subs : CancelCommit(c, s)
        \/ \E s \in Subs, paid \in BOOLEAN : \E i \in 1..Len(invoices[s]) :
              ConfirmPayment(s, i, paid)
    <2>1. CASE UNCHANGED vars
      BY <2>1 DEF vars
    <2>2. CASE Next
      BY <2>2 DEF Next, Tick, DeletePrice, LockExpires, Poll, CheckAndRenewSubscriptions, AdvanceTime,
         TakeLock, LockDenied, RenewRead, RenewUnpriced, RenewNothing, RenewRollback, Crash, CancelRead, CancelRollback,
         OverdueList, OverdueRead, OverduePassed, OverdueWrite
    <2> QED BY <2>1, <2>2
  <1> QED BY <1>2, <1>3, <1>4, <1>5, <1>6, <1>7

(* Every renewal that is charged is announced, once, and nothing is        *)
(* announced that was not charged, whatever is rolled back, retried after  *)
(* an ambiguous commit or cut off by a crash: the invoice and the event    *)
(* are written by one transaction (billing.go:234-262).                    *)
THEOREM EveryChargeAnnounced == Spec => []ChargesAnnounced
  BY InitAnnounced, AnnouncedStep, Inductive, PTL DEF Spec
=============================================================================
