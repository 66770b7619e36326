------------------------------ MODULE Billing ------------------------------
(***************************************************************************)
(* Subscriptions and their renewal: BillingService (service/billing.go) on *)
(* the subscriptions and invoices tables, and everything that drives it:   *)
(* SubscriptionRenewalWorker (no lock), the AdvanceTime handlers (Redis    *)
(* lock per subscription), CancelSubscription calls and InvoiceDueWorker.  *)
(*                                                                         *)
(* A transaction is READ COMMITTED and locks no row it reads.  It is two   *)
(* steps here: the SELECT of the row, and the writes with their commit (an *)
(* UPDATE waits for an earlier one's commit, so writes take effect in      *)
(* commit order).  UPDATE overwrites every column from the row that was    *)
(* read.  clock.Now() is read between the two steps.                       *)
(***************************************************************************)
EXTENDS Integers, Sequences, FiniteSets

CONSTANTS
    Subs,          \* subscriptions
    Pollers,       \* SubscriptionRenewalWorker goroutines, one per app instance
    Advancers,     \* AdvanceTime requests being served
    Callers,       \* CancelSubscription requests, one each
    Nobody,        \* the holder of a free lock
    Deletable,     \* subscriptions whose price may be deleted under them
    PeriodLen,     \* days of one billing interval (day and week prices)
    MaxTime,       \* bound of the virtual clock
    MaxAttempts,   \* transaction.Manager: attempts of one ExecuteInTransaction
    MaxConfirms,   \* bound: how many payments of invoices are confirmed
    LeaseMayLapse  \* TRUE: a renewal may outlive the lock's one-minute TTL

Drivers == Pollers \union Advancers

ASSUME ConstantsAssumption ==
    /\ Deletable \subseteq Subs
    /\ PeriodLen \in Nat \ {0}
    /\ MaxTime \in Nat
    /\ MaxAttempts \in Nat \ {0}
    /\ MaxConfirms \in Nat
    /\ LeaseMayLapse \in BOOLEAN
    /\ Nobody \notin Advancers
    /\ Pollers \intersect Advancers = {}

VARIABLES
    clock,     \* VirtualClock.Now()
    subs,      \* the subscriptions table
    unpriced,  \* subscriptions whose price has deleted_at set (prices table)
    invoices,  \* the invoices table, per subscription, in order of commit
    outbox,    \* the outbox_events rows of each subscription, by type
    lock,      \* Redis "lock:renewal:<id>": who set it (see RedisLock)
    phase,     \* an AdvanceTime request: "idle", or "advanced" before it lists
    job,       \* driver -> subscription -> the RenewSubscription in progress
    call,      \* the CancelSubscription calls
    overdue,   \* InvoiceDueWorker's listed invoices, and the row it read
    confirms,  \* how many payments were confirmed
    clobbered  \* history: some commit overwrote a row it had not read

vars == <<clock, subs, unpriced, invoices, outbox, lock, phase, job, call, overdue, confirms,
          clobbered>>

-----------------------------------------------------------------------------
Status == {"none", "active", "trialing", "past_due", "canceled", "unpaid"}
Row == [status : Status, start : Nat, end : Nat, next : Nat, atEnd : BOOLEAN]
NoRow == [status |-> "none", start |-> 0, end |-> 0, next |-> 0, atEnd |-> FALSE]

(* start is period_start, and due_date too; end is period_end.  The first  *)
(* invoice of a subscription has neither a period nor a due date.          *)
Invoice == [kind : {"first", "renewal"}, status : {"open", "paid", "uncollectible"},
            start : Nat, end : Nat, created : Nat, tries : Nat]
EventType == {"subscription.created", "subscription.updated", "subscription.renewed",
              "subscription.canceled", "invoice.created", "invoice.paid",
              "invoice.payment_failed"}

Job == [pc : {"idle", "listed", "ready", "read"}, row : Row, since : Nat, tries : Nat]
NoJob == [pc |-> "idle", row |-> NoRow, since |-> 0, tries |-> 0]
Listed == [NoJob EXCEPT !.pc = "listed"]
Call == [pc : {"idle", "listed", "read", "done"}, row : Row, mode : {"immediate", "period_end"}]
NoCall == [pc |-> "idle", row |-> NoRow, mode |-> "immediate"]

Exists(s) == subs[s].status # "none"
Busy(d, s) == job[d][s].pc \in {"ready", "read"}
Quiet(d) == \A s \in Subs : job[d][s].pc = "idle"

-----------------------------------------------------------------------------
(* entity: the computations on one row *)

NextBillingDate(from) == from + PeriodLen

NewSubscription(now) ==
    [status |-> "active", start |-> now, end |-> NextBillingDate(now),
     next |-> NextBillingDate(now), atEnd |-> FALSE]

(* Slip: one period too few skipped *)
MissedPeriodsShort(row, now) == ((now - row.end) \div (row.end - row.start)) - 1

(* How many whole periods went by since the current one ended. *)
MissedPeriods(row, now) == (now - row.end) \div (row.end - row.start)

(* Renew: skip the periods that went by, then move to the next one. *)
Renewed(row, now) ==
    LET start == IF now > row.end
                 THEN row.end + (row.end - row.start) * MissedPeriods(row, now)
                 ELSE row.end
    IN  [row EXCEPT !.start = start, !.end = NextBillingDate(start),
                    !.next = NextBillingDate(start)]

(* NewRenewalInvoice takes the row Renew has already advanced: its period  *)
(* begins where the row's new period ends.                                 *)
RenewalInvoice(row, now, paid) ==
    [kind |-> "renewal", status |-> IF paid THEN "paid" ELSE "open",
     start |-> row.end, end |-> NextBillingDate(row.end), created |-> now,
     tries |-> IF paid THEN 0 ELSE 1]

FirstInvoice(now) ==
    [kind |-> "first", status |-> "paid", start |-> 0, end |-> 0, created |-> now, tries |-> 0]

(* Slip: the branches of billing.go:225 swapped for the subscription *)
SettledSwapped(row, paid) == [row EXCEPT !.status = IF paid THEN "past_due" ELSE "active"]

(* MarkPaid / MarkPastDue on the row after the simulated payment. *)
Settled(row, paid) == [row EXCEPT !.status = IF paid THEN "active" ELSE "past_due"]

(* The events of one renewal, in the order they were raised: the           *)
(* subscription's, then the invoice's.                                     *)
RenewalEvents(row, paid) ==
    <<"subscription.renewed">>
    \o (IF Settled(row, paid).status # row.status THEN <<"subscription.updated">> ELSE <<>>)
    \o <<"invoice.created", IF paid THEN "invoice.paid" ELSE "invoice.payment_failed">>

Canceled(row, mode) ==
    IF mode = "immediate" THEN [row EXCEPT !.status = "canceled", !.atEnd = FALSE]
                          ELSE [row EXCEPT !.atEnd = TRUE]
CancelEvent(mode) ==
    IF mode = "immediate" THEN "subscription.canceled" ELSE "subscription.updated"

(* Slip: next_billing_at = now *)
DueForRenewalExact(s, now) ==
    subs[s].status \in {"active", "trialing"} /\ subs[s].next = now

(* GetActiveForRenewal *)
DueForRenewal(s, now) == subs[s].status \in {"active", "trialing"} /\ subs[s].next <= now

(* Slip: the columns of the period missing from the UPDATE *)
OverwriteStatus(s, read, new) ==
    /\ subs' = [subs EXCEPT ![s].status = new.status, ![s].atEnd = new.atEnd]
    /\ clobbered' = [clobbered EXCEPT ![s] = @ \/ subs[s] # read]

(* SubscriptionRepository.Update: every column, from the row that was read *)
(* (read) with its changes (new).                                          *)
Overwrite(s, read, new) ==
    /\ subs' = [subs EXCEPT ![s] = new]
    /\ clobbered' = [clobbered EXCEPT ![s] = @ \/ subs[s] # read]

-----------------------------------------------------------------------------
Init ==
    /\ clock = 0
    /\ subs = [s \in Subs |-> NoRow]
    /\ unpriced = {}
    /\ invoices = [s \in Subs |-> <<>>]
    /\ outbox = [s \in Subs |-> <<>>]
    /\ lock = [s \in Subs |-> Nobody]
    /\ phase = [a \in Advancers |-> "idle"]
    /\ job = [d \in Drivers |-> [s \in Subs |-> NoJob]]
    /\ call = [c \in Callers |-> [s \in Subs |-> NoCall]]
    /\ overdue = [s \in Subs |-> NoCall]
    /\ confirms = 0
    /\ clobbered = [s \in Subs |-> FALSE]

(* Real time passes. *)
Tick ==
    /\ clock < MaxTime
    /\ clock' = clock + 1
    /\ UNCHANGED <<unpriced, subs, invoices, outbox, lock, phase, job, call, overdue, confirms,
                   clobbered>>

(* CreateSubscription: one transaction; but for the price it reads nothing *)
(* others write.                                                           *)
CreateSubscription(s) ==
    /\ ~Exists(s)
    /\ s \notin unpriced
    /\ subs' = [subs EXCEPT ![s] = NewSubscription(clock)]
    /\ invoices' = [invoices EXCEPT ![s] = <<FirstInvoice(clock)>>]
    /\ outbox' = [outbox EXCEPT ![s] =
                     <<"subscription.created", "invoice.created", "invoice.paid">>]
    /\ UNCHANGED <<clock, unpriced, lock, phase, job, call, overdue, confirms, clobbered>>

(* DeletePrice: a soft delete that looks at no subscription, and is final. *)
DeletePrice(s) ==
    /\ s \in Deletable \ unpriced
    /\ unpriced' = unpriced \union {s}
    /\ UNCHANGED <<clock, subs, invoices, outbox, lock, phase, job, call, overdue, confirms,
                   clobbered>>

-----------------------------------------------------------------------------
(* The drivers: whom they renew *)

(* processRenewals: the worker's tick lists every due subscription, and    *)
(* ticks again only after it has gone through the list.                    *)
Poll(p) ==
    /\ Quiet(p)
    /\ \E s \in Subs : DueForRenewal(s, clock)
    /\ job' = [job EXCEPT ![p] =
                  [s \in Subs |-> IF DueForRenewal(s, clock) THEN Listed ELSE NoJob]]
    /\ UNCHANGED <<clock, unpriced, subs, invoices, outbox, lock, phase, call, overdue, confirms,
                   clobbered>>

(* AdvanceTime: move the clock ... *)
AdvanceTime(a, d) ==
    /\ Quiet(a) /\ phase[a] = "idle"
    /\ clock + d <= MaxTime
    /\ clock' = clock + d
    /\ phase' = [phase EXCEPT ![a] = "advanced"]
    /\ UNCHANGED <<unpriced, subs, invoices, outbox, lock, job, call, overdue, confirms,
                   clobbered>>

(* ... then CheckAndRenewSubscriptions lists what is due at the new time;  *)
(* its ten goroutines take the jobs in any order, several at a time.       *)
CheckAndRenewSubscriptions(a) ==
    /\ phase[a] = "advanced"
    /\ phase' = [phase EXCEPT ![a] = "idle"]
    /\ job' = [job EXCEPT ![a] =
                  [s \in Subs |-> IF DueForRenewal(s, clock) THEN Listed ELSE NoJob]]
    /\ UNCHANGED <<clock, unpriced, subs, invoices, outbox, lock, call, overdue, confirms,
                   clobbered>>

(* processSingleSubscription: no lock, no renewal. *)
TakeLock(a, s) ==
    /\ job[a][s].pc = "listed"
    /\ lock[s] = Nobody
    /\ lock' = [lock EXCEPT ![s] = a]
    /\ job' = [job EXCEPT ![a][s].pc = "ready"]
    /\ UNCHANGED <<clock, unpriced, subs, invoices, outbox, phase, call, overdue, confirms,
                   clobbered>>

(* The key is set by someone else, or Redis fails. *)
LockDenied(a, s) ==
    /\ job[a][s].pc = "listed"
    /\ job' = [job EXCEPT ![a][s] = NoJob]
    /\ UNCHANGED <<clock, unpriced, subs, invoices, outbox, lock, phase, call, overdue, confirms,
                   clobbered>>

(* The TTL frees a key whose owner is gone, and one whose owner is slow.   *)
LockExpires(s) ==
    /\ lock[s] # Nobody
    /\ LeaseMayLapse \/ ~Busy(lock[s], s)
    /\ lock' = [lock EXCEPT ![s] = Nobody]
    /\ UNCHANGED <<clock, unpriced, subs, invoices, outbox, phase, job, call, overdue, confirms,
                   clobbered>>

-----------------------------------------------------------------------------
(* RenewSubscription *)

(* A poller works through its list one subscription at a time; an advancer *)
(* needs the lock first.  A retried transaction starts here again.         *)
MayBegin(d, s) ==
    \/ job[d][s].pc = "ready"
    \/ /\ d \in Pollers
       /\ job[d][s].pc = "listed"
       /\ \A u \in Subs : ~Busy(d, u)

(* The row and its price are found. *)
RenewRead(d, s) ==
    /\ MayBegin(d, s)
    /\ s \notin unpriced
    /\ job' = [job EXCEPT ![d][s] =
                  [pc |-> "read", row |-> subs[s], since |-> clock, tries |-> @.tries + 1]]
    /\ UNCHANGED <<clock, unpriced, subs, invoices, outbox, lock, phase, call, overdue, confirms,
                   clobbered>>

(* The renewal of s by d is over; the deferred unlock deletes d's own key. *)
Finish(d, s) ==
    /\ job' = [job EXCEPT ![d][s] = NoJob]
    /\ lock' = [lock EXCEPT ![s] = IF @ = d THEN Nobody ELSE @]

(* The price is gone: an error no transaction is run again for. *)
RenewUnpriced(d, s) ==
    /\ MayBegin(d, s)
    /\ s \in unpriced
    /\ Finish(d, s)
    /\ UNCHANGED <<clock, unpriced, subs, invoices, outbox, phase, call, overdue, confirms,
                   clobbered>>

(* Slip: the row read once, before ExecuteInTransaction *)
AgainWithOldRow(d, s) ==
    /\ job[d][s].tries < MaxAttempts
    /\ job' = [job EXCEPT ![d][s].tries = @ + 1]
    /\ UNCHANGED lock

(* Run the transaction again, with its own snapshot. *)
Again(d, s) ==
    /\ job[d][s].tries < MaxAttempts
    /\ job' = [job EXCEPT ![d][s] = [NoJob EXCEPT !.pc = "ready", !.tries = job[d][s].tries]]
    /\ UNCHANGED lock

(* Not due any more, or not renewable: nothing is written. *)
RenewNothing(d, s) ==
    /\ job[d][s].pc = "read"
    /\ \/ job[d][s].row.next > job[d][s].since
       \/ job[d][s].row.status \in {"canceled", "unpaid"}
    /\ Finish(d, s)
    /\ UNCHANGED <<clock, unpriced, subs, invoices, outbox, phase, call, overdue, confirms,
                   clobbered>>

(* Slip: billing.go:215 dropped: whatever was listed is renewed *)
StillDueTrusted(row, now) == TRUE

(* Still due on the row that was read, at the time that is read now. *)
StillDue(row, now) == row.next <= now

(* The writes and the commit; it may be reported as a connection error     *)
(* after it took effect, and then the whole transaction runs again.        *)
RenewCommit(d, s, paid) ==
    LET row == job[d][s].row IN
    /\ job[d][s].pc = "read"
    /\ row.status \notin {"canceled", "unpaid"}
    /\ \E now \in job[d][s].since..clock :
          LET new == Renewed(row, now) IN
          /\ StillDue(row, now)
          /\ Overwrite(s, row, Settled(new, paid))
          /\ invoices' = [invoices EXCEPT ![s] = Append(@, RenewalInvoice(new, now, paid))]
    /\ outbox' = [outbox EXCEPT ![s] = @ \o RenewalEvents(row, paid)]
    /\ Finish(d, s) \/ Again(d, s)
    /\ UNCHANGED <<clock, unpriced, phase, call, overdue, confirms>>

(* Slip: the events saved outside the transaction *)
RenewRollbackPublishes(d, s) ==
    /\ job[d][s].pc = "read"
    /\ outbox' = [outbox EXCEPT ![s] = @ \o RenewalEvents(job[d][s].row, TRUE)]
    /\ Finish(d, s) \/ Again(d, s)
    /\ UNCHANGED <<clock, unpriced, subs, invoices, phase, call, overdue, confirms, clobbered>>

(* The transaction fails and is rolled back: retried, or reported. *)
RenewRollback(d, s) ==
    /\ job[d][s].pc = "read"
    /\ Finish(d, s) \/ Again(d, s)
    /\ UNCHANGED <<clock, unpriced, subs, invoices, outbox, phase, call, overdue, confirms,
                   clobbered>>

(* The process serving d dies; its locks stay until their TTL. *)
Crash(d) ==
    /\ ~Quiet(d)
    /\ job' = [job EXCEPT ![d] = [s \in Subs |-> NoJob]]
    /\ UNCHANGED <<clock, unpriced, subs, invoices, outbox, lock, phase, call, overdue, confirms,
                   clobbered>>

-----------------------------------------------------------------------------
(* CancelSubscription.  A call that fails may be made again. *)

CancelRead(c, s, mode) ==
    /\ \A u \in Subs : call[c][u].pc = "idle"
    /\ Exists(s) /\ subs[s].status # "canceled"
    /\ call' = [call EXCEPT ![c][s] = [pc |-> "read", row |-> subs[s], mode |-> mode]]
    /\ UNCHANGED <<clock, unpriced, subs, invoices, outbox, lock, phase, job, overdue, confirms,
                   clobbered>>

CancelCommit(c, s) ==
    LET cancel == call[c][s] IN
    /\ cancel.pc = "read"
    /\ Overwrite(s, cancel.row, Canceled(cancel.row, cancel.mode))
    /\ outbox' = [outbox EXCEPT ![s] = Append(@, CancelEvent(cancel.mode))]
    /\ call' = [call EXCEPT ![c][s] = [NoCall EXCEPT !.pc = "done"]]
    /\ UNCHANGED <<clock, unpriced, invoices, lock, phase, job, overdue, confirms>>

CancelRollback(c, s) ==
    /\ call[c][s].pc = "read"
    /\ call' = [call EXCEPT ![c][s] = NoCall]
    /\ UNCHANGED <<clock, unpriced, subs, invoices, outbox, lock, phase, job, overdue, confirms,
                   clobbered>>

-----------------------------------------------------------------------------
(* InvoiceDueWorker.  It has no transaction: the row is read by one        *)
(* statement and overwritten by another, and the event MarkPastDue raises  *)
(* is not dispatched.                                                      *)

Overdue(s) ==
    \E i \in 1..Len(invoices[s]) :
        /\ invoices[s][i].kind = "renewal"
        /\ invoices[s][i].status = "open"
        /\ invoices[s][i].start < clock

(* processOverdueInvoices lists the invoices ... *)
OverdueList ==
    /\ \A s \in Subs : overdue[s].pc = "idle"
    /\ \E s \in Subs : Overdue(s)
    /\ overdue' = [s \in Subs |-> IF Overdue(s) THEN [NoCall EXCEPT !.pc = "listed"] ELSE NoCall]
    /\ UNCHANGED <<clock, unpriced, subs, invoices, outbox, lock, phase, job, call, confirms,
                   clobbered>>

(* ... and looks at their subscriptions one by one, only at active ones. *)
OverdueRead(s) ==
    /\ overdue[s].pc = "listed"
    /\ \A u \in Subs : overdue[u].pc # "read"
    /\ subs[s].status = "active"
    /\ overdue' = [overdue EXCEPT ![s] = [NoCall EXCEPT !.pc = "read", !.row = subs[s]]]
    /\ UNCHANGED <<clock, unpriced, subs, invoices, outbox, lock, phase, job, call, confirms,
                   clobbered>>

(* It is not active, or the SELECT or the UPDATE fails: on to the next. *)
OverduePassed(s) ==
    /\ overdue[s].pc \in {"listed", "read"}
    /\ overdue' = [overdue EXCEPT ![s] = NoCall]
    /\ UNCHANGED <<clock, unpriced, subs, invoices, outbox, lock, phase, job, call, confirms,
                   clobbered>>

OverdueWrite(s) ==
    /\ overdue[s].pc = "read"
    /\ Overwrite(s, overdue[s].row, [overdue[s].row EXCEPT !.status = "past_due"])
    /\ overdue' = [overdue EXCEPT ![s] = NoCall]
    /\ UNCHANGED <<clock, unpriced, invoices, outbox, lock, phase, job, call, confirms>>

(* PaymentService.ConfirmPayment as the invoices table sees it (module     *)
(* Payments has its steps): nothing about the subscription is read or      *)
(* written.                                                                *)
ConfirmPayment(s, i, paid) ==
    /\ confirms < MaxConfirms
    /\ confirms' = confirms + 1
    /\ LET inv == invoices[s][i] IN
       \/ /\ paid
          /\ inv.status = "open"
          /\ invoices' = [invoices EXCEPT ![s][i] = [inv EXCEPT !.status = "paid"]]
          /\ outbox' = [outbox EXCEPT ![s] = Append(@, "invoice.paid")]
       \/ /\ ~paid
          /\ invoices' = [invoices EXCEPT ![s][i] =
                 [inv EXCEPT !.tries = inv.tries + 1,
                             !.status = IF inv.tries + 1 >= 3 THEN "uncollectible" ELSE "open"]]
          /\ outbox' = [outbox EXCEPT ![s] = Append(@, "invoice.payment_failed")]
    /\ UNCHANGED <<clock, unpriced, subs, lock, phase, job, call, overdue, clobbered>>

-----------------------------------------------------------------------------
Next ==
    \/ Tick
    \/ \E s \in Subs : CreateSubscription(s) \/ DeletePrice(s) \/ LockExpires(s)
    \/ \E p \in Pollers : Poll(p)
    \/ \E a \in Advancers : CheckAndRenewSubscriptions(a)
    \/ \E a \in Advancers, d \in 1..MaxTime : AdvanceTime(a, d)
    \/ \E a \in Advancers, s \in Subs : TakeLock(a, s) \/ LockDenied(a, s)
    \/ \E d \in Drivers, s \in Subs :
          RenewRead(d, s) \/ RenewUnpriced(d, s) \/ RenewNothing(d, s) \/ RenewRollback(d, s)
    \/ \E d \in Drivers, s \in Subs, paid \in BOOLEAN : RenewCommit(d, s, paid)
    \/ \E d \in Drivers : Crash(d)
    \/ \E c \in Callers, s \in Subs, mode \in {"immediate", "period_end"} : CancelRead(c, s, mode)
    \/ \E c \in Callers, s \in Subs : CancelCommit(c, s) \/ CancelRollback(c, s)
    \/ OverdueList
    \/ \E s \in Subs : OverdueRead(s) \/ OverduePassed(s) \/ OverdueWrite(s)
    \/ \E s \in Subs, paid \in BOOLEAN : \E i \in 1..Len(invoices[s]) : ConfirmPayment(s, i, paid)

(* The poller ticks for ever and goes through its list; a database that is *)
(* asked again and again answers in the end.  Nothing is assumed of the    *)
(* price: while it is deleted the answer is an error.                      *)
Fairness ==
    \A p \in Pollers :
        /\ WF_vars(Poll(p))
        /\ \A s \in Subs :
            /\ SF_vars(RenewRead(p, s) \/ RenewUnpriced(p, s))
            /\ SF_vars(RenewNothing(p, s) \/ \E paid \in BOOLEAN : RenewCommit(p, s, paid))

Spec == Init /\ [][Next]_vars
FairSpec == Spec /\ Fairness

-----------------------------------------------------------------------------
(* Types of the tables, the lock, and everything in flight. *)
TypeOK ==
    /\ clock \in 0..MaxTime
    /\ subs \in [Subs -> Row]
    /\ unpriced \subseteq Subs
    /\ invoices \in [Subs -> Seq(Invoice)]
    /\ outbox \in [Subs -> Seq(EventType)]
    /\ lock \in [Subs -> Advancers \union {Nobody}]
    /\ phase \in [Advancers -> {"idle", "advanced"}]
    /\ job \in [Drivers -> [Subs -> Job]]
    /\ call \in [Callers -> [Subs -> Call]]
    /\ overdue \in [Subs -> Call]
    /\ confirms \in 0..MaxConfirms
    /\ clobbered \in [Subs -> BOOLEAN]

Renewals(s) == {i \in 1..Len(invoices[s]) : invoices[s][i].kind = "renewal"}

(* However polls, retries, cancellations and clock jumps interleave, a     *)
(* renewal invoice is issued in the period just before the one it names:   *)
(* nobody is charged before the period paid for has ended (billing.go:215  *)
(* rechecks what the poll saw), and the skip over missed periods lands     *)
(* neither short nor beyond (subscription.go:158-171).                     *)
ChargedInPeriod ==
    \A s \in Subs : \A i \in Renewals(s) :
        LET inv == invoices[s][i] IN
        inv.start - PeriodLen <= inv.created /\ inv.created < inv.start

(* As long as no commit overwrote a row it had not read, no two renewal    *)
(* invoices of a subscription cover the same time: stale polls, retries    *)
(* after an ambiguous commit, crashes and lapsed leases bill nobody twice. *)
NoDoubleBilling ==
    \A s \in Subs : ~clobbered[s] =>
        \A i, j \in Renewals(s) :
            i < j => invoices[s][i].end <= invoices[s][j].start

Declined(s) == \E i \in Renewals(s) : invoices[s][i].tries > 0

(* A subscription is past_due only if a renewal of its was declined, then   *)
(* or before: neither a stale row nor the overdue worker demotes a customer *)
(* whose payments all succeeded.  (The worker trusts an invoice it listed   *)
(* earlier; it does demote on one that was declined and has been paid.)     *)
PastDueWasDeclined ==
    \A s \in Subs : subs[s].status = "past_due" => Declined(s)

(* Every charge is announced and every announced charge was made, also     *)
(* when attempts of the transaction were rolled back: as many              *)
(* subscription.renewed events as renewal invoices.                        *)
ChargesAnnounced ==
    \A s \in Subs :
        Cardinality({e \in 1..Len(outbox[s]) : outbox[s][e] = "subscription.renewed"})
            = Cardinality(Renewals(s))

(* Renewals under the lock alone never lose an update.  Only the lock and  *)
(* the order of its release make this true: nothing in the database does.  *)
NoLostUpdate == \A s \in Subs : ~clobbered[s]

(* A due subscription does not stay due: the poller renews it, or its      *)
(* failed payment makes it past_due (or it is canceled), unless its price  *)
(* was deleted.  An AdvanceTime request that dies with the Redis lock set, *)
(* a crash of the poller, a renewal that fails and one beside it that      *)
(* always fails for want of a price do not stop it (time.go:122,           *)
(* billing.go:210, subscription_renewal.go:95-111).                        *)
DueIsRenewed ==
    \A s \in Subs :
        LET due == subs[s].status = "active" /\ subs[s].next <= clock
        IN  due ~> ~due \/ s \in unpriced

-----------------------------------------------------------------------------
(* What the safety properties above rest on. *)

(* An existing row, and every copy of one in flight, is one whole period   *)
(* long and next billed at its end.                                        *)
Shape(row) ==
    /\ row.status # "none"
    /\ row.end = row.start + PeriodLen
    /\ row.next = row.end
RowsWellFormed ==
    /\ \A s \in Subs : Exists(s) => Shape(subs[s])
    /\ \A d \in Drivers, s \in Subs :
          /\ job[d][s].pc # "idle" => Exists(s)
          /\ job[d][s].pc = "read" => Shape(job[d][s].row) /\ job[d][s].since <= clock
    /\ \A c \in Callers, s \in Subs :
          call[c][s].pc = "read" => Exists(s) /\ Shape(call[c][s].row)
    /\ \A s \in Subs :
          /\ invoices[s] # <<>> => Exists(s)
          /\ overdue[s].pc # "idle" => Exists(s)
          /\ overdue[s].pc = "read" => Shape(overdue[s].row)

(* Nothing is invoiced further ahead than the period after the current one. *)
InvoicesAhead ==
    \A s \in Subs : ~clobbered[s] =>
        \A i \in Renewals(s) : invoices[s][i].end <= subs[s].end + PeriodLen

(* Only a declined renewal is open, and whoever may be about to write      *)
(* past_due has one behind it.                                             *)
OpenWasDeclined ==
    \A s \in Subs : \A i \in Renewals(s) :
        invoices[s][i].status = "open" => invoices[s][i].tries > 0
DeclineBehindCopies ==
    /\ \A d \in Drivers, s \in Subs :
          job[d][s].pc = "read" /\ job[d][s].row.status = "past_due" => Declined(s)
    /\ \A c \in Callers, s \in Subs :
          call[c][s].pc = "read" /\ call[c][s].row.status = "past_due" => Declined(s)
    /\ \A s \in Subs : overdue[s].pc # "idle" => Declined(s)

(* The inductive invariant of these: a stale copy can be written at any    *)
(* later time, so what holds of the table must hold of the copies.         *)
IInv ==
    /\ TypeOK
    /\ RowsWellFormed
    /\ ChargedInPeriod
    /\ InvoicesAhead
    /\ NoDoubleBilling
    /\ OpenWasDeclined
    /\ DeclineBehindCopies
    /\ PastDueWasDeclined

(* What NoLostUpdate rests on: whoever renews under the lock still has it, *)
(* and so what it has read is what the table holds.                        *)
RenewsUnderLock ==
    \A a \in Advancers, s \in Subs : Busy(a, s) => lock[s] = a
CopiesFresh ==
    \A a \in Advancers, s \in Subs : job[a][s].pc = "read" => job[a][s].row = subs[s]
LockedInv == RenewsUnderLock /\ CopiesFresh /\ NoLostUpdate

(* The writers that take no lock keep out: no poller has anything to do,   *)
(* and nobody is about to overwrite a row to cancel it or to demote it.    *)
OnlyLockedWriters ==
    /\ \A p \in Pollers : Quiet(p)
    /\ \A s \in Subs : overdue[s].pc # "read" /\ \A c \in Callers : call[c][s].pc # "read"
=============================================================================
