------------------------------ MODULE Payments ------------------------------
(***************************************************************************)
(* PaymentService (service/payment.go) on the invoices and payment_intents *)
(* tables: any number of intents may be created for one invoice, and any   *)
(* intent may be confirmed again and again, by several requests at once.   *)
(*                                                                         *)
(* A confirmation is one READ COMMITTED transaction that locks nothing it  *)
(* reads: it SELECTs the intent, then the invoice (each sees what is       *)
(* committed when it runs), and writes both rows, every column from its    *)
(* copies.  Writes take effect in commit order: the UPDATE of the invoice  *)
(* waits for the commit of an earlier one.                                 *)
(***************************************************************************)
EXTENDS Integers

CONSTANTS
    Invoices,
    Intents,      \* the payment intents that may be created
    InvoiceOf,    \* intent -> the invoice it is created for
    Clients,      \* whoever asks for confirmations
    MaxConfirms,  \* bound: how many confirm requests are made
    MaxAttempts   \* transaction.Manager: attempts of one ExecuteInTransaction

ASSUME ConstantsAssumption ==
    /\ InvoiceOf \in [Intents -> Invoices]
    /\ MaxConfirms \in Nat
    /\ MaxAttempts \in Nat \ {0}

VARIABLES
    invoice,   \* the invoices table
    intent,    \* the payment_intents table
    confirm,   \* client -> intent -> the confirmation in progress
    events,    \* invoice -> how many outbox rows announce each outcome
    requests,  \* how many confirmations were asked for
    clobbered  \* history: a commit overwrote an invoice row it had not read

vars == <<invoice, intent, confirm, events, requests, clobbered>>

-----------------------------------------------------------------------------
(* covered: amount_paid = amount and amount_remaining = 0; amount_paid = 0 *)
(* and amount_remaining = amount otherwise.                                *)
Invoice == [status : {"open", "paid", "uncollectible"}, covered : BOOLEAN, tries : Nat]
Issued == {[status |-> "paid", covered |-> TRUE, tries |-> 0],
           [status |-> "open", covered |-> FALSE, tries |-> 1]}

(* captured: amount_captured = amount. *)
Intent == [status : {"none", "requires_payment_method", "succeeded"}, captured : BOOLEAN]
NoIntent == [status |-> "none", captured |-> FALSE]

Confirmation == [pc : {"idle", "begin", "intent", "invoice"}, attempt : Nat, paid : BOOLEAN,
                 pi : Intent, inv : Invoice]
NoConfirmation ==
    [pc |-> "idle", attempt |-> 0, paid |-> FALSE, pi |-> NoIntent,
     inv |-> [status |-> "open", covered |-> FALSE, tries |-> 0]]

(* Outbox rows by type: invoice.paid and invoice.payment_failed. *)
Outcomes == [paid : Nat, failed : Nat]

-----------------------------------------------------------------------------
(* entity: the computations on one row *)

CanBePaid(inv) == inv.status = "open"

(* Slip: the amounts left for the renewal to settle *)
MarkPaidStatusOnly(inv) == [inv EXCEPT !.status = "paid"]

MarkPaid(inv) == [inv EXCEPT !.status = "paid", !.covered = TRUE]

(* Slip: payment.go:111 counts the coming attempt twice *)
FinalAttemptEarly(inv) == inv.tries + 1 >= 2

(* ConfirmPayment decides which attempt is the last one ... *)
FinalAttempt(inv) == inv.tries + 1 >= 3

(* Slip: the attempt is not counted when it is the last *)
MarkPaymentFailedUncounted(inv) ==
    IF FinalAttempt(inv) THEN [inv EXCEPT !.status = "uncollectible"]
                         ELSE [inv EXCEPT !.tries = inv.tries + 1, !.status = "open"]

(* ... and MarkPaymentFailed looks at no status: a paid invoice, too, is   *)
(* open again, with its amounts as they were.                              *)
MarkPaymentFailed(inv) ==
    [inv EXCEPT !.tries = inv.tries + 1,
                !.status = IF FinalAttempt(inv) THEN "uncollectible" ELSE "open"]

NewPaymentIntent == [status |-> "requires_payment_method", captured |-> FALSE]

MarkSucceeded(pi) == [pi EXCEPT !.status = "succeeded", !.captured = TRUE]
MarkFailed(pi) == [pi EXCEPT !.status = "requires_payment_method"]

-----------------------------------------------------------------------------
Init ==
    /\ invoice \in [Invoices -> Issued]
    /\ intent = [p \in Intents |-> NoIntent]
    /\ confirm = [c \in Clients |-> [p \in Intents |-> NoConfirmation]]
    /\ events = [i \in Invoices |-> [paid   |-> IF invoice[i].status = "paid" THEN 1 ELSE 0,
                                     failed |-> invoice[i].tries]]
    /\ requests = 0
    /\ clobbered = [i \in Invoices |-> FALSE]

(* Nothing says that the invoice is open, or has no intent yet. *)
CreatePaymentIntent(p) ==
    /\ intent[p].status = "none"
    /\ intent' = [intent EXCEPT ![p] = NewPaymentIntent]
    /\ UNCHANGED <<invoice, confirm, events, requests, clobbered>>

-----------------------------------------------------------------------------
(* ConfirmPayment *)

Request(c, p) ==
    /\ confirm[c][p].pc = "idle"
    /\ intent[p].status # "none"
    /\ requests < MaxConfirms
    /\ requests' = requests + 1
    /\ confirm' = [confirm EXCEPT ![c][p].pc = "begin"]
    /\ UNCHANGED <<invoice, intent, events, clobbered>>

(* GetByPublicID, then simulatePayment decides. *)
ReadIntent(c, p, paid) ==
    /\ confirm[c][p].pc = "begin"
    /\ confirm' = [confirm EXCEPT ![c][p] =
                      [NoConfirmation EXCEPT !.pc = "intent", !.attempt = confirm[c][p].attempt + 1,
                                             !.paid = paid, !.pi = intent[p]]]
    /\ UNCHANGED <<invoice, intent, events, requests, clobbered>>

(* GetByID of the invoice. *)
ReadInvoice(c, p) ==
    /\ confirm[c][p].pc = "intent"
    /\ confirm' = [confirm EXCEPT ![c][p] =
                      [confirm[c][p] EXCEPT !.pc = "invoice", !.inv = invoice[InvoiceOf[p]]]]
    /\ UNCHANGED <<invoice, intent, events, requests, clobbered>>

Finish(c, p) == confirm' = [confirm EXCEPT ![c][p] = NoConfirmation]

(* The transaction runs again, from its first SELECT. *)
Again(c, p) ==
    /\ confirm[c][p].attempt < MaxAttempts
    /\ confirm' = [confirm EXCEPT ![c][p] =
                      [NoConfirmation EXCEPT !.pc = "begin", !.attempt = confirm[c][p].attempt]]

(* MarkPaid refuses: ErrInvoiceAlreadyPaid or ErrInvoiceNotPayable. *)
Refuse(c, p) ==
    /\ confirm[c][p].pc = "invoice"
    /\ confirm[c][p].paid /\ ~CanBePaid(confirm[c][p].inv)
    /\ Finish(c, p)
    /\ UNCHANGED <<invoice, intent, events, requests, clobbered>>

(* Both rows and the events are committed together; the commit may be      *)
(* reported as a connection error, and the transaction runs once more.     *)
Commit(c, p) ==
    LET i == InvoiceOf[p]
        x == confirm[c][p]
    IN  /\ x.pc = "invoice"
        /\ \/ /\ x.paid /\ CanBePaid(x.inv)
              /\ invoice' = [invoice EXCEPT ![i] = MarkPaid(x.inv)]
              /\ intent' = [intent EXCEPT ![p] = MarkSucceeded(x.pi)]
              /\ events' = [events EXCEPT ![i].paid = @ + 1]
           \/ /\ ~x.paid
              /\ invoice' = [invoice EXCEPT ![i] = MarkPaymentFailed(x.inv)]
              /\ intent' = [intent EXCEPT ![p] = MarkFailed(x.pi)]
              /\ events' = [events EXCEPT ![i].failed = @ + 1]
        /\ clobbered' = [clobbered EXCEPT ![i] = @ \/ invoice[i] # x.inv]
        /\ Finish(c, p) \/ Again(c, p)
        /\ UNCHANGED requests

(* Slip: the intent written outside the transaction *)
RollbackKeepsIntent(c, p) ==
    /\ confirm[c][p].pc = "invoice"
    /\ intent' = [intent EXCEPT ![p] = IF confirm[c][p].paid THEN MarkSucceeded(confirm[c][p].pi)
                                       ELSE MarkFailed(confirm[c][p].pi)]
    /\ Finish(c, p) \/ Again(c, p)
    /\ UNCHANGED <<invoice, events, requests, clobbered>>

(* A statement or the commit fails, or the process dies: nothing is        *)
(* written, and the transaction runs again or the error is returned.       *)
Rollback(c, p) ==
    /\ confirm[c][p].pc # "idle"
    /\ Finish(c, p) \/ Again(c, p)
    /\ UNCHANGED <<invoice, intent, events, requests, clobbered>>

-----------------------------------------------------------------------------
Next ==
    \/ \E p \in Intents : CreatePaymentIntent(p)
    \/ \E c \in Clients, p \in Intents :
          \/ Request(c, p)
          \/ \E paid \in BOOLEAN : ReadIntent(c, p, paid)
          \/ ReadInvoice(c, p) \/ Refuse(c, p) \/ Commit(c, p) \/ Rollback(c, p)

Spec == Init /\ [][Next]_vars

-----------------------------------------------------------------------------
(* Types of the rows and of what is in flight. *)
TypeOK ==
    /\ invoice \in [Invoices -> Invoice]
    /\ intent \in [Intents -> Intent]
    /\ confirm \in [Clients -> [Intents -> Confirmation]]
    /\ events \in [Invoices -> Outcomes]
    /\ requests \in 0..MaxConfirms
    /\ clobbered \in [Invoices -> BOOLEAN]

(* Nobody's invoice is written off before three declines were announced,   *)
(* whatever retries and lost updates do to the attempt count.              *)
WrittenOffAfterThree ==
    \A i \in Invoices : invoice[i].status = "uncollectible" => events[i].failed >= 3

(* As long as no commit overwrote an invoice it had not read, every        *)
(* decline is counted: attempt_count is the number of announced ones, also *)
(* when a committed attempt is run again.                                  *)
DeclinesCounted ==
    \A i \in Invoices : ~clobbered[i] => invoice[i].tries = events[i].failed

(* As long as no commit overwrote an invoice it had not read, money that   *)
(* an intent captured is booked on its invoice, whatever confirmations of  *)
(* this and of other intents of the invoice come after it.                 *)
CapturedIsBooked ==
    \A p \in Intents :
        intent[p].captured /\ ~clobbered[InvoiceOf[p]] => invoice[InvoiceOf[p]].covered

-----------------------------------------------------------------------------
(* What the safety properties rest on. *)

(* No copy, however old, counts more declines than were announced, and one *)
(* that is written off has three behind it.                                *)
Behind(inv, declines) ==
    /\ inv.tries <= declines
    /\ inv.status = "uncollectible" => inv.tries >= 3
CopiesBehind ==
    /\ \A i \in Invoices : Behind(invoice[i], events[i].failed)
    /\ \A c \in Clients, p \in Intents :
          confirm[c][p].pc = "invoice" => Behind(confirm[c][p].inv, events[InvoiceOf[p]].failed)

(* An intent copied as captured was, before, booked on its invoice.        *)
CopiedIsBooked ==
    \A c \in Clients, p \in Intents :
        /\ confirm[c][p].pc \in {"intent", "invoice"}
        /\ confirm[c][p].pi.captured
        /\ ~clobbered[InvoiceOf[p]]
        => invoice[InvoiceOf[p]].covered

IInv == TypeOK /\ CopiesBehind /\ DeclinesCounted /\ CopiedIsBooked /\ CapturedIsBooked
=============================================================================
