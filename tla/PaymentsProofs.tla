--------------------------- MODULE PaymentsProofs ---------------------------
(***************************************************************************)
(* Payments, for every number of invoices, intents, clients, requests and  *)
(* attempts.  A confirmation may write, at any later time, the copy it     *)
(* read: so no copy in flight may count more declines than were announced, *)
(* nor claim money its invoice has not booked.                             *)
(***************************************************************************)
EXTENDS Payments, TLAPS

LEMMA Records ==
  /\ NoIntent \in Intent /\ ~NoIntent.captured
  /\ NewPaymentIntent \in Intent /\ ~NewPaymentIntent.captured
  /\ NoConfirmation \in Confirmation /\ NoConfirmation.pc = "idle"
  /\ \A n \in Nat : /\ [NoConfirmation EXCEPT !.pc = "begin", !.attempt = n] \in Confirmation
                    /\ [NoConfirmation EXCEPT !.pc = "begin", !.attempt = n].pc = "begin"
  BY DEF NoIntent, Intent, NewPaymentIntent, NoConfirmation, Confirmation, Invoice

LEMMA ConfirmationBegins ==
  ASSUME NEW x \in Confirmation
  PROVE  /\ x.attempt \in Nat /\ x.attempt + 1 \in Nat
         /\ [x EXCEPT !.pc = "begin"] \in Confirmation
         /\ [x EXCEPT !.pc = "begin"].pc = "begin"
  BY DEF Confirmation

LEMMA ConfirmationFields ==
  ASSUME NEW x \in Confirmation, NEW pi \in Intent, NEW inv \in Invoice, NEW paid \in BOOLEAN
  PROVE  /\ \A n \in Nat :
               LET y == [x EXCEPT !.pc = "intent", !.attempt = n, !.paid = paid, !.pi = pi]
               IN  y \in Confirmation /\ y.pc = "intent" /\ y.pi = pi
         /\ LET y == [x EXCEPT !.pc = "invoice", !.inv = inv]
            IN  y \in Confirmation /\ y.pi = x.pi /\ y.inv = inv
  BY DEF Confirmation

LEMMA InvoiceFields ==
  ASSUME NEW inv \in Invoice
  PROVE  /\ inv.tries \in Nat /\ inv.covered \in BOOLEAN
         /\ MarkPaid(inv) \in Invoice
         /\ MarkPaid(inv).tries = inv.tries /\ MarkPaid(inv).covered
         /\ MarkPaid(inv).status = "paid"
         /\ MarkPaymentFailed(inv) \in Invoice
         /\ MarkPaymentFailed(inv).tries = inv.tries + 1
         /\ MarkPaymentFailed(inv).covered = inv.covered
         /\ MarkPaymentFailed(inv).status = "uncollectible" => inv.tries + 1 >= 3
  <1>1. inv.tries \in Nat /\ inv.covered \in BOOLEAN
    BY DEF Invoice
  <1>2. /\ MarkPaid(inv) \in Invoice /\ MarkPaid(inv).tries = inv.tries
        /\ MarkPaid(inv).covered /\ MarkPaid(inv).status = "paid"
    BY DEF Invoice, MarkPaid
  <1> DEFINE status == IF FinalAttempt(inv) THEN "uncollectible" ELSE "open"
             tries == inv.tries + 1
  <1>3. /\ status \in {"uncollectible", "open"} /\ tries \in Nat
        /\ status = "uncollectible" => inv.tries + 1 >= 3
    BY <1>1 DEF FinalAttempt
  <1>4. MarkPaymentFailed(inv) = [inv EXCEPT !.tries = tries, !.status = status]
    BY DEF MarkPaymentFailed
  <1> HIDE DEF status, tries
  <1>5. /\ MarkPaymentFailed(inv) \in Invoice
        /\ MarkPaymentFailed(inv).tries = tries
        /\ MarkPaymentFailed(inv).covered = inv.covered
        /\ MarkPaymentFailed(inv).status = status
    BY <1>3, <1>4 DEF Invoice
  <1> QED BY <1>1, <1>2, <1>3, <1>5 DEF tries

LEMMA IntentFields ==
  ASSUME NEW pi \in Intent
  PROVE  /\ MarkSucceeded(pi) \in Intent
         /\ MarkFailed(pi) \in Intent /\ MarkFailed(pi).captured = pi.captured
  BY DEF Intent, MarkSucceeded, MarkFailed

LEMMA OutcomeFields ==
  ASSUME NEW e \in Outcomes
  PROVE  /\ e.paid \in Nat /\ e.failed \in Nat
         /\ [e EXCEPT !.paid = e.paid + 1] \in Outcomes
         /\ [e EXCEPT !.paid = e.paid + 1].failed = e.failed
         /\ [e EXCEPT !.failed = e.failed + 1] \in Outcomes
         /\ [e EXCEPT !.failed = e.failed + 1].failed = e.failed + 1
  BY DEF Outcomes

LEMMA InitIInv == Init => IInv
  <1> SUFFICES ASSUME Init PROVE IInv
    OBVIOUS
  <1>0. \A inv \in Issued : inv \in Invoice /\ inv.status # "uncollectible"
    <2>1. /\ [status |-> "paid", covered |-> TRUE, tries |-> 0] \in Invoice
          /\ [status |-> "open", covered |-> FALSE, tries |-> 1] \in Invoice
      BY DEF Invoice
    <2> SUFFICES ASSUME NEW inv \in Issued PROVE inv \in Invoice /\ inv.status # "uncollectible"
      OBVIOUS
    <2>2. CASE inv = [status |-> "paid", covered |-> TRUE, tries |-> 0]
      BY <2>1, <2>2
    <2>3. CASE inv = [status |-> "open", covered |-> FALSE, tries |-> 1]
      BY <2>1, <2>3
    <2> QED BY <2>2, <2>3 DEF Issued
  <1>1. \A i \in Invoices : /\ invoice[i] \in Invoice
                            /\ invoice[i].status # "uncollectible"
    BY <1>0 DEF Init
  <1>2. invoice \in [Invoices -> Invoice]
    BY <1>1 DEF Init
  <1>3. \A i \in Invoices : events[i] \in Outcomes /\ events[i].failed = invoice[i].tries
    BY <1>1, InvoiceFields DEF Init, Outcomes
  <1>4. events \in [Invoices -> Outcomes]
    BY <1>3 DEF Init
  <1>5. TypeOK
    <2>1. NoIntent \in Intent /\ NoConfirmation \in Confirmation
      BY Records
    <2> QED BY <1>2, <1>4, <2>1, ConstantsAssumption DEF Init, TypeOK
  <1>r. /\ \A c \in Clients, p \in Intents : confirm[c][p].pc = "idle"
        /\ \A p \in Intents : ~intent[p].captured
    BY DEF Init, NoConfirmation, NoIntent
  <1>n. \A i \in Invoices : invoice[i].tries <= events[i].failed
    <2> SUFFICES ASSUME NEW i \in Invoices PROVE invoice[i].tries <= events[i].failed
      OBVIOUS
    <2>1. invoice[i].tries \in Nat
      BY <1>1, InvoiceFields
    <2>2. events[i].failed = invoice[i].tries
      BY <1>3
    <2> QED BY <2>1, <2>2
  <1>6. CopiesBehind /\ DeclinesCounted
    BY <1>1, <1>3, <1>r, <1>n DEF CopiesBehind, DeclinesCounted, Behind
  <1>7. CopiedIsBooked /\ CapturedIsBooked
    BY <1>r DEF CopiedIsBooked, CapturedIsBooked
  <1> QED BY <1>5, <1>6, <1>7 DEF IInv

(* One confirmation replaced by another: how the actions say it, and what   *)
(* it means.                                                                *)
Replaced(c, p, x) == confirm' = [confirm EXCEPT ![c][p] = x]
OnlyReplaced(c, p, x) ==
    /\ confirm' \in [Clients -> [Intents -> Confirmation]] /\ confirm'[c][p] = x
    /\ \A d \in Clients, q \in Intents : d # c \/ q # p => confirm'[d][q] = confirm[d][q]

LEMMA ConfirmationReplaced ==
  ASSUME TypeOK, NEW c \in Clients, NEW p \in Intents, NEW x \in Confirmation, Replaced(c, p, x)
  PROVE  OnlyReplaced(c, p, x)
  BY DEF TypeOK, Replaced, OnlyReplaced

(* A step that writes no table: what matters of the confirmations is that  *)
(* their copies are old ones or the rows as they are.                      *)
LEMMA CopiesKept ==
  ASSUME IInv, TypeOK', UNCHANGED <<invoice, intent, events, clobbered>>,
         \A c \in Clients, p \in Intents :
            \/ confirm'[c][p] = confirm[c][p]
            \/ confirm'[c][p].pc \in {"idle", "begin"}
            \/ confirm'[c][p].pc = "intent" /\ confirm'[c][p].pi = intent[p]
            \/ /\ confirm[c][p].pc = "intent" /\ confirm'[c][p].pi = confirm[c][p].pi
               /\ confirm'[c][p].inv = invoice[InvoiceOf[p]]
  PROVE  IInv'
  <1>1. \A c \in Clients, p \in Intents :
           confirm'[c][p].pc = "invoice" => \/ confirm'[c][p] = confirm[c][p]
                                           \/ confirm'[c][p].inv = invoice[InvoiceOf[p]]
    OBVIOUS
  <1>2. CopiesBehind'
    BY <1>1, ConstantsAssumption DEF IInv, CopiesBehind, Behind
  <1>3. CopiedIsBooked'
    <2> SUFFICES ASSUME NEW c \in Clients, NEW p \in Intents,
                        confirm'[c][p].pc \in {"intent", "invoice"},
                        confirm'[c][p].pi.captured, ~clobbered[InvoiceOf[p]]
                 PROVE  invoice[InvoiceOf[p]].covered
      BY DEF CopiedIsBooked
    <2>1. \/ /\ confirm[c][p].pc \in {"intent", "invoice"}
             /\ confirm[c][p].pi = confirm'[c][p].pi
          \/ intent[p].captured
      OBVIOUS
    <2> QED BY <2>1 DEF IInv, CopiedIsBooked, CapturedIsBooked
  <1>4. DeclinesCounted' /\ CapturedIsBooked'
    BY DEF IInv, DeclinesCounted, CapturedIsBooked
  <1> QED BY <1>2, <1>3, <1>4 DEF IInv

(* A confirmation that ends or starts over holds no copies. *)
LEMMA Ends ==
  ASSUME TypeOK, NEW c \in Clients, NEW p \in Intents, Finish(c, p) \/ Again(c, p)
  PROVE  \E x \in Confirmation : /\ x.pc \in {"idle", "begin"}
                                 /\ confirm' = [confirm EXCEPT ![c][p] = x]
  <1>1. CASE Finish(c, p)
    BY <1>1, Records DEF Finish
  <1>2. CASE Again(c, p)
    <2>1. confirm[c][p].attempt \in Nat
      BY DEF TypeOK, Confirmation
    <2> QED BY <1>2, <2>1, Records DEF Again
  <1> QED BY <1>1, <1>2

LEMMA KeepsCreatePaymentIntent ==
  ASSUME IInv, NEW p \in Intents, CreatePaymentIntent(p)
  PROVE  IInv'
  <1>1. /\ TypeOK /\ UNCHANGED <<invoice, confirm, events, requests, clobbered>>
        /\ intent' = [intent EXCEPT ![p] = NewPaymentIntent]
    BY DEF IInv, CreatePaymentIntent
  <1>2. TypeOK'
    BY <1>1, Records DEF TypeOK
  <1>3. CopiesBehind' /\ DeclinesCounted' /\ CopiedIsBooked'
    BY <1>1 DEF IInv, CopiesBehind, Behind, DeclinesCounted, CopiedIsBooked
  <1>4. CapturedIsBooked'
    BY <1>1, Records DEF TypeOK, IInv, CapturedIsBooked
  <1> QED BY <1>2, <1>3, <1>4 DEF IInv

LEMMA KeepsRequest ==
  ASSUME IInv, NEW c \in Clients, NEW p \in Intents, Request(c, p)
  PROVE  IInv'
  <1> DEFINE x == [confirm[c][p] EXCEPT !.pc = "begin"]
  <1>1. /\ TypeOK /\ x \in Confirmation
        /\ x.pc = "begin"
    BY ConfirmationBegins DEF IInv, TypeOK
  <1>2. confirm' = [confirm EXCEPT ![c][p] = x]
    BY DEF Request
  <1> HIDE DEF x
  <1>3. /\ confirm' \in [Clients -> [Intents -> Confirmation]] /\ confirm'[c][p] = x
        /\ \A d \in Clients, q \in Intents : d # c \/ q # p => confirm'[d][q] = confirm[d][q]
    <2>1. TypeOK /\ Replaced(c, p, x)
      BY <1>1, <1>2 DEF Replaced
    <2>2. OnlyReplaced(c, p, x)
      BY <1>1, <2>1, ConfirmationReplaced
    <2> QED BY <2>2 DEF OnlyReplaced
  <1>4. TypeOK'
    BY <1>1, <1>3, ConstantsAssumption DEF TypeOK, Request
  <1> QED BY <1>1, <1>3, <1>4, CopiesKept DEF Request

LEMMA KeepsReadIntent ==
  ASSUME IInv, NEW c \in Clients, NEW p \in Intents, NEW paid \in BOOLEAN,
         ReadIntent(c, p, paid)
  PROVE  IInv'
  <1> DEFINE x == [NoConfirmation EXCEPT !.pc = "intent", !.attempt = confirm[c][p].attempt + 1,
                                    !.paid = paid, !.pi = intent[p]]
  <1>1. /\ TypeOK /\ x \in Confirmation
        /\ x.pc = "intent" /\ x.pi = intent[p]
    <2>1. confirm[c][p] \in Confirmation /\ intent[p] \in Intent
      BY DEF IInv, TypeOK
    <2>2. confirm[c][p].attempt + 1 \in Nat /\ NoConfirmation \in Confirmation
      BY <2>1, ConfirmationBegins, Records
    <2>3. \A n \in Nat :
             LET y == [NoConfirmation EXCEPT !.pc = "intent", !.attempt = n, !.paid = paid,
                                             !.pi = intent[p]]
             IN  y \in Confirmation /\ y.pc = "intent" /\ y.pi = intent[p]
      BY <2>1, <2>2, ConfirmationFields DEF Confirmation
    <2> QED BY <2>2, <2>3 DEF IInv
  <1>2. confirm' = [confirm EXCEPT ![c][p] = x]
    BY DEF ReadIntent
  <1> HIDE DEF x
  <1>3. /\ confirm' \in [Clients -> [Intents -> Confirmation]] /\ confirm'[c][p] = x
        /\ \A d \in Clients, q \in Intents : d # c \/ q # p => confirm'[d][q] = confirm[d][q]
    <2>1. TypeOK /\ Replaced(c, p, x)
      BY <1>1, <1>2 DEF Replaced
    <2>2. OnlyReplaced(c, p, x)
      BY <1>1, <2>1, ConfirmationReplaced
    <2> QED BY <2>2 DEF OnlyReplaced
  <1>4. TypeOK'
    BY <1>1, <1>3, ConstantsAssumption DEF TypeOK, ReadIntent
  <1> QED BY <1>1, <1>3, <1>4, CopiesKept DEF ReadIntent

LEMMA KeepsReadInvoice ==
  ASSUME IInv, NEW c \in Clients, NEW p \in Intents, ReadInvoice(c, p)
  PROVE  IInv'
  <1> DEFINE x == [confirm[c][p] EXCEPT !.pc = "invoice", !.inv = invoice[InvoiceOf[p]]]
  <1>1. /\ TypeOK /\ x \in Confirmation
        /\ confirm[c][p].pc = "intent" /\ x.pi = confirm[c][p].pi
        /\ x.inv = invoice[InvoiceOf[p]]
    <2>1. confirm[c][p] \in Confirmation /\ invoice[InvoiceOf[p]] \in Invoice
      BY ConstantsAssumption DEF IInv, TypeOK
    <2> QED BY <2>1, ConfirmationFields DEF IInv, ReadInvoice, Confirmation
  <1>2. confirm' = [confirm EXCEPT ![c][p] = x]
    BY DEF ReadInvoice
  <1> HIDE DEF x
  <1>3. /\ confirm' \in [Clients -> [Intents -> Confirmation]] /\ confirm'[c][p] = x
        /\ \A d \in Clients, q \in Intents : d # c \/ q # p => confirm'[d][q] = confirm[d][q]
    <2>1. TypeOK /\ Replaced(c, p, x)
      BY <1>1, <1>2 DEF Replaced
    <2>2. OnlyReplaced(c, p, x)
      BY <1>1, <2>1, ConfirmationReplaced
    <2> QED BY <2>2 DEF OnlyReplaced
  <1>4. TypeOK'
    BY <1>1, <1>3, ConstantsAssumption DEF TypeOK, ReadInvoice
  <1> QED BY <1>1, <1>3, <1>4, CopiesKept DEF ReadInvoice

LEMMA KeepsNothingWritten ==
  ASSUME IInv, NEW c \in Clients, NEW p \in Intents, Refuse(c, p) \/ Rollback(c, p)
  PROVE  IInv'
  <1>1. /\ TypeOK
        /\ (Finish(c, p) \/ Again(c, p))
        /\ UNCHANGED <<invoice, intent, events, requests, clobbered>>
    BY DEF IInv, Refuse, Rollback
  <1>2. PICK x \in Confirmation : /\ x.pc \in {"idle", "begin"}
                                  /\ confirm' = [confirm EXCEPT ![c][p] = x]
    <2> HIDE DEF Finish, Again
    <2> QED BY <1>1, Ends
  <1>3. /\ confirm' \in [Clients -> [Intents -> Confirmation]] /\ confirm'[c][p] = x
        /\ \A d \in Clients, q \in Intents : d # c \/ q # p => confirm'[d][q] = confirm[d][q]
    <2>1. TypeOK /\ Replaced(c, p, x)
      BY <1>1, <1>2 DEF Replaced
    <2>2. OnlyReplaced(c, p, x)
      BY <1>1, <2>1, ConfirmationReplaced
    <2> QED BY <2>2 DEF OnlyReplaced
  <1>4. TypeOK'
    BY <1>1, <1>3 DEF TypeOK
  <1> QED BY <1>1, <1>2, <1>3, <1>4, CopiesKept

LEMMA KeepsCommit ==
  ASSUME IInv, NEW c \in Clients, NEW p \in Intents, Commit(c, p)
  PROVE  IInv'
  <1> DEFINE i == InvoiceOf[p]
             pi == confirm[c][p].pi
             inv == confirm[c][p].inv
  <1>1. /\ TypeOK /\ i \in Invoices /\ inv \in Invoice /\ pi \in Intent
        /\ invoice[i] \in Invoice /\ events[i] \in Outcomes
        /\ Behind(inv, events[i].failed) /\ confirm[c][p].pc = "invoice"
    BY ConstantsAssumption DEF IInv, TypeOK, Confirmation, CopiesBehind, Commit
  <1>2. PICK x \in Confirmation : /\ x.pc \in {"idle", "begin"}
                                  /\ confirm' = [confirm EXCEPT ![c][p] = x]
    BY <1>1, Ends DEF Commit
  <1>3. PICK new \in Invoice, npi \in Intent, e \in Outcomes :
           /\ invoice' = [invoice EXCEPT ![i] = new]
           /\ intent' = [intent EXCEPT ![p] = npi]
           /\ events' = [events EXCEPT ![i] = e]
           /\ e.failed \in Nat /\ events[i].failed <= e.failed
           /\ new.tries - inv.tries = e.failed - events[i].failed
           /\ new.status = "uncollectible" => new.tries >= 3
           /\ inv.covered => new.covered
           /\ npi.captured => pi.captured \/ new.covered
    <2>1. CASE confirm[c][p].paid
      <3>1. /\ invoice' = [invoice EXCEPT ![i] = MarkPaid(inv)]
            /\ intent' = [intent EXCEPT ![p] = MarkSucceeded(pi)]
            /\ events' = [events EXCEPT ![i] = [events[i] EXCEPT !.paid = events[i].paid + 1]]
        BY <2>1, <1>1 DEF Commit, TypeOK
      <3> DEFINE e == [events[i] EXCEPT !.paid = events[i].paid + 1]
      <3>2. e \in Outcomes /\ e.failed = events[i].failed /\ events[i].failed \in Nat
        BY <1>1, OutcomeFields
      <3>3. /\ MarkPaid(inv) \in Invoice /\ MarkPaid(inv).tries = inv.tries
            /\ inv.tries \in Nat /\ MarkPaid(inv).covered /\ MarkPaid(inv).status = "paid"
            /\ MarkSucceeded(pi) \in Intent
        BY <1>1, InvoiceFields, IntentFields
      <3> HIDE DEF e, i, inv, pi
      <3>4. /\ events[i].failed <= e.failed
            /\ MarkPaid(inv).tries - inv.tries = e.failed - events[i].failed
            /\ MarkPaid(inv).status # "uncollectible"
        BY <3>2, <3>3
      <3> QED BY <3>1, <3>2, <3>3, <3>4 DEF e
    <2>2. CASE ~confirm[c][p].paid
      <3>1. /\ invoice' = [invoice EXCEPT ![i] = MarkPaymentFailed(inv)]
            /\ intent' = [intent EXCEPT ![p] = MarkFailed(pi)]
            /\ events' = [events EXCEPT ![i] = [events[i] EXCEPT !.failed = events[i].failed + 1]]
        BY <2>2, <1>1 DEF Commit, TypeOK
      <3> DEFINE e == [events[i] EXCEPT !.failed = events[i].failed + 1]
      <3>2. e \in Outcomes /\ e.failed = events[i].failed + 1 /\ events[i].failed \in Nat
        BY <1>1, OutcomeFields
      <3>3. /\ MarkPaymentFailed(inv) \in Invoice /\ MarkPaymentFailed(inv).tries = inv.tries + 1
            /\ inv.tries \in Nat /\ MarkPaymentFailed(inv).covered = inv.covered
            /\ MarkPaymentFailed(inv).status = "uncollectible" => inv.tries + 1 >= 3
            /\ MarkFailed(pi) \in Intent /\ MarkFailed(pi).captured = pi.captured
        BY <1>1, InvoiceFields, IntentFields
      <3> HIDE DEF e, i, inv, pi
      <3>4. /\ events[i].failed <= e.failed /\ e.failed \in Nat
            /\ MarkPaymentFailed(inv).tries - inv.tries = e.failed - events[i].failed
        BY <3>2, <3>3
      <3> QED BY <3>1, <3>2, <3>3, <3>4 DEF e
    <2> QED BY <2>1, <2>2
  <1> HIDE DEF i, inv, pi
  <1>4. /\ inv.tries \in Nat /\ new.tries \in Nat /\ events[i].failed \in Nat
        /\ \A j \in Invoices : invoice[j].tries \in Nat /\ events[j].failed \in Nat
    <2>1. inv.tries \in Nat /\ new.tries \in Nat /\ events[i].failed \in Nat
      BY <1>1, InvoiceFields, OutcomeFields
    <2>2. \A j \in Invoices : invoice[j] \in Invoice /\ events[j] \in Outcomes
      BY <1>1 DEF TypeOK
    <2>3. \A j \in Invoices : invoice[j].tries \in Nat /\ events[j].failed \in Nat
      BY <2>2, InvoiceFields, OutcomeFields
    <2> QED BY <2>1, <2>3
  <1>5. /\ confirm' \in [Clients -> [Intents -> Confirmation]] /\ confirm'[c][p] = x
        /\ \A d \in Clients, q \in Intents : d # c \/ q # p => confirm'[d][q] = confirm[d][q]
    <2>1. TypeOK /\ Replaced(c, p, x)
      BY <1>1, <1>2 DEF Replaced
    <2>2. OnlyReplaced(c, p, x)
      BY <2>1, ConfirmationReplaced
    <2> QED BY <2>2 DEF OnlyReplaced
  <1>6. /\ invoice'[i] = new /\ events'[i] = e /\ intent'[p] = npi
        /\ \A j \in Invoices \ {i} : /\ invoice'[j] = invoice[j] /\ events'[j] = events[j]
                                     /\ clobbered'[j] = clobbered[j]
        /\ \A q \in Intents \ {p} : intent'[q] = intent[q]
        /\ ~clobbered'[i] => ~clobbered[i] /\ invoice[i] = inv
        /\ clobbered' \in [Invoices -> BOOLEAN]
    BY <1>1, <1>3 DEF TypeOK, Commit, i, inv
  <1>7. TypeOK'
    BY <1>1, <1>3, <1>5, <1>6 DEF TypeOK, Commit
  <1>8. \A j \in Invoices : \A old \in Invoice :
           Behind(old, events[j].failed) => Behind(old, events'[j].failed)
    <2> SUFFICES ASSUME NEW j \in Invoices, NEW old \in Invoice, Behind(old, events[j].failed)
                 PROVE  Behind(old, events'[j].failed)
      OBVIOUS
    <2>1. old.tries \in Nat
      BY InvoiceFields
    <2>2. CASE j = i
      BY <1>3, <1>4, <1>6, <2>1, <2>2 DEF Behind
    <2>3. CASE j # i
      BY <1>6, <2>3
    <2> QED BY <2>2, <2>3
  <1>9. Behind(new, events'[i].failed)
    BY <1>1, <1>3, <1>4, <1>6 DEF Behind
  <1>10. CopiesBehind'
    <2>1. ASSUME NEW j \in Invoices PROVE Behind(invoice'[j], events'[j].failed)
      <3>1. CASE j = i
        BY <1>6, <1>9, <3>1
      <3>2. CASE j # i
        BY <1>6, <3>2 DEF IInv, CopiesBehind
      <3> QED BY <3>1, <3>2
    <2>2. ASSUME NEW d \in Clients, NEW q \in Intents, confirm'[d][q].pc = "invoice"
          PROVE  Behind(confirm'[d][q].inv, events'[InvoiceOf[q]].failed)
      <3>1. confirm'[d][q] = confirm[d][q]
        BY <1>2, <1>5, <2>2
      <3>2. confirm[d][q].inv \in Invoice /\ InvoiceOf[q] \in Invoices
        BY <1>1, ConstantsAssumption DEF TypeOK, Confirmation
      <3>3. Behind(confirm[d][q].inv, events[InvoiceOf[q]].failed)
        BY <2>2, <3>1 DEF IInv, CopiesBehind
      <3> QED BY <1>8, <3>1, <3>2, <3>3
    <2> QED BY <2>1, <2>2 DEF CopiesBehind
  <1>11. DeclinesCounted'
    <2>1. ~clobbered'[i] => invoice'[i].tries = events'[i].failed
      BY <1>1, <1>3, <1>4, <1>6 DEF IInv, DeclinesCounted
    <2> QED BY <1>6, <2>1 DEF IInv, DeclinesCounted
  <1>12. \A j \in Invoices : ~clobbered'[j] => ~clobbered[j]
                                            /\ (invoice[j].covered => invoice'[j].covered)
    BY <1>3, <1>6
  <1>13. CopiedIsBooked'
    BY <1>2, <1>5, <1>12, ConstantsAssumption DEF IInv, CopiedIsBooked
  <1>14. CapturedIsBooked'
    <2>1. npi.captured /\ ~clobbered'[i] => invoice'[i].covered
      <3>1. pi.captured /\ ~clobbered[i] => invoice[i].covered
        BY <1>1 DEF IInv, CopiedIsBooked, i, pi
      <3> QED BY <1>1, <1>3, <1>6, <1>12, <3>1
    <2> QED BY <1>6, <1>12, <2>1, ConstantsAssumption DEF IInv, CapturedIsBooked, i
  <1> QED BY <1>7, <1>10, <1>11, <1>13, <1>14 DEF IInv

LEMMA NextIInv == IInv /\ [Next]_vars => IInv'
  <1> SUFFICES ASSUME IInv, [Next]_vars PROVE IInv'
    OBVIOUS
  <1>1. ASSUME NEW p \in Intents, CreatePaymentIntent(p) PROVE IInv'
    BY <1>1, KeepsCreatePaymentIntent
  <1>2. ASSUME NEW c \in Clients, NEW p \in Intents, Request(c, p) PROVE IInv'
    BY <1>2, KeepsRequest
  <1>3. ASSUME NEW c \in Clients, NEW p \in Intents, NEW paid \in BOOLEAN, ReadIntent(c, p, paid)
        PROVE  IInv'
    BY <1>3, KeepsReadIntent
  <1>4. ASSUME NEW c \in Clients, NEW p \in Intents, ReadInvoice(c, p) PROVE IInv'
    BY <1>4, KeepsReadInvoice
  <1>5. ASSUME NEW c \in Clients, NEW p \in Intents, Refuse(c, p) \/ Rollback(c, p) PROVE IInv'
    BY <1>5, KeepsNothingWritten
  <1>6. ASSUME NEW c \in Clients, NEW p \in Intents, Commit(c, p) PROVE IInv'
    BY <1>6, KeepsCommit
  <1>7. CASE UNCHANGED vars
    BY <1>7 DEF vars, IInv, TypeOK, CopiesBehind, Behind, DeclinesCounted, CopiedIsBooked,
                CapturedIsBooked
  <1> QED BY <1>1, <1>2, <1>3, <1>4, <1>5, <1>6, <1>7 DEF Next

-----------------------------------------------------------------------------
(* The strengthened invariant holds in every reachable state. *)
THEOREM Inductive == Spec => []IInv
  BY InitIInv, NextIInv, PTL DEF Spec

(* An invoice is written off only after three announced declines, for any  *)
(* number of intents and clients confirming at once (payment.go:111).      *)
THEOREM NotWrittenOffEarly == Spec => []WrittenOffAfterThree
  <1>1. IInv => WrittenOffAfterThree
    <2> SUFFICES ASSUME IInv, NEW i \in Invoices, invoice[i].status = "uncollectible"
                 PROVE  events[i].failed >= 3
      BY DEF WrittenOffAfterThree
    <2>1. invoice[i].tries >= 3 /\ invoice[i].tries <= events[i].failed
      BY DEF IInv, CopiesBehind, Behind
    <2>2. invoice[i].tries \in Nat /\ events[i].failed \in Nat
      BY InvoiceFields, OutcomeFields DEF IInv, TypeOK
    <2> QED BY <2>1, <2>2
  <1> QED BY <1>1, Inductive, PTL

(* Without a lost update attempt_count is exact, though attempts that      *)
(* committed are run again (invoice.go:179-204).                           *)
THEOREM DeclinesExact == Spec => []DeclinesCounted
  <1>1. IInv => DeclinesCounted
    BY DEF IInv
  <1> QED BY <1>1, Inductive, PTL

(* Without a lost update captured money is booked on its invoice: what the *)
(* single transaction of ConfirmPayment guarantees, and row locks would    *)
(* have to add (payment.go:81-132).                                        *)
THEOREM CapturedStaysBooked == Spec => []CapturedIsBooked
  <1>1. IInv => CapturedIsBooked
    BY DEF IInv
  <1> QED BY <1>1, Inductive, PTL
=============================================================================
