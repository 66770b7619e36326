------------------------------ MODULE Catalogue ------------------------------
(***************************************************************************)
(* What the API creates (transport/http, service, repository): customers,  *)
(* products, prices, subscriptions with their first invoice, intents to    *)
(* pay an invoice, and webhook endpoints.  A handler looks up what the new *)
(* row refers to, outside of any transaction; the service then builds and  *)
(* inserts the row in a transaction that the transaction manager repeats   *)
(* after certain errors, each time with new ids.  A commit that is         *)
(* reported as an error may have taken effect: "transaction resolution     *)
(* unknown" (08007) is retried.                                            *)
(*                                                                         *)
(* A client that hangs up cancels the request's context: the call under    *)
(* way fails, with an error that is not retried.                           *)
(***************************************************************************)
EXTENDS Integers, Sequences, FiniteSets, SequencesExt

CONSTANTS
    MaxRequest,  \* bound: requests, numbered as they come in
    MaxAttempts, \* transaction.Config.MaxAttempts
    MaxDeletions \* bound: rows deleted

ASSUME ConstantsAssumption ==
    /\ MaxRequest \in Nat
    /\ MaxAttempts \in Nat \ {0}
    /\ MaxDeletions \in Nat

Requests == 1..MaxRequest
Kinds == {"customer", "product", "price", "subscription", "invoice", "intent", "endpoint"}
Ids == Kinds \X (0..MaxRequest) \X (1..MaxAttempts) \* kind, request, attempt
NoId == <<"customer", 0, 0>>

VARIABLES
    rows,    \* committed rows of all tables
    deleted, \* ids of those whose deleted_at is set
    outbox,  \* ids of the rows whose creation has an event in the outbox
    request,
    tx,      \* what the open transaction of a request has written
    lost     \* history: commits of a request that took effect and were
             \* reported as errors

vars == <<rows, deleted, outbox, request, tx, lost>>
tables == <<rows, deleted, outbox>>

-----------------------------------------------------------------------------
Row(id, parents) == [id |-> id, parents |-> parents]
IdsOf(set) == {row.id : row \in set}
Of(kind) == {id \in IdsOf(rows) : id[1] = kind}

(* gone, a history: the parents that had been deleted when the transaction *)
(* began.                                                                  *)
NoTx == [rows |-> {}, events |-> {}, gone |-> {}]

Incoming == [step |-> "new", kind |-> "customer", parents |-> <<>>, looked |-> 0,
             attempt |-> 1, built |-> NoId, answer |-> 0]

(* A customer, a product and a price exist already. *)
Seeds == LET product == <<"product", 0, 1>>
         IN  {Row(<<"customer", 0, 1>>, <<>>), Row(product, <<>>),
              Row(<<"price", 0, 1>>, <<product>>)}

Init ==
    /\ rows = Seeds
    /\ deleted = {}
    /\ outbox = {<<"customer", 0, 1>>}
    /\ request = [r \in Requests |-> Incoming]
    /\ tx = [r \in Requests |-> NoTx]
    /\ lost = [r \in Requests |-> 0]

At(r, step, kinds) == request[r].step = step /\ request[r].kind \in kinds
Id(r, kind) == <<kind, r, request[r].attempt>>

Answer(r, status) ==
    request' = [request EXCEPT ![r].step = "done", ![r].looked = 0, ![r].answer = status]

(* BillingHandler does not know ErrPriceNotFound, ResourceHandlers not *)
(* ErrInvoiceNotFound.                                                 *)
handleServiceError(missing) == IF missing = "customer" THEN 404 ELSE 500
extraErrorStatus(missing) == missing \in {"product", "price"}
respondServiceError(missing) ==
    IF extraErrorStatus(missing) \/ missing = "customer" THEN 404 ELSE 500
NotFound(r, missing) ==
    IF request[r].kind \in {"customer", "subscription"}
    THEN handleServiceError(missing) ELSE respondServiceError(missing)

-----------------------------------------------------------------------------
(* The handlers. *)

Accept(r, kind, parents) ==
    /\ request[r].step = "new"
    /\ \A q \in 1..(r - 1) : request[q].step # "new"
    /\ request' = [request EXCEPT ![r] = [@ EXCEPT
           !.step = IF parents = <<>> THEN "begin" ELSE "resolve",
           !.kind = kind, !.parents = parents]]
    /\ UNCHANGED <<tables, tx, lost>>

PostCustomer(r) == Accept(r, "customer", <<>>)
PostProduct(r) == Accept(r, "product", <<>>)
PostPrice(r) == \E p \in Of("product") : Accept(r, "price", <<p>>)
PostEndpoint(r) == \E c \in Of("customer") : Accept(r, "endpoint", <<c>>)
PostIntent(r) == \E i \in Of("invoice") : Accept(r, "intent", <<i>>)
PostSubscription(r) ==
    \E c \in Of("customer"), p \in Of("price") : Accept(r, "subscription", <<c, p>>)

(* The lookups, of rows that are not deleted (findFirst). *)
FindCustomer(id) == id \in Of("customer") \ deleted
FindProduct(id) == id \in Of("product") \ deleted
FindPrice(id) == id \in Of("price") \ deleted
FindInvoice(id) == id \in Of("invoice") \ deleted
Found(id) == FindCustomer(id) \/ FindProduct(id) \/ FindPrice(id) \/ FindInvoice(id)

LookUp(r, next) ==
    LET id == request[r].parents[request[r].looked + 1]
        all == request[r].looked + 1 = Len(request[r].parents)
    IN  IF Found(id)
        THEN request' = [request EXCEPT ![r].looked = @ + 1,
                             ![r].step = IF all THEN next ELSE @]
        ELSE Answer(r, NotFound(r, id[1]))

ResolveProduct(r) ==
    /\ At(r, "resolve", {"price"})
    /\ LookUp(r, "begin")
    /\ UNCHANGED <<tables, tx, lost>>

ResolveCustomer(r) ==
    /\ At(r, "resolve", {"endpoint"})
    /\ LookUp(r, "begin")
    /\ UNCHANGED <<tables, tx, lost>>

ResolveInvoice(r) ==
    /\ At(r, "resolve", {"intent"})
    /\ LookUp(r, "begin")
    /\ UNCHANGED <<tables, tx, lost>>

ResolveCustomerAndPrice(r) ==
    /\ At(r, "resolve", {"subscription"})
    /\ LookUp(r, "begin")
    /\ UNCHANGED <<tables, tx, lost>>

LookUpFails(r) ==
    /\ request[r].step = "resolve"
    /\ Answer(r, 500)
    /\ UNCHANGED <<tables, tx, lost>>

-----------------------------------------------------------------------------
(* The transactions of the services. *)

Begin(r) ==
    /\ request[r].step = "begin"
    /\ tx' = [tx EXCEPT ![r] = [NoTx EXCEPT !.gone = deleted \intersect Range(request[r].parents)]]
    /\ request' = [request EXCEPT ![r].looked = 0, ![r].step =
           IF request[r].kind \in {"subscription", "intent"} THEN "check" ELSE "write"]
    /\ UNCHANGED <<tables, lost>>

(* (Slip: what the handler has looked up is not looked up again.) *)
RecheckSkipped(r) ==
    /\ request[r].step = "check"
    /\ request' = [request EXCEPT ![r].step = "write"]
    /\ UNCHANGED <<tables, tx, lost>>

(* CreateSubscription reads customer and price again, CreatePaymentIntent *)
(* the invoice.                                                           *)
Recheck(r) ==
    /\ request[r].step = "check"
    /\ LookUp(r, "write")
    /\ UNCHANGED <<tables, tx, lost>>

(* (Slip: the repositories write through the pool.) *)
WriteThroughPool(r, made, announced) ==
    /\ request' = [request EXCEPT ![r].step = "commit", ![r].built = Id(r, request[r].kind)]
    /\ rows' = rows \union made
    /\ tx' = [tx EXCEPT ![r].events = announced]
    /\ UNCHANGED <<deleted, outbox, lost>>

(* (Slip: the function called again returns what it has built already.) *)
WriteKeepsFirst(r, made, announced) ==
    /\ request' = [request EXCEPT ![r].step = "commit", ![r].built =
           IF @ = NoId THEN Id(r, request[r].kind) ELSE @]
    /\ tx' = [tx EXCEPT ![r].rows = made, ![r].events = announced]
    /\ UNCHANGED <<tables, lost>>

(* The executor of every repository is the context's transaction. *)
Write(r, made, announced) ==
    /\ request' = [request EXCEPT ![r].step = "commit", ![r].built = Id(r, request[r].kind)]
    /\ tx' = [tx EXCEPT ![r].rows = made, ![r].events = announced]
    /\ UNCHANGED <<tables, lost>>

NewProduct(r) == Row(Id(r, "product"), <<>>)
NewPrice(r) == Row(Id(r, "price"), request[r].parents)
NewCustomer(r) == Row(Id(r, "customer"), <<>>)
NewWebhookEndpoint(r) == Row(Id(r, "endpoint"), request[r].parents)
NewPaymentIntent(r) == Row(Id(r, "intent"), request[r].parents)
NewSubscription(r) == Row(Id(r, "subscription"), request[r].parents)
NewInvoice(r) == Row(Id(r, "invoice"), <<Id(r, "subscription")>>)

(* Products and prices raise events that nobody dispatches. *)
CreateProduct(r) ==
    /\ At(r, "write", {"product"})
    /\ Write(r, {NewProduct(r)}, {})

CreatePrice(r) ==
    /\ At(r, "write", {"price"})
    /\ Write(r, {NewPrice(r)}, {})

CreateEndpoint(r) ==
    /\ At(r, "write", {"endpoint"})
    /\ Write(r, {NewWebhookEndpoint(r)}, {})

CreatePaymentIntent(r) ==
    /\ At(r, "write", {"intent"})
    /\ Write(r, {NewPaymentIntent(r)}, {})

(* (Slip: the event is dispatched outside the transaction.) *)
CreateCustomerAnnouncesFirst(r) ==
    /\ At(r, "write", {"customer"})
    /\ request' = [request EXCEPT ![r].step = "commit", ![r].built = Id(r, "customer")]
    /\ tx' = [tx EXCEPT ![r].rows = {NewCustomer(r)}]
    /\ outbox' = outbox \union {Id(r, "customer")}
    /\ UNCHANGED <<rows, deleted, lost>>

CreateCustomer(r) ==
    /\ At(r, "write", {"customer"})
    /\ Write(r, {NewCustomer(r)}, {Id(r, "customer")})

(* The first invoice is created paid. *)
CreateSubscription(r) ==
    /\ At(r, "write", {"subscription"})
    /\ LET made == {NewSubscription(r), NewInvoice(r)} IN Write(r, made, IdsOf(made))

-----------------------------------------------------------------------------
(* The transaction manager. *)

Applied(r) ==
    /\ rows' = rows \union tx[r].rows
    /\ outbox' = outbox \union tx[r].events
    /\ UNCHANGED deleted

Commit(r) ==
    /\ request[r].step = "commit"
    /\ Applied(r)
    /\ Answer(r, 201)
    /\ tx' = [tx EXCEPT ![r] = NoTx]
    /\ UNCHANGED lost

(* (Slip: one attempt more than configured.) *)
RetryOnceMore(r, retryable) ==
    IF retryable /\ request[r].attempt <= MaxAttempts
    THEN request' = [request EXCEPT ![r].step = "backoff"]
    ELSE Answer(r, 500)

(* isRetryableError: deadlocks, serialization failures, class 08.  Whatever *)
(* HandleError makes of the last error, the handlers answer it with 500.    *)
Retry(r, retryable) ==
    IF retryable /\ request[r].attempt < MaxAttempts
    THEN request' = [request EXCEPT ![r].step = "backoff"]
    ELSE Answer(r, 500)

Fails(r, retryable) ==
    /\ request[r].step \in {"begin", "check", "write"}
    /\ Retry(r, retryable)
    /\ tx' = [tx EXCEPT ![r] = NoTx]
    /\ UNCHANGED <<tables, lost>>

CommitFails(r, retryable) ==
    /\ request[r].step = "commit"
    /\ Retry(r, retryable)
    /\ \/ Applied(r) /\ lost' = [lost EXCEPT ![r] = @ + 1]
       \/ UNCHANGED <<tables, lost>>
    /\ tx' = [tx EXCEPT ![r] = NoTx]

BackoffEnds(r) ==
    /\ request[r].step = "backoff"
    /\ request' = [request EXCEPT ![r].step = "begin", ![r].attempt = @ + 1]
    /\ UNCHANGED <<tables, tx, lost>>

Cancelled(r) ==
    /\ request[r].step = "backoff"
    /\ Answer(r, 500)
    /\ UNCHANGED <<tables, tx, lost>>

-----------------------------------------------------------------------------
(* SoftDelete: one statement; of what is deleted already it is an error. *)
SoftDelete(id) ==
    /\ Cardinality(deleted) < MaxDeletions
    /\ deleted' = deleted \union {id}
    /\ UNCHANGED <<rows, outbox, request, tx, lost>>

DeleteProduct == \E id \in Of("product") \ deleted : SoftDelete(id)
DeletePrice == \E id \in Of("price") \ deleted : SoftDelete(id)
DeleteInvoice == \E id \in Of("invoice") \ deleted : SoftDelete(id)
DeleteCustomer == \E id \in Of("customer") \ deleted : SoftDelete(id)

-----------------------------------------------------------------------------
Post(r) ==
    \/ PostCustomer(r) \/ PostProduct(r) \/ PostPrice(r)
    \/ PostEndpoint(r) \/ PostIntent(r) \/ PostSubscription(r)
Handle(r) ==
    \/ ResolveProduct(r) \/ ResolveCustomer(r) \/ ResolveCustomerAndPrice(r)
    \/ ResolveInvoice(r) \/ LookUpFails(r)
    \/ Begin(r) \/ Recheck(r)
    \/ CreateProduct(r) \/ CreatePrice(r) \/ CreateCustomer(r)
    \/ CreateEndpoint(r) \/ CreatePaymentIntent(r) \/ CreateSubscription(r)
    \/ Commit(r)
    \/ \E retryable \in BOOLEAN : Fails(r, retryable) \/ CommitFails(r, retryable)
    \/ BackoffEnds(r) \/ Cancelled(r)
Delete == DeleteProduct \/ DeletePrice \/ DeleteInvoice \/ DeleteCustomer
Next == (\E r \in Requests : Post(r) \/ Handle(r)) \/ Delete

Spec == Init /\ [][Next]_vars

-----------------------------------------------------------------------------
TypeOK ==
    /\ rows \subseteq [id : Ids, parents : Seq(Ids)]
    /\ deleted \subseteq IdsOf(rows) /\ outbox \subseteq Ids
    /\ request \in [Requests ->
          [step : {"new", "resolve", "begin", "check", "write", "commit", "backoff", "done"},
           kind : Kinds \ {"invoice"}, parents : Seq(Ids), looked : 0..2,
           attempt : 1..MaxAttempts, built : Ids \union {NoId}, answer : {0, 201, 404, 500}]]
    /\ tx \in [Requests -> [rows : SUBSET [id : Ids, parents : Seq(Ids)],
                            events : SUBSET Ids, gone : SUBSET Ids]]
    /\ lost \in [Requests -> 0..MaxAttempts]

(* A request leaves one row of its kind if it is answered with 201, and none *)
(* otherwise, save for one more with every commit that took effect and was   *)
(* reported as an error: only then has a customer two subscriptions of one   *)
(* request, or one that the client was told could not be created             *)
(* (manager.go:53-127, billing.go:82).                                       *)
MadeBy(r) == {id \in Of(request[r].kind) : id[2] = r}
RowsAreAccountedFor == \A r \in Requests :
    Cardinality(MadeBy(r)) = lost[r] + IF request[r].answer = 201 THEN 1 ELSE 0

(* The answer 201 carries the entity of the attempt that was committed, not *)
(* that of an attempt that was rolled back: the variable the function       *)
(* assigns outlives the attempts (product.go:43-60, billing.go:79-150).     *)
AnswerNamesRow == \A r \in Requests :
    request[r].answer = 201 => request[r].built \in IdsOf(rows)

(* A customer, subscription or invoice is in its table if and only if its *)
(* creation is in the outbox, whatever failed and was repeated            *)
(* (customer.go:45-66, billing.go:135-144).                               *)
EventsMatchRows ==
    outbox = Of("customer") \union Of("subscription") \union Of("invoice")

(* A subscription is never created for a customer or a price that had been *)
(* deleted when its transaction began, however long ago the handler looked *)
(* them up, nor an intent for an invoice; prices and endpoints are         *)
(* (billing.go:84-92, payment.go:56-59).                                   *)
SubscribedToLiveRows == [][
    \A row \in rows' \ rows : row.id[1] \in {"subscription", "intent"} =>
        tx[row.id[2]].gone = {}]_vars

-----------------------------------------------------------------------------
(* What these rest on. *)

(* A request does what its kind needs, in order, and has its answer last. *)
RequestsInOrder == \A r \in Requests :
    LET req == request[r] IN
    /\ req.step = "new" => req = Incoming
    /\ Len(req.parents) <= 2
    /\ req.step # "new" /\ req.kind \in {"subscription", "intent"} => req.parents # <<>>
    /\ req.step \in {"resolve", "check"} => req.looked < Len(req.parents)
    /\ req.step = "backoff" => req.attempt < MaxAttempts
    /\ req.step # "done" => req.answer = 0

(* The attempts of a request that are over: only they have left anything,  *)
(* so the ids of the one under way are new.                                *)
Over(r) ==
    IF request[r].step \in {"backoff", "done"} THEN request[r].attempt ELSE request[r].attempt - 1
Makes(r) ==
    {request[r].kind} \union IF request[r].kind = "subscription" THEN {"invoice"} ELSE {}
RowsOfAttemptsOver ==
    /\ \A row \in rows : row.id[2] \in Requests =>
          row.id[1] \in Makes(row.id[2]) /\ row.id[3] <= Over(row.id[2])
    /\ \A r \in Requests : lost[r] <= Over(r) /\ IsFiniteSet(MadeBy(r))

(* What a transaction is about to commit. *)
Announced == {"customer", "subscription", "invoice"}
WrittenTogether == \A r \in Requests : request[r].step = "commit" =>
    /\ request[r].built = Id(r, request[r].kind)
    /\ \E row \in tx[r].rows : row.id = Id(r, request[r].kind)
    /\ \A row \in tx[r].rows : \E kind \in Makes(r) : row.id = Id(r, kind)
    /\ tx[r].events = {id \in IdsOf(tx[r].rows) : id[1] \in Announced}

(* Of the rows a new one refers to, those that had been deleted when the   *)
(* transaction began still are, and have not been looked up yet.           *)
GoneIsFound == \A r \in Requests :
    LET req == request[r] IN
    /\ tx[r].gone \subseteq deleted
    /\ req.step = "check" =>
          /\ tx[r].gone \subseteq Range(req.parents)
          /\ \A i \in 1..req.looked : req.parents[i] \notin tx[r].gone
    /\ req.step \in {"write", "commit"} /\ req.kind \in {"subscription", "intent"} =>
          tx[r].gone = {}

(* The inductive invariant. *)
IInv ==
    /\ TypeOK
    /\ RequestsInOrder
    /\ RowsOfAttemptsOver
    /\ WrittenTogether
    /\ GoneIsFound
    /\ RowsAreAccountedFor
    /\ AnswerNamesRow
    /\ EventsMatchRows
=============================================================================
