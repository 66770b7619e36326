-------------------------------- MODULE App --------------------------------
(***************************************************************************)
(* The process (cmd/bill-stripe-sim, internal/app): it connects to         *)
(* PostgreSQL and Redis, reads the clock's offset, starts the dashboard    *)
(* hub, the HTTP server and the workers, and stops them on a signal.  The  *)
(* hub's own steps are those of module Hub.                                *)
(*                                                                         *)
(* main.go calls an app.Run that does not exist; what it means is taken to *)
(* be New, then Run, then Shutdown with a context that has a deadline.     *)
(***************************************************************************)
EXTENDS Hub

CONSTANTS
    Requests,         \* HTTP requests other than the dashboard's
    Loops,            \* goroutines Run waits for: due, renewal, retry, cleanup
    OutboxWorkers,    \* goroutines OutboxProcessor.Stop waits for
    PostgresAttempts, \* Config.ConnAttempts
    RedisAttempts     \* _defaultConnAttempts (5)

ASSUME AppAssumption ==
    /\ Loops \intersect OutboxWorkers = {}
    /\ PostgresAttempts \in Nat \ {0} /\ RedisAttempts \in Nat \ {0}

Tasks == Loops \union OutboxWorkers

VARIABLES
    main,      \* where the main goroutine is
    attempt,   \* of the connection under way, counted from 1
    lastErr,   \* redis.New: a ping has failed
    canceled,  \* the context of Run and of everything it starts
    http,      \* the server: its listener and the Shutdown that Start calls
    request,
    task,
    dlq,
    kafka,     \* the producer
    deadlines  \* history: waits of the shutdown that ended by their deadline

startup == <<attempt, lastErr>>
closers == <<dlq, kafka>>
vars == <<up, hub, main, startup, canceled, http, request, task, closers, deadlines>>

Init ==
    /\ HubInit /\ up = FALSE
    /\ main = "postgres" /\ attempt = 1 /\ lastErr = FALSE
    /\ canceled = FALSE
    /\ http = "off"
    /\ request = [r \in Requests |-> "none"]
    /\ task = [t \in Tasks |-> "off"]
    /\ dlq = "open" /\ kafka = "open"
    /\ deadlines = {}

-----------------------------------------------------------------------------
(* SIGTERM or an interrupt: signal.NotifyContext is set before anything else. *)
Signal ==
    /\ main # "exited" /\ ~canceled
    /\ canceled' = TRUE
    /\ UNCHANGED <<up, hub, main, startup, http, request, task, closers, deadlines>>

GoOn(pc) ==
    /\ main' = pc
    /\ UNCHANGED <<up, hub, canceled, http, request, task, closers, deadlines>>

(* postgres.New uses a context of its own: a signal does not interrupt it. *)
ConnectPostgres ==
    /\ main = "postgres"
    /\ attempt' = 1 /\ UNCHANGED lastErr
    /\ GoOn("redis")

(* Slip: <= for < *)
PostgresFailsOnceMore ==
    /\ main = "postgres"
    /\ attempt' = attempt + 1 /\ UNCHANGED lastErr
    /\ GoOn(IF attempt <= PostgresAttempts THEN "postgres" ELSE "exited")

PostgresFails ==
    /\ main = "postgres"
    /\ attempt' = attempt + 1 /\ UNCHANGED lastErr
    /\ GoOn(IF attempt < PostgresAttempts THEN "postgres" ELSE "exited")

(* lastErr is not cleared by a ping that succeeds: the loop ends, and New  *)
(* returns the error all the same.                                         *)
PingRedis ==
    /\ main = "redis"
    /\ UNCHANGED startup
    /\ GoOn(IF lastErr THEN "exited" ELSE "clock")

RedisFails ==
    /\ main = "redis"
    /\ attempt' = attempt + 1 /\ lastErr' = TRUE
    /\ GoOn(IF attempt < RedisAttempts THEN "redis" ELSE "exited")

(* NewVirtualClock reads the offset, then New and Run start the goroutines. *)
Start ==
    /\ main = "clock"
    /\ main' = "run" /\ up' = TRUE
    /\ http' = "serving"
    /\ task' = [t \in Tasks |-> "idle"]
    /\ UNCHANGED <<hub, startup, canceled, request, closers, deadlines>>

NoOffset ==
    /\ main = "clock"
    /\ UNCHANGED startup
    /\ GoOn("exited")

-----------------------------------------------------------------------------
Accept(r) ==
    /\ http = "serving" /\ request[r] = "none"
    /\ request' = [request EXCEPT ![r] = "active"]
    /\ UNCHANGED <<up, hub, main, startup, canceled, http, task, closers, deadlines>>

(* Handlers run under the request's context, which Run's does not cancel. *)
Answer(r) ==
    /\ up /\ request[r] = "active"
    /\ request' = [request EXCEPT ![r] = "answered"]
    /\ UNCHANGED <<up, hub, main, startup, canceled, http, task, closers, deadlines>>

(* The address is in use, or Accept fails for good. *)
ListenFails ==
    /\ http = "serving"
    /\ http' = "failed"
    /\ UNCHANGED <<up, hub, main, startup, canceled, request, task, closers, deadlines>>

(* Server.Start's second goroutine: <-ctx.Done(), then Shutdown. *)
StopListening ==
    /\ http = "failed" \/ (http = "serving" /\ canceled)
    /\ http' = "draining"
    /\ UNCHANGED <<up, hub, main, startup, canceled, request, task, closers, deadlines>>

InFlight == {r \in Requests : request[r] = "active"}

(* Shutdown returns, with all requests answered or at ShutdownTimeout; so  *)
(* does Start, and an error of Start cancels the context of Run.  (It is   *)
(* canceled already unless the listener failed.)  Connections that were    *)
(* handed to the dashboard are not waited for.                             *)
HTTPStopped ==
    /\ http = "draining"
    /\ http' = "stopped" /\ canceled' = TRUE
    /\ deadlines' = IF InFlight = {} THEN deadlines ELSE deadlines \union {"drain"}
    /\ UNCHANGED <<up, hub, main, startup, request, task, closers>>

Become(t, step) ==
    /\ task' = [task EXCEPT ![t] = step]
    /\ UNCHANGED <<up, hub, main, startup, canceled, http, request, closers, deadlines>>

(* A tick may still be taken when the context is canceled too: select      *)
(* chooses among the cases that are ready.                                 *)
Tick(t) == up /\ task[t] = "idle" /\ Become(t, "busy")

Finish(t) == up /\ task[t] = "busy" /\ Become(t, "idle")

(* Slip: a select that waits for the done channel only. *)
TaskStopsByStop(t) ==
    /\ up /\ main \notin {"run", "stop_http"}
    /\ task[t] = "idle" /\ Become(t, "ended")

(* ctx.Done(), or OutboxProcessor.done: Shutdown comes after Run only. *)
TaskStops(t) == up /\ canceled /\ task[t] = "idle" /\ Become(t, "ended")

-----------------------------------------------------------------------------
(* errgroup.Wait: OutboxProcessor.Start returned when it had started its   *)
(* goroutines.                                                             *)
RunReturns ==
    /\ main = "run"
    /\ http = "stopped"
    /\ \A t \in Loops : task[t] = "ended"
    /\ UNCHANGED startup
    /\ GoOn("stop_http")

(* Server.Stop again: Shutdown waits once more for the requests left. *)
StopHTTP ==
    /\ main = "stop_http"
    /\ main' = "stop_outbox"
    /\ deadlines' = IF InFlight = {} THEN deadlines ELSE deadlines \union {"http"}
    /\ UNCHANGED <<up, hub, startup, canceled, http, request, task, closers>>

(* Slip: Stop closes done and does not wait for the goroutines. *)
StopOutboxAtOnce ==
    /\ main = "stop_outbox"
    /\ main' = "close_dlq"
    /\ UNCHANGED <<up, hub, startup, canceled, http, request, task, closers, deadlines>>

(* OutboxProcessor.Stop: the goroutines have ended, or ctx is done.  The   *)
(* other workers' Stop finds them ended.                                   *)
StopOutbox ==
    /\ main = "stop_outbox"
    /\ main' = "close_dlq"
    /\ deadlines' = IF \A t \in OutboxWorkers : task[t] = "ended"
                    THEN deadlines ELSE deadlines \union {"outbox"}
    /\ UNCHANGED <<up, hub, startup, canceled, http, request, task, closers>>

CloseDLQ ==
    /\ main = "close_dlq"
    /\ main' = "close_kafka" /\ dlq' = "closed"
    /\ UNCHANGED <<up, hub, startup, canceled, http, request, task, kafka, deadlines>>

CloseProducer ==
    /\ main = "close_kafka"
    /\ main' = "exited" /\ kafka' = "closed" /\ up' = FALSE
    /\ UNCHANGED <<hub, startup, canceled, http, request, task, dlq, deadlines>>

-----------------------------------------------------------------------------
app == <<main, startup, canceled, http, request, task, closers, deadlines>>

(* An outbox worker that has an event, or a request, sends to the dashboard. *)
Busy == InFlight # {} \/ \E t \in Tasks : task[t] = "busy"

Dashboard ==
    /\ \/ HubStep
       \/ Busy /\ Broadcast
       \/ http = "serving" /\ \E c \in Clients : ServeWS(c)
    /\ UNCHANGED app

Next ==
    \/ Signal
    \/ ConnectPostgres \/ PostgresFails \/ PingRedis \/ RedisFails \/ Start \/ NoOffset
    \/ \E r \in Requests : Accept(r) \/ Answer(r)
    \/ ListenFails \/ StopListening \/ HTTPStopped
    \/ \E t \in Tasks : Tick(t) \/ Finish(t) \/ TaskStops(t)
    \/ RunReturns \/ StopHTTP \/ StopOutbox \/ CloseDLQ \/ CloseProducer
    \/ Dashboard

(* A connection attempt and a shutdown end, by their deadlines if nothing  *)
(* else; a task's calls end once their context is canceled; a select that  *)
(* is reached again and again takes each ready case in the end.  Nothing   *)
(* is assumed of handlers, peers and signals.                              *)
Fairness ==
    /\ WF_vars(ConnectPostgres \/ PostgresFails)
    /\ WF_vars(PingRedis \/ RedisFails)
    /\ WF_vars(Start \/ NoOffset)
    /\ WF_vars(StopListening) /\ WF_vars(HTTPStopped)
    /\ \A t \in Tasks : WF_vars(Finish(t)) /\ SF_vars(TaskStops(t))
    /\ WF_vars(RunReturns) /\ WF_vars(StopHTTP) /\ WF_vars(StopOutbox)
    /\ WF_vars(CloseDLQ) /\ WF_vars(CloseProducer)
    /\ \A c \in Clients :
        /\ WF_vars(Register(c) /\ UNCHANGED app)
        /\ WF_vars(Unregister(c) /\ UNCHANGED app)
        /\ WF_vars((ReadFails(c) \/ ReaderCloses(c)) /\ UNCHANGED app)
        /\ WF_vars((WriteFails(c) \/ SendClosed(c)) /\ UNCHANGED app)

Spec == Init /\ [][Next]_vars
FairSpec == Spec /\ Fairness

-----------------------------------------------------------------------------
TypeOK ==
    /\ HubTypeOK
    /\ up = (main \notin {"postgres", "redis", "clock", "exited"})
    /\ main \in {"postgres", "redis", "clock", "run", "stop_http", "stop_outbox",
                 "close_dlq", "close_kafka", "exited"}
    /\ attempt \in Nat /\ lastErr \in BOOLEAN
    /\ main = "postgres" => attempt \in 1..PostgresAttempts
    /\ main = "redis" => attempt \in 1..RedisAttempts
    /\ canceled \in BOOLEAN
    /\ http \in {"off", "serving", "failed", "draining", "stopped"}
    /\ request \in [Requests -> {"none", "active", "answered"}]
    /\ task \in [Tasks -> {"off", "idle", "busy", "ended"}]
    /\ dlq \in {"open", "closed"} /\ kafka \in {"open", "closed"}
    /\ deadlines \subseteq {"drain", "http", "outbox"}

(* Shutdown's order (app.go:183-201): the producer is closed after the     *)
(* dead-letter queue, which sends through it; a request is cut off only    *)
(* after Shutdown has waited for it twice in vain; and no task but an      *)
(* outbox worker that outlasted its deadline runs without Kafka.           *)
NothingIsCutOff ==
    kafka = "closed" =>
        /\ dlq = "closed"
        /\ InFlight # {} => {"drain", "http"} \subseteq deadlines
        /\ \A t \in Tasks :
            task[t] # "ended" => t \in OutboxWorkers /\ "outbox" \in deadlines

(* What makes it inductive: how far the shutdown has come says what has *)
(* ended or outlasted a deadline.  Checked with TypeOK as a part.       *)
After(pcs) == main \in pcs \/ kafka = "closed"
IInv ==
    /\ TypeOK
    /\ HubInv
    /\ kafka = "closed" => main = "exited"
    /\ http = "stopped" => InFlight = {} \/ "drain" \in deadlines
    /\ After({"stop_http", "stop_outbox", "close_dlq", "close_kafka"}) =>
          http = "stopped" /\ \A t \in Loops : task[t] = "ended"
    /\ After({"stop_outbox", "close_dlq", "close_kafka"}) =>
          InFlight = {} \/ "http" \in deadlines
    /\ After({"close_dlq", "close_kafka"}) =>
          (\A t \in OutboxWorkers : task[t] = "ended") \/ "outbox" \in deadlines
    /\ After({"close_kafka"}) => dlq = "closed"

(* A signal, whenever it comes, or a listener that fails ends the process: *)
(* Run waits for goroutines that all watch its context, and none of them   *)
(* for a Stop that comes after Run.                                        *)
StopsWhenTold ==
    canceled \/ http = "failed" ~> main = "exited"
=============================================================================
