------------------------------- MODULE Server -------------------------------
(***************************************************************************)
(* The life of the API process (cmd/http-api): configuration, connections  *)
(* to PostgreSQL and Redis, the goroutine that listens, and the shutdown   *)
(* that a signal starts while requests are being served; and among these   *)
(* requests the health check, which pings both stores under one timeout.   *)
(*                                                                         *)
(* http.Server, pgxpool and go-redis are modelled by what main relies on:  *)
(* Shutdown stops the listener and waits for the running handlers or its   *)
(* timeout; a pool has MaxConns connections and who finds none waits;      *)
(* Close of the pool waits until every connection is given back; nothing   *)
(* cancels a handler.                                                      *)
(***************************************************************************)
EXTENDS Naturals, FiniteSets

CONSTANTS
  Workers,  \* the handlers that may run at one time
  MaxConns  \* the connections of the pool

ASSUME ServerAssumption == MaxConns \in Nat \ {0}

Stores == {"database", "redis"}

VARIABLES
  main,      \* where main is
  code,      \* how the process ended: "none" while it runs
  listener,  \* the listening goroutine: "none", "starting", "open", "ended"
  errCh,     \* the channel it reports on, of capacity 1
  signalled, \* SIGINT or SIGTERM arrived
  stopping,  \* Shutdown was called
  expired,   \* the timeout given to Shutdown is over
  redis,     \* the clients: "none", "open", "closed";
  pool,      \*   the pool also "closing"
  handler,   \* handler[w]: "idle", "busy", or "conn" with a connection
  up,        \* the stores that answer, whatever the clients do
  probe,     \* where GET /healthz is: "idle", "limit" in the IP limiter, and in
             \*   handleHealthz "acquire" or "ping" for the database, "redis",
             \*   "answered"
  late,      \* the context of handleHealthz is over
  components,\* what it reports of each store
  \* History, read by nobody:
  broken,    \* a handler found a store closed, or was cut off by the exit
  seen       \* seen[s]: "up", "down": what was true of s during the check

health == <<up, probe, late, components, seen>>

vars == <<main, code, listener, errCh, signalled, stopping, expired, redis, pool,
          handler, broken, health>>

Startup  == {"validate", "connect_db", "connect_redis", "listen", "notify"}
Stopping == {"shutdown", "close_redis", "close_db", "await_db", "await_err"}

TypeOK ==
  /\ main \in Startup \cup {"select"} \cup Stopping \cup {"exited"}
  /\ code \in {"none", "zero", "one", "killed"}
  /\ main = "exited" <=> code # "none"
  /\ listener \in {"none", "starting", "open", "ended"}
  /\ errCh \in {"empty", "closed", "error"}
  /\ signalled \in BOOLEAN /\ stopping \in BOOLEAN /\ expired \in BOOLEAN
  /\ broken \in BOOLEAN
  /\ redis \in {"none", "open", "closed"}
  /\ pool \in {"none", "open", "closing", "closed"}
  /\ handler \in [Workers -> {"idle", "busy", "conn"}]
  /\ main \in {"select"} \cup Stopping => redis # "none" /\ pool # "none"
  /\ up \in SUBSET Stores
  /\ probe \in {"idle", "limit", "acquire", "ping", "redis", "answered"}
  /\ late \in BOOLEAN
  /\ components \in [Stores -> {"ok", "down"}]
  /\ seen \in [Stores -> SUBSET {"up", "down"}]

AllOk   == [s \in Stores |-> "ok"]
Status(s) == IF s \in up THEN "up" ELSE "down"

Init ==
  /\ main = "validate" /\ code = "none"
  /\ listener = "none" /\ errCh = "empty"
  /\ signalled = FALSE /\ stopping = FALSE /\ expired = FALSE
  /\ redis = "none" /\ pool = "none"
  /\ handler = [w \in Workers |-> "idle"]
  /\ up \in SUBSET Stores
  /\ probe = "idle" /\ late = FALSE /\ components = AllOk
  /\ broken = FALSE /\ seen = [s \in Stores |-> {}]

Running == main # "exited"

(* Nothing is left of a health check that ended.                             *)
ProbeEnds ==
  /\ probe' = "idle" /\ late' = FALSE /\ components' = AllOk
  /\ seen' = [s \in Stores |-> {}]

(* The process ends, and its handlers with it.                               *)
Exit(c) ==
  /\ main' = "exited" /\ code' = c
  /\ handler' = [w \in Workers |-> "idle"]
  /\ broken' = (broken \/ probe # "idle" \/ \E w \in Workers : handler[w] # "idle")
  /\ ProbeEnds
  /\ UNCHANGED <<listener, errCh, signalled, stopping, expired, redis, pool, up>>

-----------------------------------------------------------------------------
(* main, up to the select *)

(* config.Load and Validate; the first error ends the process.               *)
ValidateConfig ==
  /\ main = "validate"
  /\ \/ /\ main' = "connect_db"
        /\ UNCHANGED <<code, listener, errCh, signalled, stopping, expired, redis,
                       pool, handler, broken, health>>
     \/ Exit("one")

(* database.Connect: a pool that was pinged once.                            *)
ConnectDB ==
  /\ main = "connect_db"
  /\ \/ /\ "database" \in up
        /\ main' = "connect_redis" /\ pool' = "open"
        /\ UNCHANGED <<code, listener, errCh, signalled, stopping, expired, redis,
                       handler, broken, health>>
     \/ Exit("one")

(* Mutant: the failed connection is logged with Error instead of Fatal.      *)
ConnectRedisUnchecked ==
  /\ main = "connect_redis"
  /\ main' = "listen" /\ redis' \in {"none", "open"}
  /\ UNCHANGED <<code, listener, errCh, signalled, stopping, expired, pool, handler,
                 broken, health>>

(* store.NewRedisStore; Fatal does not close the pool.                       *)
ConnectRedis ==
  /\ main = "connect_redis"
  /\ \/ /\ "redis" \in up
        /\ main' = "listen" /\ redis' = "open"
        /\ UNCHANGED <<code, listener, errCh, signalled, stopping, expired, pool,
                       handler, broken, health>>
     \/ Exit("one")

(* The goroutine is started before the signal is caught.                     *)
GoListen ==
  /\ main = "listen"
  /\ main' = "notify" /\ listener' = "starting"
  /\ UNCHANGED <<code, errCh, signalled, stopping, expired, redis, pool, handler,
                 broken, health>>

Notify ==
  /\ main = "notify"
  /\ main' = "select"
  /\ UNCHANGED <<code, listener, errCh, signalled, stopping, expired, redis, pool,
                 handler, broken, health>>

(* A signal before NotifyContext kills the process; one later is remembered. *)
Signal ==
  /\ Running /\ ~signalled
  /\ IF main \in Startup
     THEN Exit("killed")
     ELSE /\ signalled' = TRUE
          /\ UNCHANGED <<main, code, listener, errCh, stopping, expired, redis, pool,
                         handler, broken, health>>

-----------------------------------------------------------------------------
(* The listening goroutine: ListenAndServe and its report *)

Listen ==
  /\ Running /\ listener = "starting" /\ ~stopping
  /\ listener' = "open"
  /\ UNCHANGED <<main, code, errCh, signalled, stopping, expired, redis, pool,
                 handler, broken, health>>

(* The address is taken, or accepting fails for good.                        *)
ListenFails ==
  /\ Running /\ listener \in {"starting", "open"} /\ ~stopping
  /\ listener' = "ended" /\ errCh' = "error"
  /\ UNCHANGED <<main, code, signalled, stopping, expired, redis, pool, handler,
                 broken, health>>

(* After Shutdown was called it returns ErrServerClosed, wherever it was.    *)
ListenClosed ==
  /\ Running /\ listener \in {"starting", "open"} /\ stopping
  /\ listener' = "ended" /\ errCh' = "closed"
  /\ UNCHANGED <<main, code, signalled, stopping, expired, redis, pool, handler,
                 broken, health>>

-----------------------------------------------------------------------------
(* select, and the shutdown *)

(* Mutant: the case logs the error and falls through to the shutdown.        *)
SelectErrLogged ==
  /\ main = "select" /\ errCh # "empty"
  /\ main' = "shutdown" /\ errCh' = "empty"
  /\ UNCHANGED <<code, listener, signalled, stopping, expired, redis, pool, handler,
                 broken, health>>

SelectErr ==
  /\ main = "select" /\ errCh # "empty"
  /\ Exit(IF errCh = "error" THEN "one" ELSE "zero")

(* Mutant: the stores are closed before the handlers are waited for.         *)
SelectSignalCloseFirst ==
  /\ main = "select" /\ signalled
  /\ main' = "shutdown" /\ redis' = "closed"
  /\ UNCHANGED <<code, listener, errCh, signalled, stopping, expired, pool, handler,
                 broken, health>>

(* Both cases may be ready; select takes either.                             *)
SelectSignal ==
  /\ main = "select" /\ signalled
  /\ main' = "shutdown"
  /\ UNCHANGED <<code, listener, errCh, signalled, stopping, expired, redis, pool,
                 handler, broken, health>>

(* Shutdown returns when no handler runs, or its error when time is up; main *)
(* goes on in both cases.                                                    *)
BeginShutdown ==
  /\ main = "shutdown" /\ ~stopping
  /\ stopping' = TRUE
  /\ UNCHANGED <<main, code, listener, errCh, signalled, expired, redis, pool,
                 handler, broken, health>>

Expire ==
  /\ main = "shutdown" /\ stopping /\ ~expired
  /\ expired' = TRUE
  /\ UNCHANGED <<main, code, listener, errCh, signalled, stopping, redis, pool,
                 handler, broken, health>>

ShutdownReturns ==
  /\ main = "shutdown" /\ stopping
  /\ expired \/ (probe = "idle" /\ \A w \in Workers : handler[w] = "idle")
  /\ main' = "close_redis"
  /\ UNCHANGED <<code, listener, errCh, signalled, stopping, expired, redis, pool,
                 handler, broken, health>>

(* Mutant: main returns when closing Redis fails.                            *)
CloseRedisReturns ==
  /\ main = "close_redis"
  /\ \/ /\ main' = "close_db" /\ redis' = "closed"
        /\ UNCHANGED <<code, listener, errCh, signalled, stopping, expired, pool,
                       handler, broken, health>>
     \/ Exit("zero")

(* An error of Close is only logged.                                         *)
CloseRedis ==
  /\ main = "close_redis"
  /\ main' = "close_db" /\ redis' = "closed"
  /\ UNCHANGED <<code, listener, errCh, signalled, stopping, expired, pool, handler,
                 broken, health>>

CloseDB ==
  /\ main = "close_db"
  /\ main' = "await_db" /\ pool' = "closing"
  /\ UNCHANGED <<code, listener, errCh, signalled, stopping, expired, redis, handler,
                 broken, health>>

(* The connections of the pool that are taken.                               *)
Taken == Cardinality({w \in Workers : handler[w] = "conn"})
         + (IF probe = "ping" THEN 1 ELSE 0)

(* Close of the pool returns when every connection is back.                  *)
CloseDBReturns ==
  /\ main = "await_db"
  /\ Taken = 0
  /\ main' = "await_err" /\ pool' = "closed"
  /\ UNCHANGED <<code, listener, errCh, signalled, stopping, expired, redis, handler,
                 broken, health>>

(* The last report; whatever it is, it is only logged and main returns.      *)
ReceiveErr ==
  /\ main = "await_err" /\ errCh # "empty"
  /\ Exit("zero")

-----------------------------------------------------------------------------
(* Requests *)

Accept(w) ==
  /\ Running /\ listener = "open" /\ ~stopping
  /\ handler[w] = "idle"
  /\ handler' = [handler EXCEPT ![w] = "busy"]
  /\ UNCHANGED <<main, code, listener, errCh, signalled, stopping, expired, redis,
                 pool, broken, health>>

(* A handler turns to a store: it takes a connection, waiting for one that   *)
(* is free as long as it must, or finds the pool closed.                     *)
UseStore(w) ==
  /\ Running /\ handler[w] = "busy"
  /\ pool = "open" => Taken < MaxConns
  /\ handler' = [handler EXCEPT ![w] = IF pool = "open" THEN "conn" ELSE "busy"]
  /\ broken' = (broken \/ pool # "open" \/ redis # "open")
  /\ UNCHANGED <<main, code, listener, errCh, signalled, stopping, expired, redis,
                 pool, health>>

Release(w) ==
  /\ Running /\ handler[w] = "conn"
  /\ handler' = [handler EXCEPT ![w] = "busy"]
  /\ UNCHANGED <<main, code, listener, errCh, signalled, stopping, expired, redis,
                 pool, broken, health>>

Finish(w) ==
  /\ Running /\ handler[w] = "busy"
  /\ handler' = [handler EXCEPT ![w] = "idle"]
  /\ UNCHANGED <<main, code, listener, errCh, signalled, stopping, expired, redis,
                 pool, broken, health>>

-----------------------------------------------------------------------------
(* GET /healthz *)

BeginHealth ==
  /\ Running /\ listener = "open" /\ ~stopping
  /\ probe = "idle"
  /\ probe' = "limit"
  /\ UNCHANGED <<main, code, listener, errCh, signalled, stopping, expired, redis,
                 pool, handler, broken, up, late, components, seen>>

(* The IP limiter in front of every route asks Redis, with no timeout but    *)
(* the client's own, and denies the request or, on an error too, lets it     *)
(* pass.  handleHealthz then makes the context of both pings and reports     *)
(* "ok" of each component until its ping fails.                              *)
HealthAdmit ==
  /\ Running /\ probe = "limit"
  /\ \/ /\ probe' = "acquire"
        /\ seen' = [s \in Stores |-> {Status(s)}]
     \/ /\ redis = "open" /\ "redis" \in up
        /\ probe' = "idle"
        /\ UNCHANGED seen
  /\ broken' = (broken \/ redis # "open")
  /\ UNCHANGED <<main, code, listener, errCh, signalled, stopping, expired, redis,
                 pool, handler, up, late, components>>

(* The timeout is over, or the client is gone.                               *)
HealthLate ==
  /\ Running /\ probe \in {"acquire", "ping", "redis"} /\ ~late
  /\ late' = TRUE
  /\ UNCHANGED <<main, code, listener, errCh, signalled, stopping, expired, redis,
                 pool, handler, broken, up, probe, components, seen>>

(* The pool's Ping takes a connection first.                                 *)
HealthAcquire ==
  /\ Running /\ probe = "acquire" /\ ~late
  /\ pool = "open" /\ Taken < MaxConns
  /\ probe' = "ping"
  /\ UNCHANGED <<main, code, listener, errCh, signalled, stopping, expired, redis,
                 pool, handler, broken, up, late, components, seen>>

(* Mutant: the ping runs with context.Background(), as Connect's does.       *)
HealthDatabaseUnbounded ==
  /\ Running
  /\ \/ /\ probe = "ping" /\ "database" \in up
        /\ UNCHANGED components
     \/ /\ \/ probe = "ping" /\ "database" \notin up
           \/ probe = "acquire" /\ pool # "open"
        /\ components' = [components EXCEPT !["database"] = "down"]
  /\ probe' = "redis"
  /\ broken' = (broken \/ pool # "open")
  /\ UNCHANGED <<main, code, listener, errCh, signalled, stopping, expired, redis,
                 pool, handler, up, late, seen>>

(* Ping(ctx) of the database returns: nil when it answered, an error when    *)
(* the context is over, the pool is closed, or the connection failed.        *)
HealthDatabase ==
  /\ Running
  /\ \/ /\ probe = "ping" /\ ~late /\ "database" \in up
        /\ UNCHANGED components
     \/ /\ \/ probe = "ping" /\ (late \/ "database" \notin up)
           \/ probe = "acquire" /\ (late \/ pool # "open")
        /\ components' = [components EXCEPT !["database"] = "down"]
  /\ probe' = "redis"
  /\ broken' = (broken \/ pool # "open")
  /\ UNCHANGED <<main, code, listener, errCh, signalled, stopping, expired, redis,
                 pool, handler, up, late, seen>>

(* Mutant: the branch copied from the database keeps its component.          *)
HealthRedisMislabelled ==
  /\ Running /\ probe = "redis"
  /\ \/ /\ redis = "open" /\ "redis" \in up
        /\ UNCHANGED components
     \/ /\ late \/ redis # "open" \/ "redis" \notin up
        /\ components' = [components EXCEPT !["database"] = "down"]
  /\ probe' = "answered"
  /\ broken' = (broken \/ redis # "open")
  /\ UNCHANGED <<main, code, listener, errCh, signalled, stopping, expired, redis,
                 pool, handler, up, late, seen>>

(* Ping(ctx) of Redis, with what the first ping left of the timeout.  go-redis *)
(* looks at the context before it sends; a reply to what it sent may come in *)
(* after that is over, and counts.                                           *)
HealthRedis ==
  /\ Running /\ probe = "redis"
  /\ \/ /\ redis = "open" /\ "redis" \in up
        /\ UNCHANGED components
     \/ /\ late \/ redis # "open" \/ "redis" \notin up
        /\ components' = [components EXCEPT !["redis"] = "down"]
  /\ probe' = "answered"
  /\ broken' = (broken \/ redis # "open")
  /\ UNCHANGED <<main, code, listener, errCh, signalled, stopping, expired, redis,
                 pool, handler, up, late, seen>>

(* 200 when both are "ok", 503 otherwise.                                    *)
HealthAnswer ==
  /\ Running /\ probe = "answered"
  /\ ProbeEnds
  /\ UNCHANGED <<main, code, listener, errCh, signalled, stopping, expired, redis,
                 pool, handler, broken, up>>

(* A store stops answering, or answers again.                                *)
Outage(s) ==
  /\ Running
  /\ up' = IF s \in up THEN up \ {s} ELSE up \cup {s}
  /\ seen' = IF probe \in {"idle", "limit"} THEN seen
             ELSE [seen EXCEPT ![s] = {"up", "down"}]
  /\ UNCHANGED <<main, code, listener, errCh, signalled, stopping, expired, redis,
                 pool, handler, broken, probe, late, components>>

Main == \/ ValidateConfig \/ ConnectDB \/ ConnectRedis \/ GoListen \/ Notify
        \/ SelectErr \/ SelectSignal \/ BeginShutdown \/ ShutdownReturns
        \/ CloseRedis \/ CloseDB \/ CloseDBReturns \/ ReceiveErr

Next ==
  \/ Main
  \/ Signal \/ Expire
  \/ Listen \/ ListenFails \/ ListenClosed
  \/ \E w \in Workers : Accept(w) \/ UseStore(w) \/ Release(w) \/ Finish(w)
  \/ BeginHealth \/ HealthAdmit \/ HealthLate \/ HealthAcquire \/ HealthDatabase \/ HealthRedis
  \/ HealthAnswer
  \/ \E s \in Stores : Outage(s)

Spec == Init /\ [][Next]_vars

(* The goroutines of the process are scheduled and its timers run, those of  *)
(* go-redis too, which end every call that Redis does not answer.  Nothing   *)
(* is assumed of handlers, whose queries and requests the code does not      *)
(* bound, nor of the stores, which need not answer.                          *)
Scheduled ==
  /\ WF_vars(Main) /\ WF_vars(Expire) /\ WF_vars(ListenClosed)
  /\ WF_vars(HealthAdmit) /\ WF_vars(HealthLate) /\ WF_vars(HealthAnswer)
  /\ WF_vars(late /\ (HealthDatabase \/ HealthRedis))

FairSpec == Spec /\ Scheduled

-----------------------------------------------------------------------------
(* Properties *)

(* The specification of phase 1: an "inflight request completes during grace *)
(* window".  A handler meets a closed store, or is cut off by the exit, only *)
(* when the timeout of Shutdown is over, or the process failed or was killed *)
(* before it began to stop.                                                  *)
GraceRespected == broken => expired \/ code \in {"one", "killed"}

(* The process ends with 0 only through the whole shutdown: select took a    *)
(* signal, Shutdown was called, the listener ended and both stores were      *)
(* closed.  Where it failed, or nobody caught the signal, no shutdown had    *)
(* begun: a failure of the listener gives 0 only where select took a signal  *)
(* instead of it.                                                            *)
CleanExit ==
  /\ code = "zero" => /\ signalled /\ stopping /\ listener = "ended"
                      /\ redis = "closed" /\ pool = "closed"
  /\ code \in {"one", "killed"} => ~stopping

(* The specification of phase 1: "Health endpoint reflects DB/Redis state".  *)
(* What handleHealthz answers of a store is true of it: "ok" is said of no   *)
(* store that was down all along, and "down" of a store that was up all      *)
(* along only when the one timeout of both pings ran out (waiting for a      *)
(* connection, or in the other store's ping) or that of the shutdown did.    *)
HealthTruthful ==
  probe = "answered" =>
    \A s \in Stores :
      /\ components[s] = "ok" => "up" \in seen[s]
      /\ components[s] = "down" => "down" \in seen[s] \/ late \/ expired

(* A health check is answered, although the stores hang and every connection *)
(* of the pool is taken by a handler that never gives it back.               *)
HealthAnswers == probe # "idle" ~> probe = "idle"

(* Once a signal is caught the process ends, provided handlers give their    *)
(* connections back: main waits for nobody who waits for main.               *)
ShutdownEnds ==
  (\A w \in Workers : []<>(handler[w] # "conn")) => (signalled ~> main = "exited")

(* The specification: "API exits cleanly on SIGINT/SIGTERM within configured *)
(* timeout".  Read as: when the timeout is over, the process ends whatever   *)
(* the handlers do.                                                          *)
ExitsAfterTimeout == expired ~> main = "exited"

-----------------------------------------------------------------------------
(* Why they hold: where main is tells which clients are open and whether     *)
(* anybody is served.                                                        *)
Serving == probe # "idle" \/ \E w \in Workers : handler[w] # "idle"

Phases ==
  /\ main \in Startup \ {"notify"} => listener = "none" /\ ~Serving
  /\ main \in {"notify", "select", "shutdown"} => pool = "open" /\ redis = "open"
  /\ main = "listen" => pool = "open" /\ redis = "open"
  /\ main = "connect_redis" => pool = "open"
  /\ main \in {"close_db", "await_db", "await_err"} => redis = "closed"
  /\ main = "await_err" => pool = "closed"
  /\ main \in Stopping => signalled
  /\ main \in Stopping \ {"shutdown"} => stopping
  /\ stopping => main \in Stopping \cup {"exited"}
  /\ expired => stopping

(* The report of the listening goroutine is its last act, and it says closed *)
(* only after Shutdown was called.                                           *)
Reports ==
  /\ errCh # "empty" => listener = "ended"
  /\ errCh = "closed" => stopping

(* Once Shutdown returned in time, nobody is served any more.                *)
Drained == main \in Stopping \ {"shutdown"} /\ ~expired => ~Serving

(* What a health check has found out so far is true of the store.            *)
Told(s) ==
  /\ components[s] = "ok" => "up" \in seen[s]
  /\ components[s] = "down" => "down" \in seen[s] \/ late \/ expired

Probing ==
  /\ probe \notin {"idle", "limit"} => \A s \in Stores : Status(s) \in seen[s]
  /\ probe \in {"idle", "limit", "acquire", "ping"} => components["database"] = "ok"
  /\ probe \in {"idle", "limit", "acquire", "ping", "redis"} => components["redis"] = "ok"
  /\ probe \in {"redis", "answered"} => Told("database")
  /\ probe = "answered" => Told("redis")

Inv == TypeOK /\ Phases /\ Reports /\ Drained /\ Probing
       /\ GraceRespected /\ CleanExit /\ HealthTruthful
=============================================================================
