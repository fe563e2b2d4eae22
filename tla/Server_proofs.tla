---------------------------- MODULE Server_proofs ----------------------------
(***************************************************************************)
(* Proofs about Server for any number of handlers and any size of the pool *)
(* of connections: what main closes, and when, is never closed under a     *)
(* request within the grace window, exit 0 means a whole shutdown, and the *)
(* health endpoint says what is true.                                      *)
(***************************************************************************)
EXTENDS Server, TLAPS

(* Leaving main, for an error or for a signal nobody catches yet, keeps the  *)
(* invariant: nothing is promised to requests that such an exit cuts off.    *)
LEMMA ExitKeeps ==
  ASSUME Inv, Running, main \notin Stopping,
         NEW c \in {"one", "killed"}, Exit(c)
  PROVE  Inv'
<1>1. /\ main' = "exited" /\ code' \in {"one", "killed"} /\ probe' = "idle" /\ late' = FALSE
      /\ handler' = [w \in Workers |-> "idle"]
      /\ components' = [s \in Stores |-> "ok"] /\ seen' = [s \in Stores |-> {}]
      /\ UNCHANGED <<listener, errCh, signalled, stopping, expired, redis, pool, up>>
  BY DEF Exit, ProbeEnds, AllOk
<1>2. /\ main' \notin Startup /\ main' \notin Stopping /\ main' # "select"
      /\ code' # "none" /\ code' # "zero"
  BY <1>1 DEF Startup, Stopping
<1>3. TypeOK /\ Phases /\ Reports
  BY DEF Inv
<1>4. TypeOK'
  <2>1. broken' \in BOOLEAN
    BY Zenon DEF Exit
  <2>2. /\ components' \in [Stores -> {"ok", "down"}]
        /\ seen' \in [Stores -> SUBSET {"up", "down"}]
        /\ handler' \in [Workers -> {"idle", "busy", "conn"}]
    BY <1>1
  <2>3. /\ main' \in Startup \cup {"select"} \cup Stopping \cup {"exited"}
        /\ code' \in {"none", "zero", "one", "killed"}
        /\ main' = "exited" <=> code' # "none"
        /\ main' \notin {"select"} \cup Stopping
        /\ probe' \in {"idle", "limit", "acquire", "ping", "redis", "answered"} /\ late' \in BOOLEAN
    BY <1>1, <1>2
  <2>4. /\ listener' \in {"none", "starting", "open", "ended"}
        /\ errCh' \in {"empty", "closed", "error"}
        /\ signalled' \in BOOLEAN /\ stopping' \in BOOLEAN /\ expired' \in BOOLEAN
        /\ redis' \in {"none", "open", "closed"}
        /\ pool' \in {"none", "open", "closing", "closed"}
        /\ up' \in SUBSET Stores
    <3>1. UNCHANGED <<listener, errCh, signalled, stopping, expired, redis, pool, up>>
      BY <1>1
    <3> QED BY <1>3, <3>1 DEF TypeOK
  <2> QED BY <2>1, <2>2, <2>3, <2>4, Zenon DEF TypeOK
<1>5. Phases'
  <2>1. main' \notin {"notify", "select", "shutdown"} /\ main' # "listen"
        /\ main' # "connect_redis" /\ main' \notin {"close_db", "await_db", "await_err"}
        /\ main' # "await_err"
    BY <1>1
  <2>2. expired' => stopping'
    BY <1>1, <1>3, Zenon DEF Phases
  <2> QED BY <1>1, <1>2, <2>1, <2>2, Zenon DEF Phases
<1>6. Reports' /\ Drained'
  BY <1>1, <1>2, <1>3, Zenon DEF Reports, Drained
<1>7. Probing' /\ HealthTruthful'
  BY <1>1 DEF Probing, HealthTruthful, Stores
<1>8. GraceRespected' /\ CleanExit'
  <2>1. ~stopping'
    BY <1>1, <1>3, Zenon DEF Phases, Running
  <2> QED BY <1>1, <1>2, <2>1 DEF GraceRespected, CleanExit
<1> QED BY <1>4, <1>5, <1>6, <1>7, <1>8 DEF Inv

(* Writing the answer ends the health check and changes nothing else.        *)
LEMMA AnswerKeeps == ASSUME Inv, HealthAnswer PROVE Inv'
<1>1. /\ probe' = "idle" /\ late' = FALSE /\ components' = [s \in Stores |-> "ok"]
      /\ seen' = [s \in Stores |-> {}]
  BY DEF HealthAnswer, ProbeEnds, AllOk
<1>2. /\ main' = main /\ code' = code /\ listener' = listener /\ errCh' = errCh
      /\ signalled' = signalled /\ stopping' = stopping /\ expired' = expired
      /\ redis' = redis /\ pool' = pool /\ handler' = handler /\ broken' = broken
      /\ up' = up
  BY Zenon DEF HealthAnswer
<1>3. TypeOK'
  <2>1. /\ probe' \in {"idle", "limit", "acquire", "ping", "redis", "answered"} /\ late' \in BOOLEAN
        /\ components' \in [Stores -> {"ok", "down"}]
        /\ seen' \in [Stores -> SUBSET {"up", "down"}]
    BY <1>1
  <2>2. TypeOK
    BY Zenon DEF Inv
  <2> QED BY <1>2, <2>1, <2>2 DEF TypeOK
<1>4. Serving' => Serving
  BY <1>1, <1>2, Zenon DEF Serving
<1>5. Phases' /\ Drained'
  <2>1. Phases /\ Drained
    BY Zenon DEF Inv
  <2>2. Phases'
    BY <1>2, <1>4, <2>1, Zenon DEF Phases
  <2>3. Drained'
    BY <1>2, <1>4, <2>1, Zenon DEF Drained
  <2> QED BY <2>2, <2>3
<1>6. Reports'
  BY <1>2, Zenon DEF Inv, Reports
<1>7. Probing' /\ HealthTruthful'
  BY <1>1 DEF Probing, HealthTruthful, Stores
<1>8. GraceRespected' /\ CleanExit'
  <2>1. GraceRespected /\ CleanExit
    BY Zenon DEF Inv
  <2> QED BY <1>2, <2>1, Zenon DEF GraceRespected, CleanExit
<1> QED BY <1>3, <1>4, <1>5, <1>6, <1>7, <1>8 DEF Inv

(* Every step of main, of the listening goroutine, of a handler and of the   *)
(* health check keeps the invariant.  Each action is one case; those with an *)
(* error path leave by ExitKeeps.                                            *)
LEMMA InvStep == Inv /\ [Next]_vars => Inv'
<1> SUFFICES ASSUME Inv, [Next]_vars PROVE Inv'
  OBVIOUS
<1>a. ASSUME Running, main \notin Stopping, Exit("one") \/ Exit("killed") PROVE Inv'
  BY <1>a, ExitKeeps
<1> USE DEF Inv, TypeOK, Phases, Reports, Drained, Probing, Told, Status, Stores, Serving,
            GraceRespected, CleanExit, HealthTruthful, Startup, Stopping, health, Running
<1>1. CASE ValidateConfig
  <2>1. CASE Exit("one")
    BY <1>1, <2>1, <1>a DEF ValidateConfig
  <2>2. CASE /\ main = "validate" /\ main' = "connect_db"
             /\ UNCHANGED <<code, listener, errCh, signalled, stopping, expired,
                            redis, pool, handler, broken, health>>
    BY <2>2
  <2> QED BY <1>1, <2>1, <2>2 DEF ValidateConfig
<1>2. CASE ConnectDB
  <2>1. CASE Exit("one")
    BY <1>2, <2>1, <1>a DEF ConnectDB
  <2>2. CASE /\ main = "connect_db" /\ main' = "connect_redis" /\ pool' = "open"
             /\ UNCHANGED <<code, listener, errCh, signalled, stopping, expired,
                            redis, handler, broken, health>>
    BY <2>2
  <2> QED BY <1>2, <2>1, <2>2 DEF ConnectDB
<1>3. CASE ConnectRedis
  <2>1. CASE Exit("one")
    BY <1>3, <2>1, <1>a DEF ConnectRedis
  <2>2. CASE /\ main = "connect_redis" /\ main' = "listen" /\ redis' = "open"
             /\ UNCHANGED <<code, listener, errCh, signalled, stopping, expired,
                            pool, handler, broken, health>>
    BY <2>2
  <2> QED BY <1>3, <2>1, <2>2 DEF ConnectRedis
<1>4. CASE GoListen
  BY <1>4 DEF GoListen
<1>5. CASE Notify
  BY <1>5 DEF Notify
<1>6. CASE SelectErr
  BY <1>6 DEF SelectErr, Exit, ProbeEnds, AllOk
<1>7. CASE SelectSignal
  BY <1>7 DEF SelectSignal
<1>8. CASE BeginShutdown
  BY <1>8 DEF BeginShutdown
<1>9. CASE ShutdownReturns
  BY <1>9 DEF ShutdownReturns
<1>10. CASE CloseRedis
  BY <1>10 DEF CloseRedis
<1>11. CASE CloseDB
  BY <1>11 DEF CloseDB
<1>12. CASE CloseDBReturns
  BY <1>12 DEF CloseDBReturns
<1>13. CASE ReceiveErr
  BY <1>13 DEF ReceiveErr, Exit, ProbeEnds, AllOk
<1>14. CASE Signal
  <2>1. CASE Exit("killed")
    BY <1>14, <2>1, <1>a DEF Signal
  <2>2. CASE /\ main \notin Startup /\ signalled' = TRUE
             /\ UNCHANGED <<main, code, listener, errCh, stopping, expired, redis, pool,
                            handler, broken, health>>
    <3>1. TypeOK' /\ Phases' /\ Reports'
      BY <2>2
    <3>2. Drained' /\ Probing'
      BY <2>2
    <3>3. GraceRespected' /\ CleanExit' /\ HealthTruthful'
      BY <2>2
    <3> QED BY <3>1, <3>2, <3>3
  <2> QED BY <1>14, <2>1, <2>2 DEF Signal
<1>15. CASE Expire
  BY <1>15 DEF Expire
<1>16. CASE Listen
  BY <1>16 DEF Listen
<1>17. CASE ListenFails
  BY <1>17 DEF ListenFails
<1>18. CASE ListenClosed
  BY <1>18 DEF ListenClosed
<1>19. ASSUME NEW w \in Workers, Accept(w) PROVE Inv'
  BY <1>19 DEF Accept
<1>20. ASSUME NEW w \in Workers, UseStore(w) PROVE Inv'
  BY <1>20 DEF UseStore
<1>21. ASSUME NEW w \in Workers, Release(w) PROVE Inv'
  BY <1>21 DEF Release
<1>22. ASSUME NEW w \in Workers, Finish(w) PROVE Inv'
  BY <1>22 DEF Finish
<1>23. CASE BeginHealth
  BY <1>23 DEF BeginHealth
<1>24. CASE HealthAdmit
  BY <1>24 DEF HealthAdmit
<1>25. CASE HealthLate
  BY <1>25 DEF HealthLate
<1>26. CASE HealthAcquire
  BY <1>26 DEF HealthAcquire
<1>27. CASE HealthDatabase
  BY <1>27 DEF HealthDatabase
<1>28. CASE HealthRedis
  BY <1>28 DEF HealthRedis
<1>29. CASE HealthAnswer
  BY <1>29, AnswerKeeps
<1>30. ASSUME NEW s \in Stores, Outage(s) PROVE Inv'
  BY <1>30 DEF Outage
<1>31. CASE UNCHANGED vars
  BY <1>31 DEF vars
<1> QED
  BY <1>1, <1>2, <1>3, <1>4, <1>5, <1>6, <1>7, <1>8, <1>9, <1>10,
     <1>11, <1>12, <1>13, <1>14, <1>15, <1>16, <1>17, <1>18, <1>19, <1>20,
     <1>21, <1>22, <1>23, <1>24, <1>25, <1>26, <1>27, <1>28, <1>29, <1>30,
     <1>31
  DEF Next, Main

(* The process starts with nobody served and nothing open.                   *)
LEMMA InitInv == Init => Inv
<1> SUFFICES ASSUME Init PROVE Inv
  OBVIOUS
<1> USE DEF Init, AllOk
<1>1. TypeOK
  BY DEF TypeOK, Startup, Stopping, Stores
<1>2. Phases /\ Reports /\ Drained
  BY DEF Phases, Reports, Drained, Serving, Startup, Stopping
<1>3. Probing /\ HealthTruthful
  BY DEF Probing, HealthTruthful, Stores
<1>4. GraceRespected /\ CleanExit
  BY DEF GraceRespected, CleanExit
<1> QED BY <1>1, <1>2, <1>3, <1>4 DEF Inv

(* The invariant holds in every reachable state.                             *)
LEMMA Invariance == Spec => []Inv
BY InitInv, InvStep, PTL DEF Spec

(* Every reachable state of the process is well-typed.                       *)
THEOREM TypeCorrect == Spec => []TypeOK
<1>1. Inv => TypeOK
  BY DEF Inv
<1> QED BY <1>1, Invariance, PTL

(* Requests in flight complete within the grace window: none meets a closed  *)
(* store or is cut off before the timeout of Shutdown is over, unless the    *)
(* process failed or was killed.                                             *)
THEOREM GraceRespectedHolds == Spec => []GraceRespected
<1>1. Inv => GraceRespected
  BY DEF Inv
<1> QED BY <1>1, Invariance, PTL

(* main returns 0 only after a signal and Shutdown, with its listener ended  *)
(* and both stores closed, and any other way only before the shutdown.       *)
THEOREM CleanExitHolds == Spec => []CleanExit
<1>1. Inv => CleanExit
  BY DEF Inv
<1> QED BY <1>1, Invariance, PTL

(* What GET /healthz answers of a store was true of it during the check, or  *)
(* a timeout excuses it.                                                     *)
THEOREM HealthTruthfulHolds == Spec => []HealthTruthful
<1>1. Inv => HealthTruthful
  BY DEF Inv
<1> QED BY <1>1, Invariance, PTL
=============================================================================
