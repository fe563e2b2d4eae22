------------------------------ MODULE Session ------------------------------
(***************************************************************************)
(* The session service (internal/modules/session): refresh tokens stored   *)
(* as rows of the PostgreSQL table sessions and cached in Redis, access    *)
(* tokens stored in Redis only.  Every HTTP request runs its handler in a  *)
(* goroutine of its own; each call to PostgreSQL or Redis is one step of   *)
(* that handler, so handlers interleave between calls.                     *)
(*                                                                         *)
(* A call has one of three outcomes: it is applied and acknowledged, it is *)
(* applied but its reply is lost (cancelled context, timeout, broken       *)
(* connection), or it is not applied.  The handler sees an error in the    *)
(* last two.  No transaction spans two calls and nothing undoes an earlier *)
(* call when a later one fails.                                            *)
(***************************************************************************)
CONSTANTS
  Users,          \* user ids
  RefreshTokens,  \* the values generateToken draws for refresh tokens
  AccessTokens,   \* the values generateToken draws for access tokens
  Workers,        \* goroutines that may serve session requests at one time
  None            \* no user, no token, no key (redis.Nil and "" alike)

ASSUME NoneAssumption == None \notin Users \cup RefreshTokens

VARIABLES
  sessions,   \* PostgreSQL: sessions[t] is the user_id of the row of t
  refreshKey, \* Redis: the value of "refresh:" + t
  accessKey,  \* Redis: the value of "access:" + a
  pc,         \* pc[w]: the next call of the handler run by w
  tok,        \* tok[w]: the refresh token of that request
  uid,        \* uid[w]: the user id the handler holds in a local variable
  \* History, read by no handler:
  owner,      \* owner[t]: the user for whom t was generated
  from,       \* from[a]: the refresh token that the live access token a is for
  held,       \* the refresh tokens returned to a client
  asked,      \* the refresh tokens whose revocation was requested
  loggedOut   \* loggedOut[t]: how the last complete Revoke of t ended

stores  == <<sessions, refreshKey, accessKey, from>>
history == <<owner, held, asked, loggedOut>>
vars    == <<stores, pc, tok, uid, history>>

Creating   == {"insert", "c_access", "c_refresh"}
Refreshing == {"r_get", "r_query", "r_fill", "r_access"}
Revoking   == {"v_select", "v_delete", "v_del"}

TypeOK ==
  /\ sessions   \in [RefreshTokens -> Users \cup {None}]
  /\ refreshKey \in [RefreshTokens -> Users \cup {None}]
  /\ accessKey  \in [AccessTokens -> Users \cup {None}]
  /\ pc  \in [Workers -> {"idle"} \cup Creating \cup Refreshing \cup Revoking]
  /\ tok \in [Workers -> RefreshTokens \cup {None}]
  /\ uid \in [Workers -> Users \cup {None}]
  /\ \A w \in Workers : pc[w] # "idle" => tok[w] \in RefreshTokens
  /\ owner \in [RefreshTokens -> Users \cup {None}]
  /\ from  \in [AccessTokens -> RefreshTokens \cup {None}]
  /\ held  \subseteq RefreshTokens
  /\ asked \subseteq RefreshTokens
  /\ loggedOut \in [RefreshTokens -> {"no", "quiet", "raced"}]

Init ==
  /\ sessions   = [t \in RefreshTokens |-> None]
  /\ refreshKey = [t \in RefreshTokens |-> None]
  /\ accessKey  = [a \in AccessTokens |-> None]
  /\ pc  = [w \in Workers |-> "idle"]
  /\ tok = [w \in Workers |-> None]
  /\ uid = [w \in Workers |-> None]
  /\ owner = [t \in RefreshTokens |-> None]
  /\ from  = [a \in AccessTokens |-> None]
  /\ held  = {}
  /\ asked = {}
  /\ loggedOut = [t \in RefreshTokens |-> "no"]

-----------------------------------------------------------------------------
(* Handlers and the calls they make *)

(* How a call ends: "ok", "lost" (applied, the reply is an error) or        *)
(* "failed" (not applied).                                                  *)
Outcomes == {"ok", "lost", "failed"}

Applied(o) == o # "failed"

Begin(w, call, t, u) ==
  /\ pc[w] = "idle"
  /\ pc'  = [pc EXCEPT ![w] = call]
  /\ tok' = [tok EXCEPT ![w] = t]
  /\ uid' = [uid EXCEPT ![w] = u]

Goto(w, call) ==
  /\ pc' = [pc EXCEPT ![w] = call]
  /\ UNCHANGED <<tok, uid>>

Return(w) ==
  /\ pc'  = [pc EXCEPT ![w] = "idle"]
  /\ tok' = [tok EXCEPT ![w] = None]
  /\ uid' = [uid EXCEPT ![w] = None]

InFlight(t, calls) == \E w \in Workers : tok[w] = t /\ pc[w] \in calls

(* Mutant: the key is built without the token, so all sessions share it.     *)
SetRefreshTokenSharedKey(t, u, o) ==
  refreshKey' = IF Applied(o) THEN [x \in RefreshTokens |-> u] ELSE refreshKey

(* SetRefreshToken: SET refresh:<t> <u> EX RefreshTokenTTL.                 *)
SetRefreshToken(t, u, o) ==
  refreshKey' = IF Applied(o) THEN [refreshKey EXCEPT ![t] = u] ELSE refreshKey

(* SetAccessToken under a new random name: 32 random bytes meet no live one. *)
SetAccessToken(t, u, o) ==
  IF Applied(o)
  THEN \E a \in AccessTokens :
          /\ accessKey[a] = None
          /\ accessKey' = [accessKey EXCEPT ![a] = u]
          /\ from' = [from EXCEPT ![a] = t]
  ELSE UNCHANGED <<accessKey, from>>

(* GetAccessToken as the auth middleware sees it; None is the rejection.    *)
ValidateAccess(a) == accessKey[a]

-----------------------------------------------------------------------------
(* Service.Create: the row, then the access key, then the refresh key.      *)

CreateStart(w, u) ==
  \E t \in RefreshTokens :
    /\ owner[t] = None
    /\ owner' = [owner EXCEPT ![t] = u]
    /\ Begin(w, "insert", t, u)
    /\ UNCHANGED <<stores, held, asked, loggedOut>>

CreateInsert(w, o) ==
  /\ pc[w] = "insert"
  /\ sessions' = IF Applied(o) THEN [sessions EXCEPT ![tok[w]] = uid[w]]
                               ELSE sessions
  /\ IF o = "ok" THEN Goto(w, "c_access") ELSE Return(w)
  /\ UNCHANGED <<refreshKey, accessKey, from, history>>

CreateSetAccess(w, o) ==
  /\ pc[w] = "c_access"
  /\ SetAccessToken(tok[w], uid[w], o)
  /\ IF o = "ok" THEN Goto(w, "c_refresh") ELSE Return(w)
  /\ UNCHANGED <<sessions, refreshKey, history>>

CreateSetRefresh(w, o) ==
  /\ pc[w] = "c_refresh"
  /\ SetRefreshToken(tok[w], uid[w], o)
  /\ held' = IF o = "ok" THEN held \cup {tok[w]} ELSE held
  /\ Return(w)
  /\ UNCHANGED <<sessions, accessKey, from, owner, asked, loggedOut>>

-----------------------------------------------------------------------------
(* Service.Refresh: Redis, else PostgreSQL and the cache again, then a new   *)
(* access key.  A Redis error is treated as a miss.                          *)

RefreshStart(w, t) ==
  /\ t \in held
  /\ Begin(w, "r_get", t, None)
  /\ UNCHANGED <<stores, history>>

(* Mutant: a hit renews the cache entry too (a sliding TTL).                 *)
RefreshGetSliding(w, o) ==
  /\ pc[w] = "r_get"
  /\ IF o = "ok" /\ refreshKey[tok[w]] # None
     THEN /\ pc'  = [pc EXCEPT ![w] = "r_fill"]
          /\ uid' = [uid EXCEPT ![w] = refreshKey[tok[w]]]
          /\ UNCHANGED tok
     ELSE Goto(w, "r_query")
  /\ UNCHANGED <<stores, history>>

RefreshGet(w, o) ==
  /\ pc[w] = "r_get"
  /\ IF o = "ok" /\ refreshKey[tok[w]] # None
     THEN /\ pc'  = [pc EXCEPT ![w] = "r_access"]
          /\ uid' = [uid EXCEPT ![w] = refreshKey[tok[w]]]
          /\ UNCHANGED tok
     ELSE Goto(w, "r_query")
  /\ UNCHANGED <<stores, history>>

(* Mutant: ErrSessionNotFound is not looked at.                              *)
RefreshQueryUnchecked(w, o) ==
  /\ pc[w] = "r_query"
  /\ IF o = "ok"
     THEN /\ pc'  = [pc EXCEPT ![w] = "r_fill"]
          /\ uid' = [uid EXCEPT ![w] = sessions[tok[w]]]
          /\ UNCHANGED tok
     ELSE Return(w)
  /\ UNCHANGED <<stores, history>>

RefreshQuery(w, o) ==
  /\ pc[w] = "r_query"
  /\ IF o = "ok" /\ sessions[tok[w]] # None
     THEN /\ pc'  = [pc EXCEPT ![w] = "r_fill"]
          /\ uid' = [uid EXCEPT ![w] = sessions[tok[w]]]
          /\ UNCHANGED tok
     ELSE Return(w)
  /\ UNCHANGED <<stores, history>>

RefreshFill(w, o) ==
  /\ pc[w] = "r_fill"
  /\ SetRefreshToken(tok[w], uid[w], o)
  /\ Goto(w, "r_access")
  /\ UNCHANGED <<sessions, accessKey, from, history>>

RefreshSetAccess(w, o) ==
  /\ pc[w] = "r_access"
  /\ SetAccessToken(tok[w], uid[w], o)
  /\ Return(w)
  /\ UNCHANGED <<sessions, refreshKey, history>>

-----------------------------------------------------------------------------
(* Service.Revoke: SELECT and DELETE of the row as two statements, then DEL  *)
(* of the cache key, whose failure is only logged.                           *)

RevokeStart(w, t) ==
  /\ t \in held
  /\ asked' = asked \cup {t}
  /\ Begin(w, "v_select", t, None)
  /\ UNCHANGED <<stores, owner, held, loggedOut>>

RevokeSelect(w, o) ==
  /\ pc[w] = "v_select"
  /\ IF o = "ok" /\ sessions[tok[w]] # None
     THEN Goto(w, "v_delete")
     ELSE Return(w)
  /\ UNCHANGED <<stores, history>>

(* Mutant: the error of the DELETE is dropped and Revoke goes on.            *)
RevokeDeleteUnchecked(w, o) ==
  /\ pc[w] = "v_delete"
  /\ sessions' = IF Applied(o) THEN [sessions EXCEPT ![tok[w]] = None]
                               ELSE sessions
  /\ Goto(w, "v_del")
  /\ UNCHANGED <<refreshKey, accessKey, from, history>>

RevokeDelete(w, o) ==
  /\ pc[w] = "v_delete"
  /\ sessions' = IF Applied(o) THEN [sessions EXCEPT ![tok[w]] = None]
                               ELSE sessions
  /\ IF o = "ok" THEN Goto(w, "v_del") ELSE Return(w)
  /\ UNCHANGED <<refreshKey, accessKey, from, history>>

RevokeDel(w, o) ==
  /\ pc[w] = "v_del"
  /\ SetRefreshToken(tok[w], None, o)
  /\ loggedOut' = IF Applied(o)
                  THEN [loggedOut EXCEPT ![tok[w]] =
                          IF InFlight(tok[w], {"r_fill"}) THEN "raced" ELSE "quiet"]
                  ELSE loggedOut
  /\ Return(w)
  /\ UNCHANGED <<sessions, accessKey, from, owner, held, asked>>

(* Mutant: the DELETE lost its WHERE.                                        *)
RevokeAllEveryone(u, o) ==
  /\ asked' = asked \cup {t \in RefreshTokens : owner[t] = u}
  /\ sessions' = IF Applied(o) THEN [t \in RefreshTokens |-> None] ELSE sessions
  /\ UNCHANGED <<refreshKey, accessKey, from, pc, tok, uid, owner, held, loggedOut>>

(* Service.RevokeAll: one DELETE; the cache is left alone.                   *)
RevokeAll(u, o) ==
  /\ asked' = asked \cup {t \in RefreshTokens : owner[t] = u}
  /\ sessions' = IF Applied(o)
                 THEN [t \in RefreshTokens |->
                         IF sessions[t] = u THEN None ELSE sessions[t]]
                 ELSE sessions
  /\ UNCHANGED <<refreshKey, accessKey, from, pc, tok, uid, owner, held, loggedOut>>

-----------------------------------------------------------------------------
(* What the stores and the process do by themselves.                         *)

(* The TTL of a key runs out, or Redis evicts it or restarts without it.     *)
ExpireRefresh(t) ==
  /\ refreshKey[t] # None
  /\ refreshKey' = [refreshKey EXCEPT ![t] = None]
  /\ UNCHANGED <<sessions, accessKey, from, pc, tok, uid, history>>

ExpireAccess(a) ==
  /\ accessKey[a] # None
  /\ accessKey' = [accessKey EXCEPT ![a] = None]
  /\ from' = [from EXCEPT ![a] = None]
  /\ UNCHANGED <<sessions, refreshKey, pc, tok, uid, history>>

(* The process dies: every handler with it, the stores survive.              *)
Crash ==
  /\ pc'  = [w \in Workers |-> "idle"]
  /\ tok' = [w \in Workers |-> None]
  /\ uid' = [w \in Workers |-> None]
  /\ UNCHANGED <<stores, history>>

Step(w) ==
  \E o \in Outcomes :
    \/ CreateInsert(w, o)
    \/ CreateSetAccess(w, o)
    \/ CreateSetRefresh(w, o)
    \/ RefreshGet(w, o)
    \/ RefreshQuery(w, o)
    \/ RefreshFill(w, o)
    \/ RefreshSetAccess(w, o)
    \/ RevokeSelect(w, o)
    \/ RevokeDelete(w, o)
    \/ RevokeDel(w, o)

Next ==
  \/ \E w \in Workers, u \in Users : CreateStart(w, u)
  \/ \E w \in Workers, t \in RefreshTokens : RefreshStart(w, t)
  \/ \E w \in Workers, t \in RefreshTokens : RevokeStart(w, t)
  \/ \E w \in Workers : Step(w)
  \/ \E u \in Users, o \in Outcomes : RevokeAll(u, o)
  \/ \E t \in RefreshTokens : ExpireRefresh(t)
  \/ \E a \in AccessTokens : ExpireAccess(a)
  \/ Crash

Spec == Init /\ [][Next]_vars

(* A call of a handler ends (the clients of both stores time out), and a     *)
(* cached refresh token expires: the fast path of Refresh never extends it.  *)
Fairness == /\ \A w \in Workers : WF_vars(Step(w))
            /\ \A t \in RefreshTokens : WF_vars(ExpireRefresh(t))

FairSpec == Spec /\ Fairness

-----------------------------------------------------------------------------
(* Properties *)

(* Wherever a refresh token or an access token derived from it can be        *)
(* looked up (the row, the cache, the auth middleware), the answer is the    *)
(* user for whom Create generated it, whatever failed or was repopulated.    *)
OwnerAgreement ==
  /\ \A t \in RefreshTokens : /\ sessions[t] \in {None, owner[t]}
                              /\ refreshKey[t] \in {None, owner[t]}
  /\ \A a \in AccessTokens :
       ValidateAccess(a) # None =>
         from[a] # None /\ ValidateAccess(a) = owner[from[a]]

(* A refresh token a client got from Create stays backed by its row until    *)
(* somebody asks to revoke it, so no crash, expiry or failed call elsewhere  *)
(* makes Refresh answer ErrInvalidRefreshToken to its holder.                *)
DurableSession ==
  \A t \in held \ asked : owner[t] # None /\ sessions[t] = owner[t]

(* When the last DEL of Revoke took effect while no Refresh of the token was *)
(* between its SELECT and its SET, the token is gone from both stores and    *)
(* stays gone: deleting the row before the key is what makes this work.      *)
QuietLogout ==
  \A t \in RefreshTokens :
    loggedOut[t] = "quiet" => sessions[t] = None /\ refreshKey[t] = None

(* The comment on Revoke: it "deletes a session and invalidates the refresh  *)
(* token".  Read as: when it returned and its DEL was applied, neither store *)
(* accepts the token.  The code does not meet it (see the README).           *)
RevokeInvalidates ==
  \A t \in RefreshTokens :
    loggedOut[t] # "no" => sessions[t] = None /\ refreshKey[t] = None

(* Why they hold: what every handler knows between two calls, whatever the   *)
(* others did meanwhile.  The parts are inductive only together.             *)

(* The local user id is the owner's from the moment it is known; a token     *)
(* being created is known to its creator only; one being refreshed or        *)
(* revoked was returned by Create.                                           *)
HandlerKnows ==
  \A w \in Workers :
    /\ pc[w] \in Creating \cup {"r_fill", "r_access"} =>
         uid[w] # None /\ uid[w] = owner[tok[w]]
    /\ pc[w] \in Creating => tok[w] \notin held
    /\ pc[w] = "insert" => sessions[tok[w]] = None /\ refreshKey[tok[w]] = None
    /\ pc[w] \in {"c_access", "c_refresh"} =>
         tok[w] \in asked \/ sessions[tok[w]] = owner[tok[w]]
    /\ pc[w] \in Refreshing \cup Revoking => tok[w] \in held
    /\ pc[w] \in Revoking => tok[w] \in asked
    /\ pc[w] = "v_del" => sessions[tok[w]] = None

OneCreator ==
  \A w, v \in Workers :
    pc[w] \in Creating /\ pc[v] \in Creating /\ tok[w] = tok[v] => w = v

(* A token nobody generated yet is nowhere; a live access token has a source. *)
Provenance ==
  /\ \A t \in held : owner[t] # None
  /\ \A a \in AccessTokens :
       /\ accessKey[a] = None <=> from[a] = None
       /\ from[a] # None => owner[from[a]] # None

(* After a complete Revoke the row is gone for good; after a quiet one no    *)
(* Refresh holds a user id it could write back.                              *)
AfterLogout ==
  \A t \in RefreshTokens :
    /\ loggedOut[t] # "no" => t \in held /\ sessions[t] = None
    /\ loggedOut[t] = "quiet" => refreshKey[t] = None /\ ~InFlight(t, {"r_fill"})

Inv == /\ TypeOK
       /\ OwnerAgreement
       /\ DurableSession
       /\ HandlerKnows
       /\ OneCreator
       /\ Provenance
       /\ AfterLogout

(* The service implements SessionLifecycle.                                  *)
Carrying == {"c_access", "c_refresh", "r_fill", "r_access"}

Status(t) ==
  IF owner[t] = None THEN "fresh"
  ELSE IF InFlight(t, {"insert"}) THEN "pending"
  ELSE IF sessions[t] # None THEN "active"
  ELSE IF refreshKey[t] # None \/ InFlight(t, Carrying) THEN "lingering"
  ELSE "dead"

Lifecycle == INSTANCE SessionLifecycle
               WITH status <- [t \in RefreshTokens |-> Status(t)], grant <- from

(* Every step of the service moves each token forward in its life or not at  *)
(* all, and grants access only for a token that is active or lingering: in   *)
(* particular a dead token can never be refreshed again.                     *)
LifecycleRefinement == Lifecycle!Spec

(* A token whose row is gone does not linger for ever: its cache entry       *)
(* expires, because no path of Refresh renews it without finding the row.    *)
LingeringEnds ==
  \A t \in RefreshTokens : Status(t) = "lingering" ~> Status(t) = "dead"
=============================================================================
