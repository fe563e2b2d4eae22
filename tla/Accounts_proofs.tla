-------------------------- MODULE Accounts_proofs --------------------------
(***************************************************************************)
(* Proofs about Accounts for any addresses, accounts, states and handlers. *)
(***************************************************************************)
EXTENDS Accounts, TLAPS

(* One handler moves on to a call that its request fits.                     *)
LEMMA Moves ==
  ASSUME RequestsOK, NEW w \in Workers, NEW call \in Calls, NEW r \in Requests,
         Fits(call, r),
         pc' = [pc EXCEPT ![w] = call], req' = [req EXCEPT ![w] = r]
  PROVE  RequestsOK'
<1>1. \A v \in Workers : pc'[v] = (IF v = w THEN call ELSE pc[v])
                       /\ req'[v] = (IF v = w THEN r ELSE req[v])
  BY DEF RequestsOK
<1>2. \A v \in Workers : Fits(pc'[v], req'[v])
  BY <1>1 DEF RequestsOK
<1>3. pc' \in [Workers -> Calls] /\ req' \in [Workers -> Requests]
  BY DEF RequestsOK
<1> QED BY <1>2, <1>3 DEF RequestsOK

(* A handler that answers leaves an empty request behind.                    *)
LEMMA Returns ==
  ASSUME RequestsOK, NEW w \in Workers, Return(w)
  PROVE  RequestsOK'
<1>1. NoRequest \in Requests /\ Fits("idle", NoRequest) /\ "idle" \in Calls
  BY AccountsAssumption DEF NoRequest, Request, Requests, Fits, Calls, Calling,
     Registering, Linking
<1> QED BY <1>1, Moves DEF Return

(* A handler goes on to a call that what it knows already fits.              *)
LEMMA GoesOn ==
  ASSUME RequestsOK, NEW w \in Workers, NEW call \in Calls, Fits(call, req[w]),
         Goto(w, call)
  PROVE  RequestsOK'
<1>1. req[w] \in Requests /\ req' = [req EXCEPT ![w] = req[w]]
  BY DEF RequestsOK, Goto
<1> QED BY <1>1, Moves DEF Goto

(* A handler that found its user goes on with it.                            *)
LEMMA Finds ==
  ASSUME RequestsOK, NEW w \in Workers, NEW u \in UserIds, NEW call \in Calls,
         call \in {"link_get", "session"}, req[w].email # None, Found(w, u, call)
  PROVE  RequestsOK'
<1> DEFINE r == Request(req[w].state, req[w].email, req[w].username,
                        req[w].password, u, req[w].known)
<1>1. req[w] \in Requests
  BY DEF RequestsOK
<1>2. r \in Requests /\ Fits(call, r)
  BY <1>1, AccountsAssumption DEF Request, Requests, Fits, Calling, Registering, Linking
<1>3. req' = [req EXCEPT ![w] = r] /\ pc' = [pc EXCEPT ![w] = call]
  BY DEF Found
<1> HIDE DEF r
<1> QED BY <1>2, <1>3, Moves

(* Every statement keeps the type of every variable.                         *)
LEMMA TypeStep == TypeOK /\ [Next]_vars => TypeOK'
<1> SUFFICES ASSUME TypeOK, [Next]_vars PROVE TypeOK'
  OBVIOUS
<1> USE AccountsAssumption DEF TypeOK, table, tokens, history
<1> DEFINE Rest == TableOK' /\ TokensOK' /\ HistoryOK'
<1>a. ASSUME NEW w \in Workers, NEW call \in Calls, NEW r \in Requests,
             Fits(call, r), Begin(w, call, r)
      PROVE  RequestsOK'
  BY <1>a, Moves DEF Begin
<1>b. UNCHANGED <<table, tokens, history>> => Rest
  BY DEF TableOK, TokensOK, HistoryOK
<1>c. \A w \in Workers : req[w] \in Requests /\ Fits(pc[w], req[w])
  BY DEF RequestsOK
<1>d. UNCHANGED <<pc, req>> => RequestsOK'
  BY DEF RequestsOK
<1> USE DEF Calls, Calling, Registering, Linking
<1>1. ASSUME NEW w \in Workers, NEW e \in Emails, NEW n \in Usernames,
             NEW p \in Passwords,
             RegisterStart(w, e, n, p) \/ SeedStart(w, e, n, p)
      PROVE  TypeOK'
  <2>1. /\ Request(None, e, n, p, None, None) \in Requests
        /\ Fits("email", Request(None, e, n, p, None, None))
        /\ Fits("admin", Request(None, e, n, p, None, None))
    BY DEF Request, Requests, Fits
  <2> QED BY <1>1, <1>a, <1>b, <2>1 DEF RegisterStart, SeedStart
<1>2. ASSUME NEW w \in Workers, NEW e \in Emails, NEW p \in Passwords,
             LoginStart(w, e, p)
      PROVE  TypeOK'
  <2>1. /\ Request(None, e, None, p, None, None) \in Requests
        /\ Fits("login", Request(None, e, None, p, None, None))
    BY DEF Request, Requests, Fits
  <2> QED BY <1>2, <1>a, <1>b, <2>1 DEF LoginStart
<1>3. ASSUME NEW w \in Workers, NEW s \in States, CallbackStart(w, s)
      PROVE  TypeOK'
  <2>1. /\ Request(s, None, None, "empty", None, None) \in Requests
        /\ Fits("state_get", Request(s, None, None, "empty", None, None))
    BY DEF Request, Requests, Fits
  <2> QED BY <1>3, <1>a, <1>b, <2>1 DEF CallbackStart
<1>4. ASSUME NEW w \in Workers, Step(w) PROVE TypeOK'
  <2>0. PICK o \in Outcomes :
          \/ SeedGetAdmin(w, o)
          \/ RegisterCheckEmail(w, o) \/ RegisterCheckUsername(w, o)
          \/ RegisterInsert(w, o) \/ LoginGet(w, o)
          \/ CallbackGetState(w, o) \/ CallbackDelState(w, o)
          \/ \E e \in Emails : CallbackExchange(w, e, o)
          \/ CallbackLookup(w, o) \/ LinkGet(w, o) \/ LinkInsert(w, o)
          \/ CreateSession(w, o)
    BY <1>4 DEF Step
  <2>0a. CASE SeedGetAdmin(w, o)
    <3>1. RequestsOK'
      BY <2>0a, <1>c, Returns, GoesOn DEF SeedGetAdmin, Fits
    <3> QED BY <2>0a, <1>b, <3>1 DEF SeedGetAdmin
  <2>1. CASE RegisterCheckEmail(w, o)
    <3>1. RequestsOK'
      BY <2>1, <1>c, Returns, GoesOn DEF RegisterCheckEmail, Refuse, Fits
    <3>2. Rest
      BY <2>1 DEF RegisterCheckEmail, Refuse, TableOK, TokensOK, HistoryOK
    <3> QED BY <3>1, <3>2
  <2>2. CASE RegisterCheckUsername(w, o)
    <3>1. RequestsOK'
      BY <2>2, <1>c, Returns, GoesOn DEF RegisterCheckUsername, Refuse, Fits
    <3>2. Rest
      BY <2>2 DEF RegisterCheckUsername, Refuse, TableOK, TokensOK, HistoryOK
    <3> QED BY <3>1, <3>2
  <2>3. CASE RegisterInsert(w, o)
    <3>0. req[w].email \in Emails /\ req[w].username \in Usernames /\ req[w] \in Requests
      BY <2>3, <1>c DEF RegisterInsert, Fits, Requests
    <3>1. RequestsOK'
      BY <2>3, <3>0, Returns, Finds DEF RegisterInsert, Refuse
    <3>2. ASSUME NEW u \in UserIds, Insert(u, req[w], o), UNCHANGED links
          PROVE  TableOK'
      <4>1. CASE Applied(o)
        <5>1. /\ row' = [row EXCEPT ![u] = "live"]
              /\ email' = [email EXCEPT ![u] = req[w].email]
              /\ username' = [username EXCEPT ![u] = req[w].username]
              /\ password' = [password EXCEPT ![u] = req[w].password]
          BY <3>2, <4>1 DEF Insert
        <5>2. req[w].password \in Passwords
          BY <3>0 DEF Requests
        <5> QED BY <5>1, <5>2, <3>0, <3>2 DEF TableOK
      <4>2. CASE ~Applied(o)
        BY <3>2, <4>2 DEF Insert, TableOK
      <4> QED BY <4>1, <4>2
    <3>3. TableOK'
      BY <2>3, <3>2 DEF RegisterInsert, TableOK
    <3>4. TokensOK' /\ HistoryOK'
      BY <2>3 DEF RegisterInsert, Refuse, TokensOK, HistoryOK
    <3> QED BY <3>1, <3>3, <3>4
  <2>4. CASE LoginGet(w, o)
    <3>1. req[w].email # None
      BY <2>4, <1>c DEF LoginGet, Fits
    <3>2. RequestsOK'
      BY <2>4, <3>1, Returns, Finds DEF LoginGet, GetByEmail
    <3> QED BY <2>4, <1>b, <3>2 DEF LoginGet
  <2>5. CASE CallbackGetState(w, o)
    <3>1. req[w].state \in States
      BY <2>5, <1>c DEF CallbackGetState, Fits, Requests
    <3>2. RequestsOK'
      BY <2>5, <3>1, Returns, GoesOn DEF CallbackGetState, Fits
    <3>3. Rest
      BY <2>5, <3>1 DEF CallbackGetState, TableOK, TokensOK, HistoryOK
    <3> QED BY <3>2, <3>3
  <2>6. CASE CallbackDelState(w, o)
    <3>1. req[w].state \in States
      BY <2>6, <1>c DEF CallbackDelState, Fits, Requests
    <3>2. RequestsOK'
      BY <2>6, <3>1, GoesOn DEF CallbackDelState, Fits
    <3>3. Rest
      BY <2>6, <3>1 DEF CallbackDelState, TableOK, TokensOK, HistoryOK
    <3> QED BY <3>2, <3>3
  <2>7. ASSUME NEW e \in Emails, CallbackExchange(w, e, o) PROVE TypeOK'
    <3>1. CASE o = "ok"
      <4>1. PICK k \in UserIds \cup {None} :
              req' = [req EXCEPT ![w] =
                        Request(req[w].state, e, None, "empty", None, k)]
        BY <2>7, <3>1 DEF CallbackExchange
      <4>2. /\ Request(req[w].state, e, None, "empty", None, k) \in Requests
            /\ Fits("lookup", Request(req[w].state, e, None, "empty", None, k))
        BY <1>c DEF Request, Requests, Fits
      <4>3. RequestsOK'
        BY <2>7, <3>1, <4>1, <4>2, Moves DEF CallbackExchange
      <4> QED BY <2>7, <4>3, <1>b DEF CallbackExchange
    <3>2. CASE o # "ok"
      BY <2>7, <3>2, <1>b, Returns DEF CallbackExchange
    <3> QED BY <3>1, <3>2
  <2>8. CASE CallbackLookup(w, o)
    <3>1. req[w].email \in Emails /\ req[w] \in Requests
      BY <2>8, <1>c DEF CallbackLookup, Fits, Requests
    <3>2. ASSUME GoogleRegisters(w) PROVE RequestsOK'
      <4> DEFINE r == Request(req[w].state, req[w].email, req[w].email, "empty",
                              None, req[w].known)
      <4>1. r \in Requests /\ Fits("email", r)
        BY <3>1 DEF Request, Requests, Fits
      <4>2. pc' = [pc EXCEPT ![w] = "email"] /\ req' = [req EXCEPT ![w] = r]
        BY <3>2 DEF GoogleRegisters
      <4> HIDE DEF r
      <4> QED BY <4>1, <4>2, Moves
    <3>3. RequestsOK'
      BY <2>8, <3>1, <3>2, Returns, Finds DEF CallbackLookup, GetByEmail
    <3> QED BY <2>8, <1>b, <3>3 DEF CallbackLookup
  <2>9. CASE LinkGet(w, o)
    <3>1. RequestsOK'
      BY <2>9, <1>c, Returns, GoesOn DEF LinkGet, Fits
    <3> QED BY <2>9, <1>b, <3>1 DEF LinkGet
  <2>10. CASE LinkInsert(w, o)
    <3>1. RequestsOK'
      BY <2>10, <1>c, Returns, GoesOn DEF LinkInsert, Fits
    <3>2. req[w].email \in Emails /\ req[w].user \in UserIds
      BY <2>10, <1>c DEF LinkInsert, Fits, Requests
    <3>3. Rest
      BY <2>10, <3>2 DEF LinkInsert, TableOK, TokensOK, HistoryOK
    <3> QED BY <3>1, <3>3
  <2>11. CASE CreateSession(w, o)
    <3>1. RequestsOK'
      BY <2>11, Returns DEF CreateSession
    <3>2. req[w] \in Requests /\ req[w].user \in UserIds
      BY <2>11, <1>c DEF CreateSession, Fits, Requests
    <3>3. ViaGoogle(w) => req[w].email \in Emails
      BY <2>11, <1>c DEF CreateSession, Fits, Requests, ViaGoogle
    <3>4. HistoryOK'
      BY <2>11, <3>2, <3>3 DEF CreateSession, HistoryOK, Requests
    <3>5. TableOK' /\ TokensOK'
      BY <2>11 DEF CreateSession, TableOK, TokensOK
    <3> QED BY <3>1, <3>4, <3>5
  <2> QED BY <2>0, <2>0a, <2>1, <2>2, <2>3, <2>4, <2>5, <2>6, <2>7, <2>8, <2>9, <2>10, <2>11
<1>5. CASE \E s \in States, o \in Outcomes : GoogleAuthURL(s, o)
  BY <1>5, <1>d DEF GoogleAuthURL, TableOK, TokensOK, HistoryOK
<1>6. CASE \E s \in States : ExpireState(s)
  BY <1>6, <1>d DEF ExpireState, TableOK, TokensOK, HistoryOK
<1>7. CASE \E u \in UserIds, o \in Outcomes : SoftDelete(u, o)
  BY <1>7, <1>d DEF SoftDelete, TableOK, TokensOK, HistoryOK
<1>8. CASE Crash
  <2>1. RequestsOK'
    BY <1>8 DEF Crash, RequestsOK, NoRequest, Request, Requests, Fits
  <2>2. \A v \in Workers : pc[v] = "state_del" => req[v].state \in States
    BY <1>c DEF Fits, Requests
  <2>3. Rest
    BY <1>8, <2>2 DEF Crash, TableOK, TokensOK, HistoryOK
  <2> QED BY <2>1, <2>3
<1>9. CASE UNCHANGED vars
  BY <1>9, <1>b, <1>d DEF vars
<1> QED BY <1>1, <1>2, <1>3, <1>4, <1>5, <1>6, <1>7, <1>8, <1>9 DEF Next

(* Type correctness of accounts, links, states and requests.                 *)
THEOREM TypeCorrect == Spec => []TypeOK
<1>1. Init => TypeOK
  BY AccountsAssumption DEF Init, TypeOK, TableOK, TokensOK, RequestsOK, HistoryOK,
     Requests, Request, NoRequest, Fits, Calls, Registering, Calling, Linking
<1> QED BY <1>1, TypeStep, PTL DEF Spec

-----------------------------------------------------------------------------
(* What a step does to the table, to the requests and to the tokens.         *)

(* A handler writes to users only in RegisterInsert, to sso_providers only   *)
(* in LinkInsert, gives a session only in CreateSession and touches a state  *)
(* only around state_get and state_del.                                      *)
LEMMA Frames ==
  ASSUME TypeOK, NEW w \in Workers, Step(w)
  PROVE  /\ \/ UNCHANGED <<row, email, username, password>>
            \/ \E o \in Outcomes : RegisterInsert(w, o)
         /\ links' = links \/ \E o \in Outcomes : LinkInsert(w, o)
         /\ \/ UNCHANGED <<admitted, entered>>
            \/ \E o \in Outcomes : CreateSession(w, o)
         /\ \/ /\ UNCHANGED tokens
               /\ \A v \in Workers : pc[v] = "state_del" =>
                                     pc'[v] = pc[v] /\ req'[v] = req[v]
            \/ \E o \in Outcomes : CallbackGetState(w, o) \/ CallbackDelState(w, o)
         /\ \/ /\ UNCHANGED <<links, crossed>>
               /\ \A v \in Workers : pc'[v] = "link_insert" =>
                                     pc[v] = "link_insert" /\ req'[v] = req[v]
            \/ \E o \in Outcomes : LinkGet(w, o) \/ LinkInsert(w, o)
<1> USE DEF TypeOK, RequestsOK, table, tokens, history, Goto, Return, Found, Refuse
<1>0. PICK o \in Outcomes :
        \/ SeedGetAdmin(w, o)
        \/ RegisterCheckEmail(w, o) \/ RegisterCheckUsername(w, o)
        \/ RegisterInsert(w, o) \/ LoginGet(w, o)
        \/ CallbackGetState(w, o) \/ CallbackDelState(w, o)
        \/ \E e \in Emails : CallbackExchange(w, e, o)
        \/ CallbackLookup(w, o) \/ LinkGet(w, o) \/ LinkInsert(w, o)
        \/ CreateSession(w, o)
  BY DEF Step
<1>0a. CASE SeedGetAdmin(w, o)
  BY <1>0a DEF SeedGetAdmin
<1>1. CASE RegisterCheckEmail(w, o)
  BY <1>1 DEF RegisterCheckEmail
<1>2. CASE RegisterCheckUsername(w, o)
  BY <1>2 DEF RegisterCheckUsername
<1>3. CASE RegisterInsert(w, o)
  BY <1>3 DEF RegisterInsert
<1>4. CASE LoginGet(w, o)
  BY <1>4 DEF LoginGet
<1>5. CASE CallbackGetState(w, o) \/ CallbackDelState(w, o)
  BY <1>5 DEF CallbackGetState, CallbackDelState
<1>6. CASE \E e \in Emails : CallbackExchange(w, e, o)
  BY <1>6 DEF CallbackExchange
<1>7. CASE CallbackLookup(w, o)
  BY <1>7 DEF CallbackLookup, GoogleRegisters
<1>8. CASE LinkGet(w, o)
  BY <1>8 DEF LinkGet
<1>9. CASE LinkInsert(w, o)
  BY <1>9 DEF LinkInsert
<1>10. CASE CreateSession(w, o)
  BY <1>10 DEF CreateSession
<1> QED BY <1>0, <1>0a, <1>1, <1>2, <1>3, <1>4, <1>5, <1>6, <1>7, <1>8, <1>9, <1>10

(* What starts a request changes nothing but that request.                   *)
LEMMA Starts ==
  ASSUME TypeOK, NEW w \in Workers,
         \/ \E e \in Emails, n \in Usernames, p \in Passwords :
              RegisterStart(w, e, n, p) \/ SeedStart(w, e, n, p)
         \/ \E e \in Emails, p \in Passwords : LoginStart(w, e, p)
         \/ \E s \in States : CallbackStart(w, s)
  PROVE  /\ UNCHANGED <<row, email, username, password, links, admitted, entered, tokens>>
         /\ UNCHANGED crossed
         /\ \A v \in Workers : pc[v] = "state_del" => pc'[v] = pc[v] /\ req'[v] = req[v]
         /\ \A v \in Workers :
              pc'[v] = "link_insert" => pc[v] = "link_insert" /\ req'[v] = req[v]
BY DEF RegisterStart, SeedStart, LoginStart, CallbackStart, Begin, TypeOK, RequestsOK,
   table, tokens, history

(* The table of users changes only by an INSERT or a SoftDelete.             *)
LEMMA TableStep ==
  ASSUME TypeOK, [Next]_vars
  PROVE  \/ UNCHANGED <<row, email, username, password>>
         \/ \E w \in Workers, o \in Outcomes : RegisterInsert(w, o)
         \/ \E u \in UserIds, o \in Outcomes : SoftDelete(u, o)
<1>1. CASE \E w \in Workers : Step(w)
  BY <1>1, Frames
<1>2. CASE \/ \E s \in States, o \in Outcomes : GoogleAuthURL(s, o)
           \/ \E s \in States : ExpireState(s)
           \/ Crash
           \/ UNCHANGED vars
  BY <1>2 DEF GoogleAuthURL, ExpireState, Crash, vars, table
<1> QED BY <1>1, <1>2, Starts DEF Next

(* A row that exists stays, and so do its columns; a deleted one is not      *)
(* revived.                                                                  *)
LEMMA ColumnsStay ==
  ASSUME TypeOK, [Next]_vars, NEW u \in UserIds, row[u] # "absent"
  PROVE  /\ row'[u] # "absent" /\ email'[u] = email[u] /\ password'[u] = password[u]
         /\ row[u] = "deleted" => row'[u] = "deleted"
<1>1. CASE UNCHANGED <<row, email, username, password>>
  BY <1>1
<1>2. CASE \E w \in Workers, o \in Outcomes : RegisterInsert(w, o)
  BY <1>2 DEF RegisterInsert, Insert, TypeOK, TableOK
<1>3. CASE \E v \in UserIds, o \in Outcomes : SoftDelete(v, o)
  BY <1>3 DEF SoftDelete, TypeOK, TableOK
<1> QED BY <1>1, <1>2, <1>3, TableStep

(* What a handler knows stays true while it waits.                           *)
LEMMA KnowledgeStays ==
  ASSUME TypeOK, [Next]_vars, NEW call \in Calls, NEW r \in Requests, Fits(call, r),
         Knows(call, r)
  PROVE  Knows(call, r)'
<1>1. r.user # None => r.user \in UserIds
  BY DEF Requests
<1>2. r.user # None => /\ row'[r.user] # "absent"
                       /\ email'[r.user] = email[r.user]
                       /\ password'[r.user] = password[r.user]
  BY <1>1, ColumnsStay DEF Knows
<1>3. call \in {"link_get", "link_insert", "session"} => r.user # None
  BY DEF Fits
<1> QED BY <1>2, <1>3 DEF Knows

(* Rows stay apart by their address.                                         *)
LEMMA UniqueStep == TypeOK /\ Unique /\ [Next]_vars => Unique'
<1> SUFFICES ASSUME TypeOK, Unique, [Next]_vars PROVE Unique'
  OBVIOUS
<1>1. CASE UNCHANGED <<row, email, username, password>>
  BY <1>1 DEF Unique
<1>2. ASSUME NEW w \in Workers, NEW o \in Outcomes, RegisterInsert(w, o) PROVE Unique'
  <2>1. CASE UNCHANGED <<row, email, username, password>>
    BY <2>1 DEF Unique
  <2>2. CASE ~Taken(req[w].email, req[w].username)
    <3>1. PICK u \in UserIds : Insert(u, req[w], o)
      BY <1>2, <2>2 DEF RegisterInsert
    <3>2. CASE Applied(o)
      <4>1. /\ row' = [row EXCEPT ![u] = "live"]
            /\ email' = [email EXCEPT ![u] = req[w].email]
        BY <3>1, <3>2 DEF Insert
      <4>2. \A v \in UserIds : row[v] # "absent" => email[v] # req[w].email
        BY <2>2 DEF Taken
      <4> QED BY <4>1, <4>2 DEF Unique, TypeOK, TableOK
    <3>3. CASE ~Applied(o)
      BY <3>1, <3>3 DEF Insert, Unique
    <3> QED BY <3>2, <3>3
  <2> QED BY <1>2, <2>1, <2>2 DEF RegisterInsert
<1>3. CASE \E u \in UserIds, o \in Outcomes : SoftDelete(u, o)
  BY <1>3 DEF SoftDelete, Unique, TypeOK, TableOK
<1> QED BY <1>1, <1>2, <1>3, TableStep

-----------------------------------------------------------------------------
(* What handlers know *)

(* One handler moves to a call and knows what that call relies on.           *)
LEMMA KnowsMoves ==
  ASSUME TypeOK, HandlerKnows, [Next]_vars, NEW w \in Workers, NEW call, NEW r,
         pc' = [pc EXCEPT ![w] = call], req' = [req EXCEPT ![w] = r],
         Knows(call, r)'
  PROVE  HandlerKnows'
<1> SUFFICES ASSUME NEW v \in Workers PROVE Knows(pc[v], req[v])'
  BY DEF HandlerKnows
<1>0. /\ pc'[v] = (IF v = w THEN call ELSE pc[v])
      /\ req'[v] = (IF v = w THEN r ELSE req[v])
  BY DEF TypeOK, RequestsOK
<1>1. CASE v = w
  BY <1>0, <1>1 DEF Knows
<1>2. CASE v # w
  <2>1. pc[v] \in Calls /\ req[v] \in Requests /\ Fits(pc[v], req[v])
    BY DEF TypeOK, RequestsOK
  <2>2. Knows(pc[v], req[v])
    BY DEF HandlerKnows
  <2> QED BY <1>0, <1>2, <2>1, <2>2, KnowledgeStays DEF Knows
<1> QED BY <1>1, <1>2

(* Who answers relies on nothing any more.                                   *)
LEMMA KnowsReturns ==
  ASSUME TypeOK, HandlerKnows, [Next]_vars, NEW w \in Workers, Return(w)
  PROVE  HandlerKnows'
<1>1. Knows("idle", NoRequest)'
  BY DEF Knows, NoRequest, Request, Linking
<1> QED BY <1>1, KnowsMoves DEF Return

(* Who goes on with the same request knows as much of it as before.          *)
LEMMA KnowsGoesOn ==
  ASSUME TypeOK, HandlerKnows, [Next]_vars, NEW w \in Workers, NEW call, Goto(w, call),
         UNCHANGED <<row, email, username, password>>, Knows(call, req[w])
  PROVE  HandlerKnows'
<1>1. req' = [req EXCEPT ![w] = req[w]] /\ pc' = [pc EXCEPT ![w] = call]
  BY DEF Goto, TypeOK, RequestsOK
<1>2. ASSUME NEW r, r = req[w] PROVE Knows(call, r)'
  BY <1>2 DEF Knows
<1> QED BY <1>1, <1>2, KnowsMoves

(* Every statement leaves its handler knowing what the next one relies on.   *)
LEMMA KnowsStep == TypeOK /\ HandlerKnows /\ [Next]_vars => HandlerKnows'
<1> SUFFICES ASSUME TypeOK, HandlerKnows, [Next]_vars PROVE HandlerKnows'
  OBVIOUS
<1> USE AccountsAssumption DEF Linking, table
<1>a. \A v \in Workers : /\ pc[v] \in Calls /\ req[v] \in Requests
                         /\ Fits(pc[v], req[v]) /\ Knows(pc[v], req[v])
  BY DEF TypeOK, RequestsOK, HandlerKnows
<1>b. UNCHANGED <<pc, req>> => HandlerKnows'
  BY <1>a, KnowledgeStays DEF HandlerKnows, Knows
<1>1. ASSUME NEW w \in Workers, NEW e \in Emails, NEW n \in Usernames,
             NEW p \in Passwords, RegisterStart(w, e, n, p) \/ SeedStart(w, e, n, p)
      PROVE  HandlerKnows'
  <2>1. /\ Knows("email", Request(None, e, n, p, None, None))'
        /\ Knows("admin", Request(None, e, n, p, None, None))'
    BY DEF Knows, Request
  <2> QED BY <1>1, <2>1, KnowsMoves DEF RegisterStart, SeedStart, Begin
<1>2. ASSUME NEW w \in Workers, NEW e \in Emails, NEW p \in Passwords,
             LoginStart(w, e, p)
      PROVE  HandlerKnows'
  <2>1. Knows("login", Request(None, e, None, p, None, None))'
    BY <1>2 DEF Knows, Request, LoginStart
  <2> QED BY <1>2, <2>1, KnowsMoves DEF LoginStart, Begin
<1>3. ASSUME NEW w \in Workers, NEW s \in States, CallbackStart(w, s)
      PROVE  HandlerKnows'
  <2>1. Knows("state_get", Request(s, None, None, "empty", None, None))'
    BY DEF Knows, Request
  <2> QED BY <1>3, <2>1, KnowsMoves DEF CallbackStart, Begin
<1>4. ASSUME NEW w \in Workers, Step(w) PROVE HandlerKnows'
  <2>0. PICK o \in Outcomes :
          \/ SeedGetAdmin(w, o)
          \/ RegisterCheckEmail(w, o) \/ RegisterCheckUsername(w, o)
          \/ RegisterInsert(w, o) \/ LoginGet(w, o)
          \/ CallbackGetState(w, o) \/ CallbackDelState(w, o)
          \/ \E e \in Emails : CallbackExchange(w, e, o)
          \/ CallbackLookup(w, o) \/ LinkGet(w, o) \/ LinkInsert(w, o)
          \/ CreateSession(w, o)
    BY <1>4 DEF Step
  <2>a. /\ req[w] \in Requests /\ Fits(pc[w], req[w]) /\ Knows(pc[w], req[w])
    BY <1>a
  <2>b. ASSUME NEW u \in UserIds, NEW call, Found(w, u, call),
               Knows(call, Request(req[w].state, req[w].email, req[w].username,
                                   req[w].password, u, req[w].known)),
               UNCHANGED <<row, email, username, password>>
        PROVE  HandlerKnows'
    <3>1. PICK r : r = Request(req[w].state, req[w].email, req[w].username,
                               req[w].password, u, req[w].known)
      OBVIOUS
    <3>2. Knows(call, r)'
      BY <2>b, <3>1 DEF Knows
    <3> QED BY <2>b, <3>1, <3>2, KnowsMoves DEF Found
  <2>0a. CASE SeedGetAdmin(w, o)
    <3>1. Knows("email", req[w])
      BY <2>a DEF Knows
    <3> QED BY <2>0a, <3>1, KnowsReturns, KnowsGoesOn DEF SeedGetAdmin
  <2>1. CASE RegisterCheckEmail(w, o)
    <3>1. Knows("username", req[w])
      BY <2>a DEF Knows
    <3> QED BY <2>1, <3>1, KnowsReturns, KnowsGoesOn DEF RegisterCheckEmail, Refuse
  <2>2. CASE RegisterCheckUsername(w, o)
    <3>1. Knows("insert", req[w])
      BY <2>a DEF Knows
    <3> QED BY <2>2, <3>1, KnowsReturns, KnowsGoesOn DEF RegisterCheckUsername, Refuse
  <2>3. CASE RegisterInsert(w, o)
    <3>1. CASE Return(w)
      BY <3>1, KnowsReturns
    <3>2. CASE ~Return(w)
      <4>1. PICK u \in UserIds : /\ Insert(u, req[w], o) /\ o = "ok" /\ ViaGoogle(w)
                                 /\ Found(w, u, "link_get")
        BY <2>3, <3>2 DEF RegisterInsert, Refuse
      <4>2. PICK r : r = Request(req[w].state, req[w].email, req[w].username,
                                 req[w].password, u, req[w].known)
        OBVIOUS
      <4>3. row'[u] = "live" /\ email'[u] = req[w].email
        BY <4>1 DEF Insert, Applied, TypeOK, TableOK
      <4>4. r.user = u /\ r.state = req[w].state /\ r.email = req[w].email
        BY <4>2 DEF Request
      <4>5. Knows("link_get", r)'
        BY <4>1, <4>3, <4>4 DEF Knows, ViaGoogle
      <4> QED BY <4>1, <4>2, <4>5, KnowsMoves DEF Found
    <3> QED BY <3>1, <3>2
  <2>4. CASE LoginGet(w, o)
    <3>1. CASE Return(w)
      BY <3>1, KnowsReturns
    <3>2. CASE ~Return(w)
      <4>1. PICK u \in GetByEmail(req[w].email) :
              password[u] = TrimSpace(req[w].password) /\ Found(w, u, "session")
        BY <2>4, <3>2 DEF LoginGet
      <4>2. u \in UserIds /\ row[u] = "live"
        BY DEF GetByEmail
      <4>3. req[w].state = None /\ TrimSpace(req[w].password) # "empty"
        BY <2>4, <2>a DEF LoginGet, Knows
      <4>4. Knows("session", Request(req[w].state, req[w].email, req[w].username,
                                     req[w].password, u, req[w].known))
        BY <4>1, <4>2, <4>3 DEF Knows, Request
      <4> QED BY <2>4, <4>1, <4>2, <4>4, <2>b DEF LoginGet
    <3> QED BY <3>1, <3>2
  <2>5. CASE CallbackGetState(w, o)
    <3>1. Knows("state_del", req[w])
      BY <2>a DEF Knows
    <3> QED BY <2>5, <3>1, KnowsReturns, KnowsGoesOn DEF CallbackGetState
  <2>6. CASE CallbackDelState(w, o)
    <3>1. Knows("exchange", req[w])
      BY <2>a DEF Knows
    <3> QED BY <2>6, <3>1, KnowsGoesOn DEF CallbackDelState
  <2>7. ASSUME NEW e \in Emails, CallbackExchange(w, e, o) PROVE HandlerKnows'
    <3>1. CASE o = "ok"
      <4>1. PICK k \in UserIds \cup {None} :
              req' = [req EXCEPT ![w] =
                        Request(req[w].state, e, None, "empty", None, k)]
        BY <2>7, <3>1 DEF CallbackExchange
      <4>2. PICK r : r = Request(req[w].state, e, None, "empty", None, k)
        OBVIOUS
      <4>3. req[w].state # None
        BY <2>7, <2>a DEF CallbackExchange, Fits, Calling
      <4>4. Knows("lookup", r)'
        BY <4>2, <4>3 DEF Knows, Request
      <4> QED BY <2>7, <3>1, <4>1, <4>2, <4>4, KnowsMoves DEF CallbackExchange
    <3>2. CASE o # "ok"
      BY <2>7, <3>2, KnowsReturns DEF CallbackExchange
    <3> QED BY <3>1, <3>2
  <2>8. CASE CallbackLookup(w, o)
    <3>1. ASSUME NEW u \in GetByEmail(req[w].email), Found(w, u, "link_get")
          PROVE  HandlerKnows'
      <4>1. u \in UserIds /\ row[u] = "live" /\ email[u] = req[w].email
        BY DEF GetByEmail
      <4>2. req[w].state # None
        BY <2>8, <2>a DEF CallbackLookup, Knows
      <4>3. Knows("link_get", Request(req[w].state, req[w].email, req[w].username,
                                      req[w].password, u, req[w].known))
        BY <4>1, <4>2 DEF Knows, Request
      <4> QED BY <2>8, <3>1, <4>1, <4>3, <2>b DEF CallbackLookup
    <3>2. ASSUME GoogleRegisters(w) PROVE HandlerKnows'
      <4>1. PICK r : r = Request(req[w].state, req[w].email, req[w].email, "empty",
                                 None, req[w].known)
        OBVIOUS
      <4>2. Knows("email", r)'
        BY <4>1 DEF Knows, Request
      <4> QED BY <3>2, <4>1, <4>2, KnowsMoves DEF GoogleRegisters
    <3> QED BY <2>8, <3>1, <3>2, KnowsReturns DEF CallbackLookup
  <2>9. CASE LinkGet(w, o)
    <3>1. Knows("link_insert", req[w]) /\ Knows("session", req[w])
      BY <2>9, <2>a DEF Knows, LinkGet
    <3> QED BY <2>9, <3>1, KnowsReturns, KnowsGoesOn DEF LinkGet
  <2>10. CASE LinkInsert(w, o)
    <3>1. Knows("session", req[w])
      BY <2>10, <2>a DEF Knows, LinkInsert
    <3> QED BY <2>10, <3>1, KnowsReturns, KnowsGoesOn DEF LinkInsert
  <2>11. CASE CreateSession(w, o)
    BY <2>11, KnowsReturns DEF CreateSession
  <2> QED BY <2>0, <2>0a, <2>1, <2>2, <2>3, <2>4, <2>5, <2>6, <2>7, <2>8, <2>9, <2>10, <2>11
<1>5. CASE \/ \E s \in States, o \in Outcomes : GoogleAuthURL(s, o)
           \/ \E s \in States : ExpireState(s)
           \/ \E u \in UserIds, o \in Outcomes : SoftDelete(u, o)
           \/ UNCHANGED vars
  BY <1>5, <1>b DEF GoogleAuthURL, ExpireState, SoftDelete, vars
<1>6. CASE Crash
  <2>1. \A v \in Workers : pc'[v] = "idle" /\ req'[v] = NoRequest
    BY <1>6 DEF Crash
  <2> QED BY <2>1 DEF HandlerKnows, Knows, NoRequest, Request
<1> QED BY <1>1, <1>2, <1>3, <1>4, <1>5, <1>6 DEF Next

-----------------------------------------------------------------------------
(* The inductive invariant *)

(* Links and sessions are made only from what the handler knows.             *)
LEMMA RecordsStep ==
  ASSUME TypeOK, HandlerKnows, Rooted, LinkAgreement, PasswordProof, [Next]_vars
  PROVE  Rooted' /\ LinkAgreement' /\ PasswordProof'
<1>a. \A w \in Workers : /\ req[w] \in Requests /\ Fits(pc[w], req[w])
                         /\ Knows(pc[w], req[w])
  BY DEF TypeOK, RequestsOK, HandlerKnows
<1>b. /\ links \in [Emails -> [UserIds -> Nat]] /\ admitted \subseteq Emails \X UserIds
      /\ entered \subseteq UserIds \X Passwords
  BY DEF TypeOK, TableOK, HistoryOK
<1>1. CASE UNCHANGED <<links, admitted, entered>>
  BY <1>1, <1>b, ColumnsStay DEF Rooted, LinkAgreement, PasswordProof
<1>2. ASSUME NEW w \in Workers, NEW o \in Outcomes, LinkInsert(w, o)
      PROVE  Rooted' /\ LinkAgreement' /\ PasswordProof'
  <2>1. /\ req[w].email \in Emails /\ req[w].user \in UserIds
        /\ row[req[w].user] # "absent" /\ email[req[w].user] = req[w].email
    BY <1>2, <1>a, AccountsAssumption DEF LinkInsert, Fits, Requests, Knows, Linking
  <2>2. \A e \in Emails, u \in UserIds :
          links'[e][u] > 0 => links[e][u] > 0 \/ (e = req[w].email /\ u = req[w].user)
    BY <1>2, <1>b, <2>1 DEF LinkInsert
  <2>3. UNCHANGED <<row, email, password, admitted, entered>>
    BY <1>2 DEF LinkInsert, history
  <2> QED BY <2>1, <2>2, <2>3 DEF Rooted, LinkAgreement, PasswordProof
<1>3. ASSUME NEW w \in Workers, NEW o \in Outcomes, CreateSession(w, o)
      PROVE  Rooted' /\ LinkAgreement' /\ PasswordProof'
  <2>1. /\ req[w].user \in UserIds /\ row[req[w].user] # "absent"
        /\ req[w].state # None => email[req[w].user] = req[w].email
        /\ req[w].state = None => /\ password[req[w].user] = TrimSpace(req[w].password)
                                  /\ password[req[w].user] # "empty"
    BY <1>3, <1>a DEF CreateSession, Fits, Requests, Knows
  <2>2. /\ \A a \in admitted' : a \in admitted \/ (/\ a = <<req[w].email, req[w].user>>
                                                   /\ req[w].state # None)
        /\ \A a \in entered' : a \in entered \/ (/\ a = <<req[w].user, req[w].password>>
                                                 /\ req[w].state = None)
    BY <1>3 DEF CreateSession, ViaGoogle
  <2>3. UNCHANGED <<row, email, password, links>>
    BY <1>3 DEF CreateSession, table
  <2> QED BY <2>1, <2>2, <2>3 DEF Rooted, LinkAgreement, PasswordProof
<1>4. CASE \E w \in Workers : Step(w)
  BY <1>4, <1>1, <1>2, <1>3, Frames DEF CreateSession, table, LinkInsert, history
<1>5. CASE \/ \E s \in States, o \in Outcomes : GoogleAuthURL(s, o)
           \/ \E s \in States : ExpireState(s)
           \/ \E u \in UserIds, o \in Outcomes : SoftDelete(u, o)
           \/ Crash
           \/ UNCHANGED vars
  BY <1>5, <1>1 DEF GoogleAuthURL, ExpireState, SoftDelete, Crash, vars, table, history
<1> QED BY <1>1, <1>4, <1>5, Starts DEF Next

(* A state that was accepted is deleted before it can be accepted again, or  *)
(* is excused.                                                               *)
LEMMA StatesStep ==
  ASSUME TypeOK, Pending, StateSpent, [Next]_vars
  PROVE  Pending' /\ StateSpent'
<1>a. /\ states \subseteq drawn /\ pc \in [Workers -> Calls]
      /\ req \in [Workers -> Requests]
  BY DEF TypeOK, TokensOK, RequestsOK
<1>1. ASSUME UNCHANGED tokens,
             \A v \in Workers : pc[v] = "state_del" => pc'[v] = pc[v] /\ req'[v] = req[v]
      PROVE  Pending' /\ StateSpent'
  BY <1>1 DEF Pending, StateSpent, tokens
<1>2. ASSUME NEW w \in Workers, NEW o \in Outcomes, CallbackGetState(w, o)
      PROVE  Pending' /\ StateSpent'
  <2>0. \A v \in Workers : pc[v] = "state_del" => pc'[v] = pc[v] /\ req'[v] = req[v]
    BY <1>2, <1>a DEF CallbackGetState, Goto, Return
  <2>1. CASE o = "ok" /\ req[w].state \in states
    <3>1. /\ states' = states /\ drawn' = drawn /\ used' = used \cup {req[w].state}
          /\ reused' = IF req[w].state \in used THEN reused \cup {req[w].state} ELSE reused
          /\ excused' = IF \E v \in Workers : /\ pc[v] = "state_del"
                                            /\ req[v].state = req[w].state
                        THEN excused \cup {req[w].state} ELSE excused
      BY <1>2, <2>1 DEF CallbackGetState
    <3>2. pc'[w] = "state_del" /\ req'[w].state = req[w].state
      BY <1>2, <2>1, <1>a DEF CallbackGetState, Goto
    <3>3. Pending'
      BY <1>a, <2>0, <2>1, <3>1, <3>2 DEF Pending
    <3>4. StateSpent'
      BY <2>1, <3>1 DEF Pending, StateSpent
    <3> QED BY <3>3, <3>4
  <2>2. CASE ~(o = "ok" /\ req[w].state \in states)
    BY <1>2, <2>2, <2>0, <1>1 DEF CallbackGetState, tokens
  <2> QED BY <2>1, <2>2
<1>3. ASSUME NEW w \in Workers, NEW o \in Outcomes, CallbackDelState(w, o)
      PROVE  Pending' /\ StateSpent'
  <2>1. \A v \in Workers : v # w => pc'[v] = pc[v] /\ req'[v] = req[v]
    BY <1>3, <1>a DEF CallbackDelState, Goto
  <2>2. /\ UNCHANGED <<drawn, used, reused>> /\ states' \subseteq states
        /\ excused \subseteq excused'
        /\ req[w].state \in states' => req[w].state \in excused'
    BY <1>3 DEF CallbackDelState
  <2> QED BY <2>1, <2>2 DEF Pending, StateSpent
<1>4. CASE \E w \in Workers : Step(w)
  BY <1>4, <1>1, <1>2, <1>3, Frames
<1>5. CASE \/ \E s \in States, o \in Outcomes : GoogleAuthURL(s, o)
           \/ \E s \in States : ExpireState(s)
  BY <1>5 DEF GoogleAuthURL, ExpireState, Pending, StateSpent
<1>6. CASE \E u \in UserIds, o \in Outcomes : SoftDelete(u, o)
  BY <1>6, <1>1 DEF SoftDelete
<1>7. CASE UNCHANGED vars
  BY <1>7, <1>1 DEF vars
<1>8. CASE Crash
  BY <1>8 DEF Crash, Pending, StateSpent
<1> QED BY <1>1, <1>4, <1>5, <1>6, <1>7, <1>8, Starts DEF Next

(* A callback links an address it saw without a record, and whoever saw the  *)
(* same before it did is marked as crossing it.                              *)
LEMMA LinksStep ==
  ASSUME TypeOK, Unlinked, LinkOnce, [Next]_vars
  PROVE  Unlinked' /\ LinkOnce'
<1>a. /\ pc \in [Workers -> Calls] /\ req \in [Workers -> Requests]
      /\ links \in [Emails -> [UserIds -> Nat]]
      /\ \A v \in Workers : Fits(pc[v], req[v])
  BY DEF TypeOK, RequestsOK, TableOK
<1>b. \A v \in Workers : pc[v] = "link_insert" =>
         req[v].email \in Emails /\ req[v].user \in UserIds
  BY <1>a DEF Fits, Requests, Linking
<1>1. ASSUME UNCHANGED <<links, crossed>>,
             \A v \in Workers : pc'[v] = "link_insert" =>
                                pc[v] = "link_insert" /\ req'[v] = req[v]
      PROVE  Unlinked' /\ LinkOnce'
  BY <1>1 DEF Unlinked, LinkOnce
<1>2. ASSUME NEW w \in Workers, NEW o \in Outcomes, LinkGet(w, o)
      PROVE  Unlinked' /\ LinkOnce'
  <2>1. /\ UNCHANGED <<links, crossed>>
        /\ \A v \in Workers \ {w} : pc'[v] = pc[v] /\ req'[v] = req[v]
    BY <1>2, <1>a DEF LinkGet, Goto, Return, table, history
  <2>2. pc'[w] = "link_insert" =>
          /\ req'[w] = req[w]
          /\ \A u \in UserIds : ~(links[req[w].email][u] > 0)
    BY <1>2, <1>a DEF LinkGet, Goto, Return
  <2>3. pc[w] = "link_get" /\ req[w].email \in Emails
    BY <1>2, <1>a DEF LinkGet, Fits, Requests, Linking
  <2>4. pc'[w] = "link_insert" => \A u \in UserIds : links[req[w].email][u] = 0
    BY <2>2, <2>3, <1>a
  <2> QED BY <2>1, <2>2, <2>4 DEF Unlinked, LinkOnce
<1>3. ASSUME NEW w \in Workers, NEW o \in Outcomes, LinkInsert(w, o)
      PROVE  Unlinked' /\ LinkOnce'
  <2>1. /\ \A v \in Workers \ {w} : pc'[v] = pc[v] /\ req'[v] = req[v]
        /\ pc'[w] # "link_insert" /\ pc[w] = "link_insert"
    BY <1>3, <1>a DEF LinkInsert, Goto, Return
  <2>2. CASE ~Applied(o)
    <3>1. UNCHANGED <<links, crossed>>
      BY <1>3, <2>2 DEF LinkInsert
    <3> QED BY <2>1, <3>1 DEF Unlinked, LinkOnce
  <2>3. CASE Applied(o)
    <3>1. /\ links' = [links EXCEPT ![req[w].email][req[w].user] = @ + 1]
          /\ crossed \subseteq crossed'
          /\ \A v \in Workers \ {w} :
               pc[v] = "link_insert" /\ req[v].email = req[w].email
                 => req[w].email \in crossed'
      BY <1>3, <2>3 DEF LinkInsert
    <3>2. req[w].email \in Emails /\ req[w].user \in UserIds
      BY <1>b, <2>1
    <3>3. \A e \in Emails, u \in UserIds :
            links'[e][u] = IF e = req[w].email /\ u = req[w].user
                           THEN links[e][u] + 1 ELSE links[e][u]
      BY <1>a, <3>1, <3>2
    <3>4. \A e \in Emails : e # req[w].email => \A u \in UserIds : links'[e][u] = links[e][u]
      BY <3>3
    <3>5. Unlinked'
      BY <1>b, <2>1, <3>1, <3>4 DEF Unlinked
    <3>6. LinkOnce'
      <4> SUFFICES ASSUME NEW e \in Emails \ crossed', NEW u \in UserIds
                   PROVE  links'[e][u] <= 1
        BY DEF LinkOnce
      <4>1. e \notin crossed /\ links[e][u] <= 1 /\ links[e][u] \in Nat
        BY <1>a, <3>1 DEF LinkOnce
      <4>2. e = req[w].email => links[e][u] = 0
        BY <2>1, <4>1 DEF Unlinked
      <4> QED BY <3>3, <4>1, <4>2
    <3> QED BY <3>5, <3>6
  <2> QED BY <2>2, <2>3
<1>4. CASE \E w \in Workers : Step(w)
  BY <1>4, <1>1, <1>2, <1>3, Frames
<1>5. CASE \/ \E s \in States, o \in Outcomes : GoogleAuthURL(s, o)
           \/ \E s \in States : ExpireState(s)
           \/ \E u \in UserIds, o \in Outcomes : SoftDelete(u, o)
           \/ UNCHANGED vars
  BY <1>5, <1>1 DEF GoogleAuthURL, ExpireState, SoftDelete, vars, table, history
<1>6. CASE Crash
  <2>1. UNCHANGED <<links, crossed>> /\ \A v \in Workers : pc'[v] = "idle"
    BY <1>6 DEF Crash, table, history
  <2> QED BY <2>1, <1>1
<1> QED BY <1>1, <1>4, <1>5, <1>6, Starts DEF Next

(* How the account that Google vouched for follows a callback: the exchange  *)
(* finds it live, the lookup goes on to register only when no account of the *)
(* address is live, and nothing else touches it.                             *)
LEMMA VouchFrames ==
  ASSUME TypeOK, [Next]_vars, NEW v \in Workers, req'[v].known # None
  PROVE  \/ /\ req'[v].known = req[v].known /\ req'[v].email = req[v].email
            /\ pc'[v] \in Registering => pc[v] \in Registering
         \/ /\ req'[v].known = req[v].known /\ req'[v].email = req[v].email
            /\ GetByEmail(req[v].email) = {} /\ UNCHANGED row
         \/ /\ pc'[v] = "lookup"
            /\ req'[v].known \in GetByEmail(req'[v].email)
            /\ UNCHANGED <<row, email>>
<1> USE DEF TypeOK, RequestsOK, Request, NoRequest, Registering
<1>1. ASSUME NEW w \in Workers, Step(w)
      PROVE  \/ pc'[v] = pc[v] /\ req'[v] = req[v]
             \/ v = w
  BY <1>1 DEF Step, SeedGetAdmin, RegisterCheckEmail, RegisterCheckUsername, Refuse,
     RegisterInsert, LoginGet, CallbackGetState, CallbackDelState, CallbackExchange,
     CallbackLookup, GoogleRegisters, LinkGet, LinkInsert, CreateSession, Goto, Return,
     Found
<1>2. CASE Step(v)
  <2>0. PICK o \in Outcomes :
          \/ SeedGetAdmin(v, o)
          \/ RegisterCheckEmail(v, o) \/ RegisterCheckUsername(v, o)
          \/ RegisterInsert(v, o) \/ LoginGet(v, o)
          \/ CallbackGetState(v, o) \/ CallbackDelState(v, o)
          \/ \E e \in Emails : CallbackExchange(v, e, o)
          \/ CallbackLookup(v, o) \/ LinkGet(v, o) \/ LinkInsert(v, o)
          \/ CreateSession(v, o)
    BY <1>2 DEF Step
  <2>1. CASE \/ SeedGetAdmin(v, o)
             \/ RegisterCheckEmail(v, o) \/ RegisterCheckUsername(v, o)
    BY <2>1 DEF SeedGetAdmin, RegisterCheckEmail, RegisterCheckUsername, Refuse, Goto, Return
  <2>2. CASE RegisterInsert(v, o)
    BY <2>2 DEF RegisterInsert, Refuse, Found, Return
  <2>3. CASE LoginGet(v, o)
    BY <2>3 DEF LoginGet, Found, Return
  <2>4. CASE \/ CallbackGetState(v, o) \/ CallbackDelState(v, o)
             \/ LinkGet(v, o) \/ LinkInsert(v, o) \/ CreateSession(v, o)
    BY <2>4 DEF CallbackGetState, CallbackDelState, LinkGet, LinkInsert, CreateSession,
       Goto, Return
  <2>5. CASE \E e \in Emails : CallbackExchange(v, e, o)
    BY <2>5 DEF CallbackExchange, Return, table
  <2>6. CASE CallbackLookup(v, o)
    BY <2>6 DEF CallbackLookup, GoogleRegisters, Found, Return, table
  <2> QED BY <2>0, <2>1, <2>2, <2>3, <2>4, <2>5, <2>6
<1>3. CASE \E w \in Workers : Step(w)
  BY <1>1, <1>2, <1>3
<1>4. CASE \/ \E w \in Workers, e \in Emails, n \in Usernames, p \in Passwords :
                RegisterStart(w, e, n, p) \/ SeedStart(w, e, n, p)
           \/ \E w \in Workers, e \in Emails, p \in Passwords : LoginStart(w, e, p)
           \/ \E w \in Workers, s \in States : CallbackStart(w, s)
  BY <1>4 DEF RegisterStart, SeedStart, LoginStart, CallbackStart, Begin
<1>5. CASE \/ \E s \in States, o \in Outcomes : GoogleAuthURL(s, o)
           \/ \E s \in States : ExpireState(s)
           \/ \E u \in UserIds, o \in Outcomes : SoftDelete(u, o)
           \/ Crash
           \/ UNCHANGED vars
  BY <1>5 DEF GoogleAuthURL, ExpireState, SoftDelete, Crash, vars
<1> QED BY <1>3, <1>4, <1>5 DEF Next

(* Only a registration turns somebody away, and only for an account that is  *)
(* live at that moment.                                                      *)
LEMMA RefuseFrames ==
  ASSUME TypeOK, [Next]_vars
  PROVE  \/ refused' = refused
         \/ \E w \in Workers :
              /\ pc[w] \in Registering
              /\ refused' = refused \cup
                             {u \in UserIds : u = req[w].known /\ row[u] = "live"}
<1> USE DEF history, Registering
<1>1. ASSUME NEW w \in Workers, NEW o \in Outcomes,
             \/ RegisterCheckEmail(w, o) \/ RegisterCheckUsername(w, o)
             \/ RegisterInsert(w, o)
      PROVE  \/ refused' = refused
             \/ /\ pc[w] \in Registering
                /\ refused' = refused \cup
                               {u \in UserIds : u = req[w].known /\ row[u] = "live"}
  BY <1>1 DEF RegisterCheckEmail, RegisterCheckUsername, RegisterInsert, Refuse
<1>2. CASE \E w \in Workers : Step(w)
  BY <1>1, <1>2 DEF Step, SeedGetAdmin, LoginGet, CallbackGetState, CallbackDelState,
     CallbackExchange, CallbackLookup, LinkGet, LinkInsert, CreateSession
<1>3. CASE ~\E w \in Workers : Step(w)
  BY <1>3 DEF Next, RegisterStart, SeedStart, LoginStart, CallbackStart, GoogleAuthURL,
     ExpireState, SoftDelete, Crash, vars
<1> QED BY <1>2, <1>3

(* When a callback registers, the account Google vouched for is deleted and  *)
(* stays so: nobody is turned away from a live account.                      *)
LEMMA VouchedStep ==
  ASSUME TypeOK, TypeOK', Vouched, ReturningUserAdmitted, [Next]_vars
  PROVE  Vouched' /\ ReturningUserAdmitted'
<1>a. \A w \in Workers : /\ req[w].known \in UserIds \cup {None}
                         /\ req'[w].known \in UserIds \cup {None}
  BY DEF TypeOK, RequestsOK, Requests
<1>1. ReturningUserAdmitted'
  BY <1>a, RefuseFrames, AccountsAssumption DEF ReturningUserAdmitted, Vouched
<1>2. Vouched'
  <2> SUFFICES ASSUME NEW v \in Workers, req'[v].known # None
               PROVE  /\ row'[req'[v].known] # "absent"
                      /\ email'[req'[v].known] = req'[v].email
                      /\ pc'[v] \in Registering => row'[req'[v].known] = "deleted"
    BY DEF Vouched
  <2>1. CASE req'[v].known = req[v].known /\ req'[v].email = req[v].email
    <3>1. /\ row[req[v].known] # "absent" /\ email[req[v].known] = req[v].email
          /\ pc[v] \in Registering => row[req[v].known] = "deleted"
      BY <2>1 DEF Vouched
    <3>2. CASE pc'[v] \in Registering => pc[v] \in Registering
      BY <1>a, <2>1, <3>1, <3>2, ColumnsStay
    <3>3. CASE GetByEmail(req[v].email) = {} /\ UNCHANGED row
      <4>1. row[req[v].known] = "deleted"
        BY <1>a, <2>1, <3>1, <3>3 DEF GetByEmail, TypeOK, TableOK
      <4> QED BY <1>a, <2>1, <3>1, <4>1, ColumnsStay
    <3>4. CASE /\ pc'[v] = "lookup"
               /\ req'[v].known \in GetByEmail(req'[v].email)
      BY <1>a, <2>1, <3>1, <3>4, ColumnsStay DEF Registering
    <3> QED BY <3>2, <3>3, <3>4, VouchFrames
  <2>2. CASE /\ pc'[v] = "lookup"
             /\ req'[v].known \in GetByEmail(req'[v].email)
             /\ UNCHANGED <<row, email>>
    BY <2>2 DEF GetByEmail, Registering
  <2> QED BY <2>1, <2>2, VouchFrames
<1> QED BY <1>1, <1>2

(* All parts together hold in every reachable state.                         *)
LEMMA Invariance == Spec => []Inv
<1>1. Init => Inv
  <2> SUFFICES ASSUME Init PROVE Inv
    OBVIOUS
  <2>1. TypeOK
    BY AccountsAssumption DEF Init, TypeOK, TableOK, TokensOK, RequestsOK, HistoryOK,
       Requests, Request, NoRequest, Fits, Calls, Registering, Calling, Linking
  <2>2. Unique /\ HandlerKnows /\ PasswordProof /\ Pending /\ StateSpent
    BY DEF Init, Unique, HandlerKnows, Knows, NoRequest, Request, Linking, PasswordProof,
       Pending, StateSpent
  <2>3. Rooted /\ LinkAgreement /\ Unlinked /\ LinkOnce
    BY DEF Init, Rooted, LinkAgreement, Unlinked, LinkOnce
  <2>4. Vouched /\ ReturningUserAdmitted
    BY DEF Init, Vouched, ReturningUserAdmitted, NoRequest, Request
  <2> QED BY <2>1, <2>2, <2>3, <2>4 DEF Inv
<1>2. Inv /\ [Next]_vars => Inv'
  BY TypeStep, UniqueStep, KnowsStep, RecordsStep, StatesStep, LinksStep, VouchedStep
  DEF Inv
<1> QED BY <1>1, <1>2, PTL DEF Spec

-----------------------------------------------------------------------------
(* Theorems *)

(* Whoever Google calls e always comes in as the one account with that       *)
(* address: the callback's lookup, Register and its INSERT may interleave    *)
(* with any others.                                                          *)
THEOREM OneIdentityHolds == Spec => []OneIdentity
<1>1. Inv => OneIdentity
  <2> SUFFICES ASSUME Inv, NEW a \in admitted, NEW b \in admitted
               PROVE  email[a[2]] = a[1] /\ (a[1] = b[1] => a[2] = b[2])
    BY DEF OneIdentity
  <2>1. a[2] \in UserIds /\ b[2] \in UserIds
    BY DEF Inv, TypeOK, HistoryOK
  <2> QED BY <2>1 DEF Inv, Rooted, Unique
<1> QED BY <1>1, Invariance, PTL

(* FindOrCreateSSO never links an address to an account of another address.  *)
THEOREM LinkAgreementHolds == Spec => []LinkAgreement
<1>1. Inv => LinkAgreement
  BY DEF Inv
<1> QED BY <1>1, Invariance, PTL

(* FindOrCreateSSO gives an address a second record only if two callbacks    *)
(* passed its lookup together.                                               *)
THEOREM LinkOnceHolds == Spec => []LinkOnce
<1>1. Inv => LinkOnce
  BY DEF Inv
<1> QED BY <1>1, Invariance, PTL

(* Login gives a session only for the trimmed password the account was       *)
(* registered with, and never for an account made through Google.            *)
THEOREM PasswordProofHolds == Spec => []PasswordProof
<1>1. Inv => PasswordProof
  BY DEF Inv
<1> QED BY <1>1, Invariance, PTL

(* GoogleCallback accepts a state twice only if its DEL failed, came late or *)
(* was cut off.                                                              *)
THEOREM StateSpentHolds == Spec => []StateSpent
<1>1. Inv => StateSpent
  BY DEF Inv
<1> QED BY <1>1, Invariance, PTL

(* Who has an account and comes through Google is turned away only when a    *)
(* call fails, wherever an earlier login of theirs was cut off.              *)
THEOREM ReturningUserAdmittedHolds == Spec => []ReturningUserAdmitted
<1>1. Inv => ReturningUserAdmitted
  BY DEF Inv
<1> QED BY <1>1, Invariance, PTL
=============================================================================
