------------------------------ MODULE Accounts ------------------------------
(***************************************************************************)
(* Accounts and how people get into them: registration, login with a       *)
(* password, and login through Google, with the users and sso_providers    *)
(* tables in PostgreSQL and the pending OAuth states in Redis.  Every call *)
(* to a store or to Google is one step of the handler that makes it, and   *)
(* may be applied and acknowledged, applied with its reply lost, or fail.  *)
(*                                                                         *)
(* The session that ends a login is created by session.Service.Create,     *)
(* which module Session models; here it is one step.                       *)
(***************************************************************************)
EXTENDS Naturals

CONSTANTS
  Emails,     \* addresses that pass validateRegisterInput
  Usernames,  \* any non-empty name; a login through Google uses the address
  UserIds,    \* the values uuid.NewV7 draws
  States,     \* the values uuid.New draws for OAuth states
  Workers,    \* goroutines that may serve such requests at one time
  Passwords,  \* the passwords people type
  Outcomes,   \* how a call may end
  None

ASSUME AccountsAssumption ==
  /\ Emails \subseteq Usernames
  /\ Passwords \subseteq {"plain", "other", "padded", "blank", "empty"}
  /\ {"plain", "empty"} \subseteq Passwords
  /\ Outcomes \subseteq {"ok", "lost", "failed"}
  /\ None \notin Usernames \cup UserIds \cup States

VARIABLES
  row,       \* row[u]: "absent", "live" or "deleted" (the column is_deleted)
  email,     \* email[u], username[u], password[u]: the columns of that row;
  username,  \*   password[u] stands for the bcrypt hash of that password
  password,
  links,     \* links[e][u]: rows of sso_providers for Google's e and user u
  states,    \* Redis: the live oauth_state keys
  pc,        \* pc[w]: the next call of the handler run by w
  req,       \* req[w]: its local variables
  \* History, read by nobody:
  drawn,     \* the states ever drawn
  used,      \* states accepted by a callback
  reused,    \* states accepted by more than one
  excused,   \* states whose DEL failed, came late or was cut off by a crash
  admitted,  \* <<e, u>>: a login through Google as e gave a session for u
  entered,   \* <<u, p>>: a login with password p gave a session for u
  refused,   \* accounts whose owner Google vouched for and who was turned away
  crossed    \* addresses linked while another callback had found no link either

table   == <<row, email, username, password, links>>
tokens  == <<states, drawn, used, reused, excused>>
history == <<admitted, entered, refused, crossed>>
vars    == <<table, tokens, pc, req, history>>

(* strings.TrimSpace: "padded" is "plain" with spaces around it and "blank"   *)
(* is nothing but spaces.                                                    *)
TrimSpace(p) ==
  IF p = "padded" THEN "plain" ELSE IF p = "blank" THEN "empty" ELSE p

Registering == {"admin", "email", "username", "insert"}
Calling     == {"state_get", "state_del", "exchange"}
Linking     == {"lookup", "link_get", "link_insert"}

Requests == [state : States \cup {None}, email : Emails \cup {None},
             username : Usernames \cup {None}, password : Passwords,
             user : UserIds \cup {None}, known : UserIds \cup {None}]

Request(s, e, n, p, u, k) == [state |-> s, email |-> e, username |-> n,
                              password |-> p, user |-> u, known |-> k]

NoRequest == Request(None, None, None, "empty", None, None)

Calls == {"idle", "login", "session"} \cup Registering \cup Calling \cup Linking

(* What a request knows before each call.                                    *)
Fits(call, r) ==
  /\ call \in Calling => r.state # None
  /\ call \in Registering \cup Linking \cup {"login"} => r.email # None
  /\ call \in Registering => r.username # None
  /\ call \in {"link_get", "link_insert", "session"} => r.user # None
  /\ call = "session" /\ r.state # None => r.email # None

TableOK ==
  /\ row \in [UserIds -> {"absent", "live", "deleted"}]
  /\ email \in [UserIds -> Emails \cup {None}]
  /\ username \in [UserIds -> Usernames \cup {None}]
  /\ password \in [UserIds -> Passwords]
  /\ \A u \in UserIds : row[u] # "absent" => email[u] # None /\ username[u] # None
  /\ links \in [Emails -> [UserIds -> Nat]]

TokensOK ==
  /\ states \subseteq drawn /\ drawn \subseteq States
  /\ used \subseteq States /\ reused \subseteq States /\ excused \subseteq States

RequestsOK ==
  /\ pc \in [Workers -> Calls]
  /\ req \in [Workers -> Requests]
  /\ \A w \in Workers : Fits(pc[w], req[w])

HistoryOK ==
  /\ admitted \subseteq Emails \X UserIds
  /\ entered \subseteq UserIds \X Passwords
  /\ refused \subseteq UserIds /\ crossed \subseteq Emails

TypeOK == TableOK /\ TokensOK /\ RequestsOK /\ HistoryOK

Init ==
  /\ row = [u \in UserIds |-> "absent"]
  /\ email = [u \in UserIds |-> None]
  /\ username = [u \in UserIds |-> None]
  /\ password = [u \in UserIds |-> "empty"]
  /\ links = [e \in Emails |-> [u \in UserIds |-> 0]]
  /\ pc = [w \in Workers |-> "idle"]
  /\ req = [w \in Workers |-> NoRequest]
  /\ states = {} /\ drawn = {} /\ used = {} /\ reused = {} /\ excused = {}
  /\ admitted = {} /\ entered = {} /\ refused = {} /\ crossed = {}

-----------------------------------------------------------------------------
Applied(o) == o # "failed"

Begin(w, call, r) ==
  /\ pc[w] = "idle"
  /\ pc' = [pc EXCEPT ![w] = call]
  /\ req' = [req EXCEPT ![w] = r]

Goto(w, call) ==
  /\ pc' = [pc EXCEPT ![w] = call]
  /\ UNCHANGED req

(* The answer, whatever its status, ends the request.                        *)
Return(w) ==
  /\ pc' = [pc EXCEPT ![w] = "idle"]
  /\ req' = [req EXCEPT ![w] = NoRequest]

(* A request on its way knows its user from now on.                          *)
Found(w, u, call) ==
  /\ pc' = [pc EXCEPT ![w] = call]
  /\ req' = [req EXCEPT ![w] =
               Request(@.state, @.email, @.username, @.password, u, @.known)]

(* Store.GetByEmail, Store.GetByUsername: live rows only.                    *)
GetByEmail(e) == {u \in UserIds : row[u] = "live" /\ email[u] = e}

GetByUsername(n) == {u \in UserIds : row[u] = "live" /\ username[u] = n}

(* The UNIQUE columns of users, which deleted rows occupy too.               *)
Taken(e, n) ==
  \E u \in UserIds : row[u] # "absent" /\ (email[u] = e \/ username[u] = n)

ViaGoogle(w) == req[w].state # None

(* A request that Google vouched for is refused although its account exists. *)
Refuse(w) ==
  /\ Return(w)
  /\ refused' = refused \cup {u \in UserIds : u = req[w].known /\ row[u] = "live"}

-----------------------------------------------------------------------------
(* user.Service.Register, for the register route and for Google's callback   *)

RegisterStart(w, e, n, p) ==
  /\ p # "empty"
  /\ Begin(w, "email", Request(None, e, n, p, None, None))
  /\ UNCHANGED <<table, tokens, history>>

RegisterCheckEmail(w, o) ==
  /\ pc[w] = "email"
  /\ IF o # "ok" THEN Return(w) /\ UNCHANGED refused
     ELSE IF GetByEmail(req[w].email) # {} THEN Refuse(w)
     ELSE Goto(w, "username") /\ UNCHANGED refused
  /\ UNCHANGED <<table, tokens, admitted, entered, crossed>>

RegisterCheckUsername(w, o) ==
  /\ pc[w] = "username"
  /\ IF o # "ok" THEN Return(w) /\ UNCHANGED refused
     ELSE IF GetByUsername(req[w].username) # {} THEN Refuse(w)
     ELSE Goto(w, "insert") /\ UNCHANGED refused
  /\ UNCHANGED <<table, tokens, admitted, entered, crossed>>

(* Store.Create: a new row, under an id that was never drawn before.         *)
Insert(u, r, o) ==
  /\ row[u] = "absent"
  /\ IF Applied(o)
     THEN /\ row' = [row EXCEPT ![u] = "live"]
          /\ email' = [email EXCEPT ![u] = r.email]
          /\ username' = [username EXCEPT ![u] = r.username]
          /\ password' = [password EXCEPT ![u] = r.password]
     ELSE UNCHANGED <<row, email, username, password>>

(* Mutant: the schema lost its UNIQUE constraints.                           *)
RegisterInsertNotUnique(w, o) ==
  /\ pc[w] = "insert"
  /\ \E u \in UserIds :
       /\ Insert(u, req[w], o)
       /\ IF o = "ok" /\ ViaGoogle(w) THEN Found(w, u, "link_get") ELSE Return(w)
  /\ UNCHANGED <<links, tokens, history>>

(* The INSERT, refused by PostgreSQL when the address or the name is taken.  *)
RegisterInsert(w, o) ==
  /\ pc[w] = "insert"
  /\ \/ /\ Taken(req[w].email, req[w].username)
        /\ IF o = "ok" THEN Refuse(w) ELSE Return(w) /\ UNCHANGED refused
        /\ UNCHANGED <<row, email, username, password>>
     \/ /\ ~Taken(req[w].email, req[w].username)
        /\ \E u \in UserIds :
             /\ Insert(u, req[w], o)
             /\ IF o = "ok" /\ ViaGoogle(w) THEN Found(w, u, "link_get") ELSE Return(w)
        /\ UNCHANGED refused
  /\ UNCHANGED <<links, tokens, admitted, entered, crossed>>

(* The seed command makes sure of the administrator's account, by its name.  *)
ValidateSeed(p) == TrimSpace(p) # "empty"

SeedStart(w, e, n, p) ==
  /\ ValidateSeed(p)
  /\ Begin(w, "admin", Request(None, e, n, p, None, None))
  /\ UNCHANGED <<table, tokens, history>>

SeedGetAdmin(w, o) ==
  /\ pc[w] = "admin"
  /\ IF o = "ok" /\ GetByUsername(req[w].username) = {} THEN Goto(w, "email") ELSE Return(w)
  /\ UNCHANGED <<table, tokens, history>>

(* Store.SoftDelete; no route calls it yet.                                  *)
SoftDelete(u, o) ==
  /\ row[u] = "live"
  /\ row' = IF Applied(o) THEN [row EXCEPT ![u] = "deleted"] ELSE row
  /\ UNCHANGED <<email, username, password, links, tokens, pc, req, history>>

-----------------------------------------------------------------------------
(* SessionPresenter.Login: the password is trimmed, unlike at registration.  *)

(* Mutant: an empty password is not rejected up front.                       *)
LoginStartUnchecked(w, e, p) ==
  /\ Begin(w, "login", Request(None, e, None, p, None, None))
  /\ UNCHANGED <<table, tokens, history>>

LoginStart(w, e, p) ==
  /\ TrimSpace(p) # "empty"
  /\ Begin(w, "login", Request(None, e, None, p, None, None))
  /\ UNCHANGED <<table, tokens, history>>

LoginGet(w, o) ==
  /\ pc[w] = "login"
  /\ \/ \E u \in GetByEmail(req[w].email) :
          /\ o = "ok"
          /\ password[u] = TrimSpace(req[w].password)
          /\ Found(w, u, "session")
     \/ /\ o = "ok" =>
             ~\E u \in GetByEmail(req[w].email) :
                 password[u] = TrimSpace(req[w].password)
        /\ Return(w)
  /\ UNCHANGED <<table, tokens, history>>

-----------------------------------------------------------------------------
(* The way through Google *)

(* sso.Service.GoogleAuthURL, called by GoogleRedirect.                      *)
GoogleAuthURL(s, o) ==
  /\ s \notin drawn
  /\ drawn' = drawn \cup {s}
  /\ states' = IF Applied(o) THEN states \cup {s} ELSE states
  /\ UNCHANGED <<table, used, reused, excused, pc, req, history>>

(* The ten minutes of a state are over, or Redis loses it.                   *)
ExpireState(s) ==
  /\ s \in states
  /\ states' = states \ {s}
  /\ UNCHANGED <<table, drawn, used, reused, excused, pc, req, history>>

CallbackStart(w, s) ==
  /\ s \in drawn
  /\ Begin(w, "state_get", Request(s, None, None, "empty", None, None))
  /\ UNCHANGED <<table, tokens, history>>

CallbackGetState(w, o) ==
  /\ pc[w] = "state_get"
  /\ LET s == req[w].state
     IN  IF o = "ok" /\ s \in states
         THEN /\ Goto(w, "state_del")
              /\ used' = used \cup {s}
              /\ reused' = IF s \in used THEN reused \cup {s} ELSE reused
              /\ excused' = IF \E v \in Workers : pc[v] = "state_del" /\ req[v].state = s
                            THEN excused \cup {s} ELSE excused
         ELSE Return(w) /\ UNCHANGED <<used, reused, excused>>
  /\ UNCHANGED <<table, states, drawn, history>>

(* Mutant: the state is left to expire.                                      *)
CallbackDelStateLater(w, o) ==
  /\ pc[w] = "state_del"
  /\ Goto(w, "exchange")
  /\ UNCHANGED <<table, tokens, history>>

(* A failed DEL is only logged.                                              *)
CallbackDelState(w, o) ==
  /\ pc[w] = "state_del"
  /\ states' = IF Applied(o) THEN states \ {req[w].state} ELSE states
  /\ excused' = IF Applied(o) THEN excused ELSE excused \cup {req[w].state}
  /\ Goto(w, "exchange")
  /\ UNCHANGED <<table, drawn, used, reused, history>>

(* Google says who it is; known is the account of that address, if any.      *)
CallbackExchange(w, e, o) ==
  /\ pc[w] = "exchange"
  /\ IF o = "ok"
     THEN /\ pc' = [pc EXCEPT ![w] = "lookup"]
          /\ \E k \in UserIds \cup {None} :
               /\ IF GetByEmail(e) = {} THEN k = None ELSE k \in GetByEmail(e)
               /\ req' = [req EXCEPT ![w] = Request(@.state, e, None, "empty", None, k)]
     ELSE Return(w)
  /\ UNCHANGED <<table, tokens, history>>

(* Register, with the address as username and an empty password.             *)
GoogleRegisters(w) ==
  /\ pc' = [pc EXCEPT ![w] = "email"]
  /\ req' = [req EXCEPT ![w] = Request(@.state, @.email, @.email, "empty", None, @.known)]

(* Mutant: the account is registered without looking for it first.           *)
CallbackLookupSkipped(w, o) ==
  /\ pc[w] = "lookup"
  /\ GoogleRegisters(w)
  /\ UNCHANGED <<table, tokens, history>>

(* Mutant: the address is looked up among the usernames too.                 *)
CallbackLookupEither(w, o) ==
  /\ pc[w] = "lookup"
  /\ LET found == GetByEmail(req[w].email) \cup GetByUsername(req[w].email)
     IN  \/ \E u \in found : o = "ok" /\ Found(w, u, "link_get")
         \/ /\ o = "ok" /\ found = {}
            /\ GoogleRegisters(w)
         \/ o # "ok" /\ Return(w)
  /\ UNCHANGED <<table, tokens, history>>

(* The account of the address, or a new one.                                 *)
CallbackLookup(w, o) ==
  /\ pc[w] = "lookup"
  /\ \/ \E u \in GetByEmail(req[w].email) : o = "ok" /\ Found(w, u, "link_get")
     \/ /\ o = "ok" /\ GetByEmail(req[w].email) = {}
        /\ GoogleRegisters(w)
     \/ o # "ok" /\ Return(w)
  /\ UNCHANGED <<table, tokens, history>>

(* Mutant: any error of the lookup is taken for ErrProviderNotFound.         *)
LinkGetAnyError(w, o) ==
  /\ pc[w] = "link_get"
  /\ IF o = "ok" /\ \E u \in UserIds : links[req[w].email][u] > 0
     THEN Goto(w, "session") ELSE Goto(w, "link_insert")
  /\ UNCHANGED <<table, tokens, history>>

(* sso.Service.FindOrCreateSSO: the record found is not compared with u.     *)
LinkGet(w, o) ==
  /\ pc[w] = "link_get"
  /\ IF o # "ok" THEN Return(w)
     ELSE IF \E u \in UserIds : links[req[w].email][u] > 0 THEN Goto(w, "session")
     ELSE Goto(w, "link_insert")
  /\ UNCHANGED <<table, tokens, history>>

(* No constraint stands behind the check: a second record is inserted too.   *)
LinkInsert(w, o) ==
  /\ pc[w] = "link_insert"
  /\ links' = IF Applied(o) THEN [links EXCEPT ![req[w].email][req[w].user] = @ + 1]
                            ELSE links
  /\ IF o = "ok" THEN Goto(w, "session") ELSE Return(w)
  /\ crossed' = crossed \cup
       {e \in {req[w].email} : /\ Applied(o)
                              /\ \E v \in Workers \ {w} : /\ pc[v] = "link_insert"
                                                         /\ req[v].email = e}
  /\ UNCHANGED <<row, email, username, password, tokens, admitted, entered, refused>>

-----------------------------------------------------------------------------
(* session.Service.Create and the answer with the two cookies.               *)
CreateSession(w, o) ==
  /\ pc[w] = "session"
  /\ Return(w)
  /\ IF o # "ok" THEN UNCHANGED <<admitted, entered>>
     ELSE IF ViaGoogle(w)
     THEN admitted' = admitted \cup {<<req[w].email, req[w].user>>} /\ UNCHANGED entered
     ELSE entered' = entered \cup {<<req[w].user, req[w].password>>} /\ UNCHANGED admitted
  /\ UNCHANGED <<table, tokens, refused, crossed>>

(* The process dies; a state it was about to delete stays.                   *)
Crash ==
  /\ pc' = [w \in Workers |-> "idle"]
  /\ req' = [w \in Workers |-> NoRequest]
  /\ excused' = excused \cup {req[w].state : w \in {v \in Workers : pc[v] = "state_del"}}
  /\ UNCHANGED <<table, states, drawn, used, reused, history>>

Step(w) ==
  \E o \in Outcomes :
    \/ SeedGetAdmin(w, o)
    \/ RegisterCheckEmail(w, o)
    \/ RegisterCheckUsername(w, o)
    \/ RegisterInsert(w, o)
    \/ LoginGet(w, o)
    \/ CallbackGetState(w, o)
    \/ CallbackDelState(w, o)
    \/ \E e \in Emails : CallbackExchange(w, e, o)
    \/ CallbackLookup(w, o)
    \/ LinkGet(w, o)
    \/ LinkInsert(w, o)
    \/ CreateSession(w, o)

Next ==
  \/ \E w \in Workers, e \in Emails, n \in Usernames, p \in Passwords :
       RegisterStart(w, e, n, p) \/ SeedStart(w, e, n, p)
  \/ \E w \in Workers, e \in Emails, p \in Passwords : LoginStart(w, e, p)
  \/ \E w \in Workers, s \in States : CallbackStart(w, s)
  \/ \E w \in Workers : Step(w)
  \/ \E s \in States, o \in Outcomes : GoogleAuthURL(s, o)
  \/ \E s \in States : ExpireState(s)
  \/ \E u \in UserIds, o \in Outcomes : SoftDelete(u, o)
  \/ Crash

Spec == Init /\ [][Next]_vars

-----------------------------------------------------------------------------
(* Properties *)

(* Whoever Google calls e always comes in as the same account, the one with  *)
(* that address, also when callbacks, registrations and deletions race       *)
(* through the check-then-insert of Register.                                *)
OneIdentity ==
  \A a, b \in admitted : email[a[2]] = a[1] /\ (a[1] = b[1] => a[2] = b[2])

(* A record of sso_providers never ties an address to an account of another  *)
(* address, although FindOrCreateSSO compares nothing and usernames may look *)
(* like addresses.                                                           *)
LinkAgreement ==
  \A e \in Emails, u \in UserIds : links[e][u] > 0 => email[u] = e

(* An address has two records in sso_providers only if two callbacks were    *)
(* between the lookup and the INSERT of FindOrCreateSSO at once; a callback  *)
(* repeated after a crash or a lost reply adds none.                         *)
LinkOnce == \A e \in Emails \ crossed, u \in UserIds : links[e][u] <= 1

(* A state opens the door once: it is accepted again only if its DEL failed, *)
(* was cut off by a crash, or two callbacks were between GET and DEL at once. *)
StateSpent == reused \subseteq excused

(* Who has an account and comes through Google is never turned away unless a *)
(* call fails: a first login that was cut off anywhere can be repeated.      *)
ReturningUserAdmitted == refused = {}

(* A session is given for a password only if, trimmed, it is the one the     *)
(* account was registered with, and never for the empty password that        *)
(* accounts made through Google have.                                        *)
PasswordProof ==
  \A a \in entered : /\ password[a[1]] = TrimSpace(a[2])
                     /\ password[a[1]] # "empty"

(* Why they hold.  A row's columns never change once it exists, and the      *)
(* UNIQUE columns keep two rows apart, so what a handler found stays true:   *)
(* the user it works for has the address Google named, or the password that  *)
(* was typed.                                                                *)
Unique ==
  \A u, v \in UserIds :
    row[u] # "absent" /\ row[v] # "absent" /\ email[u] = email[v] => u = v

Knows(call, r) ==
  /\ r.user # None => row[r.user] # "absent"
  /\ call \in Linking => r.state # None
  /\ call \in {"link_get", "link_insert"} => email[r.user] = r.email
  /\ call = "session" /\ r.state # None => email[r.user] = r.email
  /\ call = "session" /\ r.state = None =>
       password[r.user] = TrimSpace(r.password) /\ password[r.user] # "empty"
  /\ call = "login" => r.state = None /\ TrimSpace(r.password) # "empty"

HandlerKnows == \A w \in Workers : Knows(pc[w], req[w])

Rooted ==
  /\ \A e \in Emails, u \in UserIds : links[e][u] > 0 => row[u] # "absent"
  /\ \A a \in admitted : row[a[2]] # "absent" /\ email[a[2]] = a[1]
  /\ \A a \in entered : row[a[1]] # "absent"

(* Who is about to link an address saw no record of it, and there is still   *)
(* none unless another callback has crossed its way.                         *)
Unlinked ==
  \A w \in Workers : pc[w] = "link_insert" =>
    \/ req[w].email \in crossed
    \/ \A u \in UserIds : links[req[w].email][u] = 0

(* A callback remembers the account that Google vouched for.  When it goes   *)
(* on to register, that account has been deleted since.                      *)
Vouched ==
  \A w \in Workers : LET k == req[w].known IN k # None =>
    /\ row[k] # "absent" /\ email[k] = req[w].email
    /\ pc[w] \in Registering => row[k] = "deleted"

(* A state that was accepted and is still live is about to be deleted, or    *)
(* its second use will be excused.                                           *)
Pending ==
  /\ used \subseteq drawn
  /\ \A s \in used \cap states :
       s \in excused \/ \E w \in Workers : pc[w] = "state_del" /\ req[w].state = s

Inv == /\ TypeOK /\ Unique /\ HandlerKnows /\ Rooted /\ LinkAgreement /\ PasswordProof
       /\ Pending /\ StateSpent /\ Unlinked /\ LinkOnce
       /\ Vouched /\ ReturningUserAdmitted
=============================================================================
