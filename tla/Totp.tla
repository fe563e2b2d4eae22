-------------------------------- MODULE Totp --------------------------------
(***************************************************************************)
(* TOTPService: Setup stores a fresh secret of a user in Redis for five    *)
(* minutes, Verify reads it, checks a code against it and, if the code is  *)
(* right, deletes it.  SET, GET and DEL are separate calls on one key per  *)
(* user, so requests of one user that overlap meet each other's secrets.   *)
(*                                                                         *)
(* A code is represented by the secret it was computed from.  The library  *)
(* accepts it or not: a right code may come too late for its period.       *)
(***************************************************************************)
EXTENDS Naturals

CONSTANTS
  Users,
  Secrets,   \* the values totp.Generate draws
  Workers,   \* goroutines that may serve such requests at one time
  Outcomes,  \* how a call may end
  None

ASSUME TotpAssumption ==
  /\ None \notin Users \cup Secrets
  /\ Outcomes \subseteq {"ok", "lost", "failed"}

VARIABLES
  key,       \* key[u]: the value of Redis' totp:<u>, None if there is none
  pc,        \* pc[w]: the next call of the handler run by w
  user,      \* user[w]: the authenticated user of its request
  secret,    \* secret[w]: the secret it holds: generated, or read by GET
  code,      \* code[w]: the secret from which the code to verify was computed
  \* History, read by no handler:
  owner,     \* owner[s]: the user for whom s was generated
  shown,     \* secrets that a Setup returned; codes are computed from them
  current,   \* current[u]: the secret of the last SET that was applied
  expired,   \* secrets that expired
  accepted,  \* <<u, s>>: a code of s was right for u
  twice,     \* secrets accepted by more than one request
  excused,   \* secrets whose DEL failed, came late or was cut off by a crash
  exposed    \* secrets stored while a Verify of their user was before its DEL

handlers == <<pc, user, secret, code>>
history  == <<owner, shown, current, expired, accepted, twice, excused, exposed>>
vars     == <<key, handlers, history>>

Holding == {"set", "del"}

TypeOK ==
  /\ key \in [Users -> Secrets \cup {None}]
  /\ pc \in [Workers -> {"idle", "set", "get", "del"}]
  /\ user \in [Workers -> Users \cup {None}]
  /\ secret \in [Workers -> Secrets \cup {None}]
  /\ code \in [Workers -> Secrets \cup {None}]
  /\ \A w \in Workers : /\ pc[w] # "idle" => user[w] # None
                        /\ pc[w] \in Holding => secret[w] # None
  /\ owner \in [Secrets -> Users \cup {None}]
  /\ current \in [Users -> Secrets \cup {None}]
  /\ accepted \subseteq Users \X Secrets
  /\ shown \cup expired \cup twice \cup excused \cup exposed \subseteq Secrets

Init ==
  /\ key = [u \in Users |-> None]
  /\ pc = [w \in Workers |-> "idle"]
  /\ user = [w \in Workers |-> None]
  /\ secret = [w \in Workers |-> None]
  /\ code = [w \in Workers |-> None]
  /\ owner = [s \in Secrets |-> None]
  /\ current = [u \in Users |-> None]
  /\ shown = {} /\ expired = {} /\ accepted = {} /\ twice = {} /\ excused = {}
  /\ exposed = {}

-----------------------------------------------------------------------------
Applied(o) == o # "failed"

(* Auth lets a request in with the user of its access token.                 *)
Begin(w, call, u, s, c) ==
  /\ pc[w] = "idle"
  /\ pc' = [pc EXCEPT ![w] = call]
  /\ user' = [user EXCEPT ![w] = u]
  /\ secret' = [secret EXCEPT ![w] = s]
  /\ code' = [code EXCEPT ![w] = c]

Return(w) ==
  /\ pc' = [pc EXCEPT ![w] = "idle"]
  /\ user' = [user EXCEPT ![w] = None]
  /\ secret' = [secret EXCEPT ![w] = None]
  /\ code' = [code EXCEPT ![w] = None]

(* RedisStore: one key per user.                                             *)
SetTOTPSecret(u, s, o) == key' = IF Applied(o) THEN [key EXCEPT ![u] = s] ELSE key

(* Mutant: the key is built without the user.                                *)
GetTOTPSecretShared(u) == IF \E v \in Users : key[v] # None
                          THEN key[CHOOSE v \in Users : key[v] # None] ELSE None

GetTOTPSecret(u) == key[u]

(* Mutant: the secret is left to expire.                                     *)
DeleteTOTPSecretLater(u, o) == UNCHANGED key

DeleteTOTPSecret(u, o) == key' = IF Applied(o) THEN [key EXCEPT ![u] = None] ELSE key

(* TOTPPresenter.Setup and the generation of the secret.                     *)
SetupStart(w, u, s) ==
  /\ owner[s] = None
  /\ owner' = [owner EXCEPT ![s] = u]
  /\ Begin(w, "set", u, s, None)
  /\ UNCHANGED <<key, shown, current, expired, accepted, twice, excused, exposed>>

(* If the reply is lost the new secret is in force and nobody has seen it.   *)
SetupSet(w, o) ==
  /\ pc[w] = "set"
  /\ SetTOTPSecret(user[w], secret[w], o)
  /\ current' = IF Applied(o) THEN [current EXCEPT ![user[w]] = secret[w]] ELSE current
  /\ exposed' = IF Applied(o) /\ \E v \in Workers : pc[v] = "del" /\ user[v] = user[w]
                THEN exposed \cup {secret[w]} ELSE exposed
  /\ shown' = IF o = "ok" THEN shown \cup {secret[w]} ELSE shown
  /\ Return(w)
  /\ UNCHANGED <<owner, expired, accepted, twice, excused>>

(* TOTPPresenter.Verify, with a code of a secret the caller was shown, of    *)
(* somebody else's, or made up.                                              *)
VerifyStart(w, u, c) ==
  /\ c \in shown \cup {None}
  /\ Begin(w, "get", u, None, c)
  /\ UNCHANGED <<key, history>>

(* Mutant: a wrong code uses the secret up too.                              *)
VerifyGetAlways(w, o) ==
  /\ pc[w] = "get"
  /\ LET s == GetTOTPSecret(user[w])
     IN  IF o = "ok" /\ s # None
         THEN /\ pc' = [pc EXCEPT ![w] = "del"]
              /\ secret' = [secret EXCEPT ![w] = s]
              /\ UNCHANGED <<user, code>>
         ELSE Return(w)
  /\ UNCHANGED <<key, history>>

(* Mutant: a missing key is not an error.                                    *)
VerifyGetMissing(w, o) ==
  /\ pc[w] = "get"
  /\ LET s == GetTOTPSecret(user[w])
     IN  IF o = "ok" /\ code[w] = s
         THEN /\ pc' = [pc EXCEPT ![w] = "del"]
              /\ secret' = [secret EXCEPT ![w] = s]
              /\ accepted' = accepted \cup {<<user[w], s>>}
              /\ UNCHANGED <<user, code>>
         ELSE Return(w) /\ UNCHANGED accepted
  /\ UNCHANGED <<key, owner, shown, current, expired, twice, excused, exposed>>

(* GET and totp.Validate: a missing key is an error like any other, a code   *)
(* that is wrong, or right but late, is answered 401.                        *)
VerifyGet(w, o) ==
  /\ pc[w] = "get"
  /\ LET u == user[w]
         s == GetTOTPSecret(u)
     IN  \/ /\ o = "ok" /\ s # None /\ code[w] = s
            /\ pc' = [pc EXCEPT ![w] = "del"]
            /\ secret' = [secret EXCEPT ![w] = s]
            /\ accepted' = accepted \cup {<<u, s>>}
            /\ twice' = IF <<u, s>> \in accepted THEN twice \cup {s} ELSE twice
            /\ excused' = IF \E v \in Workers : pc[v] = "del" /\ secret[v] = s
                          THEN excused \cup {s} ELSE excused
            /\ UNCHANGED <<user, code>>
         \/ Return(w) /\ UNCHANGED <<accepted, twice, excused>>
  /\ UNCHANGED <<key, owner, shown, current, expired, exposed>>

(* A failed DEL is only logged.  It deletes whatever the key holds by now.   *)
VerifyDel(w, o) ==
  /\ pc[w] = "del"
  /\ DeleteTOTPSecret(user[w], o)
  /\ excused' = IF Applied(o) THEN excused ELSE excused \cup {secret[w]}
  /\ Return(w)
  /\ UNCHANGED <<owner, shown, current, expired, accepted, twice, exposed>>

(* The five minutes are over, or Redis loses the key.                        *)
ExpireSecret(u) ==
  /\ key[u] # None
  /\ key' = [key EXCEPT ![u] = None]
  /\ expired' = expired \cup {key[u]}
  /\ UNCHANGED <<handlers, owner, shown, current, accepted, twice, excused, exposed>>

(* The process dies; a secret it was about to delete stays.                  *)
Crash ==
  /\ pc' = [w \in Workers |-> "idle"]
  /\ user' = [w \in Workers |-> None]
  /\ secret' = [w \in Workers |-> None]
  /\ code' = [w \in Workers |-> None]
  /\ excused' = excused \cup {secret[w] : w \in {v \in Workers : pc[v] = "del"}}
  /\ UNCHANGED <<key, owner, shown, current, expired, accepted, twice, exposed>>

Step(w) == \E o \in Outcomes : SetupSet(w, o) \/ VerifyGet(w, o) \/ VerifyDel(w, o)

Next ==
  \/ \E w \in Workers, u \in Users, s \in Secrets : SetupStart(w, u, s)
  \/ \E w \in Workers, u \in Users, c \in Secrets \cup {None} : VerifyStart(w, u, c)
  \/ \E w \in Workers : Step(w)
  \/ \E u \in Users : ExpireSecret(u)
  \/ Crash

Spec == Init /\ [][Next]_vars

-----------------------------------------------------------------------------
(* Properties *)

(* Verify says yes to a user only for a code of a secret that Setup drew for *)
(* that user and showed, whatever other users' requests do meanwhile.        *)
OwnSecret ==
  \A a \in accepted : owner[a[2]] = a[1] /\ a[2] \in shown

(* A secret is good for one yes: it is accepted again only if its DEL        *)
(* failed, was cut off by a crash, or two requests were between GET and DEL. *)
SpentOnce == twice \subseteq excused

(* The secret that Setup stored last stays in force until it expires or a    *)
(* code of it is accepted.  Wrong codes, other users and failing requests    *)
(* never take it away; only a Verify of the user that had accepted an older  *)
(* secret and not yet sent its DEL can.                                      *)
StaysInForce ==
  \A u \in Users :
    \/ key[u] = current[u]
    \/ current[u] \in expired \cup exposed
    \/ <<u, current[u]>> \in accepted

(* Why they hold: a secret belongs to the user it was drawn for and is not   *)
(* shown before it is stored, by the one Setup that drew it; the key of a    *)
(* user holds the last secret stored or nothing.                             *)
Drawn ==
  /\ \A w \in Workers :
       pc[w] = "set" => owner[secret[w]] = user[w] /\ secret[w] \notin shown
  /\ \A w, v \in Workers :
       pc[w] = "set" /\ pc[v] = "set" /\ secret[w] = secret[v] => w = v
  /\ \A s \in shown : owner[s] # None

Stored ==
  \A u \in Users : key[u] # None => owner[key[u]] = u /\ key[u] = current[u]

(* The code of a request was computed from a secret somebody was shown.      *)
Known == \A w \in Workers : code[w] \in shown \cup {None}

(* A secret that was accepted and is still stored has its DEL on the way, or *)
(* is excused.                                                               *)
Spending ==
  \A u \in Users :
    <<u, key[u]>> \in accepted =>
      \/ key[u] \in excused
      \/ \E w \in Workers : pc[w] = "del" /\ user[w] = u /\ secret[w] = key[u]

(* A DEL on the way can hit only a secret that it may take away.             *)
Covered ==
  \A w \in Workers : pc[w] = "del" =>
    \/ current[user[w]] \in exposed
    \/ <<user[w], current[user[w]]>> \in accepted

Inv == TypeOK /\ Drawn /\ Stored /\ Known /\ Spending /\ Covered
       /\ OwnSecret /\ SpentOnce /\ StaysInForce
=============================================================================
