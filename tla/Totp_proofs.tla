---------------------------- MODULE Totp_proofs ----------------------------
(***************************************************************************)
(* Proofs about Totp for any users, secrets and handlers.                  *)
(***************************************************************************)
EXTENDS Totp, TLAPS

(* The type of every variable is kept by every call, expiry and crash.       *)
LEMMA TypeStep == TypeOK /\ [Next]_vars => TypeOK'
<1> SUFFICES ASSUME TypeOK, [Next]_vars PROVE TypeOK'
  OBVIOUS
<1> USE TotpAssumption DEF TypeOK, Holding, handlers, history
<1>1. CASE \E w \in Workers, u \in Users, s \in Secrets : SetupStart(w, u, s)
  BY <1>1 DEF SetupStart, Begin
<1>2. CASE \E w \in Workers, u \in Users, c \in Secrets \cup {None} : VerifyStart(w, u, c)
  BY <1>2 DEF VerifyStart, Begin
<1>3. ASSUME NEW w \in Workers, Step(w) PROVE TypeOK'
  <2>1. PICK o \in Outcomes : SetupSet(w, o) \/ VerifyGet(w, o) \/ VerifyDel(w, o)
    BY <1>3 DEF Step
  <2>2. CASE SetupSet(w, o)
    BY <2>2 DEF SetupSet, SetTOTPSecret, Return
  <2>3. CASE VerifyGet(w, o)
    BY <2>3 DEF VerifyGet, GetTOTPSecret, Return
  <2>4. CASE VerifyDel(w, o)
    BY <2>4 DEF VerifyDel, DeleteTOTPSecret, Return
  <2> QED BY <2>1, <2>2, <2>3, <2>4
<1>4. CASE \E u \in Users : ExpireSecret(u)
  BY <1>4 DEF ExpireSecret
<1>5. CASE Crash
  BY <1>5 DEF Crash
<1>6. CASE UNCHANGED vars
  BY <1>6 DEF vars
<1> QED BY <1>1, <1>2, <1>3, <1>4, <1>5, <1>6 DEF Next

(* Every reachable state of the TOTP service is well-typed.                  *)
THEOREM TypeCorrect == Spec => []TypeOK
<1>1. Init => TypeOK
  BY TotpAssumption DEF Init, TypeOK, Holding
<1> QED BY <1>1, TypeStep, PTL DEF Spec

(* The three safety properties, with what makes them inductive.              *)
LEMMA InvStep == Inv /\ [Next]_vars => Inv'
<1> SUFFICES ASSUME Inv, [Next]_vars PROVE Inv'
  OBVIOUS
<1>0. TypeOK /\ TypeOK'
  BY TypeStep DEF Inv
<1> USE TotpAssumption, <1>0 DEF handlers, history
<1>1. ASSUME NEW w \in Workers, NEW u \in Users, NEW s \in Secrets, SetupStart(w, u, s)
      PROVE  Inv'
  <2> USE <1>1 DEF SetupStart, Begin, TypeOK
  <2>1. Drawn'
    BY DEF Inv, Drawn
  <2>2. Stored' /\ OwnSecret'
    BY DEF Inv, Drawn, Stored, OwnSecret
  <2>3. Known' /\ Spending' /\ Covered'
    BY DEF Inv, Known, Spending, Covered
  <2>4. SpentOnce' /\ StaysInForce'
    BY DEF Inv, SpentOnce, StaysInForce
  <2> QED BY <2>1, <2>2, <2>3, <2>4 DEF Inv
<1>2. ASSUME NEW w \in Workers, NEW u \in Users, NEW c \in Secrets \cup {None},
             VerifyStart(w, u, c)
      PROVE  Inv'
  <2> USE <1>2 DEF VerifyStart, Begin, TypeOK
  <2>1. Drawn' /\ Stored' /\ OwnSecret'
    BY DEF Inv, Drawn, Stored, OwnSecret
  <2>2. Known' /\ Spending' /\ Covered'
    BY DEF Inv, Known, Spending, Covered
  <2>3. SpentOnce' /\ StaysInForce'
    BY DEF Inv, SpentOnce, StaysInForce
  <2> QED BY <2>1, <2>2, <2>3 DEF Inv
<1>3. ASSUME NEW w \in Workers, NEW o \in Outcomes, SetupSet(w, o) PROVE Inv'
  <2> USE <1>3 DEF SetupSet, SetTOTPSecret, Return, Applied
  <2>0. user[w] \in Users /\ secret[w] \in Secrets
    BY DEF TypeOK, Holding
  <2>1. Drawn'
    BY <2>0 DEF Inv, Drawn, TypeOK
  <2>2. Stored' /\ OwnSecret'
    BY <2>0 DEF Inv, Drawn, Stored, OwnSecret, TypeOK
  <2>3. Known'
    BY <2>0 DEF Inv, Known, TypeOK
  <2>4. <<user[w], secret[w]>> \notin accepted
    BY DEF Inv, Drawn, OwnSecret
  <2>5. Spending'
    BY <2>0, <2>4 DEF Inv, Spending, TypeOK
  <2>6. Covered'
    BY <2>0 DEF Inv, Covered, TypeOK
  <2>7. SpentOnce' /\ StaysInForce'
    BY <2>0 DEF Inv, SpentOnce, StaysInForce, TypeOK
  <2> QED BY <2>1, <2>2, <2>3, <2>5, <2>6, <2>7 DEF Inv
<1>4. ASSUME NEW w \in Workers, NEW o \in Outcomes, VerifyGet(w, o) PROVE Inv'
  <2>0. user[w] \in Users /\ pc[w] = "get"
    BY <1>4 DEF TypeOK, VerifyGet
  <2>1. CASE /\ Return(w) /\ UNCHANGED <<accepted, twice, excused>>
             /\ UNCHANGED <<key, owner, shown, current, expired, exposed>>
    <3> USE <2>1 DEF Return
    <3>1. Drawn' /\ Stored' /\ OwnSecret'
      BY <2>0 DEF Inv, Drawn, Stored, OwnSecret, TypeOK
    <3>2. Known' /\ Spending' /\ Covered'
      BY <2>0 DEF Inv, Known, Spending, Covered, TypeOK
    <3>3. SpentOnce' /\ StaysInForce'
      BY DEF Inv, SpentOnce, StaysInForce
    <3> QED BY <3>1, <3>2, <3>3 DEF Inv
  <2>2. CASE /\ key[user[w]] # None /\ code[w] = key[user[w]]
             /\ pc' = [pc EXCEPT ![w] = "del"]
             /\ secret' = [secret EXCEPT ![w] = key[user[w]]]
             /\ accepted' = accepted \cup {<<user[w], key[user[w]]>>}
             /\ twice' = (IF <<user[w], key[user[w]]>> \in accepted
                          THEN twice \cup {key[user[w]]} ELSE twice)
             /\ excused' = (IF \E v \in Workers : pc[v] = "del" /\ secret[v] = key[user[w]]
                            THEN excused \cup {key[user[w]]} ELSE excused)
             /\ UNCHANGED <<user, code, key, owner, shown, current, expired, exposed>>
    <3> USE <2>2
    <3>1. Drawn' /\ Stored' /\ Known'
      BY <2>0 DEF Inv, Drawn, Stored, Known, TypeOK
    <3>2. OwnSecret'
      BY <2>0 DEF Inv, OwnSecret, Stored, Known, TypeOK
    <3>3. Spending'
      BY <2>0 DEF Inv, Spending, TypeOK
    <3>4. Covered'
      BY <2>0 DEF Inv, Covered, Stored, TypeOK
    <3>5. SpentOnce'
      BY <2>0 DEF Inv, SpentOnce, Spending
    <3>6. StaysInForce'
      BY DEF Inv, StaysInForce
    <3> QED BY <3>1, <3>2, <3>3, <3>4, <3>5, <3>6 DEF Inv
  <2> QED BY <1>4, <2>1, <2>2 DEF VerifyGet, GetTOTPSecret
<1>5. ASSUME NEW w \in Workers, NEW o \in Outcomes, VerifyDel(w, o) PROVE Inv'
  <2> USE <1>5 DEF VerifyDel, DeleteTOTPSecret, Return, Applied
  <2>0. user[w] \in Users /\ secret[w] \in Secrets
    BY DEF TypeOK, Holding
  <2>1. Drawn' /\ Stored' /\ OwnSecret' /\ Known'
    BY <2>0 DEF Inv, Drawn, Stored, OwnSecret, Known, TypeOK
  <2>2. Spending'
    BY <2>0 DEF Inv, Spending, OwnSecret, TypeOK
  <2>3. Covered' /\ SpentOnce'
    BY <2>0 DEF Inv, Covered, SpentOnce, TypeOK
  <2>4. StaysInForce'
    BY <2>0 DEF Inv, Covered, StaysInForce, TypeOK
  <2> QED BY <2>1, <2>2, <2>3, <2>4 DEF Inv
<1>6. ASSUME NEW u \in Users, ExpireSecret(u) PROVE Inv'
  <2> USE <1>6 DEF ExpireSecret
  <2>1. Drawn' /\ Stored' /\ OwnSecret' /\ Known'
    BY DEF Inv, Drawn, Stored, OwnSecret, Known, TypeOK
  <2>2. Spending'
    BY DEF Inv, Spending, OwnSecret, TypeOK
  <2>3. Covered' /\ SpentOnce'
    BY DEF Inv, Covered, SpentOnce
  <2>4. StaysInForce'
    BY DEF Inv, Stored, StaysInForce, TypeOK
  <2> QED BY <2>1, <2>2, <2>3, <2>4 DEF Inv
<1>7. ASSUME Crash PROVE Inv'
  <2> USE <1>7 DEF Crash
  <2>1. Drawn' /\ Stored' /\ OwnSecret' /\ Known'
    BY DEF Inv, Drawn, Stored, OwnSecret, Known, TypeOK
  <2>2. Spending'
    BY DEF Inv, Spending, TypeOK
  <2>3. Covered' /\ SpentOnce' /\ StaysInForce'
    BY DEF Inv, Covered, SpentOnce, StaysInForce, TypeOK
  <2> QED BY <2>1, <2>2, <2>3 DEF Inv
<1>8. ASSUME UNCHANGED vars PROVE Inv'
  BY <1>8 DEF vars, Inv, Drawn, Stored, Known, Spending, Covered, OwnSecret, SpentOnce,
              StaysInForce, TypeOK
<1> QED BY <1>1, <1>2, <1>3, <1>4, <1>5, <1>6, <1>7, <1>8 DEF Next, Step

LEMMA Invariance == Spec => []Inv
<1>1. Init => Inv
  BY TotpAssumption DEF Init, Inv, TypeOK, Holding, Drawn, Stored, Known, Spending,
                        Covered, OwnSecret, SpentOnce, StaysInForce
<1> QED BY <1>1, InvStep, PTL DEF Spec

(* However requests of all users overlap, fail and are cut off, Verify says  *)
(* yes to a user only for a secret that Setup drew for that user and showed. *)
THEOREM OwnSecretHolds == Spec => []OwnSecret
<1>1. Inv => OwnSecret
  BY DEF Inv
<1> QED BY <1>1, Invariance, PTL

(* GET and DEL being two calls lets a secret be accepted twice only through  *)
(* an overlap of two requests, a failed DEL or a crash before it.            *)
THEOREM SpentOnceHolds == Spec => []SpentOnce
<1>1. Inv => SpentOnce
  BY DEF Inv
<1> QED BY <1>1, Invariance, PTL

(* A stored secret is taken away only by expiry, by its own acceptance, or   *)
(* by a DEL that was on its way for an older one when it was stored.         *)
THEOREM StaysInForceHolds == Spec => []StaysInForce
<1>1. Inv => StaysInForce
  BY DEF Inv
<1> QED BY <1>1, Invariance, PTL
=============================================================================
