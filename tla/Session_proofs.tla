--------------------------- MODULE Session_proofs ---------------------------
(***************************************************************************)
(* Proofs about Session for any sets of users, tokens and workers.         *)
(***************************************************************************)
EXTENDS Session, TLAPS

(* The type of every variable is kept by every step of every handler, by     *)
(* expiry and by a crash.                                                    *)
LEMMA TypeStep == TypeOK /\ [Next]_vars => TypeOK'
<1> SUFFICES ASSUME TypeOK, [Next]_vars PROVE TypeOK'
  OBVIOUS
<1> USE NoneAssumption DEF TypeOK, Creating, Refreshing, Revoking, stores, history
<1>1. CASE \E w \in Workers, u \in Users : CreateStart(w, u)
  BY <1>1 DEF CreateStart, Begin
<1>2. CASE \E w \in Workers, t \in RefreshTokens : RefreshStart(w, t)
  BY <1>2 DEF RefreshStart, Begin
<1>3. CASE \E w \in Workers, t \in RefreshTokens : RevokeStart(w, t)
  BY <1>3 DEF RevokeStart, Begin
<1>4. ASSUME NEW w \in Workers, Step(w) PROVE TypeOK'
  <2>1. PICK o \in Outcomes :
          \/ CreateInsert(w, o) \/ CreateSetAccess(w, o) \/ CreateSetRefresh(w, o)
          \/ RefreshGet(w, o) \/ RefreshQuery(w, o) \/ RefreshFill(w, o)
          \/ RefreshSetAccess(w, o) \/ RevokeSelect(w, o) \/ RevokeDelete(w, o)
          \/ RevokeDel(w, o)
    BY <1>4 DEF Step
  <2> USE DEF Applied, Goto, Return, SetRefreshToken, SetAccessToken
  <2>2. CASE CreateInsert(w, o)
    BY <2>2 DEF CreateInsert
  <2>3. CASE CreateSetAccess(w, o)
    BY <2>3 DEF CreateSetAccess
  <2>4. CASE CreateSetRefresh(w, o)
    BY <2>4 DEF CreateSetRefresh
  <2>5. CASE RefreshGet(w, o)
    BY <2>5 DEF RefreshGet
  <2>6. CASE RefreshQuery(w, o)
    BY <2>6 DEF RefreshQuery
  <2>7. CASE RefreshFill(w, o)
    BY <2>7 DEF RefreshFill
  <2>8. CASE RefreshSetAccess(w, o)
    BY <2>8 DEF RefreshSetAccess
  <2>9. CASE RevokeSelect(w, o)
    BY <2>9 DEF RevokeSelect
  <2>10. CASE RevokeDelete(w, o)
    BY <2>10 DEF RevokeDelete
  <2>11. CASE RevokeDel(w, o)
    BY <2>11 DEF RevokeDel
  <2> QED BY <2>1, <2>2, <2>3, <2>4, <2>5, <2>6, <2>7, <2>8, <2>9, <2>10, <2>11
<1>5. CASE \E u \in Users, o \in Outcomes : RevokeAll(u, o)
  BY <1>5 DEF RevokeAll
<1>6. CASE \E t \in RefreshTokens : ExpireRefresh(t)
  BY <1>6 DEF ExpireRefresh
<1>7. CASE \E a \in AccessTokens : ExpireAccess(a)
  BY <1>7 DEF ExpireAccess
<1>8. CASE Crash
  BY <1>8 DEF Crash
<1>9. CASE UNCHANGED vars
  BY <1>9 DEF vars
<1> QED BY <1>1, <1>2, <1>3, <1>4, <1>5, <1>6, <1>7, <1>8, <1>9 DEF Next

(* Type correctness of the session service.                                  *)
THEOREM TypeCorrect == Spec => []TypeOK
<1>1. Init => TypeOK
  BY DEF Init, TypeOK
<1> QED BY <1>1, TypeStep, PTL DEF Spec

(* Each of the safety properties, with what makes them inductive, is kept by *)
(* every step.                                                               *)
LEMMA InvStep == Inv /\ [Next]_vars => Inv'
<1> SUFFICES ASSUME Inv, [Next]_vars PROVE Inv'
  OBVIOUS
<1>0. TypeOK'
  BY TypeStep DEF Inv
<1> USE NoneAssumption, <1>0 DEF Inv, TypeOK, Creating, Refreshing, Revoking,
        stores, history, OwnerAgreement, DurableSession, HandlerKnows, OneCreator,
        Provenance, AfterLogout, ValidateAccess, InFlight
<1>1. CASE \E w \in Workers, u \in Users : CreateStart(w, u)
  BY <1>1 DEF CreateStart, Begin
<1>2. CASE \E w \in Workers, t \in RefreshTokens : RefreshStart(w, t)
  BY <1>2 DEF RefreshStart, Begin
<1>3. CASE \E w \in Workers, t \in RefreshTokens : RevokeStart(w, t)
  BY <1>3 DEF RevokeStart, Begin
<1>4. ASSUME NEW w \in Workers, Step(w) PROVE Inv'
  <2>1. PICK o \in Outcomes :
          \/ CreateInsert(w, o) \/ CreateSetAccess(w, o) \/ CreateSetRefresh(w, o)
          \/ RefreshGet(w, o) \/ RefreshQuery(w, o) \/ RefreshFill(w, o)
          \/ RefreshSetAccess(w, o) \/ RevokeSelect(w, o) \/ RevokeDelete(w, o)
          \/ RevokeDel(w, o)
    BY <1>4 DEF Step
  <2> USE DEF Applied, Goto, Return, SetRefreshToken, SetAccessToken
  <2>2. CASE CreateInsert(w, o)
    BY <2>2 DEF CreateInsert
  <2>3. CASE CreateSetAccess(w, o)
    BY <2>3 DEF CreateSetAccess
  <2>4. CASE CreateSetRefresh(w, o)
    BY <2>4 DEF CreateSetRefresh
  <2>5. CASE RefreshGet(w, o)
    BY <2>5 DEF RefreshGet
  <2>6. CASE RefreshQuery(w, o)
    BY <2>6 DEF RefreshQuery
  <2>7. CASE RefreshFill(w, o)
    BY <2>7 DEF RefreshFill
  <2>8. CASE RefreshSetAccess(w, o)
    BY <2>8 DEF RefreshSetAccess
  <2>9. CASE RevokeSelect(w, o)
    BY <2>9 DEF RevokeSelect
  <2>10. CASE RevokeDelete(w, o)
    BY <2>10 DEF RevokeDelete
  <2>11. CASE RevokeDel(w, o)
    BY <2>11 DEF RevokeDel
  <2> QED BY <2>1, <2>2, <2>3, <2>4, <2>5, <2>6, <2>7, <2>8, <2>9, <2>10, <2>11
<1>5. CASE \E u \in Users, o \in Outcomes : RevokeAll(u, o)
  BY <1>5 DEF RevokeAll
<1>6. CASE \E t \in RefreshTokens : ExpireRefresh(t)
  BY <1>6 DEF ExpireRefresh
<1>7. CASE \E a \in AccessTokens : ExpireAccess(a)
  BY <1>7 DEF ExpireAccess
<1>8. CASE Crash
  BY <1>8 DEF Crash
<1>9. CASE UNCHANGED vars
  BY <1>9 DEF vars
<1> QED BY <1>1, <1>2, <1>3, <1>4, <1>5, <1>6, <1>7, <1>8, <1>9 DEF Next

LEMMA Invariance == Spec => []Inv
<1>1. Init => Inv
  BY DEF Init, Inv, TypeOK, OwnerAgreement, DurableSession, HandlerKnows,
         OneCreator, Provenance, AfterLogout, ValidateAccess, Creating, Refreshing,
         Revoking
<1> QED BY <1>1, InvStep, PTL DEF Spec

(* The four safety properties that the runs check on small instances.        *)

(* A token, wherever it is looked up, leads to the user it was made for.     *)
THEOREM OwnerAgreementHolds == Spec => []OwnerAgreement
BY Invariance, PTL DEF Inv

(* No failure, crash or expiry costs a client its session.                   *)
THEOREM DurableSessionHolds == Spec => []DurableSession
BY Invariance, PTL DEF Inv

(* A logout that no Refresh overlapped leaves the token in neither store.    *)
THEOREM QuietLogoutHolds == Spec => []QuietLogout
<1>1. Inv => QuietLogout
  BY DEF Inv, AfterLogout, QuietLogout
<1> QED BY <1>1, Invariance, PTL

(* A step moves a token forward in its life or leaves it where it is.        *)
LEMMA StatusStep ==
  ASSUME Inv, Inv', [Next]_vars, NEW t \in RefreshTokens
  PROVE  Status(t)' = Status(t) \/ <<Status(t), Status(t)'>> \in Lifecycle!Legal
<1> USE NoneAssumption DEF Inv, TypeOK, Creating, Refreshing, Revoking, Carrying,
        stores, history, OwnerAgreement, HandlerKnows, OneCreator, Provenance,
        InFlight, Status, Lifecycle!Legal
<1>1. CASE \E w \in Workers, u \in Users : CreateStart(w, u)
  BY <1>1 DEF CreateStart, Begin
<1>2. CASE \E w \in Workers, x \in RefreshTokens : RefreshStart(w, x)
  BY <1>2 DEF RefreshStart, Begin
<1>3. CASE \E w \in Workers, x \in RefreshTokens : RevokeStart(w, x)
  BY <1>3 DEF RevokeStart, Begin
<1>4. ASSUME NEW w \in Workers, Step(w)
      PROVE  Status(t)' = Status(t) \/ <<Status(t), Status(t)'>> \in Lifecycle!Legal
  <2>1. PICK o \in Outcomes :
          \/ CreateInsert(w, o) \/ CreateSetAccess(w, o) \/ CreateSetRefresh(w, o)
          \/ RefreshGet(w, o) \/ RefreshQuery(w, o) \/ RefreshFill(w, o)
          \/ RefreshSetAccess(w, o) \/ RevokeSelect(w, o) \/ RevokeDelete(w, o)
          \/ RevokeDel(w, o)
    BY <1>4 DEF Step
  <2> USE DEF Applied, Goto, Return, SetRefreshToken, SetAccessToken
  <2>2. CASE CreateInsert(w, o)
    BY <2>2 DEF CreateInsert
  <2>3. CASE CreateSetAccess(w, o)
    BY <2>3 DEF CreateSetAccess
  <2>4. CASE CreateSetRefresh(w, o)
    BY <2>4 DEF CreateSetRefresh
  <2>5. CASE RefreshGet(w, o)
    BY <2>5 DEF RefreshGet
  <2>6. CASE RefreshQuery(w, o)
    BY <2>6 DEF RefreshQuery
  <2>7. CASE RefreshFill(w, o)
    BY <2>7 DEF RefreshFill
  <2>8. CASE RefreshSetAccess(w, o)
    BY <2>8 DEF RefreshSetAccess
  <2>9. CASE RevokeSelect(w, o)
    BY <2>9 DEF RevokeSelect
  <2>10. CASE RevokeDelete(w, o)
    BY <2>10 DEF RevokeDelete
  <2>11. CASE RevokeDel(w, o)
    BY <2>11 DEF RevokeDel
  <2> QED BY <2>1, <2>2, <2>3, <2>4, <2>5, <2>6, <2>7, <2>8, <2>9, <2>10, <2>11
<1>5. CASE \E u \in Users, o \in Outcomes : RevokeAll(u, o)
  BY <1>5 DEF RevokeAll
<1>6. CASE \E x \in RefreshTokens : ExpireRefresh(x)
  BY <1>6 DEF ExpireRefresh
<1>7. CASE \E a \in AccessTokens : ExpireAccess(a)
  BY <1>7 DEF ExpireAccess
<1>8. CASE Crash
  BY <1>8 DEF Crash
<1>9. CASE UNCHANGED vars
  BY <1>9 DEF vars
<1> QED BY <1>1, <1>2, <1>3, <1>4, <1>5, <1>6, <1>7, <1>8, <1>9 DEF Next

(* An access token appears only for a refresh token that is active or        *)
(* lingering: only a handler that carries the token's user id grants one.    *)
LEMMA GrantStep ==
  ASSUME Inv, [Next]_vars, NEW a \in AccessTokens
  PROVE  \/ from'[a] = from[a]
         \/ from'[a] = None
         \/ /\ from[a] = None
            /\ from'[a] \in RefreshTokens
            /\ Status(from'[a]) \in Lifecycle!Granting
<1> DEFINE Granted(w) == /\ from[a] = None
                         /\ from'[a] = tok[w]
                         /\ pc[w] \in {"c_access", "r_access"}
<1>1. \/ from'[a] = from[a]
      \/ from'[a] = None
      \/ \E w \in Workers : Granted(w)
  <2>1. ASSUME NEW w \in Workers, Step(w)
        PROVE  \/ from'[a] = from[a]
               \/ Granted(w)
    BY <2>1, NoneAssumption
       DEF Step, CreateInsert, CreateSetAccess, CreateSetRefresh, RefreshGet,
           RefreshQuery, RefreshFill, RefreshSetAccess, RevokeSelect, RevokeDelete,
           RevokeDel, SetAccessToken, stores, Inv, TypeOK, Provenance
  <2> QED BY <2>1 DEF Next, vars, stores, CreateStart, RefreshStart, RevokeStart,
               RevokeAll, ExpireRefresh, ExpireAccess, Crash, Inv, TypeOK
<1>2. ASSUME NEW w \in Workers, Granted(w)
      PROVE  tok[w] \in RefreshTokens /\ Status(tok[w]) \in Lifecycle!Granting
  <2>1. tok[w] \in RefreshTokens /\ owner[tok[w]] # None /\ InFlight(tok[w], Carrying)
    BY <1>2, NoneAssumption DEF Inv, TypeOK, HandlerKnows, Creating, InFlight, Carrying
  <2>2. ~InFlight(tok[w], {"insert"})
    BY <1>2 DEF Inv, TypeOK, HandlerKnows, OneCreator, Creating, Refreshing, InFlight
  <2> QED BY <2>1, <2>2 DEF Status, Lifecycle!Granting
<1> QED BY <1>1, <1>2

(* The service implements SessionLifecycle: no interleaving of handlers, no  *)
(* failed call and no crash brings a token back or grants access for a dead  *)
(* one.                                                                      *)
THEOREM Refinement == Spec => LifecycleRefinement
<1>1. Init => Lifecycle!Init
  BY DEF Init, Lifecycle!Init, Status
<1>2. Inv /\ Inv' /\ [Next]_vars => [Lifecycle!Next]_(Lifecycle!vars)
  <2> SUFFICES ASSUME Inv, Inv', [Next]_vars PROVE Lifecycle!Next
    OBVIOUS
  <2>1. Lifecycle!Advance
    BY StatusStep DEF Lifecycle!Advance
  <2>2. Lifecycle!Grants
    BY GrantStep, NoneAssumption DEF Lifecycle!Grants, Inv, TypeOK
  <2> QED BY <2>1, <2>2 DEF Lifecycle!Next
<1> QED BY <1>1, <1>2, Invariance, PTL
     DEF Spec, LifecycleRefinement, Lifecycle!Spec
=============================================================================
