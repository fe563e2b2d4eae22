------------------------ MODULE Organizations_proofs ------------------------
(***************************************************************************)
(* Proofs about Organizations for any users, organizations and handlers.   *)
(***************************************************************************)
EXTENDS Organizations, TLAPS

(* The type of every variable is kept by every statement and by a crash.     *)
LEMMA TypeStep == TypeOK /\ [Next]_vars => TypeOK'
<1> SUFFICES ASSUME TypeOK, [Next]_vars PROVE TypeOK'
  OBVIOUS
<1> USE OrgAssumption DEF TypeOK, Creating, NoRequest, rows, history, seeding
<1>1. CASE \E w \in Workers, u \in Users, n \in Names : CreateStart(w, u, n)
  <2>1. PICK w \in Workers, u \in Users, n \in Names, i \in OrgIds :
          /\ Draw(i, u)
          /\ Begin(w, "insert", [org |-> i, user |-> u, target |-> None])
          /\ team' = (IF n = "Gitfed Team" THEN team \cup {i} ELSE team)
          /\ UNCHANGED <<org, members, seeding, joined, removed, created, faulty>>
    BY <1>1 DEF CreateStart
  <2> QED BY <2>1 DEF Draw, Begin
<1>2. CASE \E w \in Workers, u, v \in Users, i \in OrgIds : AddUserCheck(w, u, i, v)
  BY <1>2 DEF AddUserCheck, Begin
<1>3. ASSUME NEW w \in Workers, Step(w) PROVE TypeOK'
  <2>1. PICK o \in Outcomes :
          \/ CreateInsert(w, o) \/ CreateFounder(w, o) \/ CreateRollback(w, o)
          \/ AddUserInsert(w, o)
    BY <1>3 DEF Step
  <2> USE DEF Applied, Goto, Return, Blame
  <2>2. CASE CreateInsert(w, o)
    <3>1. req[w].org \in OrgIds
      BY <2>2 DEF CreateInsert
    <3>2. CASE o = "ok"
      BY <2>2, <3>1, <3>2 DEF CreateInsert, Create
    <3>3. CASE o # "ok"
      <4>1. /\ UNCHANGED <<team, members, seeding, creator, joined, removed, created>>
            /\ pc' = [pc EXCEPT ![w] = "idle"] /\ req' = [req EXCEPT ![w] = NoRequest]
            /\ org' \in {org, [org EXCEPT ![req[w].org] = "live"]}
            /\ faulty' = faulty \cup {req[w].org}
        BY <2>2, <3>3 DEF CreateInsert, Create
      <4> QED BY <3>1, <4>1
    <3> QED BY <3>2, <3>3
  <2>3. CASE CreateFounder(w, o)
    <3>1. req[w].org \in OrgIds /\ req[w].user \in Users
      BY <2>3 DEF CreateFounder
    <3>2. /\ UNCHANGED <<org, team, seeding, creator, removed, faulty>>
          /\ created' \in {created, created \cup {req[w].org}}
      BY <2>3 DEF CreateFounder
    <3>3. /\ members' \subseteq members \cup {<<req[w].org, req[w].user>>}
          /\ joined' \subseteq joined \cup {<<req[w].org, req[w].user>>}
      BY <2>3 DEF CreateFounder, AddUser
    <3>4. \/ pc' = [pc EXCEPT ![w] = "idle"] /\ req' = [req EXCEPT ![w] = NoRequest]
          \/ pc' = [pc EXCEPT ![w] = "rollback"] /\ req' = req
      BY <2>3 DEF CreateFounder
    <3>5. members' \subseteq OrgIds \X Users /\ joined' \subseteq OrgIds \X Users
      BY <3>1, <3>3
    <3>6. /\ pc' \in [Workers -> {"idle", "add"} \cup Creating]
          /\ req' \in [Workers -> [org : OrgIds \cup {None}, user : Users \cup {None},
                                  target : Users \cup {None}]]
          /\ \A v \in Workers : pc'[v] # "idle" =>
               req'[v].org # None /\ req'[v].user # None
          /\ \A v \in Workers : pc'[v] = "add" => req'[v].target # None
      <4>1. CASE pc' = [pc EXCEPT ![w] = "idle"] /\ req' = [req EXCEPT ![w] = NoRequest]
        BY <4>1
      <4>2. CASE pc' = [pc EXCEPT ![w] = "rollback"] /\ req' = req
        BY <3>1, <4>2
      <4> QED BY <3>4, <4>1, <4>2
    <3> QED BY <3>1, <3>2, <3>5, <3>6
  <2>4. CASE CreateRollback(w, o)
    BY <2>4 DEF CreateRollback, DeleteByID
  <2>5. CASE AddUserInsert(w, o)
    BY <2>5 DEF AddUserInsert, AddUser
  <2> QED BY <2>1, <2>2, <2>3, <2>4, <2>5
<1>4. CASE \E i \in OrgIds, u \in Users : RemoveUser(i, u)
  BY <1>4 DEF RemoveUser
<1>5. ASSUME NEW s \in Seeders, NEW o \in Outcomes, SeedLookup(s, o) PROVE TypeOK'
  BY <1>5 DEF SeedLookup, Looked
<1>6. ASSUME NEW s \in Seeders, NEW o \in Outcomes, SeedInsert(s, o) PROVE TypeOK'
  BY <1>6 DEF SeedInsert, Draw, Create, Blame, Applied
<1>7. ASSUME NEW s \in Seeders, NEW o \in Outcomes, SeedFounder(s, o) PROVE TypeOK'
  BY <1>7 DEF SeedFounder, AddUser, Blame, Applied
<1>8. ASSUME NEW s \in Seeders, SeedCrash(s) PROVE TypeOK'
  BY <1>8 DEF SeedCrash
<1>9. CASE Crash
  BY <1>9 DEF Crash
<1>10. CASE UNCHANGED vars
  BY <1>10 DEF vars
<1> QED
  BY <1>1, <1>2, <1>3, <1>4, <1>5, <1>6, <1>7, <1>8, <1>9, <1>10 DEF Next

(* Type correctness of organizations and their members.                      *)
THEOREM TypeCorrect == Spec => []TypeOK
<1>1. Init => TypeOK
  BY OrgAssumption DEF Init, TypeOK, NoRequest, Creating
<1> QED BY <1>1, TypeStep, PTL DEF Spec

(* Nothing in the tables or in a running handler knows an id not yet drawn.   *)
LEMMA Undrawn ==
  ASSUME Inv, NEW i \in OrgIds, creator[i] = None
  PROVE  /\ org[i] = "absent"
         /\ \A m \in joined : m[1] # i
         /\ i \notin created
         /\ \A s \in Seeders : seedOrg[s] # i
         /\ \A w \in Workers : pc[w] \in Creating \cup {"add"} => req[w].org # i
<1> USE OrgAssumption DEF Inv, TypeOK
<1>1. org[i] = "absent"
  BY DEF Rows
<1>2. \A m \in joined : m[1] # i
  BY <1>1 DEF Rows
<1>3. i \notin created
  BY <1>1 DEF CreatedStays
<1>4. \A s \in Seeders : seedOrg[s] # i
  BY <1>1 DEF Makers
<1>5. ASSUME NEW w \in Workers, pc[w] \in Creating PROVE req[w].org # i
  BY <1>5 DEF Makers, Creating
<1>6. ASSUME NEW w \in Workers, pc[w] = "add" PROVE req[w].org # i
  BY <1>6, <1>2 DEF Vouched
<1> QED BY <1>1, <1>2, <1>3, <1>4, <1>5, <1>6

(* A handler's statement touches no organization but the one it makes, so the *)
(* others stay with their makers.                                            *)
LEMMA OwnStatement ==
  ASSUME TypeOK, Makers, NEW w \in Workers,
         UNCHANGED <<creator, seed, seedOrg>>,
         \A v \in Workers \ {w} : pc'[v] = pc[v] /\ req'[v] = req[v],
         \/ UNCHANGED <<org, created>>
         \/ /\ pc[w] \in Creating
            /\ \A i \in OrgIds : i # req[w].org =>
                 org'[i] = org[i] /\ (i \in created' <=> i \in created),
         \/ pc'[w] \notin Creating
         \/ /\ pc[w] \in Creating /\ pc'[w] # "insert" /\ req'[w] = req[w]
            /\ created' = created /\ org'[req[w].org] = "live"
  PROVE  Makers'
<1>1. ASSUME NEW v \in Workers \ {w}, pc'[v] \in Creating
      PROVE  /\ req'[v].user = creator'[req'[v].org] /\ req'[v].org \notin created'
             /\ \A s \in Seeders : seedOrg'[s] # req'[v].org
             /\ pc'[v] = "insert" => org'[req'[v].org] = "absent"
             /\ pc'[v] # "insert" => org'[req'[v].org] = "live"
  <2>1. req[v].org \in OrgIds
    BY <1>1 DEF TypeOK, Creating
  <2>2. pc[w] \in Creating => req[v].org # req[w].org
    BY <1>1 DEF Makers
  <2> QED BY <1>1, <2>1, <2>2 DEF Makers
<1>2. ASSUME pc'[w] \in Creating
      PROVE  /\ req'[w].user = creator'[req'[w].org] /\ req'[w].org \notin created'
             /\ \A s \in Seeders : seedOrg'[s] # req'[w].org
             /\ pc'[w] # "insert" /\ org'[req'[w].org] = "live"
  BY <1>2 DEF Makers
<1>3. ASSUME NEW u \in Workers, NEW v \in Workers, pc'[u] \in Creating,
             pc'[v] \in Creating, req'[u].org = req'[v].org
      PROVE  u = v
  BY <1>3 DEF Makers
<1>4. ASSUME NEW s \in Seeders, seedOrg'[s] # None
      PROVE  (/\ seed[s] = "founder" /\ creator[seedOrg[s]] = Admin
              /\ org[seedOrg[s]] = "live" /\ seedOrg[s] \notin created
              /\ \A t \in Seeders \ {s} : seedOrg[t] # seedOrg[s])'
  <2>1. pc[w] \in Creating => seedOrg[s] # req[w].org
    BY DEF Makers
  <2>2. seedOrg[s] \in OrgIds
    BY <1>4 DEF TypeOK
  <2> QED BY <1>4, <2>1, <2>2 DEF Makers
<1> QED BY <1>1, <1>2, <1>3, <1>4 DEF Makers

(* It leaves the organization it makes with its founder, to be blamed, or to *)
(* itself, and the others as they were.                                      *)
LEMMA OrphansKept ==
  ASSUME TypeOK, NoOrphans, NEW w \in Workers, UNCHANGED <<creator, seedOrg>>,
         joined \subseteq joined', faulty \subseteq faulty',
         \A v \in Workers \ {w} : pc'[v] = pc[v] /\ req'[v] = req[v],
         \A i \in OrgIds :
           \/ org'[i] = org[i] /\ (pc[w] \notin Creating \/ i # req[w].org)
           \/ org'[i] # "live" \/ <<i, creator[i]>> \in joined' \/ i \in faulty'
           \/ pc'[w] \in Creating /\ req'[w].org = i
  PROVE  NoOrphans'
BY DEF NoOrphans

(* The three safety properties, with what makes them inductive.              *)
LEMMA InvStep == Inv /\ [Next]_vars => Inv'
<1> SUFFICES ASSUME Inv, [Next]_vars PROVE Inv'
  OBVIOUS
<1>0. TypeOK'
  BY TypeStep DEF Inv
<1>a. TypeOK /\ Makers /\ NoOrphans
  BY DEF Inv
<1> USE OrgAssumption, <1>0 DEF Inv, TypeOK, Creating, NoRequest, rows,
        history, seeding, Rows, Makers, Vouched, FounderFirst, CreatedStays, NoOrphans
<1>1. CASE \E w \in Workers, u \in Users, n \in Names : CreateStart(w, u, n)
  <2>1. PICK w \in Workers, u \in Users, i \in OrgIds :
          /\ Draw(i, u)
          /\ Begin(w, "insert", [org |-> i, user |-> u, target |-> None])
          /\ UNCHANGED <<org, members, seeding, joined, removed, created, faulty>>
    BY <1>1 DEF CreateStart
  <2>u. /\ org[i] = "absent" /\ i \notin created /\ \A s \in Seeders : seedOrg[s] # i
        /\ \A m \in joined : m[1] # i
        /\ \A v \in Workers : pc[v] \in Creating \cup {"add"} => req[v].org # i
    BY <2>1, Undrawn DEF Draw
  <2>2. Rows'
    BY <2>1, <2>u DEF Draw, Begin
  <2>3. Makers'
    BY <2>1, <2>u DEF Draw, Begin
  <2>4. Vouched'
    BY <2>1, <2>u DEF Draw, Begin
  <2>5. FounderFirst'
    BY <2>1, <2>u DEF Draw, Begin
  <2>6. CreatedStays'
    BY <2>1, <2>u DEF Draw, Begin
  <2>7. NoOrphans'
    BY <2>1, <2>u DEF Draw, Begin
  <2> QED BY <2>2, <2>3, <2>4, <2>5, <2>6, <2>7 DEF Inv
<1>2. CASE \E w \in Workers, u, v \in Users, i \in OrgIds : AddUserCheck(w, u, i, v)
  <2>1. PICK w \in Workers, i \in OrgIds, u, v \in Users :
          /\ <<i, u>> \in members
          /\ Begin(w, "add", [org |-> i, user |-> u, target |-> v])
          /\ UNCHANGED <<rows, seed, seedOrg, history>>
    BY <1>2 DEF AddUserCheck, GetByUserID
  <2>2. /\ pc[w] = "idle" /\ pc' = [pc EXCEPT ![w] = "add"] /\ req'[w].org = i
        /\ \A x \in Workers \ {w} : req'[x] = req[x]
    BY <2>1 DEF Begin
  <2>3. Rows' /\ FounderFirst' /\ CreatedStays'
    BY <2>1
  <2>4. Makers'
    BY <2>1, <2>2
  <2>5. Vouched'
    <3>1. <<i, creator[i]>> \in joined
      BY <2>1
    <3> QED BY <2>1, <2>2, <3>1
  <2>6. NoOrphans'
    <3>1. UNCHANGED <<org, creator, seedOrg, joined, faulty>> /\ pc[w] \notin Creating
          /\ \A x \in Workers \ {w} : pc'[x] = pc[x] /\ req'[x] = req[x]
      BY <2>1, <2>2
    <3> HIDE DEF Inv, TypeOK, Rows, Makers, Vouched, FounderFirst, CreatedStays, NoOrphans
    <3> QED BY <1>a, <3>1, OrphansKept
  <2> QED BY <2>3, <2>4, <2>5, <2>6 DEF Inv
<1>3. ASSUME NEW w \in Workers, Step(w) PROVE Inv'
  <2>1. PICK o \in Outcomes :
          \/ CreateInsert(w, o) \/ CreateFounder(w, o) \/ CreateRollback(w, o)
          \/ AddUserInsert(w, o)
    BY <1>3 DEF Step
  <2> USE DEF Applied, Goto, Return, Blame
  <2>2. CASE CreateInsert(w, o)
    <3>1. req[w].org \in OrgIds
      BY <2>2 DEF CreateInsert
    <3>2. Rows'
      BY <2>2, <3>1 DEF CreateInsert, Create
    <3>3. Makers'
      <4>1. /\ UNCHANGED <<creator, seed, seedOrg, created>> /\ pc[w] = "insert"
            /\ \A v \in Workers \ {w} : pc'[v] = pc[v] /\ req'[v] = req[v]
        BY <2>2 DEF CreateInsert
      <4>2. \A i \in OrgIds : i # req[w].org => org'[i] = org[i]
        BY <2>2 DEF CreateInsert, Create
      <4>3. \/ pc'[w] = "idle"
            \/ pc'[w] = "founder" /\ req'[w] = req[w] /\ org'[req[w].org] = "live"
        BY <2>2, <3>1 DEF CreateInsert, Create
      <4> HIDE DEF Inv, TypeOK, Rows, Makers, Vouched, FounderFirst, CreatedStays, NoOrphans
      <4> QED BY <1>a, <4>1, <4>2, <4>3, OwnStatement
    <3>4. Vouched'
      BY <2>2, <3>1 DEF CreateInsert, Create
    <3>5. FounderFirst'
      BY <2>2, <3>1 DEF CreateInsert, Create
    <3>6. CreatedStays'
      BY <2>2, <3>1 DEF CreateInsert, Create
    <3>7. NoOrphans'
      <4>1. /\ UNCHANGED <<creator, seedOrg, joined>> /\ faulty \subseteq faulty'
            /\ \A v \in Workers \ {w} : pc'[v] = pc[v] /\ req'[v] = req[v]
        BY <2>2 DEF CreateInsert
      <4>2. \A i \in OrgIds : i # req[w].org => org'[i] = org[i]
        BY <2>2 DEF CreateInsert, Create
      <4>3. req[w].org \in faulty' \/ (pc'[w] = "founder" /\ req'[w] = req[w])
        BY <2>2, <3>1 DEF CreateInsert
      <4> HIDE DEF Inv, TypeOK, Rows, Makers, Vouched, FounderFirst, CreatedStays, NoOrphans
      <4> QED BY <1>a, <4>1, <4>2, <4>3, OrphansKept
    <3> QED BY <3>2, <3>3, <3>4, <3>5, <3>6, <3>7 DEF Inv
  <2>3. CASE CreateFounder(w, o)
    <3>1. req[w].org \in OrgIds /\ req[w].user \in Users
      BY <2>3 DEF CreateFounder
    <3>2. Rows'
      BY <2>3, <3>1 DEF CreateFounder, AddUser, Acceptable
    <3>3. Makers'
      <4>1. /\ UNCHANGED <<org, creator, seed, seedOrg>>
            /\ \A v \in Workers \ {w} : pc'[v] = pc[v] /\ req'[v] = req[v]
        BY <2>3 DEF CreateFounder
      <4>2. \/ pc'[w] = "idle" /\ created' = created \cup {req[w].org}
            \/ pc'[w] = "rollback" /\ req'[w] = req[w] /\ created' = created
        BY <2>3 DEF CreateFounder
      <4>3. pc[w] = "founder"
        BY <2>3 DEF CreateFounder
      <4>4. org[req[w].org] = "live"
        BY <4>3
      <4> HIDE DEF Inv, TypeOK, Rows, Makers, Vouched, FounderFirst, CreatedStays, NoOrphans
      <4> QED BY <1>a, <4>1, <4>2, <4>3, <4>4, OwnStatement, ZenonT(60)
    <3>4. Vouched'
      <4>1. pc'[w] # "add" /\ creator' = creator /\ joined \subseteq joined'
        BY <2>3 DEF CreateFounder, AddUser
      <4>2. \A v \in Workers \ {w} : pc'[v] = pc[v] /\ req'[v] = req[v]
        BY <2>3 DEF CreateFounder
      <4>3. ASSUME NEW v \in Workers, pc'[v] = "add"
            PROVE  <<req'[v].org, creator'[req'[v].org]>> \in joined'
        <5>1. v # w /\ pc[v] = "add" /\ req'[v] = req[v]
          BY <4>1, <4>2, <4>3
        <5>2. <<req[v].org, creator[req[v].org]>> \in joined
          BY <5>1
        <5> QED BY <4>1, <5>1, <5>2
      <4> QED BY <4>3
    <3>5. FounderFirst'
      BY <2>3, <3>1 DEF CreateFounder, AddUser, Acceptable
    <3>6. CreatedStays'
      BY <2>3, <3>1 DEF CreateFounder, AddUser, Acceptable
    <3>7. NoOrphans'
      <4>1. /\ UNCHANGED <<org, creator, seedOrg, faulty>> /\ joined \subseteq joined'
            /\ \A v \in Workers \ {w} : pc'[v] = pc[v] /\ req'[v] = req[v]
        BY <2>3 DEF CreateFounder, AddUser
      <4>2. \/ <<req[w].org, creator[req[w].org]>> \in joined'
            \/ pc'[w] = "rollback" /\ req'[w] = req[w]
        BY <2>3, <3>1 DEF CreateFounder, AddUser, Acceptable
      <4> HIDE DEF Inv, TypeOK, Rows, Makers, Vouched, FounderFirst, CreatedStays, NoOrphans
      <4> QED BY <1>a, <4>1, <4>2, OrphansKept
    <3> QED BY <3>2, <3>3, <3>4, <3>5, <3>6, <3>7 DEF Inv
  <2>4. CASE CreateRollback(w, o)
    <3>1. req[w].org \in OrgIds /\ req[w].org \notin created /\ pc[w] = "rollback"
      BY <2>4 DEF CreateRollback
    <3>2. /\ UNCHANGED <<creator, seed, seedOrg, joined, removed, created>>
          /\ faulty \subseteq faulty'
          /\ pc'[w] = "idle" /\ \A v \in Workers \ {w} : pc'[v] = pc[v] /\ req'[v] = req[v]
      BY <2>4 DEF CreateRollback
    <3>3. /\ \A i \in OrgIds : i # req[w].org => org'[i] = org[i]
          /\ org'[req[w].org] = "deleted" \/ (org' = org /\ req[w].org \in faulty')
          /\ members' \subseteq members
          /\ \A m \in members : m[1] # req[w].org => m \in members'
      BY <2>4, <3>1 DEF CreateRollback, DeleteByID
    <3>4. Rows' /\ CreatedStays'
      BY <3>1, <3>2, <3>3
    <3>5. Vouched' /\ FounderFirst'
      BY <3>2
    <3> HIDE DEF Inv, TypeOK, Rows, Makers, Vouched, FounderFirst, CreatedStays, NoOrphans
    <3>6. Makers'
      BY <1>a, <3>1, <3>2, <3>3, OwnStatement
    <3>7. NoOrphans'
      BY <1>a, <3>1, <3>2, <3>3, OrphansKept
    <3> QED BY <3>4, <3>5, <3>6, <3>7 DEF Inv
  <2>5. CASE AddUserInsert(w, o)
    <3>1. req[w].org \in OrgIds /\ pc[w] = "add"
      BY <2>5 DEF AddUserInsert
    <3>2. /\ UNCHANGED <<org, creator, seed, seedOrg, removed, created, faulty>>
          /\ pc'[w] = "idle" /\ \A v \in Workers \ {w} : pc'[v] = pc[v] /\ req'[v] = req[v]
      BY <2>5 DEF AddUserInsert
    <3>3. PICK new : /\ new \in {{}, {<<req[w].org, req[w].target>>}}
                     /\ new # {} => org[req[w].org] = "live"
                     /\ members' = members \cup new /\ joined' = joined \cup new
      BY <2>5 DEF AddUserInsert, AddUser, Acceptable
    <3>4. Rows' /\ CreatedStays'
      BY <3>1, <3>2, <3>3
    <3>5. Vouched' /\ FounderFirst'
      BY <3>1, <3>2, <3>3
    <3> HIDE DEF Inv, TypeOK, Rows, Makers, Vouched, FounderFirst, CreatedStays, NoOrphans
    <3>6. Makers'
      BY <1>a, <3>1, <3>2, OwnStatement
    <3>7. NoOrphans'
      BY <1>a, <3>1, <3>2, <3>3, OrphansKept
    <3> QED BY <3>4, <3>5, <3>6, <3>7 DEF Inv
  <2> QED BY <2>1, <2>2, <2>3, <2>4, <2>5
<1>4. CASE \E i \in OrgIds, u \in Users : RemoveUser(i, u)
  BY <1>4 DEF RemoveUser
<1>5. ASSUME NEW s \in Seeders, NEW o \in Outcomes, SeedLookup(s, o) PROVE Inv'
  <2>1. UNCHANGED <<rows, pc, req, seedOrg, creator, joined, removed, created, faulty>>
    BY <1>5 DEF SeedLookup
  <2>2. seed[s] # "founder" /\ \A t \in Seeders \ {s} : seed'[t] = seed[t]
    BY <1>5 DEF SeedLookup, Looked
  <2>3. Rows' /\ Vouched' /\ FounderFirst' /\ CreatedStays' /\ NoOrphans'
    BY <2>1
  <2>4. Makers'
    BY <2>1, <2>2
  <2> QED BY <2>3, <2>4
<1>6. ASSUME NEW s \in Seeders, NEW o \in Outcomes, SeedInsert(s, o) PROVE Inv'
  <2>1. PICK i \in OrgIds :
          /\ Draw(i, Admin) /\ Create(i, o) /\ team' = team \cup {i}
          /\ Blame(i, o = "ok")
          /\ seed' = [seed EXCEPT ![s] = IF o = "ok" THEN "founder" ELSE "idle"]
          /\ seedOrg' = [seedOrg EXCEPT ![s] = IF o = "ok" THEN i ELSE None]
          /\ seed[s] = "insert"
          /\ UNCHANGED <<members, pc, req, joined, removed, created>>
    BY <1>6 DEF SeedInsert
  <2>u. /\ org[i] = "absent" /\ i \notin created /\ \A t \in Seeders : seedOrg[t] # i
        /\ \A m \in joined : m[1] # i
        /\ \A v \in Workers : pc[v] \in Creating \cup {"add"} => req[v].org # i
    BY <2>1, Undrawn DEF Draw
  <2>2. Rows'
    BY <2>1, <2>u DEF Draw, Create, Blame, Applied
  <2>3. Makers'
    BY <2>1, <2>u DEF Draw, Create, Blame, Applied
  <2>4. Vouched'
    BY <2>1, <2>u DEF Draw, Create, Blame, Applied
  <2>5. FounderFirst'
    BY <2>1, <2>u DEF Draw, Create, Blame, Applied
  <2>6. CreatedStays'
    BY <2>1, <2>u DEF Draw, Create, Blame, Applied
  <2>7. NoOrphans'
    BY <2>1, <2>u DEF Draw, Create, Blame, Applied
  <2> QED BY <2>2, <2>3, <2>4, <2>5, <2>6, <2>7 DEF Inv
<1>7. ASSUME NEW s \in Seeders, NEW o \in Outcomes, SeedFounder(s, o) PROVE Inv'
  BY <1>7 DEF SeedFounder, AddUser, Acceptable, Blame, Applied
<1>8. ASSUME NEW s \in Seeders, SeedCrash(s) PROVE Inv'
  BY <1>8 DEF SeedCrash
<1>9. CASE Crash
  BY <1>9 DEF Crash
<1>10. CASE UNCHANGED vars
  BY <1>10 DEF vars
<1> QED
  BY <1>1, <1>2, <1>3, <1>4, <1>5, <1>6, <1>7, <1>8, <1>9, <1>10 DEF Next

-----------------------------------------------------------------------------
(* The seed *)

(* A step that draws no id for the seed and blames and removes no less leaves *)
(* a seeded organization excused, or with its administrator; who is about to  *)
(* insert was about to before, and sees no more teams.                        *)
LEMMA SeedsKept ==
  ASSUME Inv, Seeds, TeamOnce, TypeOK', seeded' = seeded, crossed' = crossed,
         team \subseteq team', faulty \subseteq faulty', removed \subseteq removed',
         \A i \in seeded : /\ creator'[i] = creator[i]
                           /\ Excused(i)' \/ org'[i] = org[i]
                           /\ \/ Excused(i)'
                              \/ /\ <<i, Admin>> \in members => <<i, Admin>> \in members'
                                 /\ \A s \in Seeders : seedOrg[s] = i =>
                                      seedOrg'[s] = i \/ <<i, Admin>> \in members',
         \A s \in Seeders : seed'[s] = "insert" =>
           seed[s] = "insert" /\ unseen'[s] = unseen[s],
         \A w \in Workers : \/ pc'[w] \notin Creating
                            \/ pc[w] \in Creating /\ req'[w].org = req[w].org
                            \/ creator[req'[w].org] = None,
         \A i \in seeded : org'[i] = "live" => org[i] = "live"
  PROVE  Seeds' /\ TeamOnce'
<1>1. \A i \in seeded : Excused(i) => Excused(i)'
  BY DEF Excused
<1>2. Seeds'
  <2>1. (seeded \subseteq team)' /\ (\A i \in seeded : creator[i] # None)'
    <3>1. seeded' = seeded /\ \A i \in seeded : creator'[i] = creator[i]
      OBVIOUS
    <3>2. seeded \subseteq team /\ \A i \in seeded : creator[i] # None
      BY DEF Seeds
    <3> QED BY <3>1, <3>2
  <2>2. (\A i \in seeded : \/ Excused(i)
                           \/ /\ org[i] = "live"
                              /\ \/ <<i, Admin>> \in members
                                 \/ \E s \in Seeders : seedOrg[s] = i)'
    <3>1. ASSUME NEW i \in seeded, ~Excused(i)'
          PROVE  /\ org'[i] = "live"
                 /\ \/ <<i, Admin>> \in members'
                    \/ \E s \in Seeders : seedOrg'[s] = i
      <4>1. /\ org[i] = "live"
            /\ <<i, Admin>> \in members \/ \E s \in Seeders : seedOrg[s] = i
        BY <1>1, <3>1 DEF Seeds
      <4>2. org'[i] = org[i]
        BY <3>1
      <4>3. /\ <<i, Admin>> \in members => <<i, Admin>> \in members'
            /\ \A s \in Seeders : seedOrg[s] = i => seedOrg'[s] = i \/ <<i, Admin>> \in members'
        BY <3>1
      <4> QED BY <4>1, <4>2, <4>3
    <3> QED BY <3>1
  <2>3. (\A s \in Seeders : seed[s] = "insert" =>
           \A i \in seeded : Excused(i) \/ i \in unseen[s])'
    BY <1>1 DEF Seeds
  <2>4. (\A w \in Workers : pc[w] \in Creating => req[w].org \notin seeded)'
    BY DEF Seeds
  <2> QED BY <2>1, <2>2, <2>3, <2>4 DEF Seeds
<1>3. TeamOnce'
  BY <1>1 DEF TeamOnce, Excused
<1> QED BY <1>2, <1>3

LEMMA SeedsStep ==
  Inv /\ Inv' /\ Seeds /\ TeamOnce /\ [Next]_vars => Seeds' /\ TeamOnce'
<1> SUFFICES ASSUME Inv, Inv', Seeds, TeamOnce, [Next]_vars PROVE Seeds' /\ TeamOnce'
  OBVIOUS
<1>0. TypeOK /\ TypeOK' /\ Makers
  BY DEF Inv
<1>a. \A w \in Workers : pc[w] \in Creating => req[w].org \notin seeded
  BY DEF Seeds
<1> USE <1>0, OrgAssumption DEF rows, history, seeding
<1>1. CASE \E w \in Workers, u \in Users, n \in Names : CreateStart(w, u, n)
  <2>1. PICK w \in Workers, u \in Users, n \in Names, i \in OrgIds :
          /\ Draw(i, u)
          /\ Begin(w, "insert", [org |-> i, user |-> u, target |-> None])
          /\ team \subseteq team'
          /\ UNCHANGED <<org, members, seeding, removed, faulty>>
    BY <1>1 DEF CreateStart
  <2>2. i \notin seeded /\ creator[i] = None
    BY <2>1 DEF Draw, Seeds
  <2>3. \A j \in seeded : creator'[j] = creator[j]
    BY <2>1, <2>2 DEF Draw, TypeOK
  <2>4. \A v \in Workers : \/ pc'[v] = pc[v] /\ req'[v] = req[v]
                           \/ req'[v].org = i
    BY <2>1 DEF Begin, TypeOK
  <2> QED BY <2>1, <2>2, <2>3, <2>4, SeedsKept
<1>2. CASE \E w \in Workers, u, v \in Users, i \in OrgIds : AddUserCheck(w, u, i, v)
  <2>1. /\ UNCHANGED <<rows, seed, seedOrg, history>>
        /\ \A w \in Workers : pc'[w] \notin Creating \/ (pc'[w] = pc[w] /\ req'[w] = req[w])
    BY <1>2 DEF AddUserCheck, Begin, TypeOK, Creating
  <2> QED BY <2>1, SeedsKept
<1>3. ASSUME NEW w \in Workers, Step(w) PROVE Seeds' /\ TeamOnce'
  <2>1. PICK o \in Outcomes :
          \/ CreateInsert(w, o) \/ CreateFounder(w, o) \/ CreateRollback(w, o)
          \/ AddUserInsert(w, o)
    BY <1>3 DEF Step
  <2>b. /\ UNCHANGED <<team, seeding, creator, removed>>
        /\ faulty \subseteq faulty'
    BY <2>1 DEF CreateInsert, CreateFounder, CreateRollback, AddUserInsert,
       Blame
  <2>c. \/ Return(w)
        \/ pc[w] \in Creating /\ (Goto(w, "founder") \/ Goto(w, "rollback"))
    BY <2>1 DEF CreateInsert, CreateFounder, CreateRollback, AddUserInsert,
       Creating
  <2>d. \A v \in Workers : \/ pc'[v] \notin Creating
                           \/ pc[v] \in Creating /\ req'[v].org = req[v].org
    BY <2>c DEF Goto, Return, TypeOK, Creating
  <2>a. /\ UNCHANGED <<team, seeding, creator, removed>>
        /\ faulty \subseteq faulty'
        /\ \A v \in Workers : \/ pc'[v] \notin Creating
                              \/ pc[v] \in Creating /\ req'[v].org = req[v].org
    BY <2>b, <2>d
  <2>2. CASE CreateInsert(w, o) \/ CreateFounder(w, o) \/ CreateRollback(w, o)
    <3>1. pc[w] \in Creating /\ req[w].org \in OrgIds
      BY <2>2 DEF CreateInsert, CreateFounder, CreateRollback, TypeOK, Creating
    <3>2. \A i \in seeded : /\ org'[i] = org[i]
                            /\ <<i, Admin>> \in members => <<i, Admin>> \in members'
      BY <2>2, <3>1, <1>a DEF CreateInsert, CreateFounder, CreateRollback, Create,
         AddUser, DeleteByID, TypeOK
    <3> QED BY <2>a, <3>2, SeedsKept
  <2>3. CASE AddUserInsert(w, o)
    <3>1. org' = org /\ members \subseteq members'
      BY <2>3 DEF AddUserInsert, AddUser
    <3> QED BY <2>a, <3>1, SeedsKept
  <2> QED BY <2>1, <2>2, <2>3
<1>4. CASE \E i \in OrgIds, u \in Users : RemoveUser(i, u)
  <2>1. PICK i \in OrgIds, u \in Users : RemoveUser(i, u)
    BY <1>4
  <2>2. \A j \in seeded : Excused(j)' \/ (<<j, Admin>> \in members => <<j, Admin>> \in members')
    BY <2>1 DEF RemoveUser, Excused
  <2>3. /\ UNCHANGED <<org, team, pc, req, seeding, creator, faulty>>
        /\ removed \subseteq removed'
    BY <2>1 DEF RemoveUser
  <2> QED BY <2>2, <2>3, SeedsKept
<1>5. ASSUME NEW s \in Seeders, NEW o \in Outcomes, SeedLookup(s, o)
      PROVE  Seeds' /\ TeamOnce'
  <2>1. UNCHANGED <<rows, pc, req, seedOrg, creator, removed, faulty, seeded, crossed>>
    BY <1>5 DEF SeedLookup
  <2>2. \A t \in Seeders \ {s} : seed'[t] = seed[t] /\ unseen'[t] = unseen[t]
    BY <1>5 DEF SeedLookup, Looked, TypeOK
  <2>3. CASE seed'[s] # "insert"
    BY <2>1, <2>2, <2>3, SeedsKept
  <2>4. CASE seed'[s] = "insert"
    <3>1. GetByUserID(Admin) \cap team = {}
      BY <1>5, <2>4 DEF SeedLookup, Looked, TypeOK
    <3>2. unseen'[s] = {seedOrg[t] : t \in Seeders} \ {None}
      BY <1>5, <2>4 DEF SeedLookup, Looked, TypeOK
    <3>3. ASSUME NEW i \in seeded PROVE Excused(i) \/ i \in unseen'[s]
      <4>1. i \in OrgIds /\ i \in team /\ i # None
        BY DEF Seeds, TypeOK
      <4>2. ~(org[i] = "live" /\ <<i, Admin>> \in members)
        BY <3>1, <4>1 DEF GetByUserID
      <4> QED BY <3>2, <4>1, <4>2 DEF Seeds
    <3> QED BY <2>1, <2>2, <3>3 DEF Seeds, TeamOnce, Excused
  <2> QED BY <2>3, <2>4
<1>6. ASSUME NEW s \in Seeders, NEW o \in Outcomes, SeedInsert(s, o)
      PROVE  Seeds' /\ TeamOnce'
  <2>1. PICK i \in OrgIds :
          /\ Draw(i, Admin) /\ Create(i, o) /\ team' = team \cup {i}
          /\ Blame(i, o = "ok") /\ seeded' = seeded \cup {i}
          /\ seed' = [seed EXCEPT ![s] = IF o = "ok" THEN "founder" ELSE "idle"]
          /\ seedOrg' = [seedOrg EXCEPT ![s] = IF o = "ok" THEN i ELSE None]
          /\ crossed' = crossed \cup ({i} \X unseen[s])
          /\ unseen' = [t \in Seeders |->
               IF t # s /\ seed[t] = "insert" THEN unseen[t] \cup {i} ELSE {}]
          /\ seed[s] = "insert"
          /\ UNCHANGED <<members, pc, req, removed>>
    BY <1>6 DEF SeedInsert
  <2>2. i \notin seeded /\ creator[i] = None /\ seedOrg[s] = None
    BY <2>1 DEF Draw, Seeds, Makers
  <2>3. \A j \in seeded : Excused(j) => Excused(j)'
    BY <2>1 DEF Excused, Blame
  <2>4. \A j \in seeded : j # i /\ org'[j] = org[j] /\ creator'[j] = creator[j]
    BY <2>1, <2>2 DEF Draw, Create, TypeOK
  <2>5. Excused(i)' \/ (seedOrg'[s] = i /\ org'[i] = "live")
    BY <2>1 DEF Excused, Blame, Create, Applied, TypeOK
  <2>6. TeamOnce'
    <3>1. \A j \in seeded : Excused(j)' \/ <<i, j>> \in crossed'
      BY <2>1, <2>3 DEF Seeds
    <3>2. crossed \subseteq crossed' /\ seeded' = seeded \cup {i}
      BY <2>1
    <3> QED BY <2>3, <2>4, <3>1, <3>2 DEF TeamOnce, Excused
  <2>7. \A w \in Workers : pc'[w] \in Creating => req'[w].org \notin seeded'
    BY <2>1, <2>2, <1>a, Undrawn
  <2>8. \A j \in seeded' : creator'[j] # None /\ j \in team'
    BY <2>1, <2>2, <2>4 DEF Draw, Seeds, TypeOK
  <2>9. ASSUME NEW j \in seeded
        PROVE  \/ Excused(j)'
               \/ org'[j] = "live" /\ (<<j, Admin>> \in members' \/ \E t \in Seeders : seedOrg'[t] = j)
    <3>1. \A t \in Seeders : seedOrg[t] = j => seedOrg'[t] = j
      BY <2>1, <2>2 DEF TypeOK
    <3> QED BY <2>1, <2>3, <2>4, <3>1 DEF Seeds
  <2>10. ASSUME NEW t \in Seeders, seed'[t] = "insert", NEW j \in seeded'
         PROVE  Excused(j)' \/ j \in unseen'[t]
    <3>1. t # s /\ seed[t] = "insert"
      BY <2>1, <2>10 DEF TypeOK
    <3>2. unseen'[t] = unseen[t] \cup {i}
      BY <2>1, <3>1
    <3> QED BY <2>1, <2>3, <3>1, <3>2 DEF Seeds
  <2> QED BY <2>1, <2>5, <2>6, <2>7, <2>8, <2>9, <2>10 DEF Seeds
<1>7. ASSUME NEW s \in Seeders, NEW o \in Outcomes, SeedFounder(s, o)
      PROVE  Seeds' /\ TeamOnce'
  <2>1. /\ UNCHANGED <<org, team, pc, req, creator, removed, seeded, unseen, crossed>>
        /\ members \subseteq members' /\ faulty \subseteq faulty'
    BY <1>7 DEF SeedFounder, AddUser, Blame
  <2>2. /\ \A t \in Seeders \ {s} : seed'[t] = seed[t] /\ seedOrg'[t] = seedOrg[t]
        /\ seed'[s] = "idle"
    BY <1>7 DEF SeedFounder, TypeOK
  <2>3. seedOrg[s] \in OrgIds /\ org[seedOrg[s]] = "live"
    BY <1>7 DEF SeedFounder, TypeOK, Makers
  <2>4. \A i \in seeded : seedOrg[s] = i => Excused(i)' \/ <<i, Admin>> \in members'
    BY <1>7, <2>3 DEF SeedFounder, AddUser, Acceptable, Blame, Applied, Excused
  <2> QED BY <2>1, <2>2, <2>4, SeedsKept
<1>8. ASSUME NEW s \in Seeders, SeedCrash(s) PROVE Seeds' /\ TeamOnce'
  <2>1. /\ UNCHANGED <<rows, pc, req, creator, removed, seeded, crossed>>
        /\ faulty' = faulty \cup ({seedOrg[s]} \ {None})
    BY <1>8 DEF SeedCrash
  <2>2. /\ \A t \in Seeders \ {s} : /\ seed'[t] = seed[t] /\ seedOrg'[t] = seedOrg[t]
                                    /\ unseen'[t] = unseen[t]
        /\ seed'[s] = "idle"
    BY <1>8 DEF SeedCrash, TypeOK
  <2>3. \A i \in seeded : seedOrg[s] = i => Excused(i)'
    BY <2>1 DEF Excused, TypeOK
  <2> QED BY <2>1, <2>2, <2>3, SeedsKept
<1>9. CASE Crash
  <2>1. /\ UNCHANGED <<rows, seeding, creator, removed>>
        /\ faulty \subseteq faulty' /\ \A w \in Workers : pc'[w] = "idle"
    BY <1>9 DEF Crash
  <2> QED BY <2>1, SeedsKept DEF Creating
<1>10. CASE UNCHANGED vars
  BY <1>10, SeedsKept DEF vars
<1> QED
  BY <1>1, <1>2, <1>3, <1>4, <1>5, <1>6, <1>7, <1>8, <1>9, <1>10 DEF Next

LEMMA Invariance == Spec => []Inv
<1>1. Init => Inv
  BY OrgAssumption DEF Init, Inv, TypeOK, NoRequest, Rows, Makers, Vouched,
     FounderFirst, CreatedStays, NoOrphans, Creating
<1> QED BY <1>1, InvStep, PTL DEF Spec

(* Nobody is in an organization that its founder was never in.               *)
THEOREM FounderFirstHolds == Spec => []FounderFirst
BY Invariance, PTL DEF Inv

(* What Create answered 201 for stays, with its creator in it.               *)
THEOREM CreatedStaysHolds == Spec => []CreatedStays
BY Invariance, PTL DEF Inv

(* A failing membership alone never leaves an organization behind.           *)
THEOREM NoOrphansHolds == Spec => []NoOrphans
BY Invariance, PTL DEF Inv

(* A second seeded team stands for a run of the seed that was cut off, for   *)
(* an administrator who was removed from the first, or for two runs of which *)
(* one looked before the other had come to its end.                          *)
THEOREM TeamOnceHolds == Spec => []TeamOnce
<1>1. Init => Seeds /\ TeamOnce
  BY OrgAssumption DEF Init, Seeds, TeamOnce, Creating
<1> QED BY <1>1, SeedsStep, Invariance, PTL DEF Spec
=============================================================================
