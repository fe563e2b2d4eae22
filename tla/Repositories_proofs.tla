------------------------- MODULE Repositories_proofs -------------------------
(***************************************************************************)
(* Proofs about Repositories for any users, names, ids and handlers, and   *)
(* any way in which SanitizeRepoPath merges names into directories.        *)
(***************************************************************************)
EXTENDS Repositories, TLAPS

(* Marking a row deleted, at the end of Delete or to roll a Create back,     *)
(* leaves a row that has a name and an owner.                                *)
LEMMA SoftDeleteKeeps ==
  ASSUME TypeOK, Drawn, NEW w \in Workers, pc[w] # "idle",
         NEW o \in Outcomes, SoftDelete(repo[w], o)
  PROVE  /\ row' \in [RepoIds -> {"absent", "live", "deleted"}]
         /\ \A i \in RepoIds : row'[i] # "absent" => name[i] \in Names /\ owner[i] \in Users
<1>1. repo[w] \in RepoIds /\ name[repo[w]] \in Names /\ owner[repo[w]] \in Users
  BY DEF TypeOK, Drawn
<1> QED BY <1>1 DEF TypeOK, SoftDelete, SoftDeleteRepository, Applied

(* Every step of Create, of Delete and of the seed command, and every crash, *)
(* keeps the invariant.  Types come first in each case: that a row has a     *)
(* name needs Drawn, so TypeOK is not inductive alone.                       *)
LEMMA InvStep == Inv /\ [Next]_vars => Inv'
<1> SUFFICES ASSUME Inv, [Next]_vars PROVE Inv'
  OBVIOUS
<1> USE RepoAssumption DEF Inv, table, history, seeding, Creating, Deleting
<1>1. ASSUME NEW w \in Workers, NEW u \in Users, NEW n \in Names,
             CreateStart(w, u, n)
      PROVE  Inv'
  <2>i. PICK i \in RepoIds :
         /\ Fresh(i)
         /\ pc[w] = "idle"
         /\ pc' = [pc EXCEPT ![w] = "insert"]
         /\ repo' = [repo EXCEPT ![w] = i]
         /\ user' = [user EXCEPT ![w] = u]
         /\ name' = [name EXCEPT ![i] = n]
         /\ owner' = [owner EXCEPT ![i] = u]
         /\ adopted' = [adopted EXCEPT ![i] = Exists(n)]
         /\ UNCHANGED <<row, bare, seeding, answer, raced, faulty, asked>>
    BY <1>1 DEF CreateStart
  <2>n. /\ name[i] = None /\ row[i] = "absent" /\ i \notin seeded
        /\ \A v \in Workers : pc[v] # "idle" => repo[v] # i
    BY <2>i DEF Fresh, Drawn, TypeOK
  <2> USE <2>i, <2>n
  <2>1. TypeOK'
    BY DEF TypeOK, Exists
  <2>2. Drawn' /\ Makers'
    BY <2>1, SMTT(30) DEF Drawn, Makers, TypeOK
  <2>3. Deleters' /\ Seeds'
    BY <2>1 DEF Deleters, Seeds
  <2>4. Writers' /\ NeverAdopts'
    BY <2>1 DEF Drawn, Writers, NeverAdopts, TypeOK, Exists, Served
  <2>5. ListedAccounted'
    BY <2>1 DEF ListedAccounted, ListByOwner, GetRepositoryByOwnerId, Exists
  <2>6. OwnerDeletes' /\ SeedOnce'
    BY <2>1 DEF OwnerDeletes, SeedOnce
  <2> QED BY <2>1, <2>2, <2>3, <2>4, <2>5, <2>6
<1>2. ASSUME NEW w \in Workers, NEW u \in Users, NEW i \in RepoIds,
             DeleteStart(w, u, i)
      PROVE  Inv'
  <2> USE <1>2 DEF DeleteStart
  <2>1. TypeOK'
    BY DEF Drawn, TypeOK
  <2>2. Drawn' /\ Makers'
    BY <2>1, SMTT(30) DEF Drawn, Makers, TypeOK
  <2>3. Deleters' /\ Seeds'
    BY <2>1, SMTT(30) DEF Deleters, Seeds, TypeOK
  <2>4. Writers' /\ NeverAdopts'
    BY <2>1 DEF Writers, NeverAdopts, Exists, Served
  <2>5. ListedAccounted'
    BY <2>1 DEF ListedAccounted, ListByOwner, GetRepositoryByOwnerId, Exists
  <2>6. OwnerDeletes' /\ SeedOnce'
    BY <2>1 DEF OwnerDeletes, SeedOnce
  <2> QED BY <2>1, <2>2, <2>3, <2>4, <2>5, <2>6
<1>3. ASSUME NEW w \in Workers, NEW o \in Outcomes, CreateInsert(w, o) PROVE Inv'
  <2> USE <1>3 DEF CreateInsert, CreateRepository, Goto, Reply, Return, Blame, Applied
  <2>1. TypeOK'
    BY DEF Drawn, TypeOK
  <2>2. Drawn' /\ Makers'
    BY <2>1, SMTT(30) DEF Drawn, Makers, TypeOK
  <2>3. Deleters' /\ Seeds'
    BY <2>1, SMTT(30) DEF Makers, Deleters, Seeds, TypeOK
  <2>4. Writers' /\ NeverAdopts'
    BY <2>1 DEF Writers, NeverAdopts, TypeOK, Exists, Served, SanitizeRepoPath
  <2>5. ListedAccounted'
    BY <2>1 DEF ListedAccounted, TypeOK, ListByOwner, GetRepositoryByOwnerId,
           Exists
  <2>6. OwnerDeletes' /\ SeedOnce'
    BY <2>1, SMTT(30) DEF Makers, OwnerDeletes, SeedOnce, TypeOK
  <2> QED BY <2>1, <2>2, <2>3, <2>4, <2>5, <2>6
<1>4. ASSUME NEW w \in Workers, NEW o \in Outcomes, InitCheck(w, o) PROVE Inv'
  <2> USE <1>4 DEF InitCheck, Goto
  <2>1. TypeOK'
    BY DEF Drawn, TypeOK
  <2>2. Drawn' /\ Makers'
    BY <2>1 DEF Drawn, Makers
  <2>3. Deleters' /\ Seeds'
    BY <2>1 DEF Deleters, Seeds
  <2>4. Writers' /\ NeverAdopts'
    BY <2>1, SMTT(30) DEF Writers, NeverAdopts, TypeOK, Exists, Served
  <2>5. ListedAccounted'
    BY <2>1 DEF ListedAccounted, ListByOwner, GetRepositoryByOwnerId, Exists
  <2>6. OwnerDeletes' /\ SeedOnce'
    BY <2>1 DEF OwnerDeletes, SeedOnce
  <2> QED BY <2>1, <2>2, <2>3, <2>4, <2>5, <2>6
<1>5. ASSUME NEW w \in Workers, NEW o \in Outcomes, InitWrite(w, o) PROVE Inv'
  <2> USE <1>5 DEF InitWrite, SanitizeRepoPath, Racing, Goto, Reply, Return, Applied
  <2>1. TypeOK'
    <3>1. repo[w] \in RepoIds /\ SanitizeRepoPath(name[repo[w]]) \in Names
      BY DEF Drawn, TypeOK
    <3>2. Racing(w) \subseteq RepoIds
      BY DEF TypeOK
    <3>3. bare' \subseteq Names /\ raced' \in [RepoIds -> SUBSET RepoIds]
      BY <3>1, <3>2 DEF TypeOK
    <3>4. /\ pc' \in [Workers -> {"idle"} \cup Creating \cup Deleting]
          /\ repo' \in [Workers -> RepoIds \cup {None}]
          /\ user' \in [Workers -> Users \cup {None}]
          /\ answer' \in [RepoIds -> {"none", "201", "409", "500"}]
          /\ \A v \in Workers : pc'[v] # "idle" => repo'[v] \in RepoIds
      <4>1. CASE o = "ok"
        BY <3>1, <4>1, SMTT(30) DEF TypeOK
      <4>2. CASE o # "ok"
        BY <3>1, <4>2, SMTT(30) DEF TypeOK
      <4> QED BY <4>1, <4>2
    <3> QED BY <3>3, <3>4 DEF TypeOK
  <2>2. Drawn' /\ Makers'
    <3>1. /\ UNCHANGED <<row, name, owner, seeded, asked, adopted>> /\ pc[w] = "write"
          /\ repo[w] \in RepoIds
          /\ \A v \in Workers \ {w} : pc'[v] = pc[v] /\ repo'[v] = repo[v]
          /\ \A i \in RepoIds : i # repo[w] => answer'[i] = answer[i]
      BY DEF TypeOK
    <3>2. pc'[w] = "idle" \/ (pc'[w] = "rollback" /\ repo'[w] = repo[w] /\ answer' = answer)
      BY DEF TypeOK
    <3> HIDE <1>5
    <3>3. Drawn'
      BY <3>1, <3>2 DEF Drawn, TypeOK
    <3>4. Makers'
      BY <3>1, <3>2 DEF Makers, TypeOK
    <3> QED BY <3>3, <3>4
  <2>3. Deleters' /\ Seeds'
    BY <2>1, SMTT(30) DEF Deleters, Seeds, TypeOK
  <2>4. Writers' /\ NeverAdopts'
    BY <2>1, SMTT(30) DEF Writers, NeverAdopts, TypeOK, Exists, Served
  <2>5. ListedAccounted'
    BY <2>1, SMTT(30) DEF Makers, ListedAccounted, TypeOK, ListByOwner,
           GetRepositoryByOwnerId, Exists
  <2>6. OwnerDeletes' /\ SeedOnce'
    BY <2>1, SMTT(30) DEF Makers, OwnerDeletes, SeedOnce, TypeOK
  <2> QED BY <2>1, <2>2, <2>3, <2>4, <2>5, <2>6
<1>6. ASSUME NEW w \in Workers, NEW o \in Outcomes, CreateRollback(w, o) PROVE Inv'
  <2> USE <1>6 DEF CreateRollback, SoftDelete, SoftDeleteRepository,
                   Goto, Reply, Return, Applied
  <2>0. /\ row' \in [RepoIds -> {"absent", "live", "deleted"}]
        /\ \A i \in RepoIds : row'[i] # "absent" => name[i] \in Names /\ owner[i] \in Users
    BY SoftDeleteKeeps
  <2>1. TypeOK'
    BY <2>0 DEF TypeOK
  <2>2. Drawn' /\ Makers'
    BY <2>1, SMTT(30) DEF Drawn, Makers, TypeOK
  <2>3. Deleters' /\ Seeds'
    BY <2>1, SMTT(30) DEF Deleters, Seeds, TypeOK
  <2>4. Writers' /\ NeverAdopts'
    BY <2>1, SMTT(30) DEF Writers, NeverAdopts, TypeOK, Exists, Served
  <2>5. ListedAccounted'
    BY <2>1 DEF ListedAccounted, TypeOK, ListByOwner, GetRepositoryByOwnerId,
           Exists
  <2>6. OwnerDeletes' /\ SeedOnce'
    BY <2>1, SMTT(30) DEF Makers, OwnerDeletes, SeedOnce, TypeOK
  <2> QED BY <2>1, <2>2, <2>3, <2>4, <2>5, <2>6
<1>7. ASSUME NEW w \in Workers, NEW o \in Outcomes, CreateFallback(w, o) PROVE Inv'
  <2> USE <1>7 DEF CreateFallback, SoftDelete, SoftDeleteRepository,
                   Reply, Return, Blame, Applied
  <2>0. /\ row' \in [RepoIds -> {"absent", "live", "deleted"}]
        /\ \A i \in RepoIds : row'[i] # "absent" => name[i] \in Names /\ owner[i] \in Users
    BY SoftDeleteKeeps
  <2>1. TypeOK'
    BY <2>0 DEF TypeOK
  <2>2. Drawn' /\ Makers'
    BY <2>1, SMTT(30) DEF Drawn, Makers, TypeOK
  <2>3. Deleters' /\ Seeds'
    BY <2>1 DEF Deleters, Seeds
  <2>4. Writers' /\ NeverAdopts'
    BY <2>1 DEF Writers, NeverAdopts, Exists, Served
  <2>5. ListedAccounted'
    BY <2>1 DEF ListedAccounted, TypeOK, ListByOwner, GetRepositoryByOwnerId,
           Exists
  <2>6. OwnerDeletes' /\ SeedOnce'
    BY <2>1 DEF OwnerDeletes, SeedOnce, TypeOK
  <2> QED BY <2>1, <2>2, <2>3, <2>4, <2>5, <2>6
<1>8. ASSUME NEW w \in Workers, NEW o \in Outcomes, DeleteGet(w, o) PROVE Inv'
  <2> USE <1>8 DEF DeleteGet, Goto, Return
  <2>1. TypeOK'
    BY DEF Drawn, TypeOK
  <2>2. Drawn' /\ Makers'
    BY <2>1, SMTT(30) DEF Drawn, Makers, TypeOK
  <2>3. Deleters' /\ Seeds'
    BY <2>1, SMTT(30) DEF Deleters, Seeds, TypeOK
  <2>4. Writers' /\ NeverAdopts'
    BY <2>1, SMTT(30) DEF Writers, NeverAdopts, TypeOK, Exists, Served
  <2>5. ListedAccounted'
    BY <2>1 DEF ListedAccounted, TypeOK, ListByOwner, GetRepositoryByOwnerId,
           Exists
  <2>6. OwnerDeletes' /\ SeedOnce'
    BY <2>1 DEF OwnerDeletes, SeedOnce
  <2> QED BY <2>1, <2>2, <2>3, <2>4, <2>5, <2>6
<1>9. ASSUME NEW w \in Workers, NEW o \in Outcomes, DeleteSoft(w, o) PROVE Inv'
  <2> USE <1>9 DEF DeleteSoft, SoftDelete, SoftDeleteRepository, Return, Applied
  <2>0. /\ row' \in [RepoIds -> {"absent", "live", "deleted"}]
        /\ \A i \in RepoIds : row'[i] # "absent" => name[i] \in Names /\ owner[i] \in Users
    BY SoftDeleteKeeps
  <2>1. TypeOK'
    BY <2>0 DEF TypeOK
  <2>2. Drawn' /\ Makers'
    <3>1. Drawn'
      BY <2>1 DEF Drawn, TypeOK
    <3>2. repo[w] \in asked /\ row[repo[w]] # "absent"
      BY DEF Deleters
    <3>3. \A i \in RepoIds : row'[i] = row[i] \/ (i \in asked /\ row[i] # "absent")
      BY <3>2 DEF TypeOK
    <3>4. Makers'
      BY <2>1, <3>3 DEF Makers, TypeOK
    <3> QED BY <3>1, <3>4
  <2>3. Deleters' /\ Seeds'
    BY <2>1, SMTT(30) DEF Deleters, Seeds, TypeOK
  <2>4. Writers' /\ NeverAdopts'
    BY <2>1 DEF Writers, NeverAdopts, Exists, Served
  <2>5. ListedAccounted'
    BY <2>1 DEF ListedAccounted, ListByOwner, GetRepositoryByOwnerId, Exists
  <2>6. OwnerDeletes' /\ SeedOnce'
    BY <2>1 DEF Deleters, OwnerDeletes, SeedOnce
  <2> QED BY <2>1, <2>2, <2>3, <2>4, <2>5, <2>6
<1>10. ASSUME NEW s \in Seeders, NEW o \in Outcomes, SeedLookup(s, o) PROVE Inv'
  <2> USE <1>10 DEF SeedLookup
  <2>1. TypeOK'
    BY DEF Drawn, TypeOK
  <2>2. Drawn' /\ Makers'
    BY <2>1 DEF Drawn, Makers
  <2>3. Deleters' /\ Seeds'
    BY <2>1 DEF Deleters, Seeds, TypeOK, GetByName,
           GetRepositoryByRepositoryName
  <2>4. Writers' /\ NeverAdopts'
    BY <2>1 DEF Writers, NeverAdopts, Exists, Served
  <2>5. ListedAccounted'
    BY <2>1 DEF ListedAccounted, ListByOwner, GetRepositoryByOwnerId, Exists
  <2>6. OwnerDeletes' /\ SeedOnce'
    BY <2>1 DEF OwnerDeletes, SeedOnce
  <2> QED BY <2>1, <2>2, <2>3, <2>4, <2>5, <2>6
<1>11. ASSUME NEW s \in Seeders, NEW o \in Outcomes, SeedInsert(s, o) PROVE Inv'
  <2>i. PICK i \in RepoIds :
         /\ Fresh(i)
         /\ seed[s] = "insert"
         /\ seed' = [seed EXCEPT ![s] = "idle"]
         /\ name' = [name EXCEPT ![i] = Hello]
         /\ owner' = [owner EXCEPT ![i] = Admin]
         /\ row' = IF Applied(o) THEN CreateRepository(i) ELSE row
         /\ Crossing(s, i)
         /\ UNCHANGED <<bare, pc, repo, user, answer, adopted, raced, faulty, asked>>
    BY <1>11 DEF SeedInsert
  <2>n. /\ name[i] = None /\ row[i] = "absent" /\ i \notin seeded
        /\ \A v \in Workers : pc[v] # "idle" => repo[v] # i
    BY <2>i DEF Fresh, Drawn, TypeOK
  <2> USE <2>i, <2>n DEF CreateRepository, Applied, Crossing
  <2>1. TypeOK'
    BY DEF Drawn, TypeOK
  <2>2. Drawn' /\ Makers'
    BY <2>1, SMTT(30) DEF Drawn, Makers, TypeOK
  <2>3. Deleters' /\ Seeds'
    <3>1. Deleters'
      BY <2>1 DEF Deleters, TypeOK
    <3>2. \A j \in seeded' : name'[j] = Hello /\ owner'[j] = Admin
      BY DEF Seeds, TypeOK
    <3>3. ASSUME NEW t \in Seeders, seed'[t] = "insert" PROVE t # s /\ seed[t] = "insert"
      BY <3>3 DEF TypeOK
    <3>4. ASSUME NEW t \in Seeders, seed'[t] = "insert", NEW j \in seeded', row'[j] = "live"
          PROVE  j \in unseen'[t]
      <4>1. unseen'[t] = unseen[t] \cup {i}
        BY <3>3, <3>4
      <4>2. j # i => j \in seeded /\ row[j] = "live"
        BY <3>4 DEF TypeOK
      <4> QED BY <3>3, <3>4, <4>1, <4>2 DEF Seeds
    <3> QED BY <3>1, <3>2, <3>4 DEF Seeds
  <2>4. Writers' /\ NeverAdopts'
    BY <2>1 DEF Drawn, Writers, NeverAdopts, Exists, Served
  <2>5. ListedAccounted'
    BY <2>1 DEF ListedAccounted, ListByOwner, GetRepositoryByOwnerId, Exists
  <2>6. OwnerDeletes' /\ SeedOnce'
    <3>1. OwnerDeletes'
      BY <2>1 DEF OwnerDeletes
    <3>2. \A j \in seeded : row'[j] = row[j] /\ (row[j] = "live" => <<i, j>> \in crossed')
      BY DEF Seeds, TypeOK
    <3>3. SeedOnce'
      BY <3>2 DEF SeedOnce
    <3> QED BY <3>1, <3>3
  <2> QED BY <2>1, <2>2, <2>3, <2>4, <2>5, <2>6
<1>12. ASSUME NEW s \in Seeders, SeedCrash(s) PROVE Inv'
  <2> USE <1>12 DEF SeedCrash
  <2>1. TypeOK'
    BY DEF Drawn, TypeOK
  <2>2. Drawn' /\ Makers'
    BY <2>1 DEF Drawn, Makers
  <2>3. Deleters' /\ Seeds'
    BY <2>1 DEF Deleters, Seeds, TypeOK
  <2>4. Writers' /\ NeverAdopts'
    BY <2>1 DEF Writers, NeverAdopts, Exists, Served
  <2>5. ListedAccounted'
    BY <2>1 DEF ListedAccounted, ListByOwner, GetRepositoryByOwnerId, Exists
  <2>6. OwnerDeletes' /\ SeedOnce'
    BY <2>1 DEF OwnerDeletes, SeedOnce
  <2> QED BY <2>1, <2>2, <2>3, <2>4, <2>5, <2>6
<1>13. ASSUME Crash PROVE Inv'
  <2> USE <1>13 DEF Crash
  <2>1. TypeOK'
    BY DEF Drawn, TypeOK
  <2>2. Drawn' /\ Makers'
    BY <2>1 DEF Drawn, Makers
  <2>3. Deleters' /\ Seeds'
    BY <2>1 DEF Deleters, Seeds
  <2>4. Writers' /\ NeverAdopts'
    BY <2>1 DEF Writers, NeverAdopts, Exists, Served
  <2>5. ListedAccounted'
    BY <2>1 DEF ListedAccounted, ListByOwner, GetRepositoryByOwnerId, Exists
  <2>6. OwnerDeletes' /\ SeedOnce'
    BY <2>1 DEF OwnerDeletes, SeedOnce
  <2> QED BY <2>1, <2>2, <2>3, <2>4, <2>5, <2>6
<1>14. CASE UNCHANGED vars
  BY <1>14 DEF vars, TypeOK, Drawn, Makers, Deleters, Seeds, Writers,
         ListedAccounted, NeverAdopts, OwnerDeletes, SeedOnce, Exists, Served,
         ListByOwner, GetRepositoryByOwnerId
<1> QED
  BY <1>1, <1>2, <1>3, <1>4, <1>5, <1>6, <1>7, <1>8,
     <1>9, <1>10, <1>11, <1>12, <1>13, <1>14
  DEF Next, Step

(* The table, the disk and the handlers start empty.                         *)
LEMMA InitInv == Init => Inv
<1> SUFFICES ASSUME Init PROVE Inv
  OBVIOUS
<1> USE RepoAssumption DEF Init
<1>1. TypeOK /\ Drawn /\ Makers /\ Deleters /\ Seeds /\ Writers
  BY DEF TypeOK, Drawn, Makers, Deleters, Seeds, Writers, Creating, Deleting
<1>2. ListedAccounted /\ NeverAdopts /\ OwnerDeletes /\ SeedOnce
  BY DEF ListedAccounted, NeverAdopts, OwnerDeletes, SeedOnce, ListByOwner,
         GetRepositoryByOwnerId
<1> QED BY <1>1, <1>2 DEF Inv

(* The invariant holds in every reachable state.                             *)
LEMMA Invariance == Spec => []Inv
BY InitInv, InvStep, PTL DEF Spec

(* Every reachable state is well-typed, and every row has a name and an owner. *)
THEOREM TypeCorrect == Spec => []TypeOK
<1>1. Inv => TypeOK
  BY DEF Inv
<1> QED BY <1>1, Invariance, PTL

(* A listed row has a repository on disk, or its Create still runs, or a     *)
(* failed database call, a crash or the seed command explains it.            *)
THEOREM ListedAccountedHolds == Spec => []ListedAccounted
<1>1. Inv => ListedAccounted
  BY DEF Inv
<1> QED BY <1>1, Invariance, PTL

(* No Create hands out a directory that was there before, and two that are   *)
(* answered 201 for one directory raced for it.                              *)
THEOREM NeverAdoptsHolds == Spec => []NeverAdopts
<1>1. Inv => NeverAdopts
  BY DEF Inv
<1> QED BY <1>1, Invariance, PTL

(* A repository that was created disappears only when its owner asks.        *)
THEOREM OwnerDeletesHolds == Spec => []OwnerDeletes
<1>1. Inv => OwnerDeletes
  BY DEF Inv
<1> QED BY <1>1, Invariance, PTL

(* However often the seed runs and wherever it dies, two rows of its making  *)
(* are listed only if one of their runs looked before the other inserted.    *)
THEOREM SeedOnceHolds == Spec => []SeedOnce
<1>1. Inv => SeedOnce
  BY DEF Inv
<1> QED BY <1>1, Invariance, PTL
=============================================================================
