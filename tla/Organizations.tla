--------------------------- MODULE Organizations ---------------------------
(***************************************************************************)
(* Organizations and their members: the tables organizations and           *)
(* organization_users, written by the organization presenter and by the    *)
(* seed command.  Create inserts the organization, then its creator as a   *)
(* member, and deletes the organization again when that fails; the seed    *)
(* does the same without the last part.  AddUser lets a member add others. *)
(* Every statement is a step of its own, and may fail, or be applied with  *)
(* its reply lost.                                                         *)
(***************************************************************************)
CONSTANTS
  Users,     \* rows of users
  Names,     \* the names people give to organizations
  OrgIds,    \* the values uuid.NewV7 draws
  Workers,   \* goroutines that may serve such requests at one time
  Outcomes,  \* how a statement may end
  Seeders,   \* runs of the seed command that may overlap
  Admin,     \* the user the seed command works for
  None

ASSUME OrgAssumption ==
  /\ Outcomes \subseteq {"ok", "lost", "failed"}
  /\ Admin \in Users
  /\ None \notin Users \cup OrgIds

VARIABLES
  org,      \* org[i]: "absent", "live" or "deleted" (the row is gone again)
  team,     \* the organizations named "Gitfed Team"
  members,  \* the rows of organization_users, as <<i, u>>
  pc,       \* pc[w]: the next statement of the handler run by w
  req,      \* req[w]: the organization, the caller and the user to add
  seed,     \* seed[s]: the next statement of the run s of the seed command
  seedOrg,  \* seedOrg[s]: the organization it inserted
  \* History, read by nobody:
  creator,  \* creator[i]: for whom i was made
  joined,   \* every <<i, u>> that ever was in members
  removed,  \* every <<i, u>> that RemoveUser took out
  created,  \* organizations whose Create answered 201
  faulty,   \* organizations for which a statement's failure was not undone
  seeded,   \* organizations the seed command drew an id for
  unseen,   \* unseen[s]: those without the administrator when s looked, because
            \*   their run had not come to that, and those inserted since then
  crossed   \* <<i, j>>: j was one of them for the run that made i

rows    == <<org, team, members>>
history == <<creator, joined, removed, created, faulty, seeded, unseen, crossed>>
seeding == <<seed, seedOrg, seeded, unseen, crossed>>
vars    == <<rows, pc, req, seed, seedOrg, history>>

Creating == {"insert", "founder", "rollback"}

NoRequest == [org |-> None, user |-> None, target |-> None]

TypeOK ==
  /\ org \in [OrgIds -> {"absent", "live", "deleted"}]
  /\ team \subseteq OrgIds
  /\ members \subseteq OrgIds \X Users
  /\ pc \in [Workers -> {"idle", "add"} \cup Creating]
  /\ req \in [Workers -> [org : OrgIds \cup {None}, user : Users \cup {None},
                          target : Users \cup {None}]]
  /\ \A w \in Workers : pc[w] # "idle" => req[w].org # None /\ req[w].user # None
  /\ \A w \in Workers : pc[w] = "add" => req[w].target # None
  /\ seed \in [Seeders -> {"idle", "insert", "founder"}]
  /\ seedOrg \in [Seeders -> OrgIds \cup {None}]
  /\ \A s \in Seeders : seed[s] = "founder" => seedOrg[s] # None
  /\ creator \in [OrgIds -> Users \cup {None}]
  /\ joined \subseteq OrgIds \X Users /\ removed \subseteq OrgIds \X Users
  /\ created \subseteq OrgIds /\ faulty \subseteq OrgIds /\ seeded \subseteq OrgIds
  /\ unseen \in [Seeders -> SUBSET OrgIds] /\ crossed \subseteq OrgIds \X OrgIds

Init ==
  /\ org = [i \in OrgIds |-> "absent"]
  /\ team = {} /\ members = {}
  /\ pc = [w \in Workers |-> "idle"]
  /\ req = [w \in Workers |-> NoRequest]
  /\ seed = [s \in Seeders |-> "idle"] /\ seedOrg = [s \in Seeders |-> None]
  /\ unseen = [s \in Seeders |-> {}] /\ crossed = {}
  /\ creator = [i \in OrgIds |-> None]
  /\ joined = {} /\ removed = {} /\ created = {} /\ faulty = {} /\ seeded = {}

-----------------------------------------------------------------------------
(* organization.Store *)

Applied(o) == o # "failed"

(* A joined row of both tables.                                              *)
GetByUserID(u) == {i \in OrgIds : org[i] = "live" /\ <<i, u>> \in members}

Create(i, o) ==
  org' = IF Applied(o) THEN [org EXCEPT ![i] = "live"] ELSE org

(* The INSERT breaks the primary key if u is a member, the foreign key if i  *)
(* is gone; neither is ErrNotFound.                                          *)
Acceptable(i, u) == org[i] = "live" /\ <<i, u>> \notin members

AddUser(i, u, o) ==
  LET new == IF Applied(o) /\ Acceptable(i, u) THEN {<<i, u>>} ELSE {}
  IN  members' = members \cup new /\ joined' = joined \cup new

(* DELETE FROM organizations, cascading to the members.                      *)
DeleteByID(i, o) ==
  IF Applied(o)
  THEN /\ org' = [org EXCEPT ![i] = "deleted"]
       /\ members' = {m \in members : m[1] # i}
  ELSE UNCHANGED <<org, members>>

(* No route calls it yet.                                                    *)
RemoveUser(i, u) ==
  /\ <<i, u>> \in members
  /\ members' = members \ {<<i, u>>}
  /\ removed' = removed \cup {<<i, u>>}
  /\ UNCHANGED <<org, team, pc, req, seeding, creator, joined, created, faulty>>

-----------------------------------------------------------------------------
Begin(w, call, r) ==
  /\ pc[w] = "idle"
  /\ pc' = [pc EXCEPT ![w] = call]
  /\ req' = [req EXCEPT ![w] = r]

Goto(w, call) ==
  /\ pc' = [pc EXCEPT ![w] = call]
  /\ UNCHANGED req

Return(w) ==
  /\ pc' = [pc EXCEPT ![w] = "idle"]
  /\ req' = [req EXCEPT ![w] = NoRequest]

Blame(i, good) == faulty' = IF good THEN faulty ELSE faulty \cup {i}

(* A new id, whose history starts with it.                                   *)
Draw(i, u) ==
  /\ creator[i] = None
  /\ creator' = [creator EXCEPT ![i] = u]

-----------------------------------------------------------------------------
(* OrganizationPresenter.Create *)

CreateStart(w, u, n) ==
  \E i \in OrgIds :
    /\ Draw(i, u)
    /\ Begin(w, "insert", [org |-> i, user |-> u, target |-> None])
    /\ team' = IF n = "Gitfed Team" THEN team \cup {i} ELSE team
    /\ UNCHANGED <<org, members, seeding, joined, removed, created, faulty>>

CreateInsert(w, o) ==
  /\ pc[w] = "insert"
  /\ Create(req[w].org, o)
  /\ IF o = "ok" THEN Goto(w, "founder") ELSE Return(w)
  /\ Blame(req[w].org, o = "ok")
  /\ UNCHANGED <<team, members, seeding, creator, joined, removed, created>>

(* Mutant: the error of AddUser is dropped and 201 is answered.              *)
CreateFounderUnchecked(w, o) ==
  /\ pc[w] = "founder"
  /\ AddUser(req[w].org, req[w].user, o)
  /\ created' = created \cup {req[w].org}
  /\ Return(w)
  /\ UNCHANGED <<org, team, seeding, creator, removed, faulty>>

(* ensureCreatorMembership                                                   *)
CreateFounder(w, o) ==
  /\ pc[w] = "founder"
  /\ LET added == o = "ok" /\ Acceptable(req[w].org, req[w].user)
     IN  /\ created' = IF added THEN created \cup {req[w].org} ELSE created
         /\ IF added THEN Return(w) ELSE Goto(w, "rollback")
  /\ AddUser(req[w].org, req[w].user, o)
  /\ UNCHANGED <<org, team, seeding, creator, removed, faulty>>

(* Mutant: the organization is left behind.                                  *)
CreateRollbackForgotten(w, o) ==
  /\ pc[w] = "rollback"
  /\ Return(w)
  /\ UNCHANGED <<rows, seed, seedOrg, history>>

(* The failure of the rollback is only logged; the answer is 500.            *)
CreateRollback(w, o) ==
  /\ pc[w] = "rollback"
  /\ DeleteByID(req[w].org, o)
  /\ Blame(req[w].org, Applied(o))
  /\ Return(w)
  /\ UNCHANGED <<team, seeding, creator, joined, removed, created>>

-----------------------------------------------------------------------------
(* OrganizationPresenter.AddUser *)

(* Mutant: the organization's existence is checked, not the membership.      *)
AddUserCheckExists(w, u, i, v) ==
  /\ org[i] = "live"
  /\ Begin(w, "add", [org |-> i, user |-> u, target |-> v])
  /\ UNCHANGED <<rows, seed, seedOrg, history>>

(* userBelongsToOrg.  A failing listing, or a caller who is no member, ends  *)
(* the request here, and nothing has changed.                                *)
AddUserCheck(w, u, i, v) ==
  /\ i \in GetByUserID(u)
  /\ Begin(w, "add", [org |-> i, user |-> u, target |-> v])
  /\ UNCHANGED <<rows, seed, seedOrg, history>>

AddUserInsert(w, o) ==
  /\ pc[w] = "add"
  /\ AddUser(req[w].org, req[w].target, o)
  /\ Return(w)
  /\ UNCHANGED <<org, team, seeding, creator, removed, created, faulty>>

-----------------------------------------------------------------------------
(* The seed command: ensureOrganization.  Nothing keeps two runs apart.      *)

(* History of a run that goes on to insert: the teams other runs are making. *)
Looked(s, found) ==
  /\ seed' = [seed EXCEPT ![s] = IF found THEN "idle" ELSE "insert"]
  /\ unseen' = [unseen EXCEPT ![s] =
       IF found THEN {} ELSE {seedOrg[t] : t \in Seeders} \ {None}]

(* Mutant: a failed listing is taken for an empty one.                       *)
SeedLookupUnchecked(s, o) ==
  /\ seed[s] = "idle"
  /\ Looked(s, o = "ok" /\ GetByUserID(Admin) \cap team # {})
  /\ UNCHANGED <<rows, pc, req, seedOrg, creator, joined, removed, created, faulty,
                 seeded, crossed>>

SeedLookup(s, o) ==
  /\ seed[s] = "idle"
  /\ Looked(s, o # "ok" \/ GetByUserID(Admin) \cap team # {})
  /\ UNCHANGED <<rows, pc, req, seedOrg, creator, joined, removed, created, faulty,
                 seeded, crossed>>

SeedInsert(s, o) ==
  /\ seed[s] = "insert"
  /\ \E i \in OrgIds :
       /\ Draw(i, Admin)
       /\ Create(i, o)
       /\ team' = team \cup {i}
       /\ Blame(i, o = "ok")
       /\ seed' = [seed EXCEPT ![s] = IF o = "ok" THEN "founder" ELSE "idle"]
       /\ seedOrg' = [seedOrg EXCEPT ![s] = IF o = "ok" THEN i ELSE None]
       /\ seeded' = seeded \cup {i}
       /\ crossed' = crossed \cup ({i} \X unseen[s])
       /\ unseen' = [t \in Seeders |->
            IF t # s /\ seed[t] = "insert" THEN unseen[t] \cup {i} ELSE {}]
  /\ UNCHANGED <<members, pc, req, joined, removed, created>>

(* The error ends the command; the organization stays without a member.      *)
SeedFounder(s, o) ==
  /\ seed[s] = "founder"
  /\ AddUser(seedOrg[s], Admin, o)
  /\ Blame(seedOrg[s], o = "ok")
  /\ seed' = [seed EXCEPT ![s] = "idle"]
  /\ seedOrg' = [seedOrg EXCEPT ![s] = None]
  /\ UNCHANGED <<org, team, pc, req, creator, removed, created, seeded, unseen, crossed>>

-----------------------------------------------------------------------------
(* The API process dies in the middle of its requests.                       *)
Crash ==
  /\ pc' = [w \in Workers |-> "idle"]
  /\ req' = [w \in Workers |-> NoRequest]
  /\ faulty' = faulty \cup {req[w].org : w \in {v \in Workers : pc[v] \in Creating}}
  /\ UNCHANGED <<rows, seeding, creator, joined, removed, created>>

(* A run of the seed command dies.                                           *)
SeedCrash(s) ==
  /\ seed[s] # "idle"
  /\ seed' = [seed EXCEPT ![s] = "idle"]
  /\ seedOrg' = [seedOrg EXCEPT ![s] = None]
  /\ unseen' = [unseen EXCEPT ![s] = {}]
  /\ faulty' = faulty \cup ({seedOrg[s]} \ {None})
  /\ UNCHANGED <<rows, pc, req, creator, joined, removed, created, seeded, crossed>>

Step(w) ==
  \E o \in Outcomes :
    \/ CreateInsert(w, o)
    \/ CreateFounder(w, o)
    \/ CreateRollback(w, o)
    \/ AddUserInsert(w, o)

Next ==
  \/ \E w \in Workers, u \in Users, n \in Names : CreateStart(w, u, n)
  \/ \E w \in Workers, u, v \in Users, i \in OrgIds : AddUserCheck(w, u, i, v)
  \/ \E w \in Workers : Step(w)
  \/ \E i \in OrgIds, u \in Users : RemoveUser(i, u)
  \/ \E s \in Seeders : SeedCrash(s)
  \/ \E s \in Seeders, o \in Outcomes :
       SeedLookup(s, o) \/ SeedInsert(s, o) \/ SeedFounder(s, o)
  \/ Crash

Spec == Init /\ [][Next]_vars

-----------------------------------------------------------------------------
(* Properties *)

(* Nobody joins an organization before its founder did: whoever is or was a  *)
(* member was let in by members, back to the founder, although membership is *)
(* checked in one statement and granted in another.                          *)
FounderFirst == \A m \in joined : <<m[1], creator[m[1]]>> \in joined

(* Create answers 201 only for an organization that stays, with its creator  *)
(* in it for as long as nobody removes them; no rollback takes it away.      *)
CreatedStays ==
  \A i \in created : /\ org[i] = "live"
                     /\ <<i, creator[i]>> \in members \cup removed

(* An organization that exists without its creator ever having been a member *)
(* is still being made, or a failed rollback, a lost reply, a crash or the   *)
(* seed left it: a failing AddUser alone leaves none behind.                 *)
NoOrphans ==
  \A i \in OrgIds : org[i] = "live" =>
    \/ <<i, creator[i]>> \in joined
    \/ i \in faulty
    \/ \E s \in Seeders : seedOrg[s] = i
    \/ \E w \in Workers : pc[w] \in Creating /\ req[w].org = i

(* A run of the seed makes a "Gitfed Team" beside one that an earlier run    *)
(* made only if that run was cut off or failed before the administrator was  *)
(* its member, or they were removed from it: the look-up by membership finds *)
(* any other.  Two teams that nothing happened to are of overlapping runs,   *)
(* of which one looked before the other had come to its end.                 *)
TeamOnce ==
  \A i, j \in seeded :
    org[i] = "live" /\ org[j] = "live" /\ i # j =>
      \/ \E k \in {i, j} : k \in faulty \/ <<k, Admin>> \in removed
      \/ <<i, j>> \in crossed \/ <<j, i>> \in crossed

(* Why they hold: who is about to insert a member was let in by one, and an  *)
(* organization being made belongs to the one request, or seed, that makes   *)
(* it, so that no rollback meets an organization that was answered for.      *)
Vouched == \A w \in Workers :
             pc[w] = "add" => <<req[w].org, creator[req[w].org]>> \in joined

Rows == /\ members \subseteq joined
        /\ \A m \in joined : org[m[1]] # "absent"
        /\ \A i \in OrgIds : org[i] # "absent" => creator[i] # None

Makers ==
  /\ \A w \in Workers : pc[w] \in Creating =>
       /\ req[w].user = creator[req[w].org]
       /\ req[w].org \notin created
       /\ \A s \in Seeders : seedOrg[s] # req[w].org
       /\ pc[w] = "insert" => org[req[w].org] = "absent"
       /\ pc[w] # "insert" => org[req[w].org] = "live"
  /\ \A w, v \in Workers :
       pc[w] \in Creating /\ pc[v] \in Creating /\ req[w].org = req[v].org => w = v
  /\ \A s \in Seeders : seedOrg[s] # None =>
       /\ seed[s] = "founder" /\ creator[seedOrg[s]] = Admin
       /\ org[seedOrg[s]] = "live" /\ seedOrg[s] \notin created
       /\ \A t \in Seeders \ {s} : seedOrg[t] # seedOrg[s]

Inv == TypeOK /\ Rows /\ Makers /\ Vouched /\ FounderFirst /\ CreatedStays /\ NoOrphans

(* A team the seed made without trouble is there with the administrator in   *)
(* it, unless they were removed; a run inserts only when there is none but   *)
(* those it could not see.                                                   *)
Excused(i) == i \in faulty \/ <<i, Admin>> \in removed

Seeds ==
  /\ seeded \subseteq team
  /\ \A i \in seeded : creator[i] # None
  /\ \A i \in seeded :
       \/ Excused(i)
       \/ org[i] = "live" /\ (<<i, Admin>> \in members \/ \E s \in Seeders : seedOrg[s] = i)
  /\ \A s \in Seeders : seed[s] = "insert" =>
       \A i \in seeded : Excused(i) \/ i \in unseen[s]
  /\ \A w \in Workers : pc[w] \in Creating => req[w].org \notin seeded
=============================================================================
