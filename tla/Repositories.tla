---------------------------- MODULE Repositories ----------------------------
(***************************************************************************)
(* Repositories: rows of the PostgreSQL table git_repository, written by   *)
(* the repository presenter and by the seed command, and bare repositories *)
(* on disk, which the git routes serve by name without asking the table.   *)
(* Rows are per owner and carry a uuid; directories are global by name.    *)
(*                                                                         *)
(* Create inserts the row, initialises the directory, and when that fails  *)
(* marks the row deleted again; each is a step, and any of them may fail   *)
(* or be cut off by a crash.  Nothing ever removes a directory.            *)
(***************************************************************************)
CONSTANTS
  Users,
  Names,     \* names that pass ValidateRepoName; the others are answered 400
  Sanitized, \* Sanitized[n]: n without its pairs of dots, a valid name as well
  RepoIds,   \* the values uuid.New draws
  Workers,   \* goroutines that may serve repository requests at one time
  Outcomes,  \* how a call to PostgreSQL or to the file system may end
  Seeders,   \* runs of the seed command that may overlap
  Admin,     \* the user the seed command works for
  Hello,     \* the name "hello-gitfed"
  None

ASSUME RepoAssumption ==
  /\ Outcomes \subseteq {"ok", "lost", "failed"}
  /\ Admin \in Users /\ Hello \in Names
  /\ Sanitized \in [Names -> Names] /\ Sanitized[Hello] = Hello
  /\ \A n \in Names : Sanitized[Sanitized[n]] = Sanitized[n]
  /\ None \notin Users \cup Names \cup RepoIds

VARIABLES
  row,        \* row[i]: "absent", "live" or "deleted" (the column is_deleted)
  name,       \* name[i], owner[i]: the columns of that row
  owner,
  bare,       \* the names under reposDir that hold a bare repository
  pc,         \* pc[w]: the next call of the handler run by w
  repo,       \* repo[w]: the id it works on
  user,       \* user[w]: the authenticated user
  seed,       \* seed[s]: the next call of the run s of the seed command
  \* History, read by nobody:
  answer,     \* answer[i]: the status Create answered for i
  adopted,    \* adopted[i]: the directory existed when the request for i came
  raced,      \* raced[i]: ids that were being initialised in the same directory
              \*   when that of i was written, or i when theirs was
  faulty,     \* ids for which a call to PostgreSQL failed or a crash intervened
  seeded,     \* ids inserted by the seed command
  unseen,     \* unseen[s]: those inserted since s looked for a row
  crossed,    \* <<i, j>>: j was inserted between the look-up and the INSERT of
              \*   the run that made i
  asked       \* ids whose owner asked for deletion

table   == <<row, name, owner>>
history == <<answer, adopted, raced, faulty, seeded, unseen, crossed, asked>>
seeding == <<seed, seeded, unseen, crossed>>
vars    == <<table, bare, pc, repo, user, seed, history>>

Creating == {"insert", "init", "write", "rollback", "fallback"}
Deleting == {"get", "softdelete"}

TypeOK ==
  /\ row \in [RepoIds -> {"absent", "live", "deleted"}]
  /\ name \in [RepoIds -> Names \cup {None}]
  /\ owner \in [RepoIds -> Users \cup {None}]
  /\ bare \subseteq Names
  /\ pc \in [Workers -> {"idle"} \cup Creating \cup Deleting]
  /\ repo \in [Workers -> RepoIds \cup {None}]
  /\ user \in [Workers -> Users \cup {None}]
  /\ \A w \in Workers : pc[w] # "idle" => repo[w] \in RepoIds
  /\ \A i \in RepoIds : row[i] # "absent" => name[i] \in Names /\ owner[i] \in Users
  /\ seed \in [Seeders -> {"idle", "insert"}]
  /\ answer \in [RepoIds -> {"none", "201", "409", "500"}]
  /\ adopted \in [RepoIds -> BOOLEAN]
  /\ raced \in [RepoIds -> SUBSET RepoIds]
  /\ unseen \in [Seeders -> SUBSET RepoIds] /\ crossed \subseteq RepoIds \X RepoIds
  /\ faulty \subseteq RepoIds /\ seeded \subseteq RepoIds /\ asked \subseteq RepoIds

Init ==
  /\ row = [i \in RepoIds |-> "absent"]
  /\ name = [i \in RepoIds |-> None]
  /\ owner = [i \in RepoIds |-> None]
  /\ bare = {}
  /\ pc = [w \in Workers |-> "idle"]
  /\ repo = [w \in Workers |-> None]
  /\ user = [w \in Workers |-> None]
  /\ seed = [s \in Seeders |-> "idle"]
  /\ unseen = [s \in Seeders |-> {}] /\ crossed = {}
  /\ answer = [i \in RepoIds |-> "none"]
  /\ adopted = [i \in RepoIds |-> FALSE]
  /\ raced = [i \in RepoIds |-> {}]
  /\ faulty = {} /\ seeded = {} /\ asked = {}

-----------------------------------------------------------------------------
Applied(o) == o # "failed"

Goto(w, call) ==
  /\ pc' = [pc EXCEPT ![w] = call]
  /\ UNCHANGED <<repo, user>>

Return(w) ==
  /\ pc' = [pc EXCEPT ![w] = "idle"]
  /\ repo' = [repo EXCEPT ![w] = None]
  /\ user' = [user EXCEPT ![w] = None]

Reply(w, status) ==
  /\ Return(w)
  /\ answer' = [answer EXCEPT ![repo[w]] = status]

(* A failing call to the database is remembered against the id.              *)
Blame(i, o) == faulty' = IF o = "ok" THEN faulty ELSE faulty \cup {i}

(* The statements on git_repository.  Only the two that write, and the Go    *)
(* code behind the two lists, look at is_deleted; the name is not unique.    *)
CreateRepository(i)     == [row EXCEPT ![i] = "live"]
SoftDeleteRepository(i) == [row EXCEPT ![i] = "deleted"]
GetRepositoryByID(i)    == row[i] # "absent"
GetRepositoryByOwnerId(u) == {i \in RepoIds : row[i] # "absent" /\ owner[i] = u}
GetRepositoryByRepositoryName(n) == {i \in RepoIds : row[i] # "absent" /\ name[i] = n}

(* What a user sees of the table.                                            *)
ListByOwner(u) == {i \in GetRepositoryByOwnerId(u) : row[i] # "deleted"}

GetByName(u, n) ==
  {i \in GetRepositoryByRepositoryName(n) : owner[i] = u /\ row[i] # "deleted"}

(* The directory of a repository: SanitizeRepoPath drops every ".." from its *)
(* name, so two names may mean one directory.                                *)
SanitizeRepoPath(n) == Sanitized[n]

(* Service.RepoPath and Service.Exists: there is a repository at that path.  *)
Exists(n) == SanitizeRepoPath(n) \in bare

(* serveGit looks for the name as it is in the path of the request.          *)
Served(n) == n \in bare

(* Store.SoftDelete: the row stays and is marked.                            *)
SoftDelete(i, o) == row' = IF Applied(o) THEN SoftDeleteRepository(i) ELSE row

(* An id that no request and no row has used.                                *)
Fresh(i) == name[i] = None

-----------------------------------------------------------------------------
(* RepositoryPresenter.Create *)

CreateStart(w, u, n) ==
  \E i \in RepoIds :
    /\ Fresh(i)
    /\ pc[w] = "idle"
    /\ pc' = [pc EXCEPT ![w] = "insert"]
    /\ repo' = [repo EXCEPT ![w] = i]
    /\ user' = [user EXCEPT ![w] = u]
    /\ name' = [name EXCEPT ![i] = n]
    /\ owner' = [owner EXCEPT ![i] = u]
    /\ adopted' = [adopted EXCEPT ![i] = Exists(n)]
    /\ UNCHANGED <<row, bare, seeding, answer, raced, faulty, asked>>

(* Store.Create: the table has no unique name, so the INSERT never reports   *)
(* ErrRepoAlreadyExists.                                                     *)
CreateInsert(w, o) ==
  /\ pc[w] = "insert"
  /\ row' = IF Applied(o) THEN CreateRepository(repo[w]) ELSE row
  /\ IF o = "ok" THEN Goto(w, "init") /\ UNCHANGED answer ELSE Reply(w, "500")
  /\ Blame(repo[w], o)
  /\ UNCHANGED <<name, owner, bare, seeding, adopted, raced, asked>>

(* Mutant: an existing directory is taken over.                              *)
InitCheckAdopting(w, o) ==
  /\ pc[w] = "init"
  /\ Goto(w, IF o = "ok" THEN "write" ELSE "rollback")
  /\ UNCHANGED <<table, bare, seed, history>>

(* PlainInit looks for a HEAD before it writes one, and fails if it is there. *)
InitCheck(w, o) ==
  /\ pc[w] = "init"
  /\ Goto(w, IF o = "ok" /\ ~Exists(name[repo[w]]) THEN "write" ELSE "rollback")
  /\ UNCHANGED <<table, bare, seed, history>>

(* The others that are past their own look for a HEAD in that directory.     *)
Racing(w) ==
  {repo[v] : v \in {v \in Workers \ {w} :
     pc[v] = "write" /\ SanitizeRepoPath(name[repo[v]]) = SanitizeRepoPath(name[repo[w]])}}

InitWrite(w, o) ==
  /\ pc[w] = "write"
  /\ bare' = IF Applied(o) THEN bare \cup {SanitizeRepoPath(name[repo[w]])} ELSE bare
  /\ raced' = [i \in RepoIds |->
       IF i = repo[w] THEN raced[i] \cup Racing(w)
       ELSE IF i \in Racing(w) THEN raced[i] \cup {repo[w]} ELSE raced[i]]
  /\ IF o = "ok" THEN Reply(w, "201") ELSE Goto(w, "rollback") /\ UNCHANGED answer
  /\ UNCHANGED <<table, seeding, adopted, faulty, asked>>

(* Mutant: the answer is sent without rolling back the row.                  *)
CreateRollbackForgotten(w, o) ==
  /\ pc[w] = "rollback"
  /\ Reply(w, "500")
  /\ UNCHANGED <<table, bare, seeding, adopted, raced, faulty, asked>>

CreateRollback(w, o) ==
  /\ pc[w] = "rollback"
  /\ SoftDelete(repo[w], o)
  /\ IF o = "ok" THEN Reply(w, "500") ELSE Goto(w, "fallback") /\ UNCHANGED answer
  /\ UNCHANGED <<name, owner, bare, seeding, adopted, raced, faulty, asked>>

(* Store.Delete is SoftDelete once more; its failure is only logged.         *)
CreateFallback(w, o) ==
  /\ pc[w] = "fallback"
  /\ SoftDelete(repo[w], o)
  /\ Reply(w, "500")
  /\ Blame(repo[w], o)
  /\ UNCHANGED <<name, owner, bare, seeding, adopted, raced, asked>>

-----------------------------------------------------------------------------
(* RepositoryPresenter.Delete: read the row, compare the owner, mark it.      *)

DeleteStart(w, u, i) ==
  /\ pc[w] = "idle"
  /\ row[i] # "absent"
  /\ pc' = [pc EXCEPT ![w] = "get"]
  /\ repo' = [repo EXCEPT ![w] = i]
  /\ user' = [user EXCEPT ![w] = u]
  /\ asked' = IF owner[i] = u THEN asked \cup {i} ELSE asked
  /\ UNCHANGED <<table, bare, seeding, answer, adopted, raced, faulty>>

(* Mutant: the owner is not compared.                                        *)
DeleteGetUnchecked(w, o) ==
  /\ pc[w] = "get"
  /\ IF o = "ok" THEN Goto(w, "softdelete") ELSE Return(w)
  /\ UNCHANGED <<table, bare, seed, history>>

(* GetByID finds deleted rows too.                                           *)
DeleteGet(w, o) ==
  /\ pc[w] = "get"
  /\ IF o = "ok" /\ GetRepositoryByID(repo[w]) /\ owner[repo[w]] = user[w]
     THEN Goto(w, "softdelete") ELSE Return(w)
  /\ UNCHANGED <<table, bare, seed, history>>

DeleteSoft(w, o) ==
  /\ pc[w] = "softdelete"
  /\ SoftDelete(repo[w], o)
  /\ Return(w)
  /\ UNCHANGED <<name, owner, bare, seed, history>>

-----------------------------------------------------------------------------
(* The seed command: ensureRepository inserts a row and nothing else.  Nothing *)
(* keeps two runs of the command apart.                                      *)

(* Mutant: the repository is inserted whether it is there or not.            *)
SeedLookupSkipped(s, o) ==
  /\ seed[s] = "idle"
  /\ seed' = [seed EXCEPT ![s] = IF o = "ok" THEN "insert" ELSE "idle"]
  /\ UNCHANGED <<table, bare, pc, repo, user, history>>

SeedLookup(s, o) ==
  /\ seed[s] = "idle"
  /\ seed' = [seed EXCEPT ![s] =
       IF o = "ok" /\ GetByName(Admin, Hello) = {} THEN "insert" ELSE "idle"]
  /\ UNCHANGED <<table, bare, pc, repo, user, history>>

(* History of an INSERT: the other runs that are past their look-up miss it. *)
Crossing(s, i) ==
  /\ seeded' = seeded \cup {i}
  /\ crossed' = crossed \cup ({i} \X unseen[s])
  /\ unseen' = [t \in Seeders |->
       IF t # s /\ seed[t] = "insert" THEN unseen[t] \cup {i} ELSE {}]

(* Mutant: the row is inserted without an owner.                             *)
SeedInsertOwnerless(s, o) ==
  \E i \in RepoIds :
    /\ Fresh(i)
    /\ seed[s] = "insert"
    /\ seed' = [seed EXCEPT ![s] = "idle"]
    /\ name' = [name EXCEPT ![i] = Hello]
    /\ row' = IF Applied(o) THEN CreateRepository(i) ELSE row
    /\ Crossing(s, i)
    /\ UNCHANGED <<owner, bare, pc, repo, user, answer, adopted, raced, faulty, asked>>

SeedInsert(s, o) ==
  \E i \in RepoIds :
    /\ Fresh(i)
    /\ seed[s] = "insert"
    /\ seed' = [seed EXCEPT ![s] = "idle"]
    /\ name' = [name EXCEPT ![i] = Hello]
    /\ owner' = [owner EXCEPT ![i] = Admin]
    /\ row' = IF Applied(o) THEN CreateRepository(i) ELSE row
    /\ Crossing(s, i)
    /\ UNCHANGED <<bare, pc, repo, user, answer, adopted, raced, faulty, asked>>

(* The API process dies in the middle of its requests.                       *)
Crash ==
  /\ pc' = [w \in Workers |-> "idle"]
  /\ repo' = [w \in Workers |-> None]
  /\ user' = [w \in Workers |-> None]
  /\ faulty' = faulty \cup {repo[w] : w \in {v \in Workers : pc[v] \in Creating}}
  /\ UNCHANGED <<table, bare, seeding, answer, adopted, raced, asked>>

(* A run of the seed command dies.                                           *)
SeedCrash(s) ==
  /\ seed[s] # "idle"
  /\ seed' = [seed EXCEPT ![s] = "idle"]
  /\ unseen' = [unseen EXCEPT ![s] = {}]
  /\ UNCHANGED <<table, bare, pc, repo, user, answer, adopted, raced, faulty, seeded,
                 crossed, asked>>

Step(w) ==
  \E o \in Outcomes :
    \/ CreateInsert(w, o)
    \/ InitCheck(w, o)
    \/ InitWrite(w, o)
    \/ CreateRollback(w, o)
    \/ CreateFallback(w, o)
    \/ DeleteGet(w, o)
    \/ DeleteSoft(w, o)

Next ==
  \/ \E w \in Workers, u \in Users, n \in Names : CreateStart(w, u, n)
  \/ \E w \in Workers, u \in Users, i \in RepoIds : DeleteStart(w, u, i)
  \/ \E w \in Workers : Step(w)
  \/ \E s \in Seeders : SeedCrash(s)
  \/ \E s \in Seeders, o \in Outcomes : SeedLookup(s, o) \/ SeedInsert(s, o)
  \/ Crash

Spec == Init /\ [][Next]_vars

-----------------------------------------------------------------------------
(* Properties *)

(* A row that its owner can list has a repository on disk and its Create     *)
(* answered 201, or it is one whose Create is still running, one that a      *)
(* failed database call or a crash left behind, or one that the seed command *)
(* made, which initialises none: a failed PlainInit alone never leaves a     *)
(* listed repository.                                                        *)
ListedAccounted ==
  \A u \in Users : \A i \in ListByOwner(u) :
    \/ answer[i] = "201" /\ Exists(name[i])
    \/ i \in seeded \cup faulty
    \/ \E w \in Workers : repo[w] = i /\ pc[w] \in Creating

(* Create answers 201 only for a directory that did not exist when the       *)
(* request came: that of a deleted repository, of another user or of another *)
(* name with the same path is never handed out again.  Two answers of 201    *)
(* for one directory were initialising it at the same time.  And it is       *)
(* served from then on, unless the name has a pair of dots.                  *)
NeverAdopts ==
  \A i \in RepoIds : answer[i] = "201" =>
    /\ ~adopted[i]
    /\ Served(SanitizeRepoPath(name[i]))
    /\ \A j \in RepoIds \ {i} :
         /\ answer[j] = "201"
         /\ SanitizeRepoPath(name[i]) = SanitizeRepoPath(name[j])
         => j \in raced[i]

(* A repository whose Create answered 201 disappears from its owner's list   *)
(* only if the owner asked for it, whatever rollbacks run beside it.         *)
OwnerDeletes ==
  \A i \in RepoIds : answer[i] = "201" /\ row[i] = "deleted" => i \in asked

(* Running the seed again, also after a crash or a lost reply, makes no      *)
(* second row that is listed beside one an earlier run made; two such rows   *)
(* are of overlapping runs, of which one looked for the repository before    *)
(* the other inserted it.  (A hello-gitfed that the administrator creates by *)
(* a request of their own is not counted: nothing keeps it from the seed's.) *)
SeedOnce ==
  \A i, j \in seeded : row[i] = "live" /\ row[j] = "live" /\ i # j =>
    <<i, j>> \in crossed \/ <<j, i>> \in crossed

-----------------------------------------------------------------------------
(* Why they hold.  An id is drawn before anything is known of it.            *)
Drawn ==
  /\ \A i \in RepoIds : name[i] = None =>
       i \notin seeded /\ answer[i] = "none" /\ ~adopted[i]
  /\ \A w \in Workers : pc[w] # "idle" =>
       name[repo[w]] \in Names /\ owner[repo[w]] \in Users

(* An id has one Create, which has not answered yet; no rollback and no      *)
(* insertion runs beside it, only the deletion that its owner may ask for.   *)
Makers ==
  /\ \A w \in Workers : pc[w] \in Creating =>
       /\ answer[repo[w]] = "none" /\ repo[w] \notin seeded
       /\ pc[w] = "insert" => row[repo[w]] = "absent"
       /\ pc[w] \in {"init", "write"} => row[repo[w]] = "live" \/ repo[w] \in asked
  /\ \A v, w \in Workers :
       pc[v] \in Creating /\ pc[w] \in Creating /\ repo[v] = repo[w] => v = w

(* Who is about to delete a row was asked to by its owner.                   *)
Deleters ==
  \A w \in Workers : pc[w] \in Deleting =>
    /\ row[repo[w]] # "absent"
    /\ pc[w] = "softdelete" \/ owner[repo[w]] = user[w] => repo[w] \in asked

(* A run inserts only while no seeded row is listed but those made since it  *)
(* looked.                                                                   *)
Seeds ==
  /\ \A i \in seeded : name[i] = Hello /\ owner[i] = Admin
  /\ \A s \in Seeders : seed[s] = "insert" =>
       \A i \in seeded : row[i] = "live" => i \in unseen[s]

(* A directory that was there stays; who writes one found none, and whoever  *)
(* finished it in between was at it at the same time.                        *)
Writers ==
  /\ \A i \in RepoIds : adopted[i] => Exists(name[i])
  /\ \A w \in Workers : pc[w] = "write" =>
       /\ ~adopted[repo[w]]
       /\ \A j \in RepoIds :
            /\ answer[j] = "201"
            /\ SanitizeRepoPath(name[j]) = SanitizeRepoPath(name[repo[w]])
            => j \in raced[repo[w]] /\ repo[w] \in raced[j]

Inv == TypeOK /\ Drawn /\ Makers /\ Deleters /\ Seeds /\ Writers
       /\ ListedAccounted /\ NeverAdopts /\ OwnerDeletes /\ SeedOnce
=============================================================================
