----------------------------- MODULE GitRoutes -----------------------------
(***************************************************************************)
(* The routes of git smart HTTP: handleGitGet and handleGitPost cut the    *)
(* repository out of the path of the request, and serveGit hands it to the *)
(* git backend if secureRepoPath finds it below ReposDir and it exists.    *)
(*                                                                         *)
(* A path is the sequence of its parts between slashes: "/a" is            *)
(* <<"", "a">> and "" is <<"">>.  Encoded dots and slashes reach the       *)
(* handlers decoded, so any part may be "", "." or "..".  An absolute path *)
(* of the file system is the sequence of its parts after the root.  The    *)
(* file system is a variable that a request does not change.               *)
(***************************************************************************)
EXTENDS Naturals, Sequences, FiniteSets, SequencesExt

CONSTANTS
  ReposDir,     \* filepath.Abs of the configured directory
  FileSystems,  \* functions from absolute paths to nodes: their kind, "dir",
                \*   "file" or "link", and the target of a link
  Repos,        \* bound: the repositories asked for, as paths
  MaxSteps      \* bound: the steps EvalSymlinks takes before it gives up

ASSUME GitRoutesAssumption == Repos \subseteq Seq(STRING)

VARIABLES
  fs,           \* the file system
  request       \* <<>>, or the request and its answer: <<[repo, git, status]>>

-----------------------------------------------------------------------------
(* path/filepath and os *)

IsEmpty(path) == path = <<"">>
IsAbs(path)   == Len(path) > 1 /\ path[1] = ""

(* filepath.Clean of a relative path; <<>> stands for ".".                   *)
Clean(path) ==
  LET c[i \in 0 .. Len(path)] ==
        IF i = 0 THEN <<>>
        ELSE IF path[i] \in {"", "."} THEN c[i - 1]
        ELSE IF path[i] = ".." /\ c[i - 1] # <<>> /\ c[i - 1][Len(c[i - 1])] # ".."
        THEN Front(c[i - 1])
        ELSE Append(c[i - 1], path[i])
  IN  c[Len(path)]

(* filepath.EvalSymlinks: it walks down the path and replaces each link it   *)
(* meets by its target.                                                      *)
EvalSymlinks(path) ==
  LET Step(s) ==
        LET next == Append(s.real, Head(s.rest))
        IN  IF s.err # "none" \/ s.rest = <<>> THEN s
            ELSE IF next \notin DOMAIN fs
            THEN [s EXCEPT !.err = IF s.real \in DOMAIN fs /\ fs[s.real].kind = "file"
                                   THEN "not a directory" ELSE "not exist"]
            ELSE IF fs[next].kind # "link"
            THEN [s EXCEPT !.real = next, !.rest = Tail(s.rest)]
            ELSE [s EXCEPT !.real = <<>>, !.rest = fs[next].target \o Tail(s.rest)]
      walk[n \in 0 .. MaxSteps] ==
        IF n = 0 THEN [err |-> "none", real |-> <<>>, rest |-> path]
        ELSE Step(walk[n - 1])
      end == walk[MaxSteps]
  IN  IF end.err = "none" /\ end.rest # <<>> THEN [end EXCEPT !.err = "too many links"]
      ELSE end

(* os.Stat, as far as serveGit looks at it.                                  *)
StatIsNotExist(path) == EvalSymlinks(path).err = "not exist"

-----------------------------------------------------------------------------
(* http.go *)

Secure(path) == <<path>>
Refused      == <<>>

(* Mutant: the cleaned path alone decides.                                   *)
secureRepoPathLexical(repo) ==
  LET cleanRepo == Clean(repo)
      repoAbs   == ReposDir \o cleanRepo
  IN  IF \/ IsEmpty(repo) \/ IsAbs(repo)
         \/ cleanRepo = <<>> \/ cleanRepo[1] = ".."
         \/ EvalSymlinks(ReposDir).err # "none"
         \/ ReposDir = <<>>
         \/ EvalSymlinks(repoAbs).err \notin {"none", "not exist"}
      THEN Refused ELSE Secure(repoAbs)

(* dir, or a path that begins with dir and a separator.  Nothing begins with *)
(* the root and a separator, "//".                                           *)
Within(dir, path) == IsPrefix(dir, path) /\ (dir # <<>> \/ path = dir)

(* The path of repo below reposDir.  It must stay there as written, and,     *)
(* when it exists, with every link followed too, those of reposDir included. *)
(* (Joined behind baseAbs, a clean path without ".." in front is below it,   *)
(* and found there unless baseAbs is the root.)                              *)
secureRepoPath(repo) ==
  LET cleanRepo == Clean(repo)
      base      == EvalSymlinks(ReposDir)
      repoAbs   == ReposDir \o cleanRepo
      real      == EvalSymlinks(repoAbs)
  IN  IF \/ IsEmpty(repo) \/ IsAbs(repo)
         \/ cleanRepo = <<>> \/ cleanRepo[1] = ".."
         \/ base.err # "none"
         \/ ReposDir = <<>>
         \/ real.err = "none" /\ ~Within(base.real, real.real)
         \/ real.err \notin {"none", "not exist"}
      THEN Refused ELSE Secure(repoAbs)

(* 404, or the request goes to the git backend.                              *)
serveGit(repo) ==
  LET path == secureRepoPath(repo)
  IN  IF path = Refused \/ StatIsNotExist(path[1]) THEN "404" ELSE "git"

(* strings.CutSuffix of a slash and the given parts: Refused when the path   *)
(* ends in something else.                                                   *)
CutSuffix(path, suffix) ==
  LET n == Len(path) - Len(suffix)
  IN  IF n >= 1 /\ SubSeq(path, n + 1, Len(path)) = suffix
      THEN Secure(SubSeq(path, 1, n)) ELSE Refused

(* service: whether the query asks for a service named git-...               *)
handleGitGet(path, service) ==
  LET repo == CutSuffix(path, <<"info", "refs">>)
  IN  IF repo = Refused \/ IsEmpty(repo[1]) \/ ~service THEN "404"
      ELSE serveGit(repo[1])

handleGitPost(path) ==
  LET upload  == CutSuffix(path, <<"git-upload-pack">>)
      receive == CutSuffix(path, <<"git-receive-pack">>)
      repo    == IF upload # Refused THEN upload ELSE receive
  IN  IF repo = Refused \/ IsEmpty(repo[1]) THEN "404" ELSE serveGit(repo[1])

-----------------------------------------------------------------------------
(* Requests *)

(* git: whether the request is one of the protocol.                          *)
Asked(repo, git, status) ==
  /\ request' = <<[repo |-> repo, git |-> git, status |-> status]>>
  /\ UNCHANGED fs

Get(repo, service) ==
  Asked(repo, service, handleGitGet(repo \o <<"info", "refs">>, service))

Packs == {"git-upload-pack", "git-receive-pack"}

Post(repo, pack) == Asked(repo, pack \in Packs, handleGitPost(Append(repo, pack)))

GitRoutesInit == fs \in FileSystems /\ request = <<>>

GitRoutesNext ==
  /\ request = <<>>
  /\ \E repo \in Repos :
       \/ \E service \in BOOLEAN : Get(repo, service)
       \/ \E pack \in Packs \cup {"info"} : Post(repo, pack)

GitRoutesSpec == GitRoutesInit /\ [][GitRoutesNext]_<<fs, request>>

-----------------------------------------------------------------------------
(* Properties *)

(* A path that never climbs above where it starts, and ends below it: of its *)
(* first i parts there are never more ".." than names.                       *)
Stays(path) ==
  LET names(i) == Cardinality({j \in 1 .. i : path[j] \notin {"", ".", ".."}})
      ups(i)   == Cardinality({j \in 1 .. i : path[j] = ".."})
  IN  /\ ~IsAbs(path)
      /\ \A i \in 1 .. Len(path) : ups(i) <= names(i)
      /\ ups(Len(path)) < names(Len(path))

(* A place that is there and lies, links followed, in the real ReposDir.     *)
Inside(path) ==
  LET base == EvalSymlinks(ReposDir)
      real == EvalSymlinks(path)
  IN  base.err = "none" /\ real.err = "none" /\ IsPrefix(base.real, real.real)

(* ReposDir is the root, or a link to it.                                    *)
Rooted == ReposDir = <<>> \/ EvalSymlinks(ReposDir).real = <<>>

(* The requests that get to the git backend are those of the protocol for a  *)
(* repository that is named without leaving ReposDir and whose real place is *)
(* in the real ReposDir: none that a link or dots lead out, and every one    *)
(* that is there, also when ReposDir is itself a link; only of the root as   *)
(* ReposDir nothing need be served.                                          *)
ServesInside ==
  request # <<>> =>
    LET repo   == request[1].repo
        inside == request[1].git /\ Stays(repo) /\ Inside(ReposDir \o Clean(repo))
    IN  /\ request[1].status = "git" => inside
        /\ inside /\ ~Rooted => request[1].status = "git"
=============================================================================
