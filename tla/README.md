# TLA+ models of gitfed

gitfed is a small git forge: an HTTP API in Go over PostgreSQL, Redis and a
directory of bare git repositories. Almost all of its correctness questions have
one shape. Handlers run concurrently, each makes several calls to stores that
share no transaction, any call may fail or succeed with its reply lost, keys
expire, and the process may die between any two calls. This directory models the
parts of gitfed that keep state, at the grain of one call per step, checks them
with TLC on small instances, and proves the central results with TLAPS for every
value of the constants.

Contents: [inventory](#inventory), [modules and the code](#modules-and-the-code),
[runs](#runs), [bounds](#bounds), [fairness](#fairness), [proofs](#proofs),
[findings](#findings), [what is not modelled](#what-is-not-modelled),
[plan](#plan). `PROJECT.json` lists, for every definition, the source lines it
models, and for every property a mutant of the code that violates it.

## Inventory

| component | state | operations | what makes it correct | where |
|---|---|---|---|---|
| session service, `internal/modules/session` | table `sessions`; Redis `refresh:*`, `access:*` with TTLs | Create, Refresh, Revoke, RevokeAll, ValidateAccess | tokens lead to their owner; a session lives until it is revoked; a revoked one ends | Session |
| rate limiter, `internal/ratelimit` | one Redis hash per key, with a TTL | Allow (a Lua script), two middlewares | at most burst at once and rate per second afterwards; Retry-After is long enough | RateLimit |
| repositories, `modules/git`, `repository_presenter.go` | table `git_repository`; directories under `REPOS_DIR` | Create, List, Delete; git routes serve directories | rows and directories agree or the difference is accounted for; nobody is given another's directory | Repositories |
| accounts, `modules/user` | table `users` | Register, password login, SoftDelete | one account per address and name; a session needs the password | Accounts |
| single sign-on, `modules/sso` | table `sso_providers`; Redis `oauth_state:*` | redirect, callback | a state is used once; an address leads to its one account; a cut-off login can be repeated | Accounts |
| organizations, `modules/organization` | tables `organizations`, `organization_users` | Create, List, AddUser, RemoveUser | membership starts with the founder; failed creations leave nothing | Organizations |
| seed command, `internal/admin/seed` | the tables above | one pass of look-up-or-create: administrator, team, repository | run again, it makes nothing twice; overlapping runs may | Accounts, Organizations, Repositories |
| API process, `cmd/http-api` | connections, listener, signal, exit code | startup, serve, shutdown | drains requests before closing stores; ends; reports failure | Server |
| TOTP, `session/totp.go` | Redis `totp:*` | Setup, Verify | a secret is used once, counts for its user only, and stays in force until then | Totp |
| health check, `http.go` | a report of each store | past the IP limiter, two pings under one timeout, the first after a wait for a connection | reports the part that is down, and always answers | Server |
| git routes, `http.go` | none; they read the file system | `handleGitGet`, `handleGitPost`, `serveGit`, `secureRepoPath` | serve what lies inside `REPOS_DIR`, and all of it | GitRoutes; Repositories |
| pkt-line, `pkg/pktline` | a stream and a read buffer | Encode, EncodeLine, EncodeFlush, Decode, Next | what is read is what was written, before anything foreign; a torn frame is not a clean end | Pktline |
| multibase, `pkg/multibase` | none | Base58Encode, Base58Decode, Decode, extraction of keys | decoding inverts encoding, a text has one reading, a key is read exactly | Multibase |
| statements, `internal/database/sqlc` | the tables above | one generated method per statement | | with the component that owns the table |
| configuration, middleware for authentication | none of their own | validation, extraction | | as guards of the above |
| ed25519, zlib, TLS, logger, env, the git presenter | none, or files | conversions, I/O | | not modelled |

How they interact. The presenters (`internal/api/http`) call the services, the
services call stores over `pgx` and `go-redis`. Every request passes the IP
limiter; routes that need a user ask `ValidateAccess`. Login and the Google
callback end with `session.Service.Create`. The seed command writes the same
tables as the running API. There are no in-process locks, queues or background
jobs: components meet in PostgreSQL, in Redis and in the file system only. The
one exception is the process itself, where `main`, the listening goroutine and
the handlers share the two clients.

What is hard to test here, with the lines, is the list `hazards` of
`PROJECT.json`: check-then-act across two statements, a cache filled from a read
that has become stale, undo steps that fail themselves, calls that reach Redis in
another order than they were made, crashes in the middle, and a shutdown that
waits for what nothing bounds.

## Modules and the code

Conventions, the same in all modules. `Workers` are the goroutines that serve
requests; `pc[w]` names the next call of the handler that `w` runs, and its local
variables are the other functions of `w`. A handler is started by `...Start`,
which stands for everything before its first call (decoding, validation), and
every later action is one call with the code after it up to the next call. (A request
to add a member and a run of the seed in Organizations and Repositories begin with
a call that reads only, `AddUserCheck` and `SeedLookup`, which is then the start as
well.) A call
ends in one of the `Outcomes`: `"ok"`, `"lost"` (applied, but the handler sees an
error) or `"failed"` (not applied). `Crash` ends all handlers; stores survive.
Variables under "History" are read by properties only, never by a guard.
Identifiers drawn at random (uuid, 32 random bytes) are new values. Tokens, names
and addresses are model values; what responses look like is left out. A
definition marked "Mutant" is a plausible bug that no specification uses; it
shows that a property can fail.

**Session**, **SessionLifecycle.** `sessions` is the table, `refreshKey` and
`accessKey` are Redis. Create writes row, access key, refresh key; Refresh tries
the cache, and on any error the row, then fills the cache; Revoke selects,
deletes, then deletes the key; RevokeAll deletes rows only. Refresh and Revoke
are asked for tokens that a client holds. SessionLifecycle is the promise, with
neither store nor handler in it: a token moves `fresh -> pending -> active ->
lingering -> dead`, and access is granted only while it is active or lingering.
`Status` is the refinement mapping.

**RateLimit**, **TokenBucket.** One bucket. `ReadClock` is `time.Now()` in
`Allow`; `Call` is the script, which Redis runs atomically, some time later;
`CallRetried` is go-redis sending the script again after a lost reply;
`CallFailed` is the fail-open branch. Time is in ticks and tokens are in fractions of
`1/Unit`, so that rate, refill and the TTL are exact integers. The script's
floating point arithmetic and the six decimals in which `Allow` passes `now` are
abstracted to exact values; the rounding of `retry_after` by `%.3f` is kept
(`Milliseconds`), since a property is about it. A call reaches Redis within
`MaxDelay`; go-redis' read timeout of three seconds, and its retry after that, are
outside of the bound of one second that `AdmissionBound` needs. `TokenBucket` is a bucket filled
by a clock that never expires.

**Repositories.** `row`, `name`, `owner` are the table, `bare` the directories.
Create inserts, initialises (`InitCheck` finds the directory taken or not,
`InitWrite` makes it), and on failure rolls the row back, with the fallback of the
presenter when that fails too. Delete marks the row and never touches the
directory. The statements of `sqlc` and the filters in Go behind them are operators
of their own, since they differ in whether they see deleted rows. A name means the
directory `SanitizeRepoPath` makes of it, without its pairs of dots, so two valid
names may share one (`Sanitized`); `Served` is what the git routes look at, the
name as it was asked for. `raced` remembers which requests were initialising one
directory at the same time. `seed[s]` is where the run `s` of the seed command is;
runs start at any time, also several at once, since nothing in `seed.go` or the
schema keeps them apart. `unseen[s]` and `crossed` remember which rows a run could
not see when it looked.

**Accounts.** `row`, `email`, `username`, `password` are `users`, `links` counts
the rows of `sso_providers`, `states` are the live OAuth states. Register's two
look-ups see live rows, the UNIQUE columns count deleted rows too (`Taken`).
Google's answer is any address (an empty one, which `sso/store.go:42` stores as
NULL, is left out). The callback runs through state check, exchange,
look-up or Register, FindOrCreateSSO and the session. Passwords are five classes
(right, another, with spaces around, only spaces, empty), which is what trimming
tells apart. Creating the session is one step here and the whole of `Session`
there. The first step of the seed command is here too (`SeedStart`,
`SeedGetAdmin`): it looks the administrator up by name and then runs the same
Register.

**Organizations.** `org` and `members` are the tables, with the primary and
foreign keys as the condition `Acceptable` of the INSERT, and deletion cascading.
`team` are the organizations called "Gitfed Team", whoever made them, and
`seeded` those that the seed inserted; the seed looks only at teams that the
administrator is a member of. As in Repositories, `Seeders` are runs of it that may
overlap, and `unseen` and `crossed` say which of them did. `RemoveUser` is a service operation without a route
so far; it is included because the properties must survive it.

**Server.** `main` walks through configuration, connections, the goroutine that
listens, `NotifyContext`, the select and the shutdown. `http.Server`, `pgxpool`
and `go-redis` are external and modelled by what `main` relies on: Shutdown
stops the listener and waits for handlers or the timeout, Close of the pool waits
until every connection is back, nothing cancels a handler. Handlers take one of
`MaxConns` connections of the pool and give it back. `GET /healthz` is a handler of
its own: `BeginHealth` enters the handler chain, `HealthAdmit` is the call of the IP
limiter, which denies the check, or lets it pass, also on an error, to
`handleHealthz` and its context; `HealthAcquire` is the pool's wait for a
connection, `HealthDatabase` and `HealthRedis` are the pings, `HealthLate` ends the
context of both. go-redis looks at the context before it sends and ends the call by
its own timeouts, so an "ok" may still come in after the context is over. `up` are the stores that answer at all; `Outage` changes that at
any time.

**Totp.** `key` is Redis' `totp:<user>`, one secret per user with a TTL. Setup is
one SET, Verify a GET, the check of the code and, if it is right, a DEL of
whatever the key holds by then. A code is represented by the secret it was
computed from; whether it is still in its period is left open, so a right code
may be refused.

**Pktline.** A writer appends frames to `wire` and may break off inside any Write
(EncodeLine makes two); the reader's `Next` is two steps, one per `io.ReadFull`.
`Decode` is an operator. The base of the digits and the largest frame are
parameters, so that short frames meet the limits. `NewPacketIterator` takes any
`io.Reader`: `WriteForeign` ends the stream with bytes that no encoder need have
made, digits or not. Four digits say more than the buffer of Next holds; there Next
panics (`Overlong`), which is a result of its own. A packet that Next returns has its
`Consumed`. The reader stops after its first error. A Payload is copied here, where the code returns a slice of the
buffer that the next call overwrites.

**Multibase.** Pure operators. Bytes, alphabet and key length are parameters: a
buffer is a sequence of digits to base `ByteBase`, a text one of characters, of
which the first `CharBase` are the alphabet. `Number` and `Digits` are what the
loops over `big.Int` compute, the zeros in front are counted apart as the code
does, and `byte(c)` is a remainder, because the loops range over runes. The
hexadecimal and base64 decoders belong to the standard library; their payload is
the bytes it stands for, or malformed.

**GitRoutes.** Pure operators over a file system with directories, files and
links. A path is the sequence of its parts, so that empty parts, `.` and `..`
occur; `Clean` and `EvalSymlinks` do what `path/filepath` does. `secureRepoPath`
keeps the early returns of the code, except the errors of `filepath.Abs` (the
directory is absolute here) and the comparison of `repoAbs` with `baseAbs`: a clean
path that does not climb stays below the directory it is joined to, so the
comparison refuses nothing unless that directory is the root. There the code looks
for a path that begins with "//" and finds none, which is the conjunct
`ReposDir = <<>>` and, for the real directory, the operator `Within`.

**MCPure** puts Pktline, Multibase and GitRoutes side by side for one run; they
share no variable. The other `MC...` modules only add a symmetry set, and
MCRepositories the names that share a directory; Session and Server are run as
they are. The stateful components share no variables except through the session
that ends a login, and the administrator's id that the steps of the seed hand on.

## Runs

All passing runs explore the whole state space of their instance.

| run | result |
|---|---|
| `session` | `OwnerAgreement`: a token is only ever answered with its owner. `DurableSession`: what Create returned keeps its row until somebody asks for revocation. `QuietLogout`: a Revoke whose DEL meets no Refresh between SELECT and SET is final. `LifecycleRefinement`: the service implements SessionLifecycle. `LingeringEnds`: a token whose row is gone but that is still cached is dead at last, since nothing renews the entry without finding the row. |
| `session_revoke` | Violation: `RevokeInvalidates`, finding 1. |
| `ratelimit` | `AdmissionBound`: with calls delayed up to one second, retried and reordered, tokens handed out stay within burst, refill, and the refill of time that was counted twice. |
| `ratelimit_ideal` | Without delay the script implements TokenBucket, through expiries of the key. |
| `ratelimit_retry` | Violation: finding 2. |
| `repositories` | `ListedAccounted`, `NeverAdopts`, `OwnerDeletes`, `SeedOnce`: every listed row is explained; a directory that was there when Create was asked for, also under another name, is never handed out, and two answers of 201 for one directory come only from two requests that initialised it at the same time; rollbacks never remove what was answered for; the seed makes a second row beside its first only when two of its runs both looked before either inserted. |
| `accounts` | `OneIdentity` and `LinkAgreement`: an address leads to one account, the one with that address, through all races of Register, callbacks and the seed. `LinkOnce`: it is linked twice only if two of its callbacks were past their look-up of the link at once. `StateSpent`: a state is accepted again only if its DEL failed, was cut off, or two callbacks overlapped between GET and DEL. `ReturningUserAdmitted`: nobody who has an account is refused because an earlier attempt was cut off. `PasswordProof`: a session is given only for the registered password, never for the empty one of Google accounts. |
| `organizations` | `FounderFirst`: nobody was ever a member of an organization its founder was never in. `CreatedStays`: what was answered 201 is not rolled back. `NoOrphans`: an organization without a member has a failed or cut-off statement of its own. `TeamOnce`: runs of the seed leave one team, unless a run failed or was cut off, the administrator was removed from the team, or one run looked before another had come to its end. |
| `server` | `GraceRespected`: no handler meets a closed store, or is cut off, before the timeout is over, unless the process failed or was killed before it began to stop. `CleanExit`: code 0 only after the whole shutdown, an error code or a kill only before one began. `HealthTruthful`: the health check says "ok" of no store that was down all along, and "down" of one that was up all along only when a timeout ran out. `HealthAnswers`: it is answered although stores hang and handlers keep every connection. `ShutdownEnds`: after a caught signal the process ends, if handlers give their connections back. |
| `server_timeout` | Violation: finding 3. |
| `totp` | `OwnSecret`: a yes is for a secret drawn for and shown to that user. `SpentOnce`: a secret is accepted again only if its DEL failed, was cut off, or two requests overlapped between GET and DEL. `StaysInForce`: wrong codes, other users and failing requests never take a stored secret away; only a DEL on its way for an older one can. |
| `pure` | pkt-line: `ReadsWhatWasSent`: packets come out as they went in, in order, before anything foreign. `CleanEnd`: Next returns nil only at the end of a frame, and fails or panics only on a torn frame, an empty line or foreign bytes. `DecodeAgrees`: whoever wrote the bytes, Decode finds in them the packets that Next returned, type and payload. multibase: `Base58RoundTrip`, `Base58Canonical`: decoding inverts encoding and, for one-byte characters, encoding inverts decoding. `KeyReadExact`: a field yields a key exactly when its bytes are one. git routes: `ServesInside`: the backend gets a request exactly when it is one of the protocol for a path that never climbs out and whose real place is there and inside the real directory; of the root as `REPOS_DIR` nothing need be served. |

The type invariants of Session, RateLimit, Accounts, Organizations and Pktline are
left to their proofs; the runs of Repositories, Server and Totp check theirs as well.

## Bounds

Bounds are named in the `.cfg` files.

- Workers: two or three. The races here are between two handlers of one object
  (reader and writer, two checkers); the third of `ratelimit` lets one late call
  fall between two others. `session`, which is a liveness run too and uses no
  symmetry, has two; its theorems hold for any number.
- Objects: two tokens, repositories, addresses, accounts or organizations, since
  confusion of two objects is in question. `repositories` has three names, of
  which one has a pair of dots and means the directory of another, and two runs of
  the seed, which may overlap and be started again.
- `organizations`: the administrator and another user, and one name, "Gitfed
  Team": for the seed, an organization of another name is like a team that the
  administrator is not a member of. Two requests run beside two runs of the seed,
  which may overlap and be started again. There are two organizations, enough for
  the two of an overlap and for one that a run meets; the theorems hold for any
  numbers and names.
- Passwords in `accounts`: the registered one and the empty one. The proof of
  `PasswordProof` covers the classes that trimming changes.
- Access tokens: one at a time. It can be expired and drawn again, so any number
  of grants happens, one after another.
- `ratelimit`: a bucket of two tokens, two thirds of a token per tick, two ticks
  a second, delays up to the one second that `ceil(burst / rate) + 1` leaves, one
  retry, and `MaxClock` large enough that the key expires and is used again.
- `ratelimit_retry`: ticks of 0.1 ms at 59 requests a minute, where the wait lies
  just above a whole second.
- `server`: two handlers and a health check over a pool of two connections, which
  the handlers alone can use up. `server_timeout`: one handler, one connection.
- `totp`: two users, two requests at a time, three secrets, so that an older
  secret, a newer one and another user's exist together.
- `pure`, pkt-line: binary digits, so lengths up to 15, of which 13 are allowed as 65520
  of 65535 are; payloads of 0, 1, 4, the longest and one more; three frames; behind
  them every prefix with no byte, one, or all that the longest needs, a prefix that
  is no number, and less than a prefix.
- `pure`, multibase: bytes of four values and an alphabet of three characters, so
  that neither base is a power of the other, as 256 and 58; one more one-byte
  character and two runes, one with the lowest byte of '1'; all buffers of up to
  five bytes, which is a key of two with its prefix and one more, and all texts of
  up to five characters.
- `pure`, git routes: all paths of one to three parts out of an empty one, `.`,
  `..`, a repository, a file and a link; eighteen file systems, in which the
  directory is real, a link, or a link to the root, and the link in it leads outside, to the directory itself,
  to its real place, to a repository, to itself, or nowhere.
- Rows are never reused: an id that was drawn stays drawn, so histories are
  bounded by the number of ids.

`CHECK_DEADLOCK FALSE` is used for `Server`, where the process ends, and for
`MCPure`, where the stream does or the one call was made. Symmetry is used for workers and for interchangeable values, never in a liveness run.

## Fairness

- `session`: weak fairness of each handler's next call, because the clients
  of both stores return an answer or an error; and of the expiry of each cached
  refresh token, because it is set with a TTL and the fast path of Refresh does
  not renew it. Nothing is assumed about requests arriving.
- `server` and `server_timeout`: weak fairness of `main`, of the timer given to
  Shutdown and of the listener's return after it; of the timer of a health check,
  of its pings once that timer is over (pgx returns when the context ends, go-redis
  by its own timeouts at the latest), of the IP limiter's call for the same reason,
  and of its answer. Nothing about handlers, since neither a request
  nor a query has a time limit in the code, and nothing about the stores, which
  need not answer. That handlers give their connections back, that is, PostgreSQL
  answers them, is the premise of `ShutdownEnds`; `HealthAnswers` needs no such
  premise.

## Proofs

TLAPS proves, for every value of the constants that satisfies the named
assumptions:

- `Session_proofs`: `TypeCorrect`, `OwnerAgreementHolds`, `DurableSessionHolds`,
  `QuietLogoutHolds` and `Refinement` (the whole of SessionLifecycle). Assumption:
  `None` is neither a user nor a token. The properties are not inductive alone:
  what a handler carries from one call to the next may have become stale. `Inv`
  adds what stays true of it whatever others do: the user id it holds is the
  owner's (`HandlerKnows`), a token under creation has one creator
  (`OneCreator`), live access tokens have a source (`Provenance`), and after a
  quiet logout no Refresh is between its SELECT and its SET (`AfterLogout`).
- `RateLimit_proofs`: `TypeCorrect`, `AdmissionBoundHolds` (if a call takes at
  most a second, `MaxDelay <= TicksPerSecond`) and `Refinement` (if
  `MaxDelay = 0`). Assumptions: rate, burst and resolution are positive integers.
  The invariant is a potential: tokens left plus tokens handed out never exceed
  capacity plus the refill up to `last` and the total of its moves backwards
  (`Potential`); `Expiry` says that the key outlives the time an empty bucket
  takes to fill, which is where the extra second of the TTL is used.
- `Organizations_proofs`: `TypeCorrect`, `FounderFirstHolds`, `CreatedStaysHolds`,
  `NoOrphansHolds`, `TeamOnceHolds`. Assumptions: `Admin` is a user, `None` is nobody and nothing.
  `Inv` adds that an organization under creation belongs to the one handler, or
  seed, that makes it, and has not been answered for (`Makers`), so a rollback
  meets no other request's organization; that whoever passed the membership check
  was vouched for (`Vouched`, stable because `joined` only grows); and that rows
  have a history (`Rows`). The lemma `Undrawn` says that an id not yet drawn is
  known to nobody. `TeamOnce` rests on `Seeds`, proved on top of `Inv` for any
  number of runs: a team of the seed without a fault has the administrator in it, or
  a run is about to put them there; the look-up finds the first and `unseen` holds
  the second, so when a run is about to insert, every earlier team is excused or
  crosses its own.
- `Accounts_proofs`: `TypeCorrect`, `OneIdentityHolds`, `LinkAgreementHolds`,
  `PasswordProofHolds`, `StateSpentHolds`, `LinkOnceHolds`,
  `ReturningUserAdmittedHolds`. Assumptions: an address may serve as a
  username, and `None` is no name, account or state. The argument is that a row
  is never removed and its columns never change (`ColumnsStay`), so what a handler
  found stays true while it waits (`Knows`, `KnowledgeStays`), and that the UNIQUE
  columns keep rows apart (`Unique`); `Pending` says that a state which was
  accepted and is still live has a callback about to delete it, or is excused;
  `Unlinked` that a callback about to insert a link still finds none, or its
  address was crossed by another; `Vouched` that a callback which goes on to
  register knows of no account of its address but a deleted one, so no earlier
  attempt of a returning user is in its way.
- `Repositories_proofs`: `TypeCorrect`, `ListedAccountedHolds`, `NeverAdoptsHolds`,
  `OwnerDeletesHolds`, `SeedOnceHolds`. Assumptions: the seed's user and name are a
  user and a name, `None` is nothing, and `Sanitized` is idempotent and leaves the
  seed's name alone (the one pass of `SanitizeRepoPath` over the pairs of dots leaves none);
  which names it merges is left open. `Inv` adds that an id has one Create, not
  answered yet, beside which only the owner's deletion runs (`Makers`), so a
  rollback never takes an answered repository; that whoever is about to delete was
  asked by the owner (`Deleters`); that a run of the seed inserts only while every listed
  row of another run is one it could not see (`Seeds`); and that whoever writes a directory found none, all that
  finished it meanwhile having raced with it (`Writers`).
- `Server_proofs`: `TypeCorrect`, `GraceRespectedHolds`, `CleanExitHolds`,
  `HealthTruthfulHolds`. Assumption: the pool holds at least one connection. `Inv`
  ties where `main` is to what is open (`Phases`), says that the listening
  goroutine reports once, as its last act (`Reports`), that after a Shutdown
  within its timeout nobody is served (`Drained`), and that what a health check
  has found so far was true of the store since it began (`Probing`). `Drained` is
  what makes closing the stores harmless: it must survive the closing steps, the
  timer and the handlers in every order.
- `Totp_proofs`: `TypeCorrect`, `OwnSecretHolds`, `SpentOnceHolds`,
  `StaysInForceHolds`. Assumption: `None` is neither a user nor a secret. `Inv` adds
  that a secret is held by the one Setup that drew it until it is shown (`Drawn`),
  that a key holds the last secret stored for its user or nothing (`Stored`), that
  codes come from shown secrets (`Known`), that an accepted secret which is still
  stored has its DEL on the way or is excused (`Spending`), and that a DEL on its
  way threatens only a secret that is marked as exposed to it (`Covered`).
- `Pure_proofs`, pkt-line: `ReadsWhatWasSentHolds`, `CleanEndHolds`,
  `DecodeAgreesHolds`, for every base, every `MaxPktLen` below the largest number of
  four digits, all lengths of payloads and all foreign bytes. First, that `ParseUint` undoes `%04x`
  (`ParsePrefix`, from `DivDiv` on repeated division). The invariant `Streamed` says
  that some function `at` cuts the wire into the frames of the packets in `sent`,
  that behind them is nothing, the prefix of a line being written or a part of a
  broken frame (`Behind`), and that the reader stands at one of these cuts or behind
  the prefix there (`Position`). It is needed because the reader knows only bytes:
  without it a payload could be read as a prefix. Writers only add bytes
  (`FramesKept`, `FrameAdded`, `FrameBroken`); the reader then has one thing to find
  in each place (`NextPrefixKeeps`, `NextPayloadKeeps`). Behind the frames
  that were sent there may be foreign bytes, of which nothing is known (`Alien`).
  `DecodeAgrees` holds of these too, so it cannot rest on what was sent: a second
  invariant, `Cut`, cuts the bytes read into the frames of the packets that Next
  returned, in the sense of the switch on the length that both decoders share
  (`Framed`). It only grows with the wire (`CutGrows`, from `PartStays`). At a cut
  `Decode` finds the packet of the frame (`DecodesAt`), so the cuts solve the
  recursion of the offsets, which has one solution (`OffsetsAre`).
- `Pure_proofs`, multibase: `Base58RoundTripHolds`, `Base58CanonicalHolds`,
  `KeyReadExactHolds`, for every size of a byte, of the alphabet and of a key, and for
  buffers and texts of all lengths. Assumptions: the alphabet has at least two
  characters, fewer than a byte has values, all of one byte; the prefixes of the key
  types differ. `Number` and `Digits` undo each other on texts that do not begin with
  a zero (`NumberOfDigits`, `DigitsOfNumber`), zeros in front leave the number alone
  (`NumberPadded`), and a text is its zeros and such a text (`Stripped`); so the way
  from one base into the other and back ends where it began (`ThereAndBack`), which
  is read once from the bytes and once from the text. The inductive invariant
  `RightCalls` says the three properties of the last call and its result.
- `Pure_proofs`, git routes: `ServesInsideHolds`, for every `ReposDir`, every file
  system and every set of paths. Assumption: a path is a sequence of strings. Only
  one thing has to be shown about paths: that the test of the code on the cleaned path
  (not absolute, not `.`, first part not `..`) is the one of the property, which counts
  how often the beginnings of the path go up and down (`StaysIs`). While it has not
  been above its start, `Clean` holds as many parts as the path went down more than
  up, none of them `..`; from then on its first part is `..` (`Below`, `Above`,
  `CleanStep`). The early returns of `secureRepoPath`, `serveGit` and the two handlers
  are then a case analysis (`Served`, `Got`, `Posted`). What `EvalSymlinks` returns is
  not looked into: the code and the property ask it the same question.

The theorems of `Pure_proofs` are about `Spec` of Pktline, `MultibaseSpec` and
`GitRoutesSpec`; a behaviour of the run `pure` is one of all three.

*Induction.* The induction theorems of the library take a predicate as a parameter,
which the provers cannot instantiate. The first section of `Pure_proofs` therefore
states induction with a set in the place of the predicate. It starts from the theorem
that `<` on the natural numbers is well-founded, which has no such parameter
(`Least`), and has, for a recursion in which the value at `i` comes from the value at
one earlier place, that a function defined by it exists (`Recursion`), that there is
only one (`Determined`), and the induction along it (`EarlierInduction`). `Number`,
`Clean` and the offsets go back by one place, `Digits` to the quotient.

Each `Inv` was checked by TLC before it was proved. Every invariant and action
property that a passing run checks is stated by a theorem. Left to TLC:

- the liveness results `LingeringEnds`, `ShutdownEnds` and `HealthAnswers`: the prover
  has neither fairness nor ENABLED;
- that `EvalSymlinks` ends within `MaxSteps` and finds what it should: the theorem holds
  whatever it finds;
- all violations.

## Findings

Three places where the code does not do what a comment, a document or a test says
(`findings` in `PROJECT.json` quotes each):

1. `session/service.go:91`: Revoke "invalidates the refresh token", but a Refresh
   that read the row before puts the cache entry back after Revoke's DEL.
2. `rate_limit.lua:42`: `retry_after` is rounded to the nearest millisecond, down
   too, so Retry-After can be too short.
3. `main.go:141`: the shutdown timeout does not bound the exit; closing the pool
   waits for handlers without limit.

Building the models showed more disagreements, for which no run is kept because none of
them is worth a state space of its own:

- `main.go:143`: if the listener fails and a signal arrives too, the select may
  take the signal; the failure is then only logged and the exit code is 0, where
  `docs/12factor-implementation-spec.md:53` wants non-zero after a fatal error
  (`CleanExit` excepts exactly this order);
- `http.go:150`: a slow ping of PostgreSQL, or a pool without a free connection,
  uses up the timeout of both pings, and Redis is then reported down although it
  answers, where line 260 of that document wants the endpoint to reflect the state
  of both stores (`HealthTruthful` excepts a timeout that ran out);
- `pktline.go:185`: a prefix of `fff1` to `ffff` is longer than the buffer of Next,
  which slices it out of range and panics, where the comment at line 151 promises a
  packet or nil (`Overlong`; `CleanEnd` excepts foreign bytes);
- `pktline.go:192`: `Consumed` is "total consumed data" (line 50), but Next says 4
  for every data packet; Decode says the whole length (`DecodeAgrees` states it);
- `rate_limit.lua:25`: `last` is set to an older `now` when calls arrive out of
  order, so an interval is refilled twice and more than rate and burst allow is
  handed out; `AdmissionBound` states exactly how much more;
- `git/store.go:23`: a second Create of one's own repository inserts a row, fails on
  the directory and is answered 500; the test wants 409, which only its fake store
  returns;
- `pktline.go:86`: EncodeLine means to refuse an empty line but compares the total,
  which is at least 4, so it writes 0004, which both decoders refuse;
- `pktline.go:129`: Decode takes data packets of up to 65535 bytes, which is more
  than `MaxPktLen` and than Encode makes;
- `seed.go:104`: the seeded repository has a row but no directory, so git gets
  404, while the README of gitfed says that the seed creates it;
- `seed.go:83`: a seed that is cut off between organization and member leaves a
  team without members, which the next run does not find and creates again;
- `seed.go:64`, `seed.go:91`: two runs of the seed at once, without any failure, may
  make two teams, or two rows of hello-gitfed, since nothing stands behind the
  look-ups; gitfed's README only says that the seed "creates/updates" them
  (`TeamOnce` and `SeedOnce` show that, besides a failed or cut-off run and a removal,
  there is no other way to a second one of the seed's making);
- `sso/service.go:87`: two callbacks of one new user at once insert two records
  (`LinkAgreement` shows that both name the same account, `LinkOnce` that nothing
  else does this);
- `git/service.go:32`: a name with a pair of dots is made in the directory of the
  name without them; the git routes look for the name as written and answer 404;
- `git/service.go:83`: two Creates for one directory at once may both be answered
  201 and share it, also for different owners;
- `multibase.go:91`: a rune is looked up by its lowest byte, so texts with other
  characters than those of the alphabet are accepted (`Base58Canonical` excepts
  them); `f` and `F` both accept hexadecimal digits of either case;
- `http.go:259`, `http.go:265`: with `/` as `REPOS_DIR`, or a link to it, the code
  compares with "//" and serves nothing (`ServesInside` excepts the root).

The models also show behaviour that no document settles: sessions never expire in
PostgreSQL, access tokens outlive a logout, a deleted repository stays reachable by git and its name is never free again,
passwords are trimmed at login but not at registration, and the address of a
deleted account can be used by nobody. A rate limit of 0 or a burst of 0 passes the
validation of the configuration; RateLimit assumes that both are positive.

## What is not modelled

- The git protocol, pack files and the read operations of `modules/git`: go-git
  does the work, no state of gitfed changes.
- Name validation, cookies, JSON: string handling without interleavings; names in
  the models are those that pass.
- `git_presenter.go`: it streams go-git operations of one repository, keeps no state
  and is not wired into the server.
- `crypto`, `zlib`, `pkg/tls`: wrappers of libraries for cryptography, compression
  and X.509 that the server does not use.
- The logger and `env`.
- A file system that changes between `secureRepoPath` and the backend: nothing in
  gitfed makes links or removes directories.
- `Store.Update` of repositories, `Store.Verify` and `Store.UpdatePassword` of
  users: no caller.
- Isolation inside PostgreSQL: each statement is atomic and no transaction spans
  two, as in the code.
- Clocks that jump, and a Redis that loses its data other than key by key.

## Plan

Done: Session, RateLimit, Repositories, Accounts, Organizations, Server with its
health check, Totp, Pktline, Multibase and GitRoutes, the three steps of the seed
command with the tables they write, and proofs of every invariant and action
property that the runs check and of both refinements.

Next, in this order:

1. Abstract specifications, and proofs of the refinement: an account directory that
   Accounts implements, and an all-or-nothing creation that Organizations
   implements up to faults.
2. Action properties of the steps that may never happen: a row that comes back, an
   owner that changes.
