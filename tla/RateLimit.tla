----------------------------- MODULE RateLimit -----------------------------
(***************************************************************************)
(* The rate limiter (internal/ratelimit) for one bucket key: the Lua       *)
(* script that Redis runs atomically, Limiter.Allow that reads the clock   *)
(* of the API host before it sends the script, and the middleware that     *)
(* lets a request through when the call fails.                             *)
(*                                                                         *)
(* Time is counted in ticks and tokens in fractions, so that every amount  *)
(* is an integer: rate (tokens/second) is Rate * TicksPerSecond / Unit.    *)
(***************************************************************************)
EXTENDS Integers

CONSTANTS
  Workers,         \* goroutines that may be inside Allow at one time
  Unit,            \* the fractions a token is counted in
  Rate,            \* fractions added per tick
  Burst,           \* capacity, in tokens
  TicksPerSecond,
  MaxDelay,        \* ticks from reading the clock to the last run of the script
  MaxRetries,      \* how often go-redis sends a command again (default 3)
  MaxClock         \* bound: the clock stops there

ASSUME LimitAssumption ==
  /\ Unit \in Nat \ {0} /\ Rate \in Nat \ {0} /\ Burst \in Nat \ {0}
  /\ TicksPerSecond \in Nat \ {0}
  /\ MaxDelay \in Nat /\ MaxRetries \in Nat /\ MaxClock \in Nat

VARIABLES
  clock,      \* the clock of the host, which Redis shares
  tokens,     \* Redis: the fields of the hash under the key
  last,
  expireAt,   \* Redis: the key exists while clock < expireAt
  pc,         \* pc[w]: "idle", or "call" between reading the clock and the reply
  now,        \* now[w]: the clock as Allow read it
  tries,      \* tries[w]: how often the call was sent again
  \* History, read by nobody:
  taken,      \* how many tokens the script handed out
  slip        \* how far last was moved back, in total

bucket == <<tokens, last, expireAt, taken, slip>>
vars   == <<clock, bucket, pc, now, tries>>

Capacity == Burst * Unit

Lesser(x, y) == IF x <= y THEN x ELSE y
Greater(x, y) == IF x >= y THEN x ELSE y

TypeOK ==
  /\ clock \in Nat /\ tokens \in 0..Capacity /\ last \in Nat /\ expireAt \in Nat
  /\ pc \in [Workers -> {"idle", "call"}]
  /\ now \in [Workers -> Nat]
  /\ tries \in [Workers -> 0..MaxRetries]
  /\ taken \in Nat /\ slip \in Nat

Init ==
  /\ clock = 0 /\ tokens = Capacity /\ last = 0 /\ expireAt = 0
  /\ pc = [w \in Workers |-> "idle"]
  /\ now = [w \in Workers |-> 0]
  /\ tries = [w \in Workers |-> 0]
  /\ taken = 0 /\ slip = 0

-----------------------------------------------------------------------------
(* rate_limit.lua *)

CeilDiv(x, y) == (x + y - 1) \div y

(* Mutant: the key expires as soon as an empty bucket may be full again, one *)
(* second early for a script that ran late.                                  *)
TTLWithoutSlack == CeilDiv(Capacity, Rate * TicksPerSecond) * TicksPerSecond

(* EXPIRE key ceil(burst / rate) + 1, in ticks.                              *)
TTL == (CeilDiv(Capacity, Rate * TicksPerSecond) + 1) * TicksPerSecond

Exists == clock < expireAt

(* The tokens after the refill; a missing key counts as a full bucket.       *)
Refilled(n) ==
  IF Exists THEN Lesser(Capacity, tokens + Greater(0, n - last) * Rate)
            ELSE Capacity

Allowed(n) == Refilled(n) >= Unit

(* Mutant: HMSET leaves last as it was when the request is denied, although  *)
(* the refill up to now is stored.                                           *)
RunScriptStaleLast(n) ==
  /\ tokens' = IF Allowed(n) THEN Refilled(n) - Unit ELSE Refilled(n)
  /\ last' = IF Exists /\ ~Allowed(n) THEN last ELSE n
  /\ expireAt' = clock + TTL
  /\ taken' = IF Allowed(n) THEN taken + 1 ELSE taken
  /\ slip' = IF Exists THEN slip + Greater(0, last - n) ELSE slip

(* The whole script, atomic in Redis.  last follows now even backwards.      *)
RunScript(n) ==
  /\ tokens' = IF Allowed(n) THEN Refilled(n) - Unit ELSE Refilled(n)
  /\ last' = n
  /\ expireAt' = clock + TTL
  /\ taken' = IF Allowed(n) THEN taken + 1 ELSE taken
  /\ slip' = IF Exists THEN slip + Greater(0, last - n) ELSE slip

-----------------------------------------------------------------------------
(* Limiter.Allow under the middleware *)

ReadClock(w) ==
  /\ pc[w] = "idle"
  /\ pc' = [pc EXCEPT ![w] = "call"]
  /\ now' = [now EXCEPT ![w] = clock]
  /\ UNCHANGED <<clock, bucket, tries>>

Done(w) ==
  /\ pc' = [pc EXCEPT ![w] = "idle"]
  /\ now' = [now EXCEPT ![w] = 0]
  /\ tries' = [tries EXCEPT ![w] = 0]

(* The script ran.  The reply may be lost: then the middleware lets the      *)
(* request through whatever the verdict was, which costs the same state.     *)
Call(w) ==
  /\ pc[w] = "call"
  /\ RunScript(now[w])
  /\ Done(w)
  /\ UNCHANGED clock

(* The script ran, its reply was lost, and go-redis sends the same command   *)
(* with the same now once more.                                              *)
CallRetried(w) ==
  /\ pc[w] = "call"
  /\ tries[w] < MaxRetries
  /\ RunScript(now[w])
  /\ tries' = [tries EXCEPT ![w] = @ + 1]
  /\ UNCHANGED <<clock, pc, now>>

(* The call failed before Redis ran it: the request passes uncounted.        *)
CallFailed(w) ==
  /\ pc[w] = "call"
  /\ Done(w)
  /\ UNCHANGED <<clock, bucket>>

(* A call lasts at most MaxDelay ticks.                                      *)
Tick ==
  /\ clock < MaxClock
  /\ \A w \in Workers : pc[w] = "call" => clock - now[w] < MaxDelay
  /\ clock' = clock + 1
  /\ UNCHANGED <<bucket, pc, now, tries>>

Next ==
  \/ Tick
  \/ \E w \in Workers : ReadClock(w) \/ Call(w) \/ CallRetried(w) \/ CallFailed(w)

Spec == Init /\ [][Next]_vars

-----------------------------------------------------------------------------
(* Properties *)

(* Whatever the delays, retries and the order in which concurrent calls      *)
(* reach Redis, and although the key expires and is then taken for a full    *)
(* bucket, the tokens handed out are covered by the burst, by the refill of  *)
(* the time that passed, and by the refill of the time counted twice because *)
(* last was moved back.  Needs MaxDelay <= TicksPerSecond: the one second    *)
(* that ceil(burst / rate) + 1 adds to the TTL is what a late call may use.  *)
AdmissionBound == taken * Unit <= Capacity + Rate * (clock + slip)

(* Why the bound holds: the tokens left and the tokens handed out never      *)
(* exceed the capacity and the refill up to last (Potential), and the key    *)
(* outlives the time an empty bucket takes to fill (Expiry).                 *)
Sampled == \A w \in Workers :
             pc[w] = "call" => now[w] <= clock /\ clock <= now[w] + MaxDelay

Expiry == IF taken = 0 THEN expireAt = 0 ELSE last + TTL <= expireAt

Potential == taken * Unit + tokens <= Capacity + Rate * (last + slip)

Inv == TypeOK /\ Sampled /\ last <= clock /\ Expiry /\ Potential

(* The lazily computed bucket, seen at the present time.                     *)
Level == Refilled(clock)

Ideal == INSTANCE TokenBucket WITH time <- clock, level <- Level

(* When no call is delayed, the script with its lazy refill and its expiring *)
(* key is indistinguishable from a bucket that is filled by a clock and      *)
(* never expires.                                                            *)
BucketRefinement == Ideal!Spec

(* Retry-After as the client gets it: retry_after is printed with %.3f, then *)
(* rounded up to whole seconds, and never less than one.                     *)
Milliseconds(n) ==
  LET perSecond == Rate * TicksPerSecond
  IN  (2000 * (Unit - Refilled(n)) + perSecond) \div (2 * perSecond)

RetryAfter(n) == Greater(1, CeilDiv(Milliseconds(n), 1000))

(* Allow's comment: it returns "the time to wait before retrying".  Read as: *)
(* a client that is denied now, waits for Retry-After seconds and competes   *)
(* with nobody finds a token.                                                *)
RetryAfterSuffices ==
  ~Allowed(clock) =>
    Refilled(clock) + RetryAfter(clock) * TicksPerSecond * Rate >= Unit
=============================================================================
