-------------------------- MODULE RateLimit_proofs --------------------------
(***************************************************************************)
(* Proofs about RateLimit for any rate, burst, delay and number of calls.  *)
(***************************************************************************)
EXTENDS RateLimit, TLAPS

(* Facts about multiplication that the provers do not find inside a larger   *)
(* step.                                                                     *)
LEMMA TimesMonotone ==
  ASSUME NEW r \in Nat, NEW x \in Int, NEW y \in Int, x <= y
  PROVE  r * x <= r * y
OBVIOUS

LEMMA TimesPlus ==
  ASSUME NEW r \in Int, NEW x \in Int, NEW y \in Int
  PROVE  r * (x + y) = r * x + r * y
OBVIOUS

LEMMA TimesNat == ASSUME NEW x \in Nat, NEW y \in Nat PROVE x * y \in Nat
OBVIOUS

LEMMA CeilDivBound ==
  ASSUME NEW x \in Nat, NEW y \in Nat \ {0}
  PROVE  CeilDiv(x, y) \in Nat /\ y * CeilDiv(x, y) >= x
BY DEF CeilDiv

LEMMA CapacityType == Capacity \in Nat /\ Capacity >= Unit
BY LimitAssumption, TimesNat DEF Capacity

(* The TTL is long enough for an empty bucket to fill, with a second to      *)
(* spare.                                                                    *)
LEMMA TTLFills == TTL \in Nat /\ Rate * (TTL - TicksPerSecond) >= Capacity
<1> DEFINE per == Rate * TicksPerSecond
           c == CeilDiv(Capacity, per)
<1>1. per \in Nat \ {0}
  BY LimitAssumption
<1>2. c \in Nat /\ per * c >= Capacity
  BY <1>1, CapacityType, CeilDivBound
<1>3. TTL = (c + 1) * TicksPerSecond
  BY DEF TTL
<1> HIDE DEF c
<1>4. TTL \in Nat /\ TTL - TicksPerSecond = c * TicksPerSecond
  BY <1>2, <1>3, LimitAssumption
<1>5. Rate * (c * TicksPerSecond) = per * c
  BY <1>2, LimitAssumption
<1> QED BY <1>2, <1>4, <1>5
LEMMA RefilledType ==
  ASSUME TypeOK, NEW n \in Nat PROVE Refilled(n) \in 0..Capacity
<1>1. Greater(0, n - last) \in Nat
  BY DEF TypeOK, Greater
<1>2. Greater(0, n - last) * Rate \in Nat
  BY <1>1, TimesNat, LimitAssumption
<1> QED BY <1>2, CapacityType DEF TypeOK, Refilled, Lesser

(* The script keeps the potential: what it adds is paid for by the time that *)
(* last moves forward, and a full bucket made out of an expired key by the   *)
(* time the key has lived.                                                   *)
LEMMA ScriptStep ==
  ASSUME Inv, MaxDelay <= TicksPerSecond, NEW n \in Nat,
         n <= clock, clock <= n + MaxDelay, RunScript(n), clock' = clock
  PROVE  /\ tokens' \in 0..Capacity /\ last' \in Nat /\ expireAt' \in Nat
         /\ taken' \in Nat /\ slip' \in Nat
         /\ last' <= clock'
         /\ Expiry'
         /\ Potential'
<1> USE LimitAssumption, CapacityType, TTLFills
<1> DEFINE filled == Refilled(n)
<1>1. TypeOK /\ filled \in 0..Capacity
  BY RefilledType DEF Inv
<1>2. /\ tokens' \in 0..Capacity /\ last' \in Nat /\ expireAt' \in Nat
      /\ taken' \in Nat /\ slip' \in Nat
  BY <1>1 DEF TypeOK, RunScript, Allowed, Greater
<1>3. last' <= clock' /\ Expiry'
  <2>1. taken' # 0
    BY <1>1 DEF TypeOK, RunScript, Allowed, Refilled, Exists, Inv, Expiry
  <2>2. last' + TTL <= expireAt'
    BY <1>1 DEF TypeOK, RunScript
  <2> QED BY <1>1, <2>1, <2>2 DEF TypeOK, RunScript, Expiry, TTL, Capacity
<1>4. taken' * Unit + tokens' = taken * Unit + filled
  <2>1. CASE Allowed(n)
    BY <1>1, <2>1 DEF TypeOK, RunScript
  <2>2. CASE ~Allowed(n)
    BY <1>1, <2>2 DEF TypeOK, RunScript
  <2> QED BY <2>1, <2>2
<1>5. taken * Unit + filled <= Capacity + Rate * (last' + slip')
  <2>1. CASE Exists /\ last <= n
    <3>1. filled <= tokens + Rate * (n - last)
      BY <1>1, <2>1 DEF TypeOK, Refilled, Lesser, Greater
    <3>2. last' + slip' = (last + slip) + (n - last)
      BY <1>1, <2>1 DEF TypeOK, RunScript, Greater
    <3>3. Rate * (last' + slip') = Rate * (last + slip) + Rate * (n - last)
      BY <1>1, <3>2, TimesPlus DEF TypeOK
    <3> QED BY <1>1, <3>1, <3>3 DEF TypeOK, Inv, Potential
  <2>2. CASE Exists /\ n < last
    <3>1. filled <= tokens
      BY <1>1, <2>2 DEF TypeOK, Refilled, Lesser, Greater
    <3>2. last' + slip' = last + slip
      BY <1>1, <2>2 DEF TypeOK, RunScript, Greater
    <3> QED BY <1>1, <3>1, <3>2 DEF TypeOK, Inv, Potential
  <2>3. CASE ~Exists /\ taken = 0
    BY <1>1, <1>2, <2>3, TimesNat DEF TypeOK
  <2>4. CASE ~Exists /\ taken # 0
    <3>1. TTL - TicksPerSecond <= n - last
      BY <1>1, <2>4 DEF TypeOK, Exists, Inv, Expiry
    <3>2. Capacity <= Rate * (n - last)
      BY <1>1, <3>1, TimesMonotone DEF TypeOK
    <3>3. last' + slip' = (last + slip) + (n - last)
      BY <1>1, <2>4 DEF TypeOK, RunScript
    <3>4. Rate * (last' + slip') = Rate * (last + slip) + Rate * (n - last)
      BY <1>1, <3>3, TimesPlus DEF TypeOK
    <3> QED BY <1>1, <3>2, <3>4 DEF TypeOK, Inv, Potential
  <2> QED BY <1>1, <2>1, <2>2, <2>3, <2>4 DEF TypeOK
<1>6. Potential'
  <2>1. Capacity' = Capacity
    BY DEF Capacity
  <2> QED BY <1>4, <1>5, <2>1 DEF Potential
<1> QED BY <1>2, <1>3, <1>6

LEMMA InvStep ==
  ASSUME MaxDelay <= TicksPerSecond, Inv, [Next]_vars PROVE Inv'
<1> USE LimitAssumption DEF bucket
<1>1. CASE Tick
  BY <1>1, CapacityType DEF Tick, Inv, TypeOK, Sampled, Expiry, Potential, Capacity, TTL
<1>2. ASSUME NEW w \in Workers, ReadClock(w) PROVE Inv'
  BY <1>2 DEF ReadClock, Inv, TypeOK, Sampled, Expiry, Potential, Capacity, TTL
<1>3. ASSUME NEW w \in Workers, Call(w) \/ CallRetried(w) PROVE Inv'
  <2>1. /\ now[w] \in Nat /\ now[w] <= clock /\ clock <= now[w] + MaxDelay
        /\ RunScript(now[w]) /\ clock' = clock
    BY <1>3 DEF Call, CallRetried, Inv, TypeOK, Sampled
  <2>2. /\ tokens' \in 0..Capacity /\ last' \in Nat /\ expireAt' \in Nat
        /\ taken' \in Nat /\ slip' \in Nat
        /\ last' <= clock' /\ Expiry' /\ Potential'
    BY <2>1, ScriptStep
  <2>3. /\ pc' \in [Workers -> {"idle", "call"}]
        /\ now' \in [Workers -> Nat]
        /\ tries' \in [Workers -> 0..MaxRetries]
        /\ Sampled'
    BY <1>3 DEF Call, CallRetried, Done, Inv, TypeOK, Sampled
  <2> QED BY <2>1, <2>2, <2>3 DEF Inv, TypeOK, Capacity
<1>4. ASSUME NEW w \in Workers, CallFailed(w) PROVE Inv'
  BY <1>4 DEF CallFailed, Done, Inv, TypeOK, Sampled, Expiry, Potential, Capacity, TTL
<1>5. CASE UNCHANGED vars
  BY <1>5 DEF vars, Inv, TypeOK, Sampled, Expiry, Potential, Capacity, TTL
<1> QED BY <1>1, <1>2, <1>3, <1>4, <1>5 DEF Next

LEMMA Invariance == MaxDelay <= TicksPerSecond => (Spec => []Inv)
<1> SUFFICES ASSUME MaxDelay <= TicksPerSecond PROVE Spec => []Inv
  OBVIOUS
<1>1. Init => Inv
  BY LimitAssumption, CapacityType
     DEF Init, Inv, TypeOK, Sampled, Expiry, Potential
<1>2. Inv /\ [Next]_vars => Inv'
  BY InvStep
<1> QED BY <1>1, <1>2, PTL DEF Spec

(* The bucket, the clock and the calls keep their types; in particular the   *)
(* tokens never leave 0..burst.                                              *)
THEOREM TypeCorrect == MaxDelay <= TicksPerSecond => (Spec => []TypeOK)
<1>1. Inv => TypeOK
  BY DEF Inv
<1> QED BY <1>1, Invariance, PTL

(* For calls that take at most a second, at any rate and burst: the tokens   *)
(* handed out are covered by burst, by the time passed and by the time that  *)
(* out-of-order calls made the script count twice.                           *)
THEOREM AdmissionBoundHolds == MaxDelay <= TicksPerSecond => (Spec => []AdmissionBound)
<1>1. Inv => AdmissionBound
  <2> SUFFICES ASSUME Inv PROVE AdmissionBound
    OBVIOUS
  <2>1. Rate * (last + slip) <= Rate * (clock + slip)
    BY TimesMonotone, LimitAssumption DEF Inv, TypeOK
  <2> QED BY <2>1, CapacityType, LimitAssumption DEF Inv, TypeOK, Potential, AdmissionBound
<1> QED BY <1>1, Invariance, PTL

(* A tick fills the lazily computed level as it fills the ideal bucket, also *)
(* when it is the tick at which the key expires.                             *)
LEMMA LevelTick == ASSUME Inv, Tick PROVE Ideal!Tick
<1> USE LimitAssumption, CapacityType, TTLFills
<1>0. /\ TypeOK /\ clock' = clock + 1 /\ UNCHANGED bucket
      /\ Capacity' = Capacity /\ last <= clock /\ Expiry
  BY DEF Inv, Tick, Capacity
<1>1. (clock + 1 - last) * Rate = (clock - last) * Rate + Rate
      /\ (clock - last) * Rate \in Nat
  BY <1>0, TimesNat DEF TypeOK
<1>2. Level' = Lesser(Capacity, Level + Rate)
  <2>1. CASE Exists /\ Exists'
    BY <1>0, <1>1, <2>1 DEF TypeOK, bucket, Level, Refilled, Lesser, Greater
  <2>2. CASE Exists /\ ~Exists'
    <3>1. last + TTL <= clock + 1
      BY <1>0, <2>2 DEF TypeOK, bucket, Exists, Expiry
    <3>2. Rate * (TTL - TicksPerSecond) <= Rate * (clock + 1 - last)
      BY <1>0, <3>1, TimesMonotone DEF TypeOK
    <3>3. Capacity <= (clock + 1 - last) * Rate
      BY <1>0, <3>2 DEF TypeOK
    <3> QED BY <1>0, <1>1, <2>2, <3>3 DEF TypeOK, bucket, Level, Refilled, Lesser, Greater
  <2>3. CASE ~Exists
    <3>1. ~Exists'
      BY <1>0, <2>3 DEF TypeOK, bucket, Exists
    <3> QED BY <1>0, <2>3, <3>1 DEF Level, Refilled, Lesser
  <2> QED BY <2>1, <2>2, <2>3
<1> QED BY <1>0, <1>2 DEF Ideal!Tick, Ideal!Lesser, Ideal!Capacity, Lesser, Capacity, bucket

LEMMA LesserWithin == ASSUME NEW c \in Nat, NEW x \in 0..c PROVE Lesser(c, x) = x
BY DEF Lesser

LEMMA ZeroRefill ==
  ASSUME NEW x \in Nat, NEW y \in Nat, NEW r \in Nat
  PROVE  x + Greater(0, y - y) * r = x
BY DEF Greater

(* A script run with the present time takes a token of the ideal bucket or   *)
(* leaves it alone.                                                          *)
LEMMA LevelScript ==
  ASSUME Inv, RunScript(clock), clock' = clock
  PROVE  Ideal!Take \/ UNCHANGED Ideal!vars
<1> USE LimitAssumption, CapacityType, TTLFills
<1>1. TypeOK /\ Level \in 0..Capacity
  BY RefilledType DEF Inv, TypeOK, Level
<1>2. Level' = tokens'
  <2>1. Rate * (TTL - TicksPerSecond) > 0
    BY <1>1 DEF TypeOK
  <2>2. TTL > 0
    BY <2>1
  <2>3. Exists'
    BY <1>1, <2>2 DEF TypeOK, Exists, RunScript
  <2>4. tokens' \in 0..Capacity /\ last' = clock' /\ Capacity' = Capacity
    BY <1>1 DEF RunScript, Allowed, Level, Capacity
  <2>5. tokens' + Greater(0, clock' - last') * Rate = tokens'
    BY <1>1, <2>4, ZeroRefill DEF TypeOK
  <2>6. Level' = Lesser(Capacity, tokens')
    BY <2>3, <2>4, <2>5 DEF Level, Refilled, Lesser, Greater
  <2> QED BY <2>4, <2>6, LesserWithin
<1>3. CASE Allowed(clock)
  BY <1>1, <1>2, <1>3 DEF RunScript, Allowed, Level, Ideal!Take
<1>4. CASE ~Allowed(clock)
  BY <1>1, <1>2, <1>4 DEF RunScript, Allowed, Level, Ideal!vars
<1> QED BY <1>3, <1>4

(* When calls are not delayed, the limiter implements TokenBucket: computing *)
(* the refill lazily, expiring the key and sending a command twice cannot be *)
(* told from a bucket filled by a clock.                                     *)
THEOREM Refinement == MaxDelay = 0 => (Spec => BucketRefinement)
<1> SUFFICES ASSUME MaxDelay = 0 PROVE Spec => BucketRefinement
  OBVIOUS
<1>0. MaxDelay <= TicksPerSecond
  BY LimitAssumption
<1>1. Init => Ideal!Init
  BY LimitAssumption DEF Init, Ideal!Init, Level, Refilled, Exists, Capacity, Ideal!Capacity
<1>2. Inv /\ [Next]_vars => [Ideal!Next]_(Ideal!vars)
  <2> SUFFICES ASSUME Inv, [Next]_vars PROVE Ideal!Next \/ UNCHANGED Ideal!vars
    OBVIOUS
  <2>1. CASE Tick
    BY <2>1, LevelTick DEF Ideal!Next
  <2>2. ASSUME NEW w \in Workers, Call(w) \/ CallRetried(w)
        PROVE  Ideal!Next \/ UNCHANGED Ideal!vars
    <3>1. now[w] = clock /\ RunScript(now[w]) /\ clock' = clock
      BY <2>2 DEF Inv, TypeOK, Sampled, Call, CallRetried
    <3> QED BY <3>1, LevelScript DEF Ideal!Next
  <2>3. CASE \E w \in Workers : ReadClock(w) \/ CallFailed(w)
    BY <2>3 DEF ReadClock, CallFailed, bucket, Ideal!vars, Level, Refilled, Exists,
                Capacity, Lesser, Greater
  <2>4. CASE UNCHANGED vars
    BY <2>4 DEF vars, bucket, Ideal!vars, Level, Refilled, Exists, Capacity, Lesser, Greater
  <2> QED BY <2>1, <2>2, <2>3, <2>4 DEF Next
<1> QED BY <1>0, <1>1, <1>2, Invariance, PTL DEF Spec, BucketRefinement, Ideal!Spec

=============================================================================
