---------------------------- MODULE TokenBucket ----------------------------
(***************************************************************************)
(* The bucket that rate_limit.lua stands for, kept by a clock instead of   *)
(* being computed on demand: it fills at a constant rate up to its         *)
(* capacity, never expires, and a request takes one whole token or none.   *)
(***************************************************************************)
EXTENDS Integers

CONSTANTS
  Unit,   \* the fractions a token is counted in
  Rate,   \* fractions added per tick
  Burst   \* capacity, in tokens

VARIABLES time, level, taken

vars == <<time, level, taken>>

Capacity == Burst * Unit

Lesser(x, y) == IF x <= y THEN x ELSE y

Init == time \in Nat /\ level = Capacity /\ taken = 0

Tick == /\ time' = time + 1
        /\ level' = Lesser(Capacity, level + Rate)
        /\ taken' = taken

Take == /\ level >= Unit
        /\ level' = level - Unit
        /\ taken' = taken + 1
        /\ time' = time

Next == Tick \/ Take

Spec == Init /\ [][Next]_vars
=============================================================================
