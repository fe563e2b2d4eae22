\* Three calls at a time, two ticks a second, calls up to a second late, one
\* retry: a bucket of 2 tokens that refills 2 tokens in 3 ticks and expires.
CONSTANTS
  Workers = {w1, w2, w3}
  Unit = 3
  Rate = 2
  Burst = 2
  TicksPerSecond = 2
  MaxDelay = 2
  MaxRetries = 1
  MaxClock = 9
SPECIFICATION Spec
SYMMETRY Symmetry
INVARIANTS
  AdmissionBound
