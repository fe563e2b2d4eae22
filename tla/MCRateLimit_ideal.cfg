\* No delay: against the ideal bucket of TokenBucket, through two expiries.
CONSTANTS
  Workers = {w1, w2}
  Unit = 3
  Rate = 2
  Burst = 2
  TicksPerSecond = 2
  MaxDelay = 0
  MaxRetries = 1
  MaxClock = 16
SPECIFICATION Spec
SYMMETRY Symmetry
PROPERTY
  BucketRefinement
