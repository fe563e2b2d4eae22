\* 59 requests a minute with a burst of 1, in ticks of 0.1 ms.
CONSTANTS
  Workers = {w1}
  Unit = 600000
  Rate = 59
  Burst = 1
  TicksPerSecond = 10000
  MaxDelay = 0
  MaxRetries = 0
  MaxClock = 200
SPECIFICATION Spec
INVARIANT
  RetryAfterSuffices
