\* One request.
CONSTANTS
  Workers = {w1}
  MaxConns = 1
SPECIFICATION FairSpec
PROPERTY
  ExitsAfterTimeout
\* The process ends.
CHECK_DEADLOCK FALSE
