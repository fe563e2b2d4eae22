\* Two requests and a health check over two connections: the requests may take
\* both.  No symmetry (liveness).
CONSTANTS
  Workers = {w1, w2}
  MaxConns = 2
SPECIFICATION FairSpec
INVARIANTS
  TypeOK
  GraceRespected
  CleanExit
  HealthTruthful
PROPERTIES
  ShutdownEnds
  HealthAnswers
\* The process ends.
CHECK_DEADLOCK FALSE
