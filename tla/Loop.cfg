\* Two executors, up to three claims, a loop of at most two iterations.
CONSTANTS
  e1 = e1
  e2 = e2
  Executors = {e1, e2}
  Cap = 2
  MaxClaims = 3
SPECIFICATION FairSpec
\* A finished run leaves nothing to do, and claims are bounded.
CHECK_DEADLOCK FALSE
INVARIANTS
  BodiesInOrder
  ProgressIsBacked
PROPERTIES
  CompletionIsFinal
  ImplementsBoundedLoop
  LoopEnds
