\* A persisted "failed" machine state is resumed as if the loop were done.
CONSTANTS
  e1 = e1
  e2 = e2
  Executors = {e1, e2}
  Cap = 1
  MaxClaims = 2
SPECIFICATION Spec
\* A finished run leaves nothing to do, and claims are bounded.
CHECK_DEADLOCK FALSE
INVARIANT LoopCompletesOnlyOnTermination
