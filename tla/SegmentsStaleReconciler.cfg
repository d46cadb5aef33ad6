\* Two reconcilers: one that read the run a segment ago still advances it.
CONSTANTS
  w1 = w1
  w2 = w2
  r1 = r1
  r2 = r2
  i1 = i1
  i2 = i2
  Workers = {w1, w2}
  Reconcilers = {r1, r2}
  Interactions = {i1, i2}
  MaxLeases = 1
SPECIFICATION Spec
\* A finished run leaves nothing to do.
CHECK_DEADLOCK FALSE
INVARIANT QueuedHasJob
