\* Fair workers, queue and reconciler; one interaction, a job may be taken over once.
CONSTANTS
  w1 = w1
  w2 = w2
  r1 = r1
  r2 = r2
  i1 = i1
  i2 = i2
  Workers = {w1, w2}
  Reconcilers = {r1}
  Interactions = {i1}
  MaxLeases = 2
SPECIFICATION FairSpec
\* A finished run leaves nothing to do.
CHECK_DEADLOCK FALSE
PROPERTIES
  ResponsesAreUsed
  SegmentsEnd
