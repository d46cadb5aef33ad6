\* Two workers taking jobs over from each other, two interactions, one reconciler.
CONSTANTS
  w1 = w1
  w2 = w2
  r1 = r1
  r2 = r2
  i1 = i1
  i2 = i2
  Workers = {w1, w2}
  Reconcilers = {r1}
  Interactions = {i1, i2}
  MaxLeases = 2
SPECIFICATION Spec
SYMMETRY Symmetry
VIEW Canonical
\* A finished run leaves nothing to do.
CHECK_DEADLOCK FALSE
INVARIANTS
  TypeOK
  QueuedHasJob
  DoneMeansSettled
  WaitingIsAnswerable
  ConsumedWasAnswered
  CompletedLeavesNobodyWaiting
