\* One change, two retargets, one click, one pass that fails; two events fill a window.
CONSTANTS
  Starts = {"s1"}
  Burst = 1
  MaxQueue = 1
  MaxChanges = 1
  MaxTargets = 3
  MaxClicks = 1
  MaxFailures = 1
  None = None
SPECIFICATION FairSpec
\* A closed host does nothing more.
CHECK_DEADLOCK FALSE
INVARIANTS
  NoChangeIsForgotten
  StoreOutlivesPasses
PROPERTIES
  ChangesAreScanned
  CloseEnds
