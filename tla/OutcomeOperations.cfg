CONSTANTS
  Requests = {"proposed", "scripted"}
  Scripted = {"scripted"}
  Hosts = {"a", "b"}
  MaxVersions = 1
  MaxFaults = 2
  None = None
SPECIFICATION FairSpec
\* Every request may be finished.
CHECK_DEADLOCK FALSE
INVARIANTS
  OnePurchaseStands
  CapacityHolds
PROPERTIES
  ImplementsOneReceipt
  CapacityReturns
