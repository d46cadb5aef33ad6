\* A chat or a folder pass, one reader of two-frame pages.
CONSTANTS
  Kinds = {"chat", "sync"}
  Readers = {"r1"}
  Limit = 2
  MaxPushes = 3
  MaxFaults = 2
SPECIFICATION FairSpec
\* A run that ended and was read leaves nothing to do.
CHECK_DEADLOCK FALSE
INVARIANTS
  SummaryAccountsForFrames
  PagesAreTheLog
PROPERTIES
  ImplementsSealedLog
  RunsEnd
