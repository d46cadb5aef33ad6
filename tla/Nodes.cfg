\* Two executors, up to three claims, two dependent nodes that both push state.
CONSTANTS
  e1 = e1
  e2 = e2
  k1 = k1
  k2 = k2
  o1 = o1
  o2 = o2
  None = None
  Executors = {e1, e2}
  Keys = {k1, k2}
  Outputs = {o1, o2}
  Needs <- Chain
  Pushers = {k1, k2}
  Extra <- ExtraOfK2
  Files <- FilesOfK1
  Limit = 2
  MaxClaims = 3
SPECIFICATION Spec
SYMMETRY Symmetry
\* A finished run leaves nothing to do, and claims are bounded.
CHECK_DEADLOCK FALSE
INVARIANTS
  TypeOK
  LatestAttemptDecides
  MessagesMatchCompletions
  TraceSeqsDistinct
  WalksSeeCommitted
  RevisionChangesOnlyItsMembers
  SpendWithinLimit
  AccountIsReceipts
PROPERTIES
  StaleExecutorsWriteNothing
  ImplementsSemanticCommit
