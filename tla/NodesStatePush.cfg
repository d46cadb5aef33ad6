\* Two siblings that both push a state member.
CONSTANTS
  e1 = e1
  e2 = e2
  k1 = k1
  k2 = k2
  o1 = o1
  o2 = o2
  None = None
  Executors = {e1}
  Keys = {k1, k2}
  Outputs = {o1}
  Needs <- Siblings
  Pushers = {k1, k2}
  Extra <- NoneExtra
  Files <- NoneExtra
  Limit = 1
  MaxClaims = 1
SPECIFICATION Spec
\* A finished run leaves nothing to do, and claims are bounded.
CHECK_DEADLOCK FALSE
INVARIANT RevisionChangesOnlyItsMembers
