SPECIFICATION Spec
CONSTANTS
  MaxCompiles = 3
  MaxRestores = 1
  MaxEdits = 0
  MaxFaults = 1
  gas = gas
  Gas = Gas
  spaced = spaced
  other = other
  c1 = c1
  c2 = c2
  Title <- MCTitle
  Key <- MCKey
  Slug <- MCSlug
  Claim = {c1}
  Note = {n1}
  Edited = Edited
  Unmanaged = Unmanaged
  None = None
INVARIANT OneOpenPerConcept
INVARIANT OneArticlePerConcept
INVARIANT AuditedGeneration
INVARIANT OvertakenLater
CHECK_DEADLOCK FALSE
