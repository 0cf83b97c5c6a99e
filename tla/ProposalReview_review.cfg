SPECIFICATION Spec
CONSTANTS
  MaxCompiles = 2
  MaxRestores = 2
  MaxEdits = 2
  MaxFaults = 1
  gas = gas
  Gas = Gas
  spaced = spaced
  other = other
  c1 = c1
  c2 = c2
  Title <- OneTitle
  Key <- OneKey
  Slug <- OneSlug
  Claim = {c1, c2}
  Note = {n1}
  Edited = Edited
  Unmanaged = Unmanaged
  None = None
INVARIANT TypeOK
INVARIANT RowsAgree
INVARIANT FileIsCurrent
PROPERTY ReviewedLatest
PROPERTY LossesReviewed
CHECK_DEADLOCK FALSE
