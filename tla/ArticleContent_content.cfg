SPECIFICATION Spec

CONSTANTS
  h1 = h1
  h2 = h2
  t1 = t1
  t2 = t2
  r1 = r1
  g1 = g1
  g2 = g2
  related = "related_concepts"
  Answer <- MCAnswer
  Verified <- MCVerified
  UserLine <- MCUserLine
  RelatedKey = "related_concepts"
  RelatedTitle = h2
  Word <- MCWord
  Page = {g1, g2}
  MaxCompiles = 2
  MaxEdits = 2
  MaxCells = 30
  None = None

INVARIANT Accumulates
INVARIANT RowsComplete
PROPERTY UserLinesKept
PROPERTY PublishedReadable
PROPERTY DiffExact

CHECK_DEADLOCK FALSE
