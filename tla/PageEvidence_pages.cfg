SPECIFICATION Spec

CONSTANTS
  x = x
  y = y
  Process = {p1, p2}
  Run = {r1, r2}
  Proposal = {q1, q2}
  Text = {x, y}
  NoText = NoText
  Readings <- TwoReadings
  MaxPage = 3
  MaxNumber = 1
  MaxVersion = 1
  MaxCorrections = 3
  MaxFaults = 0
  NoProcess = NoProcess
  NoRun = NoRun
  NoProposal = NoProposal
  NoRow = NoRow
  Deleted = Deleted
  Kinds = {"pdf"}
  Commands = {"extract", "compile", "accept"}

SYMMETRY Symmetry

INVARIANT TypeOK
INVARIANT EvidenceFrozen
PROPERTY NothingStalePublished
PROPERTY AcceptedAsShown
