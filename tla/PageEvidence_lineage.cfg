SPECIFICATION Spec

CONSTANTS
  x = x
  y = y
  Process = {p1}
  Run = {r1, r2, r3}
  Proposal = {q1, q2}
  Text = {x}
  NoText = NoText
  Readings <- OneReading
  MaxPage = 6
  MaxNumber = 2
  MaxVersion = 2
  MaxCorrections = 1
  MaxFaults = 0
  NoProcess = NoProcess
  NoRun = NoRun
  NoProposal = NoProposal
  NoRow = NoRow
  Deleted = Deleted
  Kinds = {"pdf"}
  Commands = {"extract", "compile"}

SYMMETRY Symmetry

INVARIANT CurrentPages
INVARIANT Lineage
