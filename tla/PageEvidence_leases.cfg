SPECIFICATION FairSpec

CONSTANTS
  x = x
  y = y
  Process = {p1, p2}
  Run = {r1, r2}
  Proposal = {q1}
  Text = {x}
  NoText = NoText
  Readings <- MayFail
  MaxPage = 2
  MaxNumber = 1
  MaxVersion = 1
  MaxCorrections = 0
  MaxFaults = 2
  NoProcess = NoProcess
  NoRun = NoRun
  NoProposal = NoProposal
  NoRow = NoRow
  Deleted = Deleted
  Kinds = {"pdf", "text"}
  Commands = {"extract", "open", "compile"}

INVARIANT ImagesPresent
INVARIANT NoLitter
PROPERTY LiveRunsIntact
PROPERTY RunsEnd
