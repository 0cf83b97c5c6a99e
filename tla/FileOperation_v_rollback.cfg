SPECIFICATION Spec

CONSTANTS
  Process = {p1, p2}
  Run = {r1, r2}
  Proposal = {a1}
  Save = {}
  Base = Base
  Missing = Missing
  Torn = Torn
  Source = Source
  Foreign = Foreign
  NoProcess = NoProcess
  NoRun = NoRun
  NoOp = NoOp
  NoToken = NoToken
  Commands = {"open", "apply"}
  HeldInode = TRUE
  MaxFaults = 1

SYMMETRY Symmetry

INVARIANT DigestMatches
