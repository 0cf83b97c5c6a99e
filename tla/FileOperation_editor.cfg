SPECIFICATION Spec

CONSTANTS
  Process = {p1}
  Run = {r1, r2}
  Proposal = {a1, a2}
  Save = {u1, u2}
  Base = Base
  Missing = Missing
  Torn = Torn
  Source = Source
  Foreign = Foreign
  NoProcess = NoProcess
  NoRun = NoRun
  NoOp = NoOp
  NoToken = NoToken
  Commands = {"open", "apply", "keep"}
  HeldInode = TRUE
  MaxFaults = 1

SYMMETRY Symmetry

INVARIANT SavesSurvive
INVARIANT Settled
INVARIANT SourcesRetained
