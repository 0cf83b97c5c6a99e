SPECIFICATION Spec

CONSTANTS
  Process = {p1, p2}
  Run = {r1, r2}
  Proposal = {a1}
  Save = {u1}
  Base = Base
  Missing = Missing
  Torn = Torn
  Source = Source
  Foreign = Foreign
  NoProcess = NoProcess
  NoRun = NoRun
  NoOp = NoOp
  NoToken = NoToken
  Commands = {"open", "apply", "keep"}
  HeldInode = TRUE
  MaxFaults = 1

SYMMETRY Symmetry

INVARIANT WriterInvariant
INVARIANT OneApply
