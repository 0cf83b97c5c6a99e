SPECIFICATION Spec

CONSTANTS
  Process = {p1}
  Run = {r1, r2, r3}
  Proposal = {a1, a2}
  Save = {}
  Base = Base
  Missing = Missing
  Torn = Torn
  Source = Source
  Foreign = Foreign
  NoProcess = NoProcess
  NoRun = NoRun
  NoOp = NoOp
  NoToken = NoToken
  Commands = {"open", "apply"}
  HeldInode = FALSE
  MaxFaults = 3

PROPERTY AppliesAtomically
