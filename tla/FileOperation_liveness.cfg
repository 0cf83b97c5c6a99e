SPECIFICATION FairSpec

CONSTANTS
  Process = {p1}
  Run = {r1}
  Proposal = {a1}
  Save = {u1}
  Base = Base
  Missing = Missing
  Torn = Torn
  Source = Source
  Foreign = Foreign
  NoProcess = NoProcess
  NoRun = NoRun
  NoOp = NoOp
  NoToken = NoToken
  Commands = {"open", "apply", "keep"}
  HeldInode = TRUE
  MaxFaults = 4

INVARIANT NoOrphans
PROPERTY JournalRecoveryRepeats
PROPERTY RecoveryTerminatesUnblocked
