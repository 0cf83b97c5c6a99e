SPECIFICATION Spec

CONSTANTS
  Process = {p1, p2}
  NoProcess = NoProcess
  Vault = {v1}
  LastMigration = 4
  Release = {3, 4}
  Rebuilds = {3}
  MaxInits = 2
  NoVault = NoVault
  d1 = d1
  d2 = d2
  d3 = d3
  b1 = b1
  b2 = b2
  Document = {d1, d2, d3}
  Format <- MCFormat
  Bytes = {b1, b2}
  Original <- MCOriginal
  MaxImports = 3
  MaxVersions = 3
  MaxChanges = 1
  Identities = 3
  NoBytes = NoBytes
  NoSource = NoSource
  MaxFaults = 1

SYMMETRY Symmetry

INVARIANT TypeOK
INVARIANT AppliedOnce
INVARIANT ReadyProject
INVARIANT OneCopyPerDigest
INVARIANT CopiesMatch
INVARIANT RevisionsDiffer
PROPERTY ImportedIsLatest

CHECK_DEADLOCK FALSE
