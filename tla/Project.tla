------------------------------ MODULE Project ------------------------------
(***************************************************************************)
(* Projects are initialised, upgraded and filled by commands that run at   *)
(* the same time: ProjectSetup and SourceImport share the history of the   *)
(* migrations and SQLite's write lock.  A process runs one command after   *)
(* another, so it is never in both.                                        *)
(***************************************************************************)
EXTENDS Integers, Sequences, FiniteSets

CONSTANTS
  Process, NoProcess,
  Vault, LastMigration, Release, Rebuilds, MaxInits, NoVault,
  Document, Format, Bytes, Original, MaxImports, MaxVersions, MaxChanges,
  Identities, NoBytes, NoSource,
  MaxFaults  \* bound on the faults of both kinds of commands together

VARIABLES
  history, writer, faults,
  config, directories, effects, draft, init, mine, release, applied, ready,
  inits,
  document, sources, versions, copy, import, request, staged, digest, shared,
  retained, paths, imports, changes, altered, abandoned

Setup == INSTANCE ProjectSetup
Import == INSTANCE SourceImport

ASSUME ProjectConstants == Setup!SetupConstants /\ Import!ImportConstants

setupOnly == <<config, directories, effects, draft, init, mine, release, applied,
               ready, inits>>
importOnly == <<document, sources, versions, copy, import, request, staged,
                digest, shared, retained, paths, imports, changes, altered,
                abandoned>>
vars == <<history, writer, faults, setupOnly, importOnly>>

Init == Setup!Init /\ Import!Init

InitCommand(p) ==
  /\ import[p] = "idle"
  /\ Setup!InitStep(p)
  /\ UNCHANGED importOnly

ImportCommand(p) ==
  /\ init[p] = "idle"
  /\ Import!ImportStep(p)
  /\ UNCHANGED setupOnly

FromOutside == Import!Outside /\ UNCHANGED setupOnly

Next ==
  \/ \E p \in Process : InitCommand(p) \/ ImportCommand(p)
  \/ FromOutside

Spec == Init /\ [][Next]_vars

----------------------------------------------------------------------------
\* Every variable of both modules has its type.
TypeOK == Setup!SetupTypeOK /\ Import!ImportTypeOK

\* An upgrade may take the write lock, and commit, between any two steps of
\* an import: the properties of the two modules hold of their composition.

\* A migration's effects and its history row are never apart
\* (migration_runner.cpp:132-157).
AppliedOnce == Setup!AppliedOnce
\* What an init reported is there, and nothing without a configuration
\* (project_initializer.cpp:104-128).
ReadyProject == Setup!ReadyProject
\* The same bytes are retained once (source_importer.cpp:414-455).
OneCopyPerDigest == Import!OneCopyPerDigest
\* Versions have their bytes and failed imports leave no copy, whatever edits,
\* failures and deaths happen beside them (source_importer.cpp:391-405, 450-454
\* and 521-535).
CopiesMatch == Import!CopiesMatch
\* Successive versions differ (source_importer.cpp:459-468).
RevisionsDiffer == Import!RevisionsDiffer
\* A successful import is the latest version (source_importer.cpp:459-470).
ImportedIsLatest == Import!ImportedIsLatest
=============================================================================
