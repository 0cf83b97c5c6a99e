---------------------------- MODULE Project_proofs ----------------------------
(***************************************************************************)
(* What ProjectSetup and SourceImport keep alone they keep together: they  *)
(* share the history, the write lock and the count of the faults, and      *)
(* neither takes the lock from a command of the other.                     *)
(***************************************************************************)
EXTENDS Project, TLAPS

SP == INSTANCE ProjectSetup_proofs
IP == INSTANCE SourceImport_proofs

\* The inductive invariant.
ProjectInvariant == SP!ReadyInvariant /\ IP!ImportInvariant

\* The modules that Project instantiates are those the lemmas are about.
LEMMA SetupSame ==
  /\ Setup!SetupConstants <=> SP!SetupConstants
  /\ Setup!Init <=> SP!Init
  /\ \A p \in Process : Setup!InitStep(p) <=> SP!InitStep(p)
  /\ Setup!SetupTypeOK <=> SP!SetupTypeOK
  /\ Setup!AppliedOnce <=> SP!AppliedOnce
  /\ Setup!ReadyProject <=> SP!ReadyProject
<1>1. Setup!SetupConstants <=> SP!SetupConstants
  BY DEF Setup!SetupConstants, SP!SetupConstants, Setup!Migration, SP!Migration
<1>2. Setup!Init <=> SP!Init
  BY DEF Setup!Init, SP!Init, Setup!Migration, SP!Migration
<1>3. ASSUME NEW p \in Process PROVE Setup!InitStep(p) <=> SP!InitStep(p)
  BY DEF Setup!InitStep, Setup!StartInit, Setup!CreateDirectories,
         Setup!WriteConfig, Setup!ReadApplied, Setup!BeginMigration,
         Setup!RunScript, Setup!CommitMigration, Setup!FinishInit,
         Setup!MigrationFails, Setup!InitFault, Setup!Abort, Setup!End,
         Setup!At, Setup!Goto, Setup!projectVars, Setup!databaseVars,
         Setup!localVars, Setup!Pending, Setup!Least, Setup!NextMigration,
         Setup!ScriptFails, Setup!RecordFails,
         SP!InitStep, SP!StartInit, SP!CreateDirectories,
         SP!WriteConfig, SP!ReadApplied, SP!BeginMigration,
         SP!RunScript, SP!CommitMigration, SP!FinishInit,
         SP!MigrationFails, SP!InitFault, SP!Abort, SP!End,
         SP!At, SP!Goto, SP!projectVars, SP!databaseVars,
         SP!localVars, SP!Pending, SP!Least, SP!NextMigration,
         SP!ScriptFails, SP!RecordFails
<1>4. Setup!SetupTypeOK <=> SP!SetupTypeOK
  BY DEF Setup!SetupTypeOK, SP!SetupTypeOK, Setup!Migration, SP!Migration
<1>5. Setup!AppliedOnce <=> SP!AppliedOnce
  BY DEF Setup!AppliedOnce, SP!AppliedOnce, Setup!Migration, SP!Migration
<1>6. Setup!ReadyProject <=> SP!ReadyProject
  BY DEF Setup!ReadyProject, SP!ReadyProject
<1> QED BY <1>1, <1>2, <1>3, <1>4, <1>5, <1>6

\* The same of the imports.
LEMMA ImportSame ==
  /\ Import!ImportConstants <=> IP!ImportConstants
  /\ Import!Init <=> IP!Init
  /\ \A p \in Process : Import!ImportStep(p) <=> IP!ImportStep(p)
  /\ Import!Outside <=> IP!Outside
  /\ Import!ImportTypeOK <=> IP!ImportTypeOK
  /\ Import!OneCopyPerDigest <=> IP!OneCopyPerDigest
  /\ Import!CopiesMatch <=> IP!CopiesMatch
  /\ Import!RevisionsDiffer <=> IP!RevisionsDiffer
<1> USE DEF Import!Source, IP!Source, Import!Path, IP!Path, Import!Request,
            IP!Request, Import!NoRequest, IP!NoRequest, Import!Rows, IP!Rows
<1>1. Import!ImportConstants <=> IP!ImportConstants
  BY DEF Import!ImportConstants, IP!ImportConstants
<1>2. Import!Init <=> IP!Init
  BY DEF Import!Init, IP!Init
<1>3. ASSUME NEW p \in Process PROVE Import!ImportStep(p) <=> IP!ImportStep(p)
  BY DEF Import!ImportStep, Import!StartImport, Import!Stage, Import!Digest,
         Import!Begin, Import!Repair, Import!Unchanged, Import!Retain,
         Import!Insert, Import!Fail, Import!Cleanup, Import!Remove,
         Import!LeaveCopy, Import!Die, Import!At,
         Import!Goto, Import!Forget, Import!Copies, Import!Latest,
         Import!Revisable, Import!CopyMatches, Import!UpToDate, Import!RowsOf,
         Import!StoredPath, Import!OwnPath, Import!Refused, Import!rowVars,
         Import!fileVars, Import!outsideVars, Import!localVars,
         IP!ImportStep, IP!StartImport, IP!Stage, IP!Digest,
         IP!Begin, IP!Repair, IP!Unchanged, IP!Retain,
         IP!Insert, IP!Fail, IP!Cleanup, IP!Remove, IP!LeaveCopy, IP!Die, IP!At,
         IP!Goto, IP!Forget, IP!Copies, IP!Latest,
         IP!Revisable, IP!CopyMatches, IP!UpToDate, IP!RowsOf,
         IP!StoredPath, IP!OwnPath, IP!Refused, IP!rowVars,
         IP!fileVars, IP!outsideVars, IP!localVars
<1>4. Import!Outside <=> IP!Outside
  BY DEF Import!Outside, Import!EditDocument, Import!AlterCopy, Import!Change,
         Import!rowVars, Import!fileVars, Import!localVars,
         IP!Outside, IP!EditDocument, IP!AlterCopy, IP!Change,
         IP!rowVars, IP!fileVars, IP!localVars
<1>5. Import!ImportTypeOK <=> IP!ImportTypeOK
  BY DEF Import!ImportTypeOK, IP!ImportTypeOK
<1>6. Import!OneCopyPerDigest <=> IP!OneCopyPerDigest
  BY DEF Import!OneCopyPerDigest, IP!OneCopyPerDigest
<1>7. Import!CopiesMatch <=> IP!CopiesMatch
  BY DEF Import!CopiesMatch, IP!CopiesMatch, Import!CopiesStored,
         IP!CopiesStored, Import!NoStrayCopies, IP!NoStrayCopies
<1>8. Import!RevisionsDiffer <=> IP!RevisionsDiffer
  BY DEF Import!RevisionsDiffer, IP!RevisionsDiffer
<1> QED BY <1>1, <1>2, <1>3, <1>4, <1>5, <1>6, <1>7, <1>8

\* What Project assumes of its constants.
LEMMA Constants == SP!SetupConstants /\ IP!ImportConstants
BY ProjectConstants, SetupSame, ImportSame

\* Both parts start as they would alone.
LEMMA Initially == Init => ProjectInvariant
BY Constants, SetupSame, ImportSame, SP!ReadyInitially, IP!NothingImported
   DEF Init, ProjectInvariant

\* A step of one kind of command is beside those of the other.
LEMMA Steps ==
  ASSUME ProjectInvariant, [Next]_vars
  PROVE  ProjectInvariant'
<1> USE DEF ProjectInvariant
<1>0. /\ NoProcess \notin Process /\ MaxFaults \in Nat
      /\ writer \in Process \cup {NoProcess} /\ faults \in 0..MaxFaults
  BY Constants DEF SP!SetupConstants, SP!ReadyInvariant, SP!SetupTypeOK
<1>1. ASSUME NEW p \in Process, InitCommand(p) PROVE ProjectInvariant'
  <2>1. SP!InitStep(p) /\ import[p] = "idle" /\ UNCHANGED importOnly
    BY <1>1, SetupSame DEF InitCommand
  <2>2. SP!ReadyInvariant'
    BY <2>1, Constants, SP!ReadyKeeps
  <2>3. writer' = writer \/ writer \in {p, NoProcess}
    BY <2>1, SP!SetupLocks
  <2>4. \A q \in Process : import[q] # "idle" /\ writer = q => writer' = q
    BY <1>0, <2>1, <2>3
  <2>5. IP!ImportInvariant'
    BY <2>1, <2>4, IP!ImportBeside DEF importOnly, IP!rowVars, IP!fileVars,
       IP!outsideVars, IP!localVars
  <2> QED BY <2>2, <2>5
<1>2. ASSUME NEW p \in Process, ImportCommand(p) PROVE ProjectInvariant'
  <2>1. IP!ImportStep(p) /\ init[p] = "idle" /\ UNCHANGED setupOnly
    BY <1>2, ImportSame DEF ImportCommand
  <2>2. IP!ImportInvariant'
    BY <2>1, Constants, IP!ImportKeeps DEF IP!Next
  <2>3. /\ writer' \in {writer, p, NoProcess}
        /\ writer' = writer \/ writer \in {p, NoProcess}
        /\ faults' \in 0..MaxFaults
    BY <1>0, <2>1, Constants, IP!ImportLocks
  <2>4. \A q \in Process : init[q] # "idle" /\ writer = q => writer' = q
    BY <1>0, <2>1, <2>3
  <2>5. history' = history
    BY <2>1 DEF IP!ImportStep, IP!StartImport, IP!Stage, IP!Digest, IP!Begin,
       IP!Repair, IP!Unchanged, IP!Retain, IP!Insert, IP!Fail, IP!Cleanup, IP!Die
  <2>6. SP!ReadyInvariant'
    BY <1>0, <2>1, <2>3, <2>4, <2>5, SP!SetupBeside
       DEF setupOnly, SP!projectVars, SP!databaseVars, SP!localVars
  <2> QED BY <2>2, <2>6
<1>3. CASE FromOutside
  <2>1. IP!Outside /\ UNCHANGED <<history, writer, faults, setupOnly>>
    BY <1>3, ImportSame DEF FromOutside, IP!Outside, IP!EditDocument, IP!AlterCopy
  <2>2. IP!ImportInvariant'
    BY <2>1, Constants, IP!ImportKeeps DEF IP!Next
  <2>3. SP!ReadyInvariant'
    BY <1>0, <2>1, SP!SetupBeside
       DEF setupOnly, SP!projectVars, SP!databaseVars, SP!localVars
  <2> QED BY <2>2, <2>3
<1>4. CASE UNCHANGED vars
  <2>1. IP!ImportInvariant'
    BY <1>4, IP!ImportBeside DEF vars, importOnly, IP!rowVars, IP!fileVars,
       IP!outsideVars, IP!localVars
  <2>2. SP!ReadyInvariant'
    BY <1>0, <1>4, SP!SetupBeside
       DEF vars, setupOnly, SP!projectVars, SP!databaseVars, SP!localVars
  <2> QED BY <2>1, <2>2
<1> QED BY <1>1, <1>2, <1>3, <1>4 DEF Next

\* Hence it holds of every behaviour of the composition.
LEMMA Invariance == Spec => []ProjectInvariant
BY Initially, Steps, PTL DEF Spec

----------------------------------------------------------------------------
\* Every variable of both modules has its type.
THEOREM ProjectTyped == Spec => []TypeOK
<1>1. ProjectInvariant => TypeOK
  BY Constants, SetupSame, ImportSame, SP!ReadyIs, IP!ImportTyped
     DEF ProjectInvariant, TypeOK
<1> QED BY <1>1, Invariance, PTL

\* However many inits and imports run at the same time, fail or die, the
\* effects of a migration and its history row are never apart and no script
\* runs twice (migration_runner.cpp:132-157).
THEOREM MigrationsApplyOnce == Spec => []AppliedOnce
<1>1. ProjectInvariant => AppliedOnce
  BY SetupSame, SP!ReadyIs DEF ProjectInvariant, AppliedOnce
<1> QED BY <1>1, Invariance, PTL

\* A release that reported success finds its migrations and its directories,
\* whatever other releases do (project_initializer.cpp:106-124,
\* migration_runner.cpp:135-167).
THEOREM ReportsAreTrue == Spec => []ReadyProject
<1>1. ProjectInvariant => ReadyProject
  BY SetupSame, SP!ReadyIs DEF ProjectInvariant, ReadyProject
<1> QED BY <1>1, Invariance, PTL

\* The same bytes are retained once, whatever imports overlap
\* (source_importer.cpp:414-455).
THEOREM RetainedOnce == Spec => []OneCopyPerDigest
<1>1. ProjectInvariant => OneCopyPerDigest
  BY ImportSame DEF ProjectInvariant, OneCopyPerDigest, IP!ImportInvariant, IP!Rowed
<1> QED BY <1>1, Invariance, PTL

\* A version's bytes are at its path unless that copy was changed from
\* outside, and no failed import leaves a copy (source_importer.cpp:391-405,
\* 450-454 and 521-535).
THEOREM CopiesAgree == Spec => []CopiesMatch
<1>1. ProjectInvariant => CopiesMatch
  BY ImportSame DEF ProjectInvariant, CopiesMatch, IP!ImportInvariant, IP!Rowed,
     IP!CopiesMatch
<1> QED BY <1>1, Invariance, PTL

\* Two versions of a source in a row differ (source_importer.cpp:459-468).
THEOREM VersionsDiffer == Spec => []RevisionsDiffer
<1>1. ProjectInvariant => RevisionsDiffer
  BY ImportSame DEF ProjectInvariant, RevisionsDiffer, IP!ImportInvariant, IP!Rowed
<1> QED BY <1>1, Invariance, PTL

\* An import that ends in success leaves its bytes as the latest version of
\* its source (source_importer.cpp:459-470).
THEOREM ImportsAreLatest == Spec => ImportedIsLatest
<1>1. ASSUME ProjectInvariant
      PROVE  [\A p \in Process :
                Import!Unchanged(p) \/ Import!Insert(p) =>
                  LET s == IF request[p].source = NoSource
                           THEN Len(sources') ELSE request[p].source
                      rows == {i \in DOMAIN versions' : versions'[i].source = s}
                  IN versions'[Import!Latest(rows)].bytes = digest[p]]_Import!vars
  <2> SUFFICES ASSUME NEW p \in Process, Import!Unchanged(p) \/ Import!Insert(p)
               PROVE  LET s == IF request[p].source = NoSource
                               THEN Len(sources') ELSE request[p].source
                          rows == {i \in DOMAIN versions' : versions'[i].source = s}
                      IN versions'[Import!Latest(rows)].bytes = digest[p]
    OBVIOUS
  <2>1. IP!Unchanged(p) \/ IP!Insert(p)
    BY DEF Import!Unchanged, Import!Insert, IP!Unchanged, IP!Insert,
           Import!At, Import!Goto, Import!Forget, Import!Latest, Import!UpToDate,
           Import!RowsOf, Import!Rows, Import!StoredPath, Import!NoRequest,
           Import!rowVars, Import!fileVars, Import!outsideVars,
           IP!At, IP!Goto, IP!Forget, IP!Latest, IP!UpToDate,
           IP!RowsOf, IP!Rows, IP!StoredPath, IP!NoRequest,
           IP!rowVars, IP!fileVars, IP!outsideVars
  <2> QED BY <2>1, <1>1, Constants, IP!ImportEndsLatest
          DEF ProjectInvariant, Import!Latest, IP!Latest
<1> QED BY <1>1, Invariance, PTL DEF ImportedIsLatest, Import!ImportedIsLatest
=============================================================================
