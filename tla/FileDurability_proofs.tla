----------------------- MODULE FileDurability_proofs -----------------------
(***************************************************************************)
(* What holds of the file operation for any number of processes, runs,     *)
(* proposals, saves and faults.  First its types, that writers exclude     *)
(* each other and that a proposal is applied at most once; then what the   *)
(* files are worth at any moment: no bytes that an external editor saved   *)
(* disappear (SavesSurvive), and a run without a journal left nothing      *)
(* behind (NoOrphans).                                                     *)
(*                                                                         *)
(* The inductive invariant of the second part says, for each place where a *)
(* process can die, which files of its run exist (Files) and where else    *)
(* the bytes are that the coming steps destroy (Saved).                    *)
(***************************************************************************)
EXTENDS FileOperation, TLAPS

\* What the types need to be inductive.
Typed == TypeOK /\ KnownRuns

----------------------------------------------------------------------------
\* What ends, aborts or archives leaves the state typed.

\* A command that ends leaves well-typed locals behind.
LEMMA LeaveTyped ==
  ASSUME Typed, NEW p \in Process, NEW there \in Places \ Working,
         Leave(p, there)
  PROVE  LocalsOK'
BY SMTT(30) DEF Typed, TypeOK, LocalsOK, Leave, Goto, Kinds, Bytes

\* An exception leaves well-typed locals, a valid lock and known runs behind.
LEMMA ThrowTyped ==
  ASSUME Typed, NEW p \in Process, Throw(p), UNCHANGED <<op, journal, markers>>
  PROVE  LocalsOK' /\ lock' \in Process \cup {NoProcess} /\ KnownRuns'
<1> DEFINE there == IF kind[p] = "apply" THEN "reopen" ELSE "idle"
<1>1. there \in Places \ Working
  BY SMTT(30) DEF Places, Waiting, Locked, Recovering, Applying, Finishing,
     Keeping, Working
<1>2. Leave(p, there) /\ Unlock(p)
  BY DEF Throw
<1>3. LocalsOK'
  BY <1>1, <1>2, LeaveTyped
<1>4. lock' \in Process \cup {NoProcess}
  BY <1>2 DEF Typed, TypeOK, DbOK, Unlock
<1>5. KnownRuns'
  BY <1>1, <1>2, SMTT(30) DEF Typed, TypeOK, KnownRuns, LocalsOK, JournalOK,
     Leave, Goto
<1> QED
  BY <1>3, <1>4, <1>5

\* A step that only throws keeps the types.
LEMMA FailTyped ==
  ASSUME Typed, NEW p \in Process, Fail(p)
  PROVE  Typed'
<1>1. LocalsOK' /\ lock' \in Process \cup {NoProcess} /\ KnownRuns'
  BY ThrowTyped DEF Fail, projectVars, journalVars, dbVars
<1> QED
  BY <1>1, SMTT(30) DEF Typed, TypeOK, ArticleOK, JournalOK, ArchiveOK, DbOK,
     HistoryOK, Fail, articleVars, journalVars, archiveVars, projectVars,
     dbVars, outVars, historyVars, Bytes, Owned

\* conflict() keeps the types.
LEMMA ConflictTyped ==
  ASSUME Typed, NEW p \in Process, NEW r \in Run, Conflict(p, r)
  PROVE  Typed'
<1>1. LocalsOK' /\ lock' \in Process \cup {NoProcess} /\ KnownRuns'
  BY ThrowTyped DEF Conflict, projectVars, journalVars, dbVars
<1> QED
  BY <1>1, SMTT(30) DEF Typed, TypeOK, ArticleOK, JournalOK, ArchiveOK, DbOK,
     HistoryOK, Conflict, articleVars, journalVars, archiveVars, projectVars,
     dbVars, outVars, historyVars, Bytes, Owned

\* The end of an open keeps the locals typed and the runs known.
LEMMA OpenedTyped ==
  ASSUME Typed, NEW p \in Process, Opened(p), UNCHANGED <<op, journal, markers>>
  PROVE  LocalsOK' /\ KnownRuns'
<1>1. CASE kind[p] = "apply"
  BY <1>1, SMTT(30) DEF Opened, Goto, localVars, Typed, TypeOK, KnownRuns,
     LocalsOK, Places, Waiting, Locked, Working, Recovering, Applying,
     Finishing, Keeping
<1>2. CASE kind[p] # "apply"
  <2>1. "idle" \in Places \ Working
    BY SMTT(30) DEF Places, Working, Locked, Recovering, Applying, Finishing,
       Keeping
  <2>2. Leave(p, "idle")
    BY <1>2 DEF Opened
  <2>3. LocalsOK'
    BY <2>1, <2>2, LeaveTyped
  <2> QED
    BY <2>1, <2>2, <2>3, SMTT(30) DEF Typed, TypeOK, KnownRuns, LocalsOK, Leave, Goto
<1> QED
  BY <1>1, <1>2

\* Writing a file of the conflict archive, or finding it changed, keeps the
\* types.
LEMMA ArchiveBytesTyped ==
  ASSUME Typed, NEW p \in Process, NEW here \in Working, NEW there \in Places,
         there # "validate",
         NEW name \in Run \X {"kept", "displaced"} \X Bytes, NEW bytes \in Bytes,
         ArchiveBytes(p, here, name, bytes, there)
  PROVE  Typed'
<1>1. CASE Fail(p)
  BY <1>1, FailTyped
<1>2. CASE ~Fail(p)
  <2>1. /\ archive' = (IF bytes = Missing THEN archive ELSE archive \cup {name})
        /\ Move(p, here, there)
        /\ UNCHANGED <<articleVars, journalVars, tornArchive, manifests>>
    BY <1>2 DEF ArchiveBytes
  <2> QED
    BY <2>1, SMTT(30) DEF Typed, TypeOK, KnownRuns, ArticleOK, JournalOK,
       ArchiveOK, DbOK, LocalsOK, HistoryOK, Move, At, Goto, articleVars,
       journalVars, dbVars, localVars, outVars, historyVars, Working, Locked
<1> QED
  BY <1>1, <1>2

\* The four places that archive displaced or kept bytes keep the types.
LEMMA ArchivingTyped ==
  ASSUME Typed, NEW p \in Process,
         \/ RecoverArchive(p) \/ FinishArchive(p)
         \/ KeepTarget(p) \/ KeepDisplaced(p)
  PROVE  Typed'
<1> USE DEF Working, Places, Locked, Recovering, Applying, Finishing, Keeping
<1> DEFINE found == IF Unexpected(run[p]) THEN Temp(run[p]) ELSE Missing
<1>1. pc[p] \in Working
  BY SMTT(30) DEF RecoverArchive, FinishArchive, KeepTarget, KeepDisplaced,
     PreserveDisplaced, ArchiveBytes, At, Fail
<1>2. run[p] \in Run
  BY <1>1 DEF Typed, KnownRuns
<1>3. target \in Bytes /\ Temp(run[p]) \in Bytes /\ found \in Bytes
  BY <1>2, SMTT(30) DEF Typed, TypeOK, ArticleOK, Temp, Owned, Bytes
<1>4. /\ DisplacedName(run[p]) \in Run \X {"kept", "displaced"} \X Bytes
      /\ KeptName(run[p]) \in Run \X {"kept", "displaced"} \X Bytes
  BY <1>2, <1>3 DEF DisplacedName, KeptName
<1>5. CASE RecoverArchive(p)
  <2>1. ArchiveBytes(p, "recover_archive", DisplacedName(run[p]), found,
                     "clean_staged")
    BY <1>5 DEF RecoverArchive, PreserveDisplaced
  <2> HIDE DEF found
  <2> QED
    BY <1>3, <1>4, <2>1, ArchiveBytesTyped
<1>6. CASE FinishArchive(p)
  <2>1. ArchiveBytes(p, "finish", DisplacedName(run[p]), found, "finish_temp")
    BY <1>6 DEF FinishArchive, PreserveDisplaced
  <2> HIDE DEF found
  <2> QED
    BY <1>3, <1>4, <2>1, ArchiveBytesTyped
<1>7. CASE KeepTarget(p)
  BY <1>3, <1>4, <1>7, ArchiveBytesTyped DEF KeepTarget
<1>8. CASE KeepDisplaced(p)
  BY <1>3, <1>4, <1>8, ArchiveBytesTyped DEF KeepDisplaced
<1> QED
  BY <1>5, <1>6, <1>7, <1>8

\* The FileOperation constructor gives a fresh run a well-typed operation.
LEMMA ValidateTyped ==
  ASSUME Typed, NEW p \in Process, NEW q \in Proposal, NEW r \in Run,
         Validate(p, q, r)
  PROVE  Typed'
<1> DEFINE new == [proposal |-> q, before |-> target, owns |-> copy = Missing]
<1>1. new \in Operation
  BY DEF Operation, Typed, TypeOK, ArticleOK
<1>2. op' = [op EXCEPT ![r] = new] /\ run' = [run EXCEPT ![p] = r]
  BY DEF Validate
<1> HIDE DEF new
<1>3. JournalOK'
  BY <1>1, <1>2 DEF Validate, Typed, TypeOK, JournalOK
<1>4. op'[r] # NoOp /\ \A s \in Run : op[s] # NoOp => op'[s] # NoOp
  BY <1>1, <1>2, DistinctNames DEF Typed, TypeOK, JournalOK
<1>5. LocalsOK'
  BY <1>2, SMTT(30) DEF Validate, Typed, TypeOK, LocalsOK, Goto, Places,
     Locked, Applying
<1>6. KnownRuns'
  BY <1>2, <1>4, SMTT(30) DEF Validate, Typed, TypeOK, KnownRuns, LocalsOK,
     DbOK, Goto, dbVars
<1> QED
  BY <1>3, <1>5, <1>6, SMTT(30) DEF Validate, Typed, TypeOK, ArticleOK,
     ArchiveOK, DbOK, HistoryOK, articleVars, archiveVars, dbVars, outVars,
     historyVars, Bytes

----------------------------------------------------------------------------
\* The steps of recovery, of apply, of keep and of the environment.

\* Every step of recover_on_open keeps the types and names known runs only.
LEMMA RecoverTyped ==
  ASSUME NEW p \in Process, Typed, RecoverStep(p)
  PROVE  Typed'
<1> USE DEF Typed, TypeOK, KnownRuns, ArticleOK, JournalOK, ArchiveOK, DbOK,
      LocalsOK, HistoryOK
<1> USE DEF Bytes, Operation, PreviewToken, Owned, Phases, Kinds, Places,
      Waiting, Locked, Working, Recovering, Applying, Finishing, Keeping
<1> USE DEF At, Goto, Move, Look, Store, Leave, Unlock, Throw, Fail, Conflict,
      Begin, Opened, TakeJournal, RemoveJournal, WritePending, PublishJournal,
      PreserveDisplaced, ArchiveBytes, Swap
<1> USE DEF articleVars, journalVars, archiveVars, projectVars, dbVars, localVars,
      outVars, historyVars, vars
<1> USE DEF Journals, Committed, After, Before, Temp, Recov, Made, Unexpected,
      DisplacedName, KeptName, Displaced, Interrupted, KnownRecovery
<1>1. CASE RecoverBegin(p)
  BY <1>1, SMTT(30) DEF RecoverBegin
<1>2. ASSUME NEW r \in Run, RecoverGone(p, r)
      PROVE  Typed'
  BY <1>2, SMTT(30) DEF RecoverGone
<1>3. ASSUME NEW r \in Run, RecoverCommitted(p, r)
      PROVE  Typed'
  BY <1>3, SMTT(30) DEF RecoverCommitted
<1>4. ASSUME NEW r \in Run, RecoverPrepared(p, r)
      PROVE  Typed'
  BY <1>4, SMTT(30) DEF RecoverPrepared
<1>5. ASSUME NEW r \in Run, RecoverReplaced(p, r)
      PROVE  Typed'
  BY <1>5, SMTT(30) DEF RecoverReplaced
<1>6. ASSUME NEW r \in Run, RecoverRecognized(p, r)
      PROVE  Typed'
  BY <1>6, SMTT(30) DEF RecoverRecognized
<1>7. ASSUME NEW r \in Run, RecoverConflict(p, r)
      PROVE  Typed'
  BY <1>7, SMTT(30) DEF RecoverConflict
<1>8. CASE RecoverStage(p)
  BY <1>8, SMTT(30) DEF RecoverStage
<1>9. CASE RecoverExchange(p)
  BY <1>9, SMTT(30) DEF RecoverExchange
<1>10. CASE RecoverVerified(p)
  BY <1>10, SMTT(30) DEF RecoverVerified
<1>11. CASE RecoverRaced(p)
  <2>1. CASE Look(p, "recover_verify", "recover_undo")
    BY <2>1, SMTT(30)
  <2>2. CASE Conflict(p, run[p]) /\ At(p, "recover_verify")
    BY <2>2, ConflictTyped
  <2> QED
    BY <1>11, <2>1, <2>2 DEF RecoverRaced
<1>12. CASE RecoverUndo(p)
  BY <1>12, SMTT(30) DEF RecoverUndo
<1>13. CASE RecoverBlocked(p)
  BY <1>13, SMTT(30) DEF RecoverBlocked
<1>14. CASE RecoverUnstage(p)
  BY <1>14, SMTT(30) DEF RecoverUnstage
<1>15. CASE RecoverArchive(p)
  BY <1>15, ArchivingTyped
<1>16. CASE CleanStaged(p)
  BY <1>16, SMTT(30) DEF CleanStaged
<1>17. CASE CleanCopy(p)
  <2>1. CASE Conflict(p, run[p]) /\ At(p, "clean_copy")
    BY <2>1, ConflictTyped
  <2>2. CASE Move(p, "clean_copy", "clean_backup")
    BY <1>17, <2>2, SMTT(30) DEF CleanCopy
  <2> QED
    BY <1>17, <2>1, <2>2 DEF CleanCopy
<1>18. CASE CleanBackup(p)
  <2>1. CASE Look(p, "clean_backup", "clean_temp")
    BY <2>1, SMTT(30)
  <2>2. CASE Store(p, "clean_backup", "backup", Missing, "clean_temp")
    BY <2>2, SMTT(30)
  <2> QED
    BY <1>18, <2>1, <2>2 DEF CleanBackup
<1>19. CASE CleanTemp(p)
  BY <1>19, SMTT(30) DEF CleanTemp
<1>20. CASE CleanRecovery(p)
  BY <1>20, SMTT(30) DEF CleanRecovery
<1>21. CASE CleanJournal(p)
  BY <1>21, SMTT(30) DEF CleanJournal
<1>22. CASE CleanPending(p)
  BY <1>22, SMTT(30) DEF CleanPending
<1>23. CASE RecoverCommit(p)
  <2>1. CASE purge[p]
    BY <1>23, <2>1, SMTT(30) DEF RecoverCommit
  <2>2. CASE ~purge[p]
    <3>1. Opened(p) /\ UNCHANGED <<op, journal, markers>>
      BY <1>23, <2>2 DEF RecoverCommit
    <3>2. LocalsOK' /\ KnownRuns'
      BY <3>1, OpenedTyped
    <3> QED
      BY <1>23, <3>2, SMTT(30) DEF RecoverCommit
  <2> QED
    BY <2>1, <2>2
<1>24. CASE Purge(p)
  <2>1. LocalsOK' /\ KnownRuns'
    BY <1>24, OpenedTyped DEF Purge
  <2> QED
    BY <1>24, <2>1, SMTT(30) DEF Purge
<1> QED
  BY <1>1, <1>2, <1>3, <1>4, <1>5, <1>6, <1>7, <1>8, <1>9, <1>10,
     <1>11, <1>12, <1>13, <1>14, <1>15, <1>16, <1>17, <1>18, <1>19, <1>20,
     <1>21, <1>22, <1>23, <1>24
     DEF RecoverStep

\* So does every step of VaultWriter::apply ...
LEMMA ApplyTyped ==
  ASSUME NEW p \in Process, Typed, ApplyStep(p)
  PROVE  Typed'
<1> USE DEF Typed, TypeOK, KnownRuns, ArticleOK, JournalOK, ArchiveOK, DbOK,
      LocalsOK, HistoryOK
<1> USE DEF Bytes, Operation, PreviewToken, Owned, Phases, Kinds, Places,
      Waiting, Locked, Working, Recovering, Applying, Finishing, Keeping
<1> USE DEF At, Goto, Move, Look, Store, Leave, Unlock, Throw, Fail, Conflict,
      Begin, Opened, TakeJournal, RemoveJournal, WritePending, PublishJournal,
      PreserveDisplaced, ArchiveBytes, Swap
<1> USE DEF articleVars, journalVars, archiveVars, projectVars, dbVars, localVars,
      outVars, historyVars, vars
<1> USE DEF Journals, Committed, After, Before, Temp, Recov, Made, Unexpected,
      DisplacedName, KeptName, Displaced, Interrupted, KnownRecovery
<1>1. CASE ApplyBegin(p)
  BY <1>1, SMTT(30) DEF ApplyBegin
<1>2. ASSUME NEW q \in Proposal, Refuse(p, q)
      PROVE  Typed'
  BY <1>2, SMTT(30) DEF Refuse
<1>3. ASSUME NEW q \in Proposal, NEW r \in Run, Validate(p, q, r)
      PROVE  Typed'
  BY <1>3, ValidateTyped
<1>4. CASE PrepareJournal(p)
  BY <1>4, SMTT(30) DEF PrepareJournal
<1>5. CASE PrepareBackup(p)
  BY <1>5, SMTT(30) DEF PrepareBackup
<1>6. CASE PrepareCopy(p)
  BY <1>6, SMTT(30) DEF PrepareCopy
<1>7. CASE PublishCopy(p)
  BY <1>7, SMTT(30) DEF PublishCopy
<1>8. CASE StageArticle(p)
  BY <1>8, SMTT(30) DEF StageArticle
<1>9. CASE Recheck(p)
  BY <1>9, SMTT(30) DEF Recheck
<1>10. CASE MarkReplacing(p)
  BY <1>10, SMTT(30) DEF MarkReplacing
<1>11. CASE ReplaceArticle(p)
  BY <1>11, SMTT(30) DEF ReplaceArticle
<1>12. CASE VerifyReplaced(p)
  BY <1>12, SMTT(30) DEF VerifyReplaced
<1>13. CASE MarkReplaced(p)
  BY <1>13, SMTT(30) DEF MarkReplaced
<1>14. CASE FinalCheck(p)
  BY <1>14, SMTT(30) DEF FinalCheck
<1>15. CASE ApplyBlocked(p)
  BY <1>15, SMTT(30) DEF ApplyBlocked
<1>16. CASE Commit(p)
  BY <1>16, SMTT(30) DEF Commit
<1>17. CASE CleanupBegin(p)
  BY <1>17, SMTT(30) DEF CleanupBegin
<1>18. CASE FinishArchive(p)
  BY <1>18, ArchivingTyped
<1>19. CASE FinishTemp(p)
  BY <1>19, SMTT(30) DEF FinishTemp
<1>20. CASE FinishJournal(p)
  BY <1>20, SMTT(30) DEF FinishJournal
<1>21. CASE FinishCommit(p)
  BY <1>21, SMTT(30) DEF FinishCommit
<1> QED
  BY <1>1, <1>2, <1>3, <1>4, <1>5, <1>6, <1>7, <1>8, <1>9, <1>10,
     <1>11, <1>12, <1>13, <1>14, <1>15, <1>16, <1>17, <1>18, <1>19, <1>20,
     <1>21
     DEF ApplyStep

\* ... and of keep_recovery_conflicts.
LEMMA KeepTyped ==
  ASSUME NEW p \in Process, Typed, KeepStep(p)
  PROVE  Typed'
<1> USE DEF Typed, TypeOK, KnownRuns, ArticleOK, JournalOK, ArchiveOK, DbOK,
      LocalsOK, HistoryOK
<1> USE DEF Bytes, Operation, PreviewToken, Owned, Phases, Kinds, Places,
      Waiting, Locked, Working, Recovering, Applying, Finishing, Keeping
<1> USE DEF At, Goto, Move, Look, Store, Leave, Unlock, Throw, Fail, Conflict,
      Begin, Opened, TakeJournal, RemoveJournal, WritePending, PublishJournal,
      PreserveDisplaced, ArchiveBytes, Swap
<1> USE DEF articleVars, journalVars, archiveVars, projectVars, dbVars, localVars,
      outVars, historyVars, vars
<1> USE DEF Journals, Committed, After, Before, Temp, Recov, Made, Unexpected,
      DisplacedName, KeptName, Displaced, Interrupted, KnownRecovery
<1>1. CASE KeepBegin(p)
  BY <1>1, SMTT(30) DEF KeepBegin
<1>2. ASSUME NEW r \in Run, KeepJournal(p, r)
      PROVE  Typed'
  BY <1>2, SMTT(30) DEF KeepJournal
<1>3. CASE KeepTarget(p)
  BY <1>3, ArchivingTyped
<1>4. CASE KeepDisplaced(p)
  BY <1>4, ArchivingTyped
<1>5. CASE KeepManifest(p)
  BY <1>5, SMTT(30) DEF KeepManifest
<1>6. CASE KeepTemp(p)
  BY <1>6, SMTT(30) DEF KeepTemp
<1>7. CASE KeepSource(p)
  BY <1>7, SMTT(30) DEF KeepSource
<1>8. CASE KeepRecovery(p)
  <2>1. CASE Fail(p)
    BY <2>1, FailTyped
  <2>2. CASE Move(p, "keep_recovery", "keep_journal") /\ ~Fail(p)
    BY <1>8, <2>2, SMTT(30) DEF KeepRecovery
  <2> QED
    BY <1>8, <2>1, <2>2 DEF KeepRecovery
<1>9. CASE KeepRemoveJournal(p)
  BY <1>9, SMTT(30) DEF KeepRemoveJournal
<1>10. CASE KeepCommit(p)
  BY <1>10, SMTT(30) DEF KeepCommit
<1> QED
  BY <1>1, <1>2, <1>3, <1>4, <1>5, <1>6, <1>7, <1>8, <1>9, <1>10
     DEF KeepStep

\* An interrupted durable_write leaves typed files.
LEMMA TornWriteTyped ==
  ASSUME Typed, NEW p \in Process, TornWrite(p)
  PROVE  ArticleOK'
<1>1. PICK left \in {Torn, Missing} :
        own' = [own EXCEPT ![TornFile[pc[p]]][run[p]] = left]
  BY DEF TornWrite
<1>2. pc[p] \in {"backup", "copy", "stage", "recover_stage"}
  BY SMTT(30) DEF TornWrite, TornFile
<1>3. TornFile[pc[p]] \in Owned
  BY <1>2, SMTT(30) DEF TornFile, Owned
<1>4. run[p] \in Run
  BY <1>2, SMTT(30) DEF Typed, KnownRuns, Working, Locked, Recovering, Applying
<1>5. left \in Bytes
  BY <1>1 DEF Bytes
<1> HIDE DEF TornFile
<1> QED
  BY <1>1, <1>3, <1>4, <1>5, SMTT(30) DEF Typed, TypeOK, ArticleOK, TornWrite

\* An interrupted archive write leaves a typed archive.
LEMMA TornArchiveTyped ==
  ASSUME Typed, NEW p \in Process, TornArchive(p),
         UNCHANGED <<archive, manifests>>
  PROVE  ArchiveOK'
<1>1. pc[p] \in Working
  BY SMTT(30) DEF TornArchive, At, Working, Locked, Recovering, Finishing,
     Keeping
<1>2. run[p] \in Run
  BY <1>1 DEF Typed, KnownRuns
<1>3. target \in Bytes /\ Temp(run[p]) \in Bytes
  BY <1>2, SMTT(30) DEF Typed, TypeOK, ArticleOK, Temp, Owned
<1>4. /\ DisplacedName(run[p]) \in Run \X {"kept", "displaced"} \X Bytes
      /\ KeptName(run[p]) \in Run \X {"kept", "displaced"} \X Bytes
  BY <1>2, <1>3 DEF DisplacedName, KeptName
<1> QED
  BY <1>4, SMTT(30) DEF Typed, TypeOK, ArchiveOK, TornArchive

\* A fault leaves files, journals and archive typed.
LEMMA FaultTyped ==
  ASSUME Typed, NEW p \in Process, Fault(p)
  PROVE  ArticleOK' /\ JournalOK' /\ ArchiveOK' /\ HistoryOK'
<1>1. UNCHANGED <<journalVars, archive, manifests, unsaved, due, owed, conflicted>>
  BY DEF Fault
<1>2. ArticleOK' /\ ArchiveOK'
  <2>1. CASE TornWrite(p)
    BY <1>1, <2>1, TornWriteTyped DEF Typed, TypeOK, ArchiveOK, TornWrite
  <2>2. CASE TornArchive(p)
    BY <1>1, <2>2, TornArchiveTyped DEF Typed, TypeOK, ArticleOK, TornArchive,
       articleVars
  <2>3. CASE UNCHANGED <<articleVars, tornArchive>>
    BY <1>1, <2>3 DEF Typed, TypeOK, ArticleOK, ArchiveOK, articleVars
  <2> QED
    BY <2>1, <2>2, <2>3 DEF Fault
<1>3. JournalOK'
  BY <1>1 DEF Typed, TypeOK, JournalOK, journalVars
<1>4. HistoryOK'
  BY <1>1, Environment, SMTT(30) DEF Typed, TypeOK, HistoryOK, Fault
<1> QED
  BY <1>2, <1>3, <1>4

\* A crash or a failing call keeps the types and known runs.
LEMMA CrashTyped ==
  ASSUME Typed, NEW p \in Process, Crash(p) \/ IoFailure(p)
  PROVE  Typed'
<1>1. ArticleOK' /\ JournalOK' /\ ArchiveOK' /\ HistoryOK'
  BY FaultTyped DEF Crash, IoFailure
<1>2. UNCHANGED <<op, journal, dbVars>> /\ Unlock(p)
  BY DEF Crash, IoFailure, Fault, Throw, journalVars
<1>3. DbOK'
  BY <1>2, SMTT(30) DEF Typed, TypeOK, DbOK, dbVars, Unlock
<1>4. LocalsOK' /\ KnownRuns'
  <2>1. CASE IoFailure(p)
    BY <1>2, <2>1, ThrowTyped DEF IoFailure, dbVars
  <2>2. CASE Crash(p)
    <3>1. "idle" \in Places \ Working
      BY SMTT(30) DEF Places, Working, Locked, Recovering, Applying, Finishing,
         Keeping
    <3>2. LocalsOK'
      BY <2>2, <3>1, LeaveTyped DEF Crash
    <3> QED
      BY <1>2, <2>2, <3>1, <3>2, SMTT(30) DEF Crash, Leave, Goto, dbVars, Typed,
         TypeOK, KnownRuns, LocalsOK
  <2> QED
    BY <2>1, <2>2
<1> QED
  BY <1>1, <1>3, <1>4 DEF Typed, TypeOK

\* Listing the journals names known runs only.
LEMMA OpenTyped ==
  ASSUME Typed, NEW p \in Process, NEW k \in Kinds, Open(p, k)
  PROVE  Typed'
<1>1. LocalsOK'
  BY SMTT(30) DEF Open, Typed, TypeOK, LocalsOK, JournalOK, Journals, Goto,
     Places, Waiting
<1>2. KnownRuns'
  BY SMTT(30) DEF Open, Typed, TypeOK, KnownRuns, LocalsOK, JournalOK, Journals,
     Goto, Working, Locked, Recovering, Applying, Finishing, Keeping,
     projectVars, journalVars, dbVars
<1> QED
  BY <1>1, <1>2 DEF Open, Typed, TypeOK, ArticleOK, JournalOK, ArchiveOK, DbOK,
     HistoryOK, articleVars, journalVars, archiveVars, projectVars, dbVars,
     outVars, historyVars, Bytes, Owned

\* Approval records a well-typed preview token.
LEMMA ApproveTyped ==
  ASSUME Typed, NEW q \in Proposal, Approve(q)
  PROVE  Typed'
<1>1. Token \in PreviewToken
  BY DEF Token, PreviewToken, Typed, TypeOK, ArticleOK, DbOK
<1>2. DbOK'
  BY <1>1, SMTT(30) DEF Approve, Typed, TypeOK, DbOK, Bytes
<1> QED
  BY <1>2 DEF Approve, Typed, TypeOK, KnownRuns, ArticleOK, JournalOK, ArchiveOK,
     LocalsOK, HistoryOK, articleVars, journalVars, archiveVars, projectVars,
     localVars, outVars, historyVars

\* The editor writes bytes, and only its own.
LEMMA EditorTyped ==
  ASSUME Typed, Editor
  PROVE  Typed'
<1>1. PICK v \in Save :
        \/ EditorSave(v) \/ EditorDelete(v) \/ EditorReplaceCopy(v)
        \/ \E r \in Run : EditorWriteDisplaced(v, r)
  BY DEF Editor
<1>2. Edit(v)
  BY <1>1 DEF EditorSave, EditorDelete, EditorReplaceCopy, EditorWriteDisplaced
<1>3. v \in Bytes /\ v \in unsaved
  BY <1>2 DEF Bytes, Edit
<1>4. ArticleOK'
  <2>1. CASE EditorSave(v) \/ EditorDelete(v) \/ EditorReplaceCopy(v)
    BY <1>3, <2>1, SMTT(30) DEF EditorSave, EditorDelete, EditorReplaceCopy,
       Typed, TypeOK, ArticleOK, Bytes
  <2>2. ASSUME NEW r \in Run, EditorWriteDisplaced(v, r)
        PROVE  ArticleOK'
    BY <1>3, <2>2, SMTT(30) DEF EditorWriteDisplaced, Typed, TypeOK, ArticleOK,
       Owned
  <2> QED
    BY <1>1, <2>1, <2>2
<1>5. HistoryOK'
  <2>1. CASE EditorSave(v) \/ EditorDelete(v) \/ EditorReplaceCopy(v)
    BY <1>3, <2>1, SMTT(30) DEF EditorSave, EditorDelete, EditorReplaceCopy,
       Edit, Typed, TypeOK, HistoryOK, Bytes
  <2>2. ASSUME NEW r \in Run, EditorWriteDisplaced(v, r)
        PROVE  HistoryOK'
    BY <1>3, <2>2, SMTT(30) DEF EditorWriteDisplaced, Edit, Typed, TypeOK,
       HistoryOK
  <2> QED
    BY <1>1, <2>1, <2>2
<1> QED
  BY <1>2, <1>4, <1>5 DEF Edit, Typed, TypeOK, KnownRuns, JournalOK, ArchiveOK,
     DbOK, LocalsOK, journalVars, archiveVars, dbVars, localVars

----------------------------------------------------------------------------
\* A fresh project is typed.
LEMMA InitTyped == Init => Typed
<1> SUFFICES ASSUME Init PROVE Typed
  OBVIOUS
<1>1. TypeOK
  BY Environment, SMTT(30) DEF Init, TypeOK, ArticleOK, JournalOK, ArchiveOK,
     DbOK, LocalsOK, HistoryOK, Bytes, Phases, Kinds, Places
<1>2. KnownRuns
  BY SMTT(30) DEF Init, KnownRuns, Working, Locked, Recovering, Applying,
     Finishing, Keeping
<1> QED
  BY <1>1, <1>2 DEF Typed

\* Every step keeps the types and names known runs only.
LEMMA StepTyped == Typed /\ [Next]_vars => Typed'
<1> SUFFICES ASSUME Typed, [Next]_vars PROVE Typed'
  OBVIOUS
<1>1. ASSUME NEW p \in Process, NEW k \in Commands, Open(p, k)
      PROVE  Typed'
  <2>1. k \in Kinds
    BY Environment DEF Kinds
  <2> QED
    BY <1>1, <2>1, OpenTyped
<1>2. ASSUME NEW p \in Process, Step(p)
      PROVE  Typed'
  BY <1>2, RecoverTyped, ApplyTyped, KeepTyped, FailTyped DEF Step, BusyTimeout
<1>3. ASSUME NEW p \in Process, Crash(p) \/ IoFailure(p)
      PROVE  Typed'
  BY <1>3, CrashTyped
<1>4. ASSUME NEW q \in Proposal, Approve(q)
      PROVE  Typed'
  BY <1>4, ApproveTyped
<1>5. CASE Editor
  BY <1>5, EditorTyped
<1>6. CASE UNCHANGED vars
  BY <1>6 DEF Typed, TypeOK, KnownRuns, ArticleOK, JournalOK, ArchiveOK, DbOK,
     LocalsOK, HistoryOK, articleVars, journalVars, archiveVars, projectVars,
     dbVars, localVars, outVars, historyVars, vars
<1> QED
  BY <1>1, <1>2, <1>3, <1>4, <1>5, <1>6 DEF Next

\* Every reachable state is typed, and every run that a journal, a marker, a
\* process or its listing names has the operation its journal recorded.
THEOREM Types == Spec => []TypeOK
<1>1. Spec => []Typed
  BY InitTyped, StepTyped, PTL DEF Spec
<1>2. Typed => TypeOK
  BY DEF Typed
<1> QED
  BY <1>1, <1>2, PTL

----------------------------------------------------------------------------
\* A step that publishes nothing: no process enters or changes the apply it is
\* publishing, and what OneApply is about stays as it is.
Steady ==
  /\ UNCHANGED <<op, status, markers>>
  /\ \A p \in Process : pc'[p] \in Publishing =>
       pc[p] \in Publishing /\ run'[p] = run[p]

\* Recovery takes, holds and returns the lock, and publishes nothing.
LEMMA RecoverExclusive ==
  ASSUME NEW p \in Process, Typed, WriterExclusive,
         RecoverStep(p)
  PROVE  WriterExclusive' /\ Steady
<1> USE DEF Typed, TypeOK, LocalsOK, DbOK, WriterExclusive, Steady, Publishing,
      Locked, Recovering, Applying, Finishing, Keeping, Waiting
<1> USE DEF At, Goto, Move, Look, Store, Leave, Unlock, Throw, Fail, Conflict,
      Begin, Opened, TakeJournal, RemoveJournal, WritePending, PublishJournal,
      PreserveDisplaced, ArchiveBytes, Swap
<1> USE DEF articleVars, journalVars, archiveVars, projectVars, dbVars, localVars,
      outVars, historyVars, vars
<1> USE DistinctNames
<1>1. CASE RecoverBegin(p)
  BY <1>1, SMTT(30) DEF RecoverBegin
<1>2. ASSUME NEW r \in Run, RecoverGone(p, r)
      PROVE  WriterExclusive' /\ Steady
  BY <1>2, SMTT(30) DEF RecoverGone
<1>3. ASSUME NEW r \in Run, RecoverCommitted(p, r)
      PROVE  WriterExclusive' /\ Steady
  BY <1>3, SMTT(30) DEF RecoverCommitted
<1>4. ASSUME NEW r \in Run, RecoverPrepared(p, r)
      PROVE  WriterExclusive' /\ Steady
  BY <1>4, SMTT(30) DEF RecoverPrepared
<1>5. ASSUME NEW r \in Run, RecoverReplaced(p, r)
      PROVE  WriterExclusive' /\ Steady
  BY <1>5, SMTT(30) DEF RecoverReplaced
<1>6. ASSUME NEW r \in Run, RecoverRecognized(p, r)
      PROVE  WriterExclusive' /\ Steady
  BY <1>6, SMTT(30) DEF RecoverRecognized
<1>7. ASSUME NEW r \in Run, RecoverConflict(p, r)
      PROVE  WriterExclusive' /\ Steady
  BY <1>7, SMTT(30) DEF RecoverConflict
<1>8. CASE RecoverStage(p)
  BY <1>8, SMTT(30) DEF RecoverStage
<1>9. CASE RecoverExchange(p)
  BY <1>9, SMTT(30) DEF RecoverExchange
<1>10. CASE RecoverVerified(p)
  BY <1>10, SMTT(30) DEF RecoverVerified
<1>11. CASE RecoverRaced(p)
  BY <1>11, SMTT(30) DEF RecoverRaced
<1>12. CASE RecoverUndo(p)
  BY <1>12, SMTT(30) DEF RecoverUndo
<1>13. CASE RecoverBlocked(p)
  BY <1>13, SMTT(30) DEF RecoverBlocked
<1>14. CASE RecoverUnstage(p)
  BY <1>14, SMTT(30) DEF RecoverUnstage
<1>15. CASE RecoverArchive(p)
  BY <1>15, SMTT(30) DEF RecoverArchive
<1>16. CASE CleanStaged(p)
  BY <1>16, SMTT(30) DEF CleanStaged
<1>17. CASE CleanCopy(p)
  BY <1>17, SMTT(30) DEF CleanCopy
<1>18. CASE CleanBackup(p)
  BY <1>18, SMTT(30) DEF CleanBackup
<1>19. CASE CleanTemp(p)
  BY <1>19, SMTT(30) DEF CleanTemp
<1>20. CASE CleanRecovery(p)
  BY <1>20, SMTT(30) DEF CleanRecovery
<1>21. CASE CleanJournal(p)
  BY <1>21, SMTT(30) DEF CleanJournal
<1>22. CASE CleanPending(p)
  BY <1>22, SMTT(30) DEF CleanPending
<1>23. CASE RecoverCommit(p)
  BY <1>23, SMTT(30) DEF RecoverCommit
<1>24. CASE Purge(p)
  BY <1>24, SMTT(30) DEF Purge
<1> QED
  BY <1>1, <1>2, <1>3, <1>4, <1>5, <1>6, <1>7, <1>8, <1>9, <1>10,
     <1>11, <1>12, <1>13, <1>14, <1>15, <1>16, <1>17, <1>18, <1>19, <1>20,
     <1>21, <1>22, <1>23, <1>24
     DEF RecoverStep

\* So do the steps of apply other than validation and commit ...
LEMMA ApplyExclusive ==
  ASSUME NEW p \in Process, Typed, WriterExclusive,
         ApplyStep(p), ~Commit(p),
         \A q \in Proposal, r \in Run : ~Validate(p, q, r)
  PROVE  WriterExclusive' /\ Steady
<1> USE DEF Typed, TypeOK, LocalsOK, DbOK, WriterExclusive, Steady, Publishing,
      Locked, Recovering, Applying, Finishing, Keeping, Waiting
<1> USE DEF At, Goto, Move, Look, Store, Leave, Unlock, Throw, Fail, Conflict,
      Begin, Opened, TakeJournal, RemoveJournal, WritePending, PublishJournal,
      PreserveDisplaced, ArchiveBytes, Swap
<1> USE DEF articleVars, journalVars, archiveVars, projectVars, dbVars, localVars,
      outVars, historyVars, vars
<1> USE DistinctNames
<1>1. CASE ApplyBegin(p)
  BY <1>1, SMTT(30) DEF ApplyBegin
<1>2. ASSUME NEW q \in Proposal, Refuse(p, q)
      PROVE  WriterExclusive' /\ Steady
  BY <1>2, SMTT(30) DEF Refuse
<1>3. CASE PrepareJournal(p)
  BY <1>3, SMTT(30) DEF PrepareJournal
<1>4. CASE PrepareBackup(p)
  BY <1>4, SMTT(30) DEF PrepareBackup
<1>5. CASE PrepareCopy(p)
  BY <1>5, SMTT(30) DEF PrepareCopy
<1>6. CASE PublishCopy(p)
  BY <1>6, SMTT(30) DEF PublishCopy
<1>7. CASE StageArticle(p)
  BY <1>7, SMTT(30) DEF StageArticle
<1>8. CASE Recheck(p)
  BY <1>8, SMTT(30) DEF Recheck
<1>9. CASE MarkReplacing(p)
  BY <1>9, SMTT(30) DEF MarkReplacing
<1>10. CASE ReplaceArticle(p)
  BY <1>10, SMTT(30) DEF ReplaceArticle
<1>11. CASE VerifyReplaced(p)
  BY <1>11, SMTT(30) DEF VerifyReplaced
<1>12. CASE MarkReplaced(p)
  BY <1>12, SMTT(30) DEF MarkReplaced
<1>13. CASE FinalCheck(p)
  BY <1>13, SMTT(30) DEF FinalCheck
<1>14. CASE ApplyBlocked(p)
  BY <1>14, SMTT(30) DEF ApplyBlocked
<1>15. CASE CleanupBegin(p)
  BY <1>15, SMTT(30) DEF CleanupBegin
<1>16. CASE FinishArchive(p)
  BY <1>16, SMTT(30) DEF FinishArchive
<1>17. CASE FinishTemp(p)
  BY <1>17, SMTT(30) DEF FinishTemp
<1>18. CASE FinishJournal(p)
  BY <1>18, SMTT(30) DEF FinishJournal
<1>19. CASE FinishCommit(p)
  BY <1>19, SMTT(30) DEF FinishCommit
<1> QED
  BY <1>1, <1>2, <1>3, <1>4, <1>5, <1>6, <1>7, <1>8, <1>9, <1>10,
     <1>11, <1>12, <1>13, <1>14, <1>15, <1>16, <1>17, <1>18, <1>19
     DEF ApplyStep

\* ... those of keep ...
LEMMA KeepExclusive ==
  ASSUME NEW p \in Process, Typed, WriterExclusive,
         KeepStep(p)
  PROVE  WriterExclusive' /\ Steady
<1> USE DEF Typed, TypeOK, LocalsOK, DbOK, WriterExclusive, Steady, Publishing,
      Locked, Recovering, Applying, Finishing, Keeping, Waiting
<1> USE DEF At, Goto, Move, Look, Store, Leave, Unlock, Throw, Fail, Conflict,
      Begin, Opened, TakeJournal, RemoveJournal, WritePending, PublishJournal,
      PreserveDisplaced, ArchiveBytes, Swap
<1> USE DEF articleVars, journalVars, archiveVars, projectVars, dbVars, localVars,
      outVars, historyVars, vars
<1> USE DistinctNames
<1>1. CASE KeepBegin(p)
  BY <1>1, SMTT(30) DEF KeepBegin
<1>2. ASSUME NEW r \in Run, KeepJournal(p, r)
      PROVE  WriterExclusive' /\ Steady
  BY <1>2, SMTT(30) DEF KeepJournal
<1>3. CASE KeepTarget(p)
  BY <1>3, SMTT(30) DEF KeepTarget
<1>4. CASE KeepDisplaced(p)
  BY <1>4, SMTT(30) DEF KeepDisplaced
<1>5. CASE KeepManifest(p)
  BY <1>5, SMTT(30) DEF KeepManifest
<1>6. CASE KeepTemp(p)
  BY <1>6, SMTT(30) DEF KeepTemp
<1>7. CASE KeepSource(p)
  BY <1>7, SMTT(30) DEF KeepSource
<1>8. CASE KeepRecovery(p)
  BY <1>8, SMTT(30) DEF KeepRecovery
<1>9. CASE KeepRemoveJournal(p)
  BY <1>9, SMTT(30) DEF KeepRemoveJournal
<1>10. CASE KeepCommit(p)
  BY <1>10, SMTT(30) DEF KeepCommit
<1> QED
  BY <1>1, <1>2, <1>3, <1>4, <1>5, <1>6, <1>7, <1>8, <1>9, <1>10
     DEF KeepStep

\* ... and opens, timeouts, crashes and failures.
LEMMA OtherExclusive ==
  ASSUME NEW p \in Process, Typed, WriterExclusive,
         \/ \E k \in Commands : Open(p, k)
         \/ BusyTimeout(p) \/ Crash(p) \/ IoFailure(p)
  PROVE  WriterExclusive' /\ Steady
<1> USE DEF Typed, TypeOK, LocalsOK, DbOK, WriterExclusive, Steady, Publishing,
      Locked, Recovering, Applying, Finishing, Keeping, Waiting
<1> USE DEF At, Goto, Move, Look, Store, Leave, Unlock, Throw, Fail, Conflict,
      Begin, Opened, TakeJournal, RemoveJournal, WritePending, PublishJournal,
      PreserveDisplaced, ArchiveBytes, Swap
<1> USE DEF articleVars, journalVars, archiveVars, projectVars, dbVars, localVars,
      outVars, historyVars, vars
<1> USE DistinctNames
<1>1. ASSUME NEW k \in Commands, Open(p, k)
      PROVE  WriterExclusive' /\ Steady
  BY <1>1, SMTT(30) DEF Open
<1>2. CASE BusyTimeout(p)
  BY <1>2, SMTT(30) DEF BusyTimeout
<1>3. CASE Crash(p)
  BY <1>3, SMTT(30) DEF Crash, Fault
<1>4. CASE IoFailure(p)
  BY <1>4, SMTT(30) DEF IoFailure, Fault
<1> QED
  BY <1>1, <1>2, <1>3, <1>4
     DEF Fault

----------------------------------------------------------------------------
\* A step that publishes nothing applies nothing twice.
LEMMA SteadyApplies ==
  ASSUME WriterInvariant, Steady
  PROVE  Reviewed' /\ OneApply'
BY SMTT(30) DEF WriterInvariant, TypeOK, DbOK, Steady, Reviewed, OneApply, After

\* Validation under the lock admits a proposal that is still approved.
LEMMA ValidateApplies ==
  ASSUME WriterInvariant, NEW p \in Process, NEW q \in Proposal, NEW r \in Run,
         Validate(p, q, r)
  PROVE  WriterExclusive' /\ Reviewed' /\ OneApply'
<1>1. At(p, "validate") /\ lock = p /\ "validate" \in Locked
  BY SMTT(30) DEF Validate, At, WriterInvariant, WriterExclusive, Locked, Applying
<1>2. WriterExclusive'
  BY <1>1, SMTT(30) DEF Validate, WriterInvariant, WriterExclusive, TypeOK,
     LocalsOK, Goto, Locked, Applying
<1>3. \A s \in markers : s # r
  BY DEF Validate, WriterInvariant, TypeOK, DbOK, KnownRuns
<1>4. \A s \in markers : op'[s] = op[s]
  BY <1>3, SMTT(30) DEF Validate, WriterInvariant, TypeOK, DbOK, JournalOK
<1>5. UNCHANGED <<markers, status>>
  BY DEF Validate, dbVars
<1>6. After(r)' = q /\ status[q] = "approved" /\ run'[p] = r
  BY SMTT(30) DEF Validate, Applicable, After, WriterInvariant, TypeOK, JournalOK,
     LocalsOK
<1>7. \A s \in Process : s # p => pc'[s] \notin Publishing
  BY <1>1, SMTT(30) DEF Validate, Goto, WriterInvariant, WriterExclusive, TypeOK,
     LocalsOK, Publishing, Locked, Applying
<1>8. Reviewed'
  BY <1>4, <1>5, <1>6, <1>7, SMTT(30) DEF WriterInvariant, Reviewed, After
<1>9. OneApply'
  BY <1>4, <1>5, SMTT(30) DEF WriterInvariant, OneApply, After
<1> QED
  BY <1>2, <1>8, <1>9

\* A commit applies a proposal that no earlier marker applied.
LEMMA CommitApplies ==
  ASSUME WriterInvariant, NEW p \in Process, Commit(p)
  PROVE  WriterExclusive' /\ Reviewed' /\ OneApply'
<1> DEFINE r == run[p]
<1>1. pc[p] = "commit" /\ lock = p /\ "commit" \in Publishing \cap Working
  BY SMTT(30) DEF Commit, At, WriterInvariant, WriterExclusive, Locked, Applying,
     Publishing, Working
<1>2. r \in Run /\ op[r] # NoOp /\ status[After(r)] = "approved"
  BY <1>1, SMTT(30) DEF WriterInvariant, KnownRuns, Reviewed
<1>3. After(r) \in Proposal
  BY <1>2, SMTT(30) DEF WriterInvariant, TypeOK, JournalOK, Operation, After
<1>4. \A s \in markers : After(s) # After(r)
  BY <1>2, SMTT(30) DEF WriterInvariant, Reviewed
<1>5. /\ markers' = markers \cup {r}
      /\ status' = [status EXCEPT ![After(r)] = "applied"]
      /\ op' = op
      /\ lock' = NoProcess /\ pc' = [pc EXCEPT ![p] = "cleanup_begin"]
  BY DEF Commit, Goto, projectVars, journalVars
<1> HIDE DEF r
<1>6. WriterExclusive'
  BY <1>1, <1>5, DistinctNames, SMTT(30) DEF WriterInvariant, WriterExclusive,
     TypeOK, LocalsOK, Locked, Recovering, Applying, Finishing, Keeping
<1>7. \A s \in Process : pc'[s] \notin Publishing
  BY <1>5, <1>6, DistinctNames, SMTT(30) DEF WriterExclusive, Publishing, Locked
<1>8. Reviewed'
  BY <1>3, <1>5, <1>7, SMTT(30) DEF WriterInvariant, Reviewed, TypeOK, DbOK, After
<1>9. OneApply'
  BY <1>4, <1>5, SMTT(30) DEF WriterInvariant, OneApply, After
<1> QED
  BY <1>6, <1>8, <1>9

\* An approval happens while nobody publishes and never of an applied one.
LEMMA ApproveApplies ==
  ASSUME WriterInvariant, NEW q \in Proposal, Approve(q)
  PROVE  WriterExclusive' /\ Reviewed' /\ OneApply'
<1>1. \A p \in Process : pc[p] \notin Publishing
  BY DistinctNames DEF Approve, WriterInvariant, WriterExclusive, Publishing, Locked
<1>2. UNCHANGED <<lock, pc, markers, op>>
  BY DEF Approve, projectVars, journalVars
<1>3. \A r \in markers : After(r) # q
  BY DEF Approve, WriterInvariant, Reviewed
<1>4. Reviewed'
  BY <1>1, <1>2, <1>3, SMTT(30) DEF Approve, WriterInvariant, Reviewed, TypeOK,
     DbOK, After
<1> QED
  BY <1>2, <1>4 DEF WriterInvariant, WriterExclusive, OneApply, After

\* A fresh project satisfies the inductive invariant.
LEMMA InitApplies == Init => WriterInvariant
<1> SUFFICES ASSUME Init PROVE WriterInvariant
  OBVIOUS
<1>1. Typed
  BY InitTyped
<1>2. WriterExclusive /\ Reviewed /\ OneApply
  BY DistinctNames, SMTT(30) DEF Init, WriterExclusive, Reviewed, OneApply,
     Publishing, Locked, Recovering, Applying, Finishing, Keeping
<1> QED
  BY <1>1, <1>2 DEF Typed, WriterInvariant

\* Every step preserves the inductive invariant.
LEMMA StepApplies == WriterInvariant /\ [Next]_vars => WriterInvariant'
<1> SUFFICES ASSUME WriterInvariant, [Next]_vars PROVE WriterInvariant'
  OBVIOUS
<1>1. Typed /\ Typed'
  BY StepTyped DEF Typed, WriterInvariant
<1>2. WriterExclusive
  BY DEF WriterInvariant
<1>3. SUFFICES WriterExclusive' /\ Reviewed' /\ OneApply'
  BY <1>1 DEF Typed, WriterInvariant
<1>4. ASSUME NEW p \in Process, \E k \in Commands : Open(p, k)
      PROVE  WriterExclusive' /\ Reviewed' /\ OneApply'
  BY <1>1, <1>2, <1>4, OtherExclusive, SteadyApplies
<1>5. ASSUME NEW p \in Process, Step(p)
      PROVE  WriterExclusive' /\ Reviewed' /\ OneApply'
  <2>1. CASE RecoverStep(p)
    BY <1>1, <1>2, <2>1, RecoverExclusive, SteadyApplies
  <2>2. CASE KeepStep(p)
    BY <1>1, <1>2, <2>2, KeepExclusive, SteadyApplies
  <2>3. CASE BusyTimeout(p)
    BY <1>1, <1>2, <2>3, OtherExclusive, SteadyApplies
  <2>4. CASE ApplyStep(p)
    <3>1. CASE Commit(p)
      BY <3>1, CommitApplies
    <3>2. CASE \E q \in Proposal, r \in Run : Validate(p, q, r)
      BY <3>2, ValidateApplies
    <3>3. CASE ~Commit(p) /\ \A q \in Proposal, r \in Run : ~Validate(p, q, r)
      BY <1>1, <1>2, <2>4, <3>3, ApplyExclusive, SteadyApplies
    <3> QED
      BY <3>1, <3>2, <3>3
  <2> QED
    BY <1>5, <2>1, <2>2, <2>3, <2>4 DEF Step
<1>6. ASSUME NEW p \in Process, Crash(p) \/ IoFailure(p)
      PROVE  WriterExclusive' /\ Reviewed' /\ OneApply'
  BY <1>1, <1>2, <1>6, OtherExclusive, SteadyApplies
<1>7. ASSUME NEW q \in Proposal, Approve(q)
      PROVE  WriterExclusive' /\ Reviewed' /\ OneApply'
  BY <1>7, ApproveApplies
<1>8. CASE Editor
  <2>1. UNCHANGED <<op, lock, status, markers, pc, run>>
    BY <1>8 DEF Editor, EditorSave, EditorDelete, EditorReplaceCopy,
       EditorWriteDisplaced, Edit, journalVars, dbVars, localVars
  <2> QED
    BY <1>2, <2>1, SteadyApplies DEF Steady, WriterExclusive
<1>9. CASE UNCHANGED vars
  <2>1. UNCHANGED <<op, lock, status, markers, pc, run>>
    BY <1>9 DEF vars, projectVars, journalVars, dbVars, localVars
  <2> QED
    BY <1>2, <2>1, SteadyApplies DEF Steady, WriterExclusive
<1> QED
  BY <1>4, <1>5, <1>6, <1>7, <1>8, <1>9 DEF Next

\* The inductive invariant itself.
THEOREM Applies == Spec => []WriterInvariant
  BY InitApplies, StepApplies, PTL DEF Spec

\* SQLite's write lock is held exactly by the process whose control is inside
\* a transaction: recovery, apply, cleanup and keep exclude one another through
\* any crash, throw or busy timeout.
THEOREM Exclusive == Spec => []WriterExclusive
<1>1. WriterInvariant => WriterExclusive
  BY DEF WriterInvariant
<1> QED
  BY <1>1, Applies, PTL

\* No proposal is applied by two runs, however many processes race to apply it
\* and however often they crash, fail and retry (VaultWriter::apply).
THEOREM AtMostOnce == Spec => []OneApply
<1>1. WriterInvariant => OneApply
  BY DEF WriterInvariant
<1> QED
  BY <1>1, Applies, PTL


----------------------------------------------------------------------------
\* Where the bytes x are.  A .recovery that holds the journal's before image
\* may be staged again, so it does not count.
Archived(x) ==
  \/ \E s \in markers : own["backup"][s] = x
  \/ \E name \in archive : name[3] = x
Holds(s, x) == Temp(s) = x \/ (Recov(s) = x /\ x # Before(s))
Spare(x, r) == Archived(x) \/ \E s \in Run \ {r} : Holds(s, x)
Safe(x) == target = x \/ Archived(x) \/ \E s \in Run : Holds(s, x)

\* ... besides the article and the .recovery of r, besides the temp of r, and
\* besides both files of r.
Elsewhere(x, r) == Temp(r) = x \/ Spare(x, r)
WithoutTemp(x, r) ==
  target = x \/ Spare(x, r) \/ (Recov(r) = x /\ x # Before(r))
WithoutFiles(x, r) == target = x \/ Spare(x, r)

\* Places by what is true of the files of the run there.
Restores == {"recover_stage", "recover_exchange", "recover_verify",
             "recover_undo", "recover_unstage"}
Cleans == {"clean_staged", "clean_copy", "clean_backup", "clean_temp",
           "clean_recovery", "clean_journal"}
Keeps == {"keep_kept", "keep_displaced", "keep_manifest", "keep_temp",
          "keep_source", "keep_recovery", "keep_journal"}
Exchanging == {"exchange", "verify", "replaced", "final_check", "commit"}
Ahead == Publishing \ {"verify", "replaced", "final_check", "commit"}

\* The files of a run, whatever any process does.
RunFiles(r) ==
  /\ op[r] = NoOp => r \notin moved
  /\ r \notin moved => Temp(r) \notin Save
  /\ journal[r] = "prepared" => r \notin moved /\ Recov(r) = Missing
  /\ r \in markers =>
       /\ own["backup"][r] = Before(r)
       /\ Recov(r) = Missing /\ own["staged"][r] = Missing

\* The files of the run that a process works on.
Journaled(p) ==
  pc[p] \in (Publishing \ {"journal", "journal_publish"})
      \cup Restores \cup {"recover_archive"} \cup Cleans \cup Keeps
    => journal[run[p]] # "none"
Replacing(p) ==
  /\ pc[p] \in Ahead => run[p] \notin moved
  /\ pc[p] \in Exchanging \cup Restores
       => journal[run[p]] \in {"replacing", "replaced"}
  /\ pc[p] \in Publishing => Recov(run[p]) = Missing
  /\ pc[p] \in Publishing \ {"copy_publish"} => own["staged"][run[p]] = Missing
  /\ pc[p] \in Publishing \ {"journal", "journal_publish", "backup"}
       => own["backup"][run[p]] = Before(run[p])
Marked(p) ==
  /\ pc[p] \in {"recover_archive", "cleanup_begin"} \cup Finishing
       => run[p] \in markers
  /\ pc[p] \in Restores \cup Keeps => run[p] \notin markers
  /\ pc[p] \in {"keep_temp", "keep_source", "keep_recovery", "keep_journal"}
       => run[p] \in manifests
Removed(p) ==
  /\ pc[p] \in {"clean_copy", "clean_backup", "clean_temp", "clean_recovery",
                "clean_journal", "keep_recovery", "keep_journal"}
       => own["staged"][run[p]] = Missing
  /\ pc[p] \in {"clean_temp", "clean_recovery", "clean_journal"}
       => run[p] \in markers \/ own["backup"][run[p]] = Missing
  /\ pc[p] \in {"clean_recovery", "clean_journal", "keep_source",
                "keep_recovery", "keep_journal", "finish_journal"}
       => Temp(run[p]) = Missing
  /\ pc[p] \in {"clean_journal", "keep_journal"} => Recov(run[p]) = Missing

\* keep_recovery_conflicts lists the journals under the lock.
Cleaning == {"recover_archive", "clean_pending"} \cup Cleans
Listed(p) ==
  /\ kind[p] = "keep" => pc[p] \in {"keep_begin"} \cup Cleaning \cup Keeping
  /\ pc[p] \in Keeping \/ (kind[p] = "keep" /\ pc[p] \in Cleaning) =>
       \A r \in list[p] :
         journal[r] # "none" /\ (r = run[p] => pc[p] = "keep")

Files ==
  /\ NoOrphans /\ \A r \in Run : RunFiles(r)
  /\ \A p \in Process : Journaled(p) /\ Replacing(p) /\ Marked(p) /\ Removed(p)
                         /\ Listed(p)

\* What the editor has not written yet is nowhere.
Unwritten ==
  /\ target \notin unsaved
  /\ owed \cap unsaved = {}
  /\ \A r \in Run : Temp(r) \notin unsaved /\ Recov(r) \notin unsaved
  /\ \A r \in Run : op[r] # NoOp => Before(r) \notin unsaved
  /\ \A p \in Process : want[p] \notin unsaved

\* While a process restores or cleans up, what an editor is owed is also
\* somewhere that the coming steps do not touch.
Restoring(p) ==
  /\ pc[p] \in Restores \ {"recover_unstage"} =>
       \A x \in owed :
         (x = want[p] \/ (x = target /\ x = Before(run[p]))) => Elsewhere(x, run[p])
  /\ pc[p] \in {"recover_stage", "recover_exchange"} =>
       (Temp(run[p]) \in owed => Temp(run[p]) = want[p])
  /\ pc[p] = "recover_stage" => Recov(run[p]) \in {Missing, After(run[p]), want[p]}
  /\ pc[p] = "recover_exchange" => want[p] = Missing \/ Recov(run[p]) = want[p]
  /\ pc[p] \in {"recover_verify", "finish_temp", "keep_manifest", "keep_temp"} =>
       \A x \in owed : WithoutTemp(x, run[p])
  /\ pc[p] \in {"recover_unstage"} \cup (Cleans \ {"clean_journal"}) =>
       \A x \in owed : WithoutFiles(x, run[p])

Saved ==
  /\ Unwritten
  /\ \A x \in owed : Safe(x)
  /\ \A p \in Process : Restoring(p)

----------------------------------------------------------------------------
\* What a step of p owes to the invariant about its own run.
Mine(p) ==
  /\ NoOrphans /\ \A r \in Run : RunFiles(r)
  /\ Journaled(p) /\ Replacing(p) /\ Marked(p) /\ Removed(p) /\ Listed(p)

\* A step of recover_on_open leaves the files of its run as the step it goes to
\* expects them ...
LEMMA RecoverFiles ==
  ASSUME NEW p \in Process, WriterInvariant, Files, RecoverStep(p)
  PROVE  Mine(p)'
<1> USE DEF WriterInvariant, TypeOK, KnownRuns, WriterExclusive, ArticleOK,
      JournalOK, DbOK, LocalsOK, Mine, NoOrphans, Files, RunFiles, Journaled,
      Replacing, Marked, Removed, Listed, Cleaning, Kinds
<1> USE DEF Operation, Owned, Phases, Waiting, Locked, Working, Recovering,
      Applying, Finishing, Keeping, Publishing, Restores, Cleans, Keeps,
      Exchanging, Ahead
<1> USE DEF At, Goto, Move, Look, Store, Leave, Unlock, Throw, Fail, Conflict,
      Begin, Opened, TakeJournal, RemoveJournal, WritePending, PublishJournal,
      PreserveDisplaced, ArchiveBytes, Swap
<1> USE DEF articleVars, journalVars, archiveVars, projectVars, dbVars,
      localVars, outVars, historyVars, vars
<1> USE DEF Journals, Committed, After, Before, Temp, Recov, Made, Interrupted
<1> USE DistinctNames, DistinctBytes
<1>1. CASE RecoverBegin(p)
  BY <1>1, SMTT(30) DEF RecoverBegin
<1>2. ASSUME NEW r \in Run, RecoverGone(p, r)
      PROVE  Mine(p)'
  BY <1>2, SMTT(30) DEF RecoverGone
<1>3. ASSUME NEW r \in Run, RecoverCommitted(p, r)
      PROVE  Mine(p)'
  BY <1>3, SMTT(30) DEF RecoverCommitted
<1>4. ASSUME NEW r \in Run, RecoverPrepared(p, r)
      PROVE  Mine(p)'
  BY <1>4, SMTT(30) DEF RecoverPrepared
<1>5. ASSUME NEW r \in Run, RecoverReplaced(p, r)
      PROVE  Mine(p)'
  BY <1>5, SMTT(30) DEF RecoverReplaced
<1>6. ASSUME NEW r \in Run, RecoverRecognized(p, r)
      PROVE  Mine(p)'
  BY <1>6, SMTT(30) DEF RecoverRecognized
<1>7. ASSUME NEW r \in Run, RecoverConflict(p, r)
      PROVE  Mine(p)'
  BY <1>7, SMTT(30) DEF RecoverConflict
<1>8. CASE RecoverStage(p)
  BY <1>8, SMTT(30) DEF RecoverStage
<1>9. CASE RecoverExchange(p)
  BY <1>9, SMTT(30) DEF RecoverExchange
<1>10. CASE RecoverVerified(p)
  BY <1>10, SMTT(30) DEF RecoverVerified
<1>11. CASE RecoverRaced(p)
  BY <1>11, SMTT(30) DEF RecoverRaced
<1>12. CASE RecoverUndo(p)
  BY <1>12, SMTT(30) DEF RecoverUndo
<1>13. CASE RecoverBlocked(p)
  BY <1>13, SMTT(30) DEF RecoverBlocked
<1>14. CASE RecoverUnstage(p)
  BY <1>14, SMTT(30) DEF RecoverUnstage
<1>15. CASE RecoverArchive(p)
  <2>1. CASE Fail(p) /\ At(p, "recover_archive")
    BY <2>1, SMTT(30)
  <2>2. CASE Move(p, "recover_archive", "clean_staged")
             /\ UNCHANGED <<articleVars, journalVars, manifests>>
    BY <2>2, SMTT(30)
  <2> QED
    BY <1>15, <2>1, <2>2 DEF RecoverArchive
<1>16. CASE CleanStaged(p)
  BY <1>16, SMTT(30) DEF CleanStaged
<1>17. CASE CleanCopy(p)
  BY <1>17, SMTT(30) DEF CleanCopy
<1>18. CASE CleanBackup(p)
  <2>1. CASE Look(p, "clean_backup", "clean_temp") /\ Committed(run[p])
    BY <2>1, SMTT(30)
  <2>2. CASE /\ Store(p, "clean_backup", "backup", Missing, "clean_temp")
             /\ ~Committed(run[p])
    <3>1. run[p] \in Run /\ run' = run /\ markers' = markers /\ run[p] \notin markers
      BY <2>2, SMTT(30)
    <3>2. /\ own'["backup"][run[p]] = Missing
          /\ \A g \in Owned, r \in Run :
               r # run[p] \/ g # "backup" => own'[g][r] = own[g][r]
      BY <2>2, <3>1, SMTT(30)
    <3>3. Journaled(p)' /\ Replacing(p)' /\ Marked(p)' /\ Removed(p)'
      BY <2>2, <3>1, <3>2, SMTT(30)
    <3>4. Listed(p)'
      BY <2>2, SMTT(30)
    <3>5. NoOrphans' /\ \A r \in Run : RunFiles(r)'
      BY <2>2, <3>1, <3>2, SMTT(30)
    <3> QED BY <3>3, <3>4, <3>5 DEF Mine
  <2> QED
    BY <1>18, <2>1, <2>2 DEF CleanBackup
<1>19. CASE CleanTemp(p)
  BY <1>19, SMTT(30) DEF CleanTemp
<1>20. CASE CleanRecovery(p)
  BY <1>20, SMTT(30) DEF CleanRecovery
<1>21. CASE CleanJournal(p)
  BY <1>21, SMTT(30) DEF CleanJournal
<1>22. CASE CleanPending(p)
  BY <1>22, SMTT(30) DEF CleanPending
<1>23. CASE RecoverCommit(p)
  BY <1>23, SMTT(30) DEF RecoverCommit
<1>24. CASE Purge(p)
  BY <1>24, SMTT(30) DEF Purge
<1> QED
  BY <1>1, <1>2, <1>3, <1>4, <1>5, <1>6, <1>7, <1>8, <1>9, <1>10, <1>11,
     <1>12, <1>13, <1>14, <1>15, <1>16, <1>17, <1>18, <1>19, <1>20,
     <1>21, <1>22, <1>23, <1>24
     DEF RecoverStep

\* ... so does one of VaultWriter::apply ...
LEMMA ApplyFiles ==
  ASSUME NEW p \in Process, WriterInvariant, Files, ApplyStep(p)
  PROVE  Mine(p)'
<1> USE DEF WriterInvariant, TypeOK, KnownRuns, WriterExclusive, ArticleOK,
      JournalOK, DbOK, LocalsOK, Mine, NoOrphans, Files, RunFiles, Journaled,
      Replacing, Marked, Removed, Listed, Cleaning, Kinds
<1> USE DEF Operation, Owned, Phases, Waiting, Locked, Working, Recovering,
      Applying, Finishing, Keeping, Publishing, Restores, Cleans, Keeps,
      Exchanging, Ahead
<1> USE DEF At, Goto, Move, Look, Store, Leave, Unlock, Throw, Fail, Conflict,
      Begin, Opened, TakeJournal, RemoveJournal, WritePending, PublishJournal,
      PreserveDisplaced, ArchiveBytes, Swap
<1> USE DEF articleVars, journalVars, archiveVars, projectVars, dbVars,
      localVars, outVars, historyVars, vars
<1> USE DEF Journals, Committed, After, Before, Temp, Recov, Made, Interrupted
<1> USE DistinctNames, DistinctBytes
<1> USE DEF Reviewed
<1>1. CASE ApplyBegin(p)
  BY <1>1, SMTT(30) DEF ApplyBegin
<1>2. ASSUME NEW q \in Proposal, Refuse(p, q)
      PROVE  Mine(p)'
  BY <1>2, SMTT(30) DEF Refuse
<1>3. ASSUME NEW q \in Proposal, NEW r \in Run, Validate(p, q, r)
      PROVE  Mine(p)'
  <2>1. op[r] = NoOp /\ run'[p] = r /\ pc'[p] = "journal"
    BY <1>3, SMTT(30) DEF Validate
  <2>2. \A s \in Run \ {r} : op'[s] = op[s]
    BY <1>3, SMTT(30) DEF Validate
  <2>3. UNCHANGED <<articleVars, journal, markers, kind, list, manifests>>
    BY <1>3, SMTT(30) DEF Validate
  <2>4. r \notin markers /\ journal[r] = "none" /\ r \notin moved
    BY <2>1, SMTT(30)
  <2>5. \A s \in Run : RunFiles(s)'
    BY <2>2, <2>3, <2>4, SMTT(30)
  <2> QED
    BY <1>3, <2>1, <2>3, <2>4, <2>5, SMTT(30) DEF Validate
<1>4. CASE PrepareJournal(p)
  BY <1>4, SMTT(30) DEF PrepareJournal
<1>5. CASE PrepareBackup(p)
  BY <1>5, SMTT(30) DEF PrepareBackup
<1>6. CASE PrepareCopy(p)
  BY <1>6, SMTT(30) DEF PrepareCopy
<1>7. CASE PublishCopy(p)
  BY <1>7, SMTT(30) DEF PublishCopy
<1>8. CASE StageArticle(p)
  BY <1>8, SMTT(30) DEF StageArticle
<1>9. CASE Recheck(p)
  BY <1>9, SMTT(30) DEF Recheck
<1>10. CASE MarkReplacing(p)
  BY <1>10, SMTT(30) DEF MarkReplacing
<1>11. CASE ReplaceArticle(p)
  BY <1>11, SMTT(30) DEF ReplaceArticle
<1>12. CASE VerifyReplaced(p)
  BY <1>12, SMTT(30) DEF VerifyReplaced
<1>13. CASE MarkReplaced(p)
  BY <1>13, SMTT(30) DEF MarkReplaced
<1>14. CASE FinalCheck(p)
  BY <1>14, SMTT(30) DEF FinalCheck
<1>15. CASE ApplyBlocked(p)
  BY <1>15, SMTT(30) DEF ApplyBlocked
<1>16. CASE Commit(p)
  BY <1>16, SMTT(30) DEF Commit
<1>17. CASE CleanupBegin(p)
  BY <1>17, SMTT(30) DEF CleanupBegin
<1>18. CASE FinishArchive(p)
  BY <1>18, SMTT(30) DEF FinishArchive
<1>19. CASE FinishTemp(p)
  BY <1>19, SMTT(30) DEF FinishTemp
<1>20. CASE FinishJournal(p)
  BY <1>20, SMTT(30) DEF FinishJournal
<1>21. CASE FinishCommit(p)
  BY <1>21, SMTT(30) DEF FinishCommit
<1> QED
  BY <1>1, <1>2, <1>3, <1>4, <1>5, <1>6, <1>7, <1>8, <1>9, <1>10, <1>11,
     <1>12, <1>13, <1>14, <1>15, <1>16, <1>17, <1>18, <1>19, <1>20,
     <1>21
     DEF ApplyStep

\* ... and one of keep_recovery_conflicts.
LEMMA KeepFiles ==
  ASSUME NEW p \in Process, WriterInvariant, Files, KeepStep(p)
  PROVE  Mine(p)'
<1> USE DEF WriterInvariant, TypeOK, KnownRuns, WriterExclusive, ArticleOK,
      JournalOK, DbOK, LocalsOK, Mine, NoOrphans, Files, RunFiles, Journaled,
      Replacing, Marked, Removed, Listed, Cleaning, Kinds
<1> USE DEF Operation, Owned, Phases, Waiting, Locked, Working, Recovering,
      Applying, Finishing, Keeping, Publishing, Restores, Cleans, Keeps,
      Exchanging, Ahead
<1> USE DEF At, Goto, Move, Look, Store, Leave, Unlock, Throw, Fail, Conflict,
      Begin, Opened, TakeJournal, RemoveJournal, WritePending, PublishJournal,
      PreserveDisplaced, ArchiveBytes, Swap
<1> USE DEF articleVars, journalVars, archiveVars, projectVars, dbVars,
      localVars, outVars, historyVars, vars
<1> USE DEF Journals, Committed, After, Before, Temp, Recov, Made, Interrupted
<1> USE DistinctNames, DistinctBytes
<1>1. CASE KeepBegin(p)
  BY <1>1, SMTT(30) DEF KeepBegin
<1>2. ASSUME NEW r \in Run, KeepJournal(p, r)
      PROVE  Mine(p)'
  BY <1>2, SMTT(30) DEF KeepJournal
<1>3. CASE KeepTarget(p)
  BY <1>3, SMTT(30) DEF KeepTarget
<1>4. CASE KeepDisplaced(p)
  BY <1>4, SMTT(30) DEF KeepDisplaced
<1>5. CASE KeepManifest(p)
  BY <1>5, SMTT(30) DEF KeepManifest
<1>6. CASE KeepTemp(p)
  BY <1>6, SMTT(30) DEF KeepTemp
<1>7. CASE KeepSource(p)
  BY <1>7, SMTT(30) DEF KeepSource
<1>8. CASE KeepRecovery(p)
  BY <1>8, SMTT(90) DEF KeepRecovery
<1>9. CASE KeepRemoveJournal(p)
  BY <1>9, SMTT(30) DEF KeepRemoveJournal
<1>10. CASE KeepCommit(p)
  BY <1>10, SMTT(30) DEF KeepCommit
<1> QED
  BY <1>1, <1>2, <1>3, <1>4, <1>5, <1>6, <1>7, <1>8, <1>9, <1>10
     DEF KeepStep

----------------------------------------------------------------------------
\* A step of one process leaves the locals of the others alone and, while
\* another one holds the write lock, everything that lock protects.
fileVars == <<target, own, moved, journal, op, manifests, archive, markers>>
Alone(p) ==
  /\ markers \subseteq markers' /\ owed' = owed
  /\ \A q \in Process \ {p} :
       /\ pc'[q] = pc[q] /\ run'[q] = run[q] /\ kind'[q] = kind[q]
       /\ list'[q] = list[q] /\ want'[q] = want[q]
       /\ pc[q] \in Locked => UNCHANGED fileVars

\* The steps of recovery leave the others alone, because they hold the lock
\* or touch nothing that it protects;
LEMMA RecoverAlone ==
  ASSUME NEW p \in Process, WriterInvariant, RecoverStep(p)
  PROVE  Alone(p)
<1> USE DEF WriterInvariant, TypeOK, WriterExclusive, LocalsOK, DbOK, Alone,
      fileVars, Locked, Recovering, Applying, Finishing, Keeping, Waiting
<1> USE DEF At, Goto, Move, Look, Store, Leave, Unlock, Throw, Fail, Conflict,
      Begin, Opened, TakeJournal, RemoveJournal, WritePending, PublishJournal,
      PreserveDisplaced, ArchiveBytes, Swap
<1> USE DEF articleVars, journalVars, archiveVars, projectVars, dbVars,
      localVars, outVars, historyVars, vars
<1> USE DistinctNames
<1>1. CASE RecoverBegin(p)
  BY <1>1, SMTT(30) DEF RecoverBegin
<1>2. ASSUME NEW r \in Run, RecoverGone(p, r)
      PROVE  Alone(p)
  BY <1>2, SMTT(30) DEF RecoverGone
<1>3. ASSUME NEW r \in Run, RecoverCommitted(p, r)
      PROVE  Alone(p)
  BY <1>3, SMTT(30) DEF RecoverCommitted
<1>4. ASSUME NEW r \in Run, RecoverPrepared(p, r)
      PROVE  Alone(p)
  BY <1>4, SMTT(30) DEF RecoverPrepared
<1>5. ASSUME NEW r \in Run, RecoverReplaced(p, r)
      PROVE  Alone(p)
  BY <1>5, SMTT(30) DEF RecoverReplaced
<1>6. ASSUME NEW r \in Run, RecoverRecognized(p, r)
      PROVE  Alone(p)
  BY <1>6, SMTT(30) DEF RecoverRecognized
<1>7. ASSUME NEW r \in Run, RecoverConflict(p, r)
      PROVE  Alone(p)
  BY <1>7, SMTT(30) DEF RecoverConflict
<1>8. CASE RecoverStage(p)
  BY <1>8, SMTT(30) DEF RecoverStage
<1>9. CASE RecoverExchange(p)
  BY <1>9, SMTT(30) DEF RecoverExchange
<1>10. CASE RecoverVerified(p)
  BY <1>10, SMTT(30) DEF RecoverVerified
<1>11. CASE RecoverRaced(p)
  BY <1>11, SMTT(30) DEF RecoverRaced
<1>12. CASE RecoverUndo(p)
  BY <1>12, SMTT(30) DEF RecoverUndo
<1>13. CASE RecoverBlocked(p)
  BY <1>13, SMTT(30) DEF RecoverBlocked
<1>14. CASE RecoverUnstage(p)
  BY <1>14, SMTT(30) DEF RecoverUnstage
<1>15. CASE RecoverArchive(p)
  BY <1>15, SMTT(30) DEF RecoverArchive
<1>16. CASE CleanStaged(p)
  BY <1>16, SMTT(30) DEF CleanStaged
<1>17. CASE CleanCopy(p)
  BY <1>17, SMTT(30) DEF CleanCopy
<1>18. CASE CleanBackup(p)
  BY <1>18, SMTT(30) DEF CleanBackup
<1>19. CASE CleanTemp(p)
  BY <1>19, SMTT(30) DEF CleanTemp
<1>20. CASE CleanRecovery(p)
  BY <1>20, SMTT(30) DEF CleanRecovery
<1>21. CASE CleanJournal(p)
  BY <1>21, SMTT(30) DEF CleanJournal
<1>22. CASE CleanPending(p)
  BY <1>22, SMTT(30) DEF CleanPending
<1>23. CASE RecoverCommit(p)
  BY <1>23, SMTT(30) DEF RecoverCommit
<1>24. CASE Purge(p)
  BY <1>24, SMTT(30) DEF Purge
<1> QED
  BY <1>1, <1>2, <1>3, <1>4, <1>5, <1>6, <1>7, <1>8, <1>9, <1>10, <1>11,
     <1>12, <1>13, <1>14, <1>15, <1>16, <1>17, <1>18, <1>19, <1>20,
     <1>21, <1>22, <1>23, <1>24
     DEF RecoverStep

\* so do the steps of apply,
LEMMA ApplyAlone ==
  ASSUME NEW p \in Process, WriterInvariant, ApplyStep(p)
  PROVE  Alone(p)
<1> USE DEF WriterInvariant, TypeOK, WriterExclusive, LocalsOK, DbOK, Alone,
      fileVars, Locked, Recovering, Applying, Finishing, Keeping, Waiting
<1> USE DEF At, Goto, Move, Look, Store, Leave, Unlock, Throw, Fail, Conflict,
      Begin, Opened, TakeJournal, RemoveJournal, WritePending, PublishJournal,
      PreserveDisplaced, ArchiveBytes, Swap
<1> USE DEF articleVars, journalVars, archiveVars, projectVars, dbVars,
      localVars, outVars, historyVars, vars
<1> USE DistinctNames
<1>1. CASE ApplyBegin(p)
  BY <1>1, SMTT(30) DEF ApplyBegin
<1>2. ASSUME NEW q \in Proposal, Refuse(p, q)
      PROVE  Alone(p)
  BY <1>2, SMTT(30) DEF Refuse
<1>3. ASSUME NEW q \in Proposal, NEW r \in Run, Validate(p, q, r)
      PROVE  Alone(p)
  BY <1>3, SMTT(30) DEF Validate
<1>4. CASE PrepareJournal(p)
  BY <1>4, SMTT(30) DEF PrepareJournal
<1>5. CASE PrepareBackup(p)
  BY <1>5, SMTT(30) DEF PrepareBackup
<1>6. CASE PrepareCopy(p)
  BY <1>6, SMTT(30) DEF PrepareCopy
<1>7. CASE PublishCopy(p)
  BY <1>7, SMTT(30) DEF PublishCopy
<1>8. CASE StageArticle(p)
  BY <1>8, SMTT(30) DEF StageArticle
<1>9. CASE Recheck(p)
  BY <1>9, SMTT(30) DEF Recheck
<1>10. CASE MarkReplacing(p)
  BY <1>10, SMTT(30) DEF MarkReplacing
<1>11. CASE ReplaceArticle(p)
  BY <1>11, SMTT(30) DEF ReplaceArticle
<1>12. CASE VerifyReplaced(p)
  BY <1>12, SMTT(30) DEF VerifyReplaced
<1>13. CASE MarkReplaced(p)
  BY <1>13, SMTT(30) DEF MarkReplaced
<1>14. CASE FinalCheck(p)
  BY <1>14, SMTT(30) DEF FinalCheck
<1>15. CASE ApplyBlocked(p)
  BY <1>15, SMTT(30) DEF ApplyBlocked
<1>16. CASE Commit(p)
  BY <1>16, SMTT(30) DEF Commit
<1>17. CASE CleanupBegin(p)
  BY <1>17, SMTT(30) DEF CleanupBegin
<1>18. CASE FinishArchive(p)
  BY <1>18, SMTT(30) DEF FinishArchive
<1>19. CASE FinishTemp(p)
  BY <1>19, SMTT(30) DEF FinishTemp
<1>20. CASE FinishJournal(p)
  BY <1>20, SMTT(30) DEF FinishJournal
<1>21. CASE FinishCommit(p)
  BY <1>21, SMTT(30) DEF FinishCommit
<1> QED
  BY <1>1, <1>2, <1>3, <1>4, <1>5, <1>6, <1>7, <1>8, <1>9, <1>10, <1>11,
     <1>12, <1>13, <1>14, <1>15, <1>16, <1>17, <1>18, <1>19, <1>20,
     <1>21
     DEF ApplyStep

\* those of keep,
LEMMA KeepAlone ==
  ASSUME NEW p \in Process, WriterInvariant, KeepStep(p)
  PROVE  Alone(p)
<1> USE DEF WriterInvariant, TypeOK, WriterExclusive, LocalsOK, DbOK, Alone,
      fileVars, Locked, Recovering, Applying, Finishing, Keeping, Waiting
<1> USE DEF At, Goto, Move, Look, Store, Leave, Unlock, Throw, Fail, Conflict,
      Begin, Opened, TakeJournal, RemoveJournal, WritePending, PublishJournal,
      PreserveDisplaced, ArchiveBytes, Swap
<1> USE DEF articleVars, journalVars, archiveVars, projectVars, dbVars,
      localVars, outVars, historyVars, vars
<1> USE DistinctNames
<1>1. CASE KeepBegin(p)
  BY <1>1, SMTT(30) DEF KeepBegin
<1>2. ASSUME NEW r \in Run, KeepJournal(p, r)
      PROVE  Alone(p)
  BY <1>2, SMTT(30) DEF KeepJournal
<1>3. CASE KeepTarget(p)
  BY <1>3, SMTT(30) DEF KeepTarget
<1>4. CASE KeepDisplaced(p)
  BY <1>4, SMTT(30) DEF KeepDisplaced
<1>5. CASE KeepManifest(p)
  BY <1>5, SMTT(30) DEF KeepManifest
<1>6. CASE KeepTemp(p)
  BY <1>6, SMTT(30) DEF KeepTemp
<1>7. CASE KeepSource(p)
  BY <1>7, SMTT(30) DEF KeepSource
<1>8. CASE KeepRecovery(p)
  BY <1>8, SMTT(30) DEF KeepRecovery
<1>9. CASE KeepRemoveJournal(p)
  BY <1>9, SMTT(30) DEF KeepRemoveJournal
<1>10. CASE KeepCommit(p)
  BY <1>10, SMTT(30) DEF KeepCommit
<1> QED
  BY <1>1, <1>2, <1>3, <1>4, <1>5, <1>6, <1>7, <1>8, <1>9, <1>10
     DEF KeepStep

\* and opens, timeouts, crashes and failures.
LEMMA OtherAlone ==
  ASSUME NEW p \in Process, WriterInvariant,
         \/ \E k \in Commands : Open(p, k)
         \/ BusyTimeout(p) \/ Crash(p) \/ IoFailure(p)
  PROVE  Alone(p)
<1> USE DEF WriterInvariant, TypeOK, WriterExclusive, LocalsOK, DbOK, Alone,
      fileVars, Locked, Recovering, Applying, Finishing, Keeping, Waiting
<1> USE DEF At, Goto, Move, Look, Store, Leave, Unlock, Throw, Fail, Conflict,
      Begin, Opened, TakeJournal, RemoveJournal, WritePending, PublishJournal,
      PreserveDisplaced, ArchiveBytes, Swap
<1> USE DEF articleVars, journalVars, archiveVars, projectVars, dbVars,
      localVars, outVars, historyVars, vars
<1> USE DistinctNames
<1>1. ASSUME NEW k \in Commands, Open(p, k)
      PROVE  Alone(p)
  BY <1>1, SMTT(30) DEF Open
<1>2. CASE BusyTimeout(p)
  BY <1>2, SMTT(30) DEF BusyTimeout
<1>3. CASE Crash(p)
  BY <1>3, SMTT(30) DEF Crash, Fault, TornWrite, TornArchive, TornFile
<1>4. CASE IoFailure(p)
  BY <1>4, SMTT(30) DEF IoFailure, Fault
<1> QED
  BY <1>1, <1>2, <1>3, <1>4

\* What a process knows about the files of its run survives the steps of the
\* others.
LEMMA AloneFiles ==
  ASSUME NEW p \in Process, WriterInvariant, Files, Alone(p), Mine(p)'
  PROVE  Files'
<1> SUFFICES ASSUME NEW q \in Process, q # p
             PROVE  (Journaled(q) /\ Replacing(q) /\ Marked(q) /\ Removed(q)
                      /\ Listed(q))'
  BY DEF Files, Mine
<1>1. UNCHANGED <<pc[q], run[q], kind[q], list[q]>> /\ markers \subseteq markers'
  BY DEF Alone
<1>2. CASE pc[q] \in Locked
  <2>1. UNCHANGED fileVars
    BY <1>2 DEF Alone
  <2> QED
    BY <1>1, <2>1, SMTT(30) DEF fileVars, Files, Journaled, Replacing, Marked,
       Removed, Listed,
       Temp, Recov, Before
<1>3. CASE pc[q] \notin Locked
  BY <1>1, <1>3, SMTT(30) DEF Files, Journaled, Replacing, Marked, Removed,
     Listed, Locked,
     Recovering, Applying, Finishing, Keeping, Publishing, Restores, Cleans,
     Keeps, Exchanging, Ahead, Cleaning
<1> QED
  BY <1>2, <1>3

\* The files of the runs after a fault: the one file that an interrupted
\* write leaves behind belongs to a run that is journaled and uncommitted.
LEMMA TornFiles ==
  ASSUME NEW p \in Process, WriterInvariant, Files, pc[p] # "idle", Fault(p)
  PROVE  (NoOrphans /\ \A r \in Run : RunFiles(r))'
<1> DEFINE r == run[p]
<1>1. UNCHANGED <<moved, journal, op, manifests, markers>>
  BY SMTT(30) DEF Fault, TornWrite, TornArchive, articleVars, journalVars,
     dbVars
<1>2. CASE own' = own
  BY <1>1, <1>2 DEF Files, NoOrphans, RunFiles, Temp, Recov, Before
<1>3. CASE own' # own
  <2>1. /\ pc[p] \in DOMAIN TornFile
        /\ \E left \in {Torn, Missing} :
             own' = [own EXCEPT ![TornFile[pc[p]]][r] = left]
    BY <1>3 DEF Fault, TornWrite, TornArchive, articleVars
  <2>6. /\ TornFile[pc[p]] \in {"temp", "recov", "backup", "staged"}
        /\ TornFile[pc[p]] = "recov" => pc[p] = "recover_stage"
    BY <2>1, SMTT(30) DEF TornFile
  <2>2. PICK f \in {"temp", "recov", "backup", "staged"}, left \in {Torn, Missing} :
          /\ own' = [own EXCEPT ![f][r] = left]
          /\ f = "recov" => pc[p] = "recover_stage"
    BY <2>1, <2>6
  <2>3. pc[p] \in {"backup", "copy", "stage", "recover_stage"}
    BY <2>1, SMTT(30) DEF TornFile
  <2>4. /\ r \in Run /\ r \notin markers /\ journal[r] # "none"
        /\ pc[p] = "recover_stage" => journal[r] # "prepared"
    BY <2>3, SMTT(30) DEF WriterInvariant, KnownRuns, Reviewed, Working,
       Publishing, Locked, Applying, Recovering,
       Files, Journaled, Marked, Replacing, Restores, Exchanging
  <2> HIDE DEF r
  <2>5. /\ \A g \in Owned, s \in Run : own'[g][s] = own[g][s] \/ s = r
        /\ own'["temp"][r] \in {own["temp"][r], Torn, Missing}
        /\ own'["recov"][r] = own["recov"][r] \/ pc[p] = "recover_stage"
    BY <2>2, <2>4, SMTT(30) DEF WriterInvariant, TypeOK, ArticleOK, Owned
  <2> QED
    BY <1>1, <2>4, <2>5, DistinctBytes, SMTT(30) DEF Files, NoOrphans,
       RunFiles, Temp, Recov, Before, Owned
<1> QED
  BY <1>2, <1>3

\* A process that opens, fails or dies leaves the files of every run in order.
LEMMA OtherFiles ==
  ASSUME NEW p \in Process, WriterInvariant, Files,
         \/ \E k \in Commands : Open(p, k)
         \/ BusyTimeout(p) \/ Crash(p) \/ IoFailure(p)
  PROVE  Mine(p)'
<1> USE DEF WriterInvariant, TypeOK, KnownRuns, WriterExclusive, ArticleOK,
      JournalOK, DbOK, LocalsOK, Mine, NoOrphans, Files, RunFiles, Journaled,
      Replacing, Marked, Removed, Listed, Cleaning, Kinds
<1> USE DEF Operation, Owned, Phases, Waiting, Locked, Working, Recovering,
      Applying, Finishing, Keeping, Publishing, Restores, Cleans, Keeps,
      Exchanging, Ahead
<1> USE DEF At, Goto, Move, Look, Store, Leave, Unlock, Throw, Fail, Conflict,
      Begin, Opened, TakeJournal, RemoveJournal, WritePending, PublishJournal,
      PreserveDisplaced, ArchiveBytes, Swap
<1> USE DEF articleVars, journalVars, archiveVars, projectVars, dbVars,
      localVars, outVars, historyVars, vars
<1> USE DEF Journals, Committed, After, Before, Temp, Recov, Made, Interrupted
<1> USE DistinctNames, DistinctBytes
<1>1. ASSUME NEW k \in Commands, Open(p, k)
      PROVE  Mine(p)'
  BY <1>1, SMTT(30) DEF Open
<1>2. CASE BusyTimeout(p)
  BY <1>2, SMTT(30) DEF BusyTimeout
<1>3. CASE Crash(p)
  <2>1. (NoOrphans /\ \A r \in Run : RunFiles(r))'
    BY <1>3, TornFiles DEF Crash
  <2> QED
    BY <1>3, <2>1, SMTT(30) DEF Crash
<1>4. CASE IoFailure(p)
  <2>1. (NoOrphans /\ \A r \in Run : RunFiles(r))'
    BY <1>4, TornFiles, SMTT(30) DEF IoFailure
  <2> QED
    BY <1>4, <2>1, SMTT(30) DEF IoFailure
<1> QED
  BY <1>1, <1>2, <1>3, <1>4

\* An editor writes the article, and a displaced inode that is there.
LEMMA EditorFiles ==
  ASSUME WriterInvariant, Files, Editor
  PROVE  Files'
<1>1. UNCHANGED <<journalVars, archiveVars, markers, pc, localVars, moved>>
  BY SMTT(30) DEF Editor, Edit, EditorSave, EditorDelete, EditorReplaceCopy,
     EditorWriteDisplaced, dbVars
<1>2. \/ own' = own
      \/ \E v \in Save, r \in moved :
           Temp(r) # Missing /\ own' = [own EXCEPT !["temp"][r] = v]
  BY SMTT(30) DEF Editor, EditorSave, EditorDelete, EditorReplaceCopy,
     EditorWriteDisplaced
<1>3. CASE own' = own
  BY <1>1, <1>3 DEF Files, NoOrphans, RunFiles, Journaled, Replacing, Marked,
     Removed, Listed,
     journalVars, archiveVars, localVars, Temp, Recov, Before
<1>4. ASSUME NEW v \in Save, NEW r \in moved, Temp(r) # Missing,
             own' = [own EXCEPT !["temp"][r] = v]
      PROVE  Files'
  <2>1. \A f \in Owned \ {"temp"} : own'[f] = own[f]
    BY <1>4 DEF WriterInvariant, TypeOK, ArticleOK, Owned
  <2>2. \A s \in Run : Temp(s)' = Temp(s) \/ s = r
    BY <1>4, SMTT(30) DEF WriterInvariant, TypeOK, ArticleOK, Owned, Temp
  <2> QED
    BY <1>1, <1>4, <2>1, <2>2, SMTT(30) DEF Files, NoOrphans, RunFiles,
       Journaled, Replacing, Marked, Removed, Listed,
     journalVars, archiveVars, localVars, Temp, Recov, Before, Owned
<1> QED
  BY <1>2, <1>3, <1>4

----------------------------------------------------------------------------
\* No step of recovery brings up bytes that nobody has written,
LEMMA RecoverUnwritten ==
  ASSUME NEW p \in Process, WriterInvariant, Saved, RecoverStep(p)
  PROVE  Unwritten'
<1> USE DEF WriterInvariant, TypeOK, KnownRuns, WriterExclusive, ArticleOK,
      JournalOK, DbOK, LocalsOK, HistoryOK, Saved, Unwritten
<1> USE DEF Operation, Owned, Waiting, Locked, Working, Recovering, Applying,
      Finishing, Keeping
<1> USE DEF At, Goto, Move, Look, Store, Leave, Unlock, Throw, Fail, Conflict,
      Begin, Opened, TakeJournal, RemoveJournal, WritePending, PublishJournal,
      PreserveDisplaced, ArchiveBytes, Swap
<1> USE DEF articleVars, journalVars, archiveVars, projectVars, dbVars,
      localVars, outVars, historyVars, vars
<1> USE DEF Journals, Committed, After, Before, Temp, Recov, Displaced
<1> USE DistinctNames, DistinctBytes
<1>1. CASE RecoverBegin(p)
  BY <1>1, SMTT(30) DEF RecoverBegin
<1>2. ASSUME NEW r \in Run, RecoverGone(p, r)
      PROVE  Unwritten'
  BY <1>2, SMTT(30) DEF RecoverGone
<1>3. ASSUME NEW r \in Run, RecoverCommitted(p, r)
      PROVE  Unwritten'
  BY <1>3, SMTT(30) DEF RecoverCommitted
<1>4. ASSUME NEW r \in Run, RecoverPrepared(p, r)
      PROVE  Unwritten'
  BY <1>4, SMTT(30) DEF RecoverPrepared
<1>5. ASSUME NEW r \in Run, RecoverReplaced(p, r)
      PROVE  Unwritten'
  BY <1>5, SMTT(30) DEF RecoverReplaced
<1>6. ASSUME NEW r \in Run, RecoverRecognized(p, r)
      PROVE  Unwritten'
  BY <1>6, SMTT(30) DEF RecoverRecognized
<1>7. ASSUME NEW r \in Run, RecoverConflict(p, r)
      PROVE  Unwritten'
  BY <1>7, SMTT(30) DEF RecoverConflict
<1>8. CASE RecoverStage(p)
  BY <1>8, SMTT(30) DEF RecoverStage
<1>9. CASE RecoverExchange(p)
  BY <1>9, SMTT(30) DEF RecoverExchange
<1>10. CASE RecoverVerified(p)
  BY <1>10, SMTT(30) DEF RecoverVerified
<1>11. CASE RecoverRaced(p)
  BY <1>11, SMTT(30) DEF RecoverRaced
<1>12. CASE RecoverUndo(p)
  BY <1>12, SMTT(30) DEF RecoverUndo
<1>13. CASE RecoverBlocked(p)
  BY <1>13, SMTT(30) DEF RecoverBlocked
<1>14. CASE RecoverUnstage(p)
  BY <1>14, SMTT(30) DEF RecoverUnstage
<1>15. CASE RecoverArchive(p)
  BY <1>15, SMTT(30) DEF RecoverArchive
<1>16. CASE CleanStaged(p)
  BY <1>16, SMTT(30) DEF CleanStaged
<1>17. CASE CleanCopy(p)
  BY <1>17, SMTT(30) DEF CleanCopy
<1>18. CASE CleanBackup(p)
  BY <1>18, SMTT(30) DEF CleanBackup
<1>19. CASE CleanTemp(p)
  BY <1>19, SMTT(30) DEF CleanTemp
<1>20. CASE CleanRecovery(p)
  BY <1>20, SMTT(30) DEF CleanRecovery
<1>21. CASE CleanJournal(p)
  BY <1>21, SMTT(30) DEF CleanJournal
<1>22. CASE CleanPending(p)
  BY <1>22, SMTT(30) DEF CleanPending
<1>23. CASE RecoverCommit(p)
  BY <1>23, SMTT(30) DEF RecoverCommit
<1>24. CASE Purge(p)
  BY <1>24, SMTT(30) DEF Purge
<1> QED
  BY <1>1, <1>2, <1>3, <1>4, <1>5, <1>6, <1>7, <1>8, <1>9, <1>10, <1>11,
     <1>12, <1>13, <1>14, <1>15, <1>16, <1>17, <1>18, <1>19, <1>20,
     <1>21, <1>22, <1>23, <1>24
     DEF RecoverStep

\* nor does a step of apply,
LEMMA ApplyUnwritten ==
  ASSUME NEW p \in Process, WriterInvariant, Saved, ApplyStep(p)
  PROVE  Unwritten'
<1> USE DEF WriterInvariant, TypeOK, KnownRuns, WriterExclusive, ArticleOK,
      JournalOK, DbOK, LocalsOK, HistoryOK, Saved, Unwritten
<1> USE DEF Operation, Owned, Waiting, Locked, Working, Recovering, Applying,
      Finishing, Keeping
<1> USE DEF At, Goto, Move, Look, Store, Leave, Unlock, Throw, Fail, Conflict,
      Begin, Opened, TakeJournal, RemoveJournal, WritePending, PublishJournal,
      PreserveDisplaced, ArchiveBytes, Swap
<1> USE DEF articleVars, journalVars, archiveVars, projectVars, dbVars,
      localVars, outVars, historyVars, vars
<1> USE DEF Journals, Committed, After, Before, Temp, Recov, Displaced
<1> USE DistinctNames, DistinctBytes
<1>1. CASE ApplyBegin(p)
  BY <1>1, SMTT(30) DEF ApplyBegin
<1>2. ASSUME NEW q \in Proposal, Refuse(p, q)
      PROVE  Unwritten'
  BY <1>2, SMTT(30) DEF Refuse
<1>3. ASSUME NEW q \in Proposal, NEW r \in Run, Validate(p, q, r)
      PROVE  Unwritten'
  BY <1>3, SMTT(30) DEF Validate
<1>4. CASE PrepareJournal(p)
  BY <1>4, SMTT(30) DEF PrepareJournal
<1>5. CASE PrepareBackup(p)
  BY <1>5, SMTT(30) DEF PrepareBackup
<1>6. CASE PrepareCopy(p)
  BY <1>6, SMTT(30) DEF PrepareCopy
<1>7. CASE PublishCopy(p)
  BY <1>7, SMTT(30) DEF PublishCopy
<1>8. CASE StageArticle(p)
  BY <1>8, SMTT(30) DEF StageArticle
<1>9. CASE Recheck(p)
  BY <1>9, SMTT(30) DEF Recheck
<1>10. CASE MarkReplacing(p)
  BY <1>10, SMTT(30) DEF MarkReplacing
<1>11. CASE ReplaceArticle(p)
  BY <1>11, SMTT(30) DEF ReplaceArticle
<1>12. CASE VerifyReplaced(p)
  BY <1>12, SMTT(30) DEF VerifyReplaced
<1>13. CASE MarkReplaced(p)
  BY <1>13, SMTT(30) DEF MarkReplaced
<1>14. CASE FinalCheck(p)
  BY <1>14, SMTT(30) DEF FinalCheck
<1>15. CASE ApplyBlocked(p)
  BY <1>15, SMTT(30) DEF ApplyBlocked
<1>16. CASE Commit(p)
  BY <1>16, SMTT(30) DEF Commit
<1>17. CASE CleanupBegin(p)
  BY <1>17, SMTT(30) DEF CleanupBegin
<1>18. CASE FinishArchive(p)
  BY <1>18, SMTT(30) DEF FinishArchive
<1>19. CASE FinishTemp(p)
  BY <1>19, SMTT(30) DEF FinishTemp
<1>20. CASE FinishJournal(p)
  BY <1>20, SMTT(30) DEF FinishJournal
<1>21. CASE FinishCommit(p)
  BY <1>21, SMTT(30) DEF FinishCommit
<1> QED
  BY <1>1, <1>2, <1>3, <1>4, <1>5, <1>6, <1>7, <1>8, <1>9, <1>10, <1>11,
     <1>12, <1>13, <1>14, <1>15, <1>16, <1>17, <1>18, <1>19, <1>20,
     <1>21
     DEF ApplyStep

\* of keep,
LEMMA KeepUnwritten ==
  ASSUME NEW p \in Process, WriterInvariant, Saved, KeepStep(p)
  PROVE  Unwritten'
<1> USE DEF WriterInvariant, TypeOK, KnownRuns, WriterExclusive, ArticleOK,
      JournalOK, DbOK, LocalsOK, HistoryOK, Saved, Unwritten
<1> USE DEF Operation, Owned, Waiting, Locked, Working, Recovering, Applying,
      Finishing, Keeping
<1> USE DEF At, Goto, Move, Look, Store, Leave, Unlock, Throw, Fail, Conflict,
      Begin, Opened, TakeJournal, RemoveJournal, WritePending, PublishJournal,
      PreserveDisplaced, ArchiveBytes, Swap
<1> USE DEF articleVars, journalVars, archiveVars, projectVars, dbVars,
      localVars, outVars, historyVars, vars
<1> USE DEF Journals, Committed, After, Before, Temp, Recov, Displaced
<1> USE DistinctNames, DistinctBytes
<1>1. CASE KeepBegin(p)
  BY <1>1, SMTT(30) DEF KeepBegin
<1>2. ASSUME NEW r \in Run, KeepJournal(p, r)
      PROVE  Unwritten'
  BY <1>2, SMTT(30) DEF KeepJournal
<1>3. CASE KeepTarget(p)
  BY <1>3, SMTT(30) DEF KeepTarget
<1>4. CASE KeepDisplaced(p)
  BY <1>4, SMTT(30) DEF KeepDisplaced
<1>5. CASE KeepManifest(p)
  BY <1>5, SMTT(30) DEF KeepManifest
<1>6. CASE KeepTemp(p)
  BY <1>6, SMTT(30) DEF KeepTemp
<1>7. CASE KeepSource(p)
  BY <1>7, SMTT(30) DEF KeepSource
<1>8. CASE KeepRecovery(p)
  BY <1>8, SMTT(30) DEF KeepRecovery
<1>9. CASE KeepRemoveJournal(p)
  BY <1>9, SMTT(30) DEF KeepRemoveJournal
<1>10. CASE KeepCommit(p)
  BY <1>10, SMTT(30) DEF KeepCommit
<1> QED
  BY <1>1, <1>2, <1>3, <1>4, <1>5, <1>6, <1>7, <1>8, <1>9, <1>10
     DEF KeepStep

\* or an open, a timeout, a crash or a failure.
LEMMA OtherUnwritten ==
  ASSUME NEW p \in Process, WriterInvariant, Saved,
         \/ \E k \in Commands : Open(p, k)
         \/ BusyTimeout(p) \/ Crash(p) \/ IoFailure(p)
  PROVE  Unwritten'
<1> USE DEF WriterInvariant, TypeOK, KnownRuns, WriterExclusive, ArticleOK,
      JournalOK, DbOK, LocalsOK, HistoryOK, Saved, Unwritten
<1> USE DEF Operation, Owned, Waiting, Locked, Working, Recovering, Applying,
      Finishing, Keeping
<1> USE DEF At, Goto, Move, Look, Store, Leave, Unlock, Throw, Fail, Conflict,
      Begin, Opened, TakeJournal, RemoveJournal, WritePending, PublishJournal,
      PreserveDisplaced, ArchiveBytes, Swap
<1> USE DEF articleVars, journalVars, archiveVars, projectVars, dbVars,
      localVars, outVars, historyVars, vars
<1> USE DEF Journals, Committed, After, Before, Temp, Recov, Displaced
<1> USE DistinctNames, DistinctBytes
<1>1. ASSUME NEW k \in Commands, Open(p, k)
      PROVE  Unwritten'
  BY <1>1, SMTT(30) DEF Open
<1>2. CASE BusyTimeout(p)
  BY <1>2, SMTT(30) DEF BusyTimeout
<1>3. CASE Crash(p)
  BY <1>3, SMTT(30) DEF Crash, Fault, TornWrite, TornArchive, TornFile
<1>4. CASE IoFailure(p)
  BY <1>4, SMTT(30) DEF IoFailure, Fault, TornWrite, TornArchive, TornFile
<1> QED
  BY <1>1, <1>2, <1>3, <1>4

----------------------------------------------------------------------------
\* ... and about the bytes an editor is owed.
Kept(p) == (\A x \in owed : Safe(x)) /\ Restoring(p)
\* What is kept outside a run's own temp and .recovery stays there while that
\* run is worked on, unless its committed backup goes.
LEMMA SpareStays ==
  ASSUME WriterInvariant, NEW r \in Run, op' = op, archive \subseteq archive',
         markers \subseteq markers',
         \A f \in Owned, s \in Run \ {r} : own'[f][s] = own[f][s],
         r \in markers => own'["backup"][r] = own["backup"][r], NEW x
  PROVE  Spare(x, r) => Spare(x, r)'
<1>1. markers \subseteq Run
  BY DEF WriterInvariant, TypeOK, DbOK
<1>2. Archived(x) => Archived(x)'
  BY <1>1, SMTT(30) DEF Archived, Owned
<1>3. \A s \in Run \ {r} : Holds(s, x) => Holds(s, x)'
  BY SMTT(30) DEF Holds, Temp, Recov, Before, Owned
<1> QED
  BY <1>2, <1>3 DEF Spare

\* Whatever recover_journal leaves in .recovery when it stages there, whole or
\* torn, the bytes it overwrites were not the only ones.
LEMMA RecoveryWritten ==
  ASSUME WriterInvariant, Files, Saved, NEW p \in Process, pc[p] =
         "recover_stage", NEW b, NEW r, r = run[p],
         own' = [own EXCEPT !["recov"][r] = b],
         archive \subseteq archive', UNCHANGED <<target, markers, op, owed>>
  PROVE  \A x \in owed : Safe(x)' /\ (Elsewhere(x, r) => Elsewhere(x, r)')
<1>1. r \in Run
  BY DEF WriterInvariant, KnownRuns, Working, Locked, Recovering
<1>2. Recov(r) \in {Missing, After(r), want[p]} /\ op[r] # NoOp
  BY DEF Saved, Restoring, WriterInvariant, KnownRuns, Working, Locked,
     Recovering
<1>3. After(r) \in Proposal
  BY <1>1, <1>2, SMTT(30) DEF WriterInvariant, TypeOK, JournalOK, Operation,
     After
<1>4. \A x \in owed : Recov(r) = x => x = want[p]
  BY <1>2, <1>3, DistinctBytes DEF WriterInvariant, TypeOK, HistoryOK
<1>5. \A x \in owed : x = want[p] => Elsewhere(x, r)
  BY DEF Saved, Restoring, Restores
<1>6. \A x \in owed : target = x \/ Elsewhere(x, r)
  BY <1>1, <1>4, <1>5 DEF Saved, Safe, Elsewhere, Spare, Holds
<1>7. /\ Temp(r)' = Temp(r) /\ own'["backup"][r] = own["backup"][r]
      /\ \A f \in Owned, s \in Run \ {r} : own'[f][s] = own[f][s]
  BY <1>1, SMTT(30) DEF WriterInvariant, TypeOK, ArticleOK, Owned, Temp
<1>8. \A x : Spare(x, r) => Spare(x, r)'
  BY <1>1, <1>7, SpareStays
<1>9. \A x : Elsewhere(x, r) => Elsewhere(x, r)'
  BY <1>7, <1>8 DEF Elsewhere
<1>10. \A x : Elsewhere(x, r)' => Safe(x)'
  BY <1>1 DEF Elsewhere, Safe, Spare, Holds
<1> QED
  BY <1>6, <1>9, <1>10 DEF Safe

\* preserve_displaced: once it is done, the temp and the .recovery of a
\* committed run may go.
LEMMA DisplacedArchived ==
  ASSUME WriterInvariant, Files, Saved, NEW p \in Process, NEW here \in
         {"recover_archive", "finish"}, NEW there \in {"clean_staged",
         "finish_temp"}, NEW r, r = run[p],
         PreserveDisplaced(p, here, there), Move(p, here, there)
  PROVE  \A x \in owed : WithoutFiles(x, r)'
<1>1. /\ r \in markers /\ r \in Run
      /\ Recov(r) = Missing /\ own["backup"][r] = Before(r)
  BY SMTT(30) DEF Move, At, Files, Marked, RunFiles, Finishing,
     WriterInvariant, TypeOK, DbOK
<1>2. After(r) \in Proposal
  BY <1>1, SMTT(30) DEF WriterInvariant, KnownRuns, TypeOK, JournalOK,
     Operation, After
<1>3. /\ UNCHANGED <<target, own, op, markers, run, owed>>
      /\ archive \subseteq archive'
      /\ Unexpected(r) => DisplacedName(r) \in archive'
  <2>1. ~Fail(p)
    BY SMTT(30) DEF Move, Fail, Throw, Leave, Goto, WriterInvariant, TypeOK,
       LocalsOK
  <2> QED
    BY <2>1, SMTT(30) DEF PreserveDisplaced, ArchiveBytes, Unexpected, Move,
       articleVars, journalVars,
       dbVars, localVars, historyVars, outVars
<1>4. \A x : Spare(x, r) => Spare(x, r)'
  BY <1>1, <1>3, SpareStays
<1>5. ASSUME NEW x \in owed, Temp(r) = x
      PROVE  Archived(x)'
  <2>1. CASE Unexpected(r)
    <3>1. DisplacedName(r)[3] = x
      BY <1>5 DEF DisplacedName
    <3> QED
      BY <1>3, <2>1, <3>1 DEF Archived
  <2>2. CASE x = Before(r)
    BY <1>1, <1>3, <2>2 DEF Archived
  <2>3. x # Missing /\ x # After(r)
    BY <1>2, <1>5, DistinctBytes DEF WriterInvariant, TypeOK, HistoryOK
  <2> QED
    BY <1>5, <2>1, <2>2, <2>3 DEF Unexpected
<1>6. \A x \in owed : target = x \/ Spare(x, r) \/ Temp(r) = x
  BY <1>1, DistinctBytes DEF Saved, Safe, Spare, Holds, WriterInvariant,
     TypeOK, HistoryOK
<1>7. \A x : Archived(x)' => Spare(x, r)'
  BY DEF Spare
<1> QED
  BY <1>3, <1>4, <1>5, <1>6, <1>7 DEF WithoutFiles

\* ... as recovery calls it for a committed journal.
LEMMA ArchiveKept ==
  ASSUME WriterInvariant, Files, Saved, NEW p \in Process, RecoverArchive(p),
         Move(p, "recover_archive", "clean_staged")
  PROVE  \A x \in owed : WithoutFiles(x, run[p])'
<1>1. run[p] \in Run /\ run'[p] = run[p]
  BY DEF Move, At, localVars, WriterInvariant, KnownRuns, Working, Locked,
     Recovering
<1>2. PICK r \in Run : r = run[p]
  BY <1>1
<1>3. PreserveDisplaced(p, "recover_archive", "clean_staged")
  BY DEF RecoverArchive
<1>4. \A x \in owed : WithoutFiles(x, r)'
  BY <1>2, <1>3, DisplacedArchived
<1> QED
  BY <1>1, <1>2, <1>4

\* An interrupted write destroys nothing that an editor is owed.
LEMMA TornSafe ==
  ASSUME WriterInvariant, Files, Saved, NEW p \in Process, pc[p] # "idle",
         Fault(p), NEW r, r = run[p]
  PROVE  \A x \in owed' : Safe(x)'
<1>1. /\ UNCHANGED <<target, moved, journal, op, manifests, markers, archive, owed>>
  BY SMTT(30) DEF Fault, TornWrite, TornArchive, articleVars, journalVars,
     dbVars
<1>2. CASE own' = own
  BY <1>1, <1>2 DEF Saved, Safe, Archived, Holds, Temp, Recov, Before
<1>3. CASE own' # own
  <2>1. /\ pc[p] \in DOMAIN TornFile
        /\ \E left \in {Torn, Missing} :
             own' = [own EXCEPT ![TornFile[pc[p]]][r] = left]
    BY <1>3 DEF Fault, TornWrite, TornArchive, articleVars
  <2>2. PICK left \in {Torn, Missing}, f \in Owned :
          own' = [own EXCEPT ![f][r] = left] /\ f = TornFile[pc[p]]
    <3>1. TornFile[pc[p]] \in Owned
      BY <2>1, SMTT(30) DEF TornFile, Owned
    <3> QED
      BY <2>1, <3>1
  <2>3. /\ f = "recov" => pc[p] = "recover_stage"
        /\ f = "temp" => pc[p] = "stage"
        /\ f = "backup" => pc[p] = "backup"
        /\ f = "staged" => pc[p] = "copy"
    BY <2>1, <2>2, SMTT(30) DEF TornFile
  <2>4. CASE f = "recov"
    BY <1>1, <2>2, <2>3, <2>4, RecoveryWritten
  <2>5. CASE f # "recov"
    <3>1. /\ pc[p] \in {"backup", "copy", "stage"}
          /\ f \in {"temp", "backup", "staged"}
      BY <2>3, <2>5 DEF Owned
    <3>2. /\ r \in Run /\ r \notin markers
          /\ f = "temp" => Temp(r) \notin owed
      BY <2>3, <3>1, SMTT(30) DEF WriterInvariant, KnownRuns, Reviewed,
         Working, Publishing, Locked, Applying, Files, Replacing, RunFiles,
         Ahead, TypeOK, HistoryOK
    <3>3. /\ \A g \in Owned, s \in Run : s # r => own'[g][s] = own[g][s]
          /\ \A g \in Owned \ {f} : own'[g][r] = own[g][r]
      BY <2>2, <3>2, SMTT(30) DEF WriterInvariant, TypeOK, ArticleOK, Owned
    <3>4. \A x : Archived(x) => Archived(x)'
      BY <1>1, <3>2, <3>3 DEF Archived, Owned, WriterInvariant, TypeOK, DbOK
    <3>5. \A x \in owed, s \in Run : Holds(s, x) => Holds(s, x)'
      BY <1>1, <3>1, <3>2, <3>3 DEF Holds, Temp, Recov, Before, Owned
    <3> QED
      BY <1>1, <3>4, <3>5 DEF Saved, Safe
  <2> QED
    BY <2>4, <2>5
<1> QED
  BY <1>2, <1>3

\* Staging the bytes to restore loses nothing and prepares the exchange.
LEMMA StageKept ==
  ASSUME WriterInvariant, Files, Saved, NEW p \in Process, RecoverStage(p)
  PROVE  Kept(p)'
<1>1. /\ own' = [own EXCEPT !["recov"][run[p]] = want[p]] /\ run[p] \in Run
      /\ UNCHANGED <<target, moved, archive, markers, op, owed, run, want>>
      /\ pc[p] = "recover_stage" /\ pc'[p] = "recover_exchange"
  BY SMTT(30) DEF RecoverStage, Store, Move, At, Goto, archiveVars, dbVars,
     localVars, historyVars, outVars, journalVars,
     WriterInvariant, TypeOK, LocalsOK, KnownRuns, Working, Locked, Recovering
<1>2. PICK r \in Run : r = run[p]
  BY <1>1
<1>3. \A x \in owed : Safe(x)' /\ (Elsewhere(x, r) => Elsewhere(x, r)')
  BY <1>1, <1>2, RecoveryWritten
<1>4. Temp(r)' = Temp(r) /\ Recov(r)' = want[p] /\ Before(r)' = Before(r)
  BY <1>1, <1>2, SMTT(30) DEF Temp, Recov, Before, WriterInvariant, TypeOK,
     ArticleOK, Owned
<1>5. \A x \in owed :
        (x = want[p] \/ (x = target /\ x = Before(r))) => Elsewhere(x, r)
  BY <1>1, <1>2 DEF Saved, Restoring, Restores
<1>6. Temp(r) \in owed => Temp(r) = want[p]
  BY <1>1, <1>2 DEF Saved, Restoring, Restores
<1>7. run'[p] = r /\ want'[p] = want[p] /\ owed' = owed /\ target' = target
  BY <1>1, <1>2
<1>8. \A x \in owed : Safe(x)'
  BY <1>3
<1>9. Restoring(p)'
  <2>1. \A x \in owed' :
          (x = want'[p] \/ (x = target' /\ x = Before(r)')) => Elsewhere(x, r)'
    BY <1>3, <1>4, <1>5, <1>7
  <2>2. Temp(r)' \in owed' => Temp(r)' = want'[p]
    BY <1>4, <1>6, <1>7
  <2>3. Recov(r)' = want'[p]
    BY <1>4, <1>7
  <2> QED
    BY <1>1, <1>7, <2>1, <2>2, <2>3 DEF Restoring, Restores, Cleans
<1> QED
  BY <1>7, <1>8, <1>9 DEF Kept

\* keep archives .recovery in the step that removes it.
LEMMA RecoveryArchived ==
  ASSUME WriterInvariant, Files, Saved, NEW p \in Process, KeepRecovery(p),
         Move(p, "keep_recovery", "keep_journal"), ~Fail(p)
  PROVE  \A x \in owed' : Safe(x)'
<1>1. /\ archive' = IF Recov(run[p]) = Missing THEN archive
                    ELSE archive \cup {<<run[p], "recovery", Recov(run[p])>>}
      /\ own' = [own EXCEPT !["recov"][run[p]] = Missing]
      /\ UNCHANGED <<target, op, markers, owed>>
      /\ run[p] \in Run
  BY SMTT(30) DEF KeepRecovery, Move, At, dbVars, historyVars, outVars,
     journalVars, WriterInvariant, KnownRuns, Working, Locked, Keeping
<1>2. PICK r \in Run : r = run[p]
  BY <1>1
<1>3. /\ \A g \in Owned, s \in Run : s # r => own'[g][s] = own[g][s]
      /\ \A g \in Owned \ {"recov"} : own'[g][r] = own[g][r]
  BY <1>1, <1>2, SMTT(30) DEF WriterInvariant, TypeOK, ArticleOK, Owned
<1>4. \A x : Archived(x) => Archived(x)'
  BY <1>1, <1>3 DEF Archived, Owned, WriterInvariant, TypeOK, DbOK
<1>5. \A x \in owed : Recov(r) = x => Archived(x)'
  <2> SUFFICES ASSUME NEW x \in owed, Recov(r) = x
               PROVE  <<r, "recovery", x>> \in archive'
    BY DEF Archived
  <2> QED
    BY <1>1, <1>2, DistinctBytes DEF WriterInvariant, TypeOK, HistoryOK
<1>6. \A x \in owed, s \in Run :
        Holds(s, x) => Holds(s, x)' \/ (s = r /\ Recov(r) = x)
  BY <1>1, <1>3 DEF Holds, Temp, Recov, Before, Owned
<1> QED
  BY <1>1, <1>4, <1>5, <1>6 DEF Saved, Safe

----------------------------------------------------------------------------
\* Every step of recovery keeps what is owed in some file: recover_journal
\* exchanges before it removes and puts back what an editor raced in ...
LEMMA RecoverKept ==
  ASSUME NEW p \in Process, WriterInvariant, Files, Files', Saved,
         RecoverStep(p)
  PROVE  Kept(p)'
<1> USE DEF WriterInvariant, TypeOK, KnownRuns, WriterExclusive, ArticleOK,
      JournalOK, DbOK, LocalsOK, HistoryOK, Saved, Unwritten, Kept, Restoring,
      Safe, Archived, Holds, Spare, Elsewhere, WithoutTemp, WithoutFiles
<1> USE DEF Files, RunFiles, Journaled, Replacing, Marked, Removed
<1> USE DEF Operation, Owned, Waiting, Locked, Working, Recovering, Applying,
      Finishing, Keeping, Publishing, Restores, Cleans, Keeps, Exchanging,
      Ahead
<1> USE DEF At, Goto, Move, Look, Store, Leave, Unlock, Throw, Fail, Conflict,
      Begin, Opened, TakeJournal, RemoveJournal, WritePending, PublishJournal,
      PreserveDisplaced, ArchiveBytes, Swap
<1> USE DEF articleVars, journalVars, archiveVars, projectVars, dbVars,
      localVars, outVars, historyVars, vars
<1> USE DEF Journals, Committed, After, Before, Temp, Recov, Displaced,
      Interrupted, KnownRecovery, Unexpected, DisplacedName, KeptName
<1> USE DistinctNames, DistinctBytes
<1>1. CASE RecoverBegin(p)
  BY <1>1, SMTT(30) DEF RecoverBegin
<1>2. ASSUME NEW r \in Run, RecoverGone(p, r)
      PROVE  Kept(p)'
  BY <1>2, SMTT(30) DEF RecoverGone
<1>3. ASSUME NEW r \in Run, RecoverCommitted(p, r)
      PROVE  Kept(p)'
  BY <1>3, SMTT(30) DEF RecoverCommitted
<1>4. ASSUME NEW r \in Run, RecoverPrepared(p, r)
      PROVE  Kept(p)'
  BY <1>4, SMTT(30) DEF RecoverPrepared
<1>5. ASSUME NEW r \in Run, RecoverReplaced(p, r)
      PROVE  Kept(p)'
  BY <1>5, SMTT(90) DEF RecoverReplaced
<1>6. ASSUME NEW r \in Run, RecoverRecognized(p, r)
      PROVE  Kept(p)'
  BY <1>6, SMTT(60) DEF RecoverRecognized
<1>7. ASSUME NEW r \in Run, RecoverConflict(p, r)
      PROVE  Kept(p)'
  BY <1>7, SMTT(60) DEF RecoverConflict
<1>8. CASE RecoverStage(p)
  BY <1>8, StageKept
<1>9. CASE RecoverExchange(p)
  BY <1>9, SMTT(30) DEF RecoverExchange
<1>10. CASE RecoverVerified(p)
  BY <1>10, SMTT(30) DEF RecoverVerified
<1>11. CASE RecoverRaced(p)
  BY <1>11, SMTT(90) DEF RecoverRaced
<1>12. CASE RecoverUndo(p)
  BY <1>12, SMTT(30) DEF RecoverUndo
<1>13. CASE RecoverBlocked(p)
  BY <1>13, SMTT(30) DEF RecoverBlocked
<1>14. CASE RecoverUnstage(p)
  BY <1>14, SMTT(30) DEF RecoverUnstage
<1>15. CASE RecoverArchive(p)
  <2>1. CASE Fail(p) /\ At(p, "recover_archive")
    BY <2>1, SMTT(30)
  <2>2. CASE Move(p, "recover_archive", "clean_staged")
    <3>1. \A x \in owed : WithoutFiles(x, run[p])'
      <4> HIDE DEF WriterInvariant, Files, Saved, Move, WithoutFiles
      <4> QED
        BY <1>15, <2>2, ArchiveKept
    <3>2. \A x \in owed : Safe(x)'
      BY <3>1, SMTT(30)
    <3> QED
      BY <2>2, <3>1, <3>2, SMTT(30)
  <2> QED
    BY <1>15, <2>1, <2>2 DEF RecoverArchive
<1>16. CASE CleanStaged(p)
  BY <1>16, SMTT(60) DEF CleanStaged
<1>17. CASE CleanCopy(p)
  <2>1. CASE Conflict(p, run[p]) /\ At(p, "clean_copy")
    BY <2>1, SMTT(30)
  <2>2. CASE Move(p, "clean_copy", "clean_backup")
             /\ UNCHANGED <<target, own, moved, journalVars, archiveVars>>
    BY <2>2, SMTT(30)
  <2> QED
    BY <1>17, <2>1, <2>2 DEF CleanCopy
<1>18. CASE CleanBackup(p)
  <2>1. CASE Look(p, "clean_backup", "clean_temp")
    BY <2>1, SMTT(30)
  <2>2. CASE /\ Store(p, "clean_backup", "backup", Missing, "clean_temp")
             /\ ~Committed(run[p])
    <3>1. \A x : Spare(x, run[p]) => Spare(x, run[p])'
      BY <2>2, SMTT(30)
    <3>2. /\ owed' = owed /\ target' = target /\ run' = run
          /\ run[p] \in Run /\ pc'[p] = "clean_temp"
      BY <2>2, SMTT(30)
    <3>3. \A x \in owed : target = x \/ Spare(x, run[p])
      BY <2>2, SMTT(30)
    <3> HIDE DEF Spare
    <3>4. \A x \in owed' : WithoutFiles(x, run[p])'
      BY <3>1, <3>2, <3>3
    <3>5. \A x \in owed' : Safe(x)'
      BY <3>2, <3>4 DEF Spare
    <3> QED
      BY <3>2, <3>4, <3>5
  <2> QED
    BY <1>18, <2>1, <2>2 DEF CleanBackup
<1>19. CASE CleanTemp(p)
  <2>1. \A x : Spare(x, run[p]) => Spare(x, run[p])'
    BY <1>19, SMTT(30) DEF CleanTemp
  <2>2. /\ owed' = owed /\ target' = target /\ run' = run
        /\ run[p] \in Run /\ pc'[p] = "clean_recovery"
    BY <1>19, SMTT(30) DEF CleanTemp
  <2>3. \A x \in owed : target = x \/ Spare(x, run[p])
    BY <1>19, SMTT(30) DEF CleanTemp
  <2> HIDE DEF Spare
  <2>4. \A x \in owed' : WithoutFiles(x, run[p])'
    BY <2>1, <2>2, <2>3
  <2>5. \A x \in owed' : Safe(x)'
    BY <2>2, <2>4 DEF Spare
  <2> QED
    BY <2>2, <2>4, <2>5
<1>20. CASE CleanRecovery(p)
  BY <1>20, SMTT(30) DEF CleanRecovery
<1>21. CASE CleanJournal(p)
  BY <1>21, SMTT(30) DEF CleanJournal
<1>22. CASE CleanPending(p)
  BY <1>22, SMTT(30) DEF CleanPending
<1>23. CASE RecoverCommit(p)
  BY <1>23, SMTT(30) DEF RecoverCommit
<1>24. CASE Purge(p)
  BY <1>24, SMTT(30) DEF Purge
<1> QED
  BY <1>1, <1>2, <1>3, <1>4, <1>5, <1>6, <1>7, <1>8, <1>9, <1>10, <1>11,
     <1>12, <1>13, <1>14, <1>15, <1>16, <1>17, <1>18, <1>19, <1>20,
     <1>21, <1>22, <1>23, <1>24
     DEF RecoverStep

\* ... so does every step of apply, whose exchange displaces an editor's bytes
\* into the temp and never drops them ...
LEMMA ApplyKept ==
  ASSUME NEW p \in Process, WriterInvariant, Files, Files', Saved, ApplyStep(p)
  PROVE  Kept(p)'
<1> USE DEF WriterInvariant, TypeOK, KnownRuns, WriterExclusive, ArticleOK,
      JournalOK, DbOK, LocalsOK, HistoryOK, Saved, Unwritten, Kept, Restoring,
      Safe, Archived, Holds, Spare, Elsewhere, WithoutTemp, WithoutFiles
<1> USE DEF Files, RunFiles, Journaled, Replacing, Marked, Removed
<1> USE DEF Operation, Owned, Waiting, Locked, Working, Recovering, Applying,
      Finishing, Keeping, Publishing, Restores, Cleans, Keeps, Exchanging,
      Ahead
<1> USE DEF At, Goto, Move, Look, Store, Leave, Unlock, Throw, Fail, Conflict,
      Begin, Opened, TakeJournal, RemoveJournal, WritePending, PublishJournal,
      PreserveDisplaced, ArchiveBytes, Swap
<1> USE DEF articleVars, journalVars, archiveVars, projectVars, dbVars,
      localVars, outVars, historyVars, vars
<1> USE DEF Journals, Committed, After, Before, Temp, Recov, Displaced,
      Interrupted, KnownRecovery, Unexpected, DisplacedName, KeptName
<1> USE DistinctNames, DistinctBytes
<1>1. CASE ApplyBegin(p)
  BY <1>1, SMTT(30) DEF ApplyBegin
<1>2. ASSUME NEW q \in Proposal, Refuse(p, q)
      PROVE  Kept(p)'
  BY <1>2, SMTT(30) DEF Refuse
<1>3. ASSUME NEW q \in Proposal, NEW r \in Run, Validate(p, q, r)
      PROVE  Kept(p)'
  BY <1>3, SMTT(30) DEF Validate
<1>4. CASE PrepareJournal(p)
  BY <1>4, SMTT(30) DEF PrepareJournal
<1>5. CASE PrepareBackup(p)
  BY <1>5, SMTT(30) DEF PrepareBackup
<1>6. CASE PrepareCopy(p)
  BY <1>6, SMTT(30) DEF PrepareCopy
<1>7. CASE PublishCopy(p)
  BY <1>7, SMTT(30) DEF PublishCopy
<1>8. CASE StageArticle(p)
  BY <1>8, SMTT(30) DEF StageArticle
<1>9. CASE Recheck(p)
  BY <1>9, SMTT(30) DEF Recheck
<1>10. CASE MarkReplacing(p)
  BY <1>10, SMTT(30) DEF MarkReplacing
<1>11. CASE ReplaceArticle(p)
  BY <1>11, SMTT(30) DEF ReplaceArticle
<1>12. CASE VerifyReplaced(p)
  BY <1>12, SMTT(30) DEF VerifyReplaced
<1>13. CASE MarkReplaced(p)
  BY <1>13, SMTT(30) DEF MarkReplaced
<1>14. CASE FinalCheck(p)
  BY <1>14, SMTT(30) DEF FinalCheck
<1>15. CASE ApplyBlocked(p)
  BY <1>15, SMTT(30) DEF ApplyBlocked
<1>16. CASE Commit(p)
  BY <1>16, SMTT(30) DEF Commit
<1>17. CASE CleanupBegin(p)
  BY <1>17, SMTT(30) DEF CleanupBegin
<1>18. CASE FinishArchive(p)
  BY <1>18, SMTT(120) DEF FinishArchive
<1>19. CASE FinishTemp(p)
  BY <1>19, SMTT(30) DEF FinishTemp
<1>20. CASE FinishJournal(p)
  BY <1>20, SMTT(30) DEF FinishJournal
<1>21. CASE FinishCommit(p)
  BY <1>21, SMTT(30) DEF FinishCommit
<1> QED
  BY <1>1, <1>2, <1>3, <1>4, <1>5, <1>6, <1>7, <1>8, <1>9, <1>10, <1>11,
     <1>12, <1>13, <1>14, <1>15, <1>16, <1>17, <1>18, <1>19, <1>20,
     <1>21
     DEF ApplyStep

\* ... and of keep, which archives before it removes.
LEMMA KeepKept ==
  ASSUME NEW p \in Process, WriterInvariant, Files, Files', Saved, KeepStep(p)
  PROVE  Kept(p)'
<1> USE DEF WriterInvariant, TypeOK, KnownRuns, WriterExclusive, ArticleOK,
      JournalOK, DbOK, LocalsOK, HistoryOK, Saved, Unwritten, Kept, Restoring,
      Safe, Archived, Holds, Spare, Elsewhere, WithoutTemp, WithoutFiles
<1> USE DEF Files, RunFiles, Journaled, Replacing, Marked, Removed
<1> USE DEF Operation, Owned, Waiting, Locked, Working, Recovering, Applying,
      Finishing, Keeping, Publishing, Restores, Cleans, Keeps, Exchanging,
      Ahead
<1> USE DEF At, Goto, Move, Look, Store, Leave, Unlock, Throw, Fail, Conflict,
      Begin, Opened, TakeJournal, RemoveJournal, WritePending, PublishJournal,
      PreserveDisplaced, ArchiveBytes, Swap
<1> USE DEF articleVars, journalVars, archiveVars, projectVars, dbVars,
      localVars, outVars, historyVars, vars
<1> USE DEF Journals, Committed, After, Before, Temp, Recov, Displaced,
      Interrupted, KnownRecovery, Unexpected, DisplacedName, KeptName
<1> USE DistinctNames, DistinctBytes
<1>1. CASE KeepBegin(p)
  BY <1>1, SMTT(30) DEF KeepBegin
<1>2. ASSUME NEW r \in Run, KeepJournal(p, r)
      PROVE  Kept(p)'
  BY <1>2, SMTT(30) DEF KeepJournal
<1>3. CASE KeepTarget(p)
  BY <1>3, SMTT(90) DEF KeepTarget
<1>4. CASE KeepDisplaced(p)
  BY <1>4, SMTT(60) DEF KeepDisplaced
<1>5. CASE KeepManifest(p)
  BY <1>5, SMTT(30) DEF KeepManifest
<1>6. CASE KeepTemp(p)
  BY <1>6, SMTT(30) DEF KeepTemp
<1>7. CASE KeepSource(p)
  BY <1>7, SMTT(30) DEF KeepSource
<1>8. CASE KeepRecovery(p)
  <2>1. CASE Fail(p) /\ At(p, "keep_recovery")
    BY <2>1, SMTT(30)
  <2>2. CASE Move(p, "keep_recovery", "keep_journal") /\ ~Fail(p)
    <3>5. \A x \in owed' : Safe(x)'
      BY <1>8, <2>2, RecoveryArchived
    <3> QED
      BY <2>2, <3>5, SMTT(30)
  <2> QED
    BY <1>8, <2>1, <2>2 DEF KeepRecovery
<1>9. CASE KeepRemoveJournal(p)
  BY <1>9, SMTT(30) DEF KeepRemoveJournal
<1>10. CASE KeepCommit(p)
  BY <1>10, SMTT(30) DEF KeepCommit
<1> QED
  BY <1>1, <1>2, <1>3, <1>4, <1>5, <1>6, <1>7, <1>8, <1>9, <1>10
     DEF KeepStep

\* Opens, timeouts, crashes and failures keep it too.
LEMMA OtherKept ==
  ASSUME NEW p \in Process, WriterInvariant, Files, Files', Saved,
         \/ \E k \in Commands : Open(p, k)
         \/ BusyTimeout(p) \/ Crash(p) \/ IoFailure(p)
  PROVE  Kept(p)'
<1> USE DEF WriterInvariant, TypeOK, KnownRuns, WriterExclusive, ArticleOK,
      JournalOK, DbOK, LocalsOK, HistoryOK, Saved, Unwritten, Kept, Restoring,
      Safe, Archived, Holds, Spare, Elsewhere, WithoutTemp, WithoutFiles
<1> USE DEF Files, RunFiles, Journaled, Replacing, Marked, Removed
<1> USE DEF Operation, Owned, Waiting, Locked, Working, Recovering, Applying,
      Finishing, Keeping, Publishing, Restores, Cleans, Keeps, Exchanging,
      Ahead
<1> USE DEF At, Goto, Move, Look, Store, Leave, Unlock, Throw, Fail, Conflict,
      Begin, Opened, TakeJournal, RemoveJournal, WritePending, PublishJournal,
      PreserveDisplaced, ArchiveBytes, Swap
<1> USE DEF articleVars, journalVars, archiveVars, projectVars, dbVars,
      localVars, outVars, historyVars, vars
<1> USE DEF Journals, Committed, After, Before, Temp, Recov, Displaced,
      Interrupted, KnownRecovery, Unexpected, DisplacedName, KeptName
<1> USE DistinctNames, DistinctBytes
<1>1. ASSUME NEW k \in Commands, Open(p, k)
      PROVE  Kept(p)'
  BY <1>1, SMTT(30) DEF Open
<1>2. CASE BusyTimeout(p)
  BY <1>2, SMTT(30) DEF BusyTimeout
<1>3. CASE Crash(p)
  <2>1. \A x \in owed' : Safe(x)'
    BY <1>3, TornSafe, SMTT(30) DEF Crash
  <2> QED
    BY <1>3, <2>1, SMTT(30) DEF Crash
<1>4. CASE IoFailure(p)
  <2>1. \A x \in owed' : Safe(x)'
    BY <1>4, TornSafe, SMTT(60) DEF IoFailure
  <2> QED
    BY <1>4, <2>1, SMTT(30) DEF IoFailure
<1> QED
  BY <1>1, <1>2, <1>3, <1>4

\* What a process relies on survives the steps of the others.
LEMMA AloneSaved ==
  ASSUME NEW p \in Process, WriterInvariant, Saved, Alone(p), Unwritten',
         Kept(p)'
  PROVE  Saved'
<1> SUFFICES ASSUME NEW q \in Process, q # p
             PROVE  Restoring(q)'
  BY DEF Saved, Kept
<1>1. UNCHANGED <<pc[q], run[q], want[q], owed>>
  BY DEF Alone
<1>2. CASE pc[q] \in Locked
  <2>1. UNCHANGED <<target, own, archive, markers, op>>
    BY <1>2 DEF Alone, fileVars
  <2>2. Restoring(q)
    BY DEF Saved
  <2> QED
    BY <1>1, <2>1, <2>2 DEF Restoring, Elsewhere, WithoutTemp, WithoutFiles,
       Spare, Archived, Holds, Temp, Recov, Before, After
<1>3. CASE pc[q] \notin Locked
  BY <1>1, <1>3, SMTT(30) DEF Restoring, Locked, Recovering, Finishing,
     Keeping, Restores, Cleans
<1> QED
  BY <1>2, <1>3

\* What an editor writes is owed from then on, and what it replaces is not.
LEMMA EditorSaved ==
  ASSUME WriterInvariant, Files, Saved, Editor
  PROVE  Saved'
<1> USE DEF WriterInvariant, TypeOK, ArticleOK, JournalOK, HistoryOK, LocalsOK,
      DbOK, Owned
<1> PICK v \in Save :
       \/ EditorSave(v) \/ EditorDelete(v) \/ EditorReplaceCopy(v)
       \/ \E r \in Run : EditorWriteDisplaced(v, r)
  BY DEF Editor
<1>1. /\ v \in unsaved /\ unsaved' = unsaved \ {v}
      /\ UNCHANGED <<journal, op, archive, markers, pc, run, want>>
  BY SMTT(30) DEF EditorSave, EditorDelete, EditorReplaceCopy,
     EditorWriteDisplaced, Edit, journalVars, archiveVars, dbVars, localVars
<1>2. /\ v \notin owed /\ v # target /\ v # Missing
      /\ \A r \in Run : v # Temp(r) /\ v # Recov(r)
      /\ \A p \in Process : v # want[p]
      /\ \A r \in Run : op[r] # NoOp => v # Before(r)
  BY <1>1, DistinctBytes DEF Saved, Unwritten
<1>3. CASE EditorReplaceCopy(v)
  <2>1. UNCHANGED <<target, own, owed>>
    BY <1>3 DEF EditorReplaceCopy
  <2>2. Unwritten'
    BY <1>1, <2>1 DEF Saved, Unwritten, Temp, Recov, Before
  <2>3. \A x \in owed' : Safe(x)'
    BY <1>1, <2>1 DEF Saved, Safe, Archived, Holds, Temp, Recov, Before
  <2>4. \A p \in Process : Restoring(p)'
    BY <1>1, <2>1 DEF Saved, Restoring, Elsewhere, WithoutTemp, WithoutFiles,
       Spare, Archived, Holds, Temp, Recov, Before, After
  <2> QED
    BY <2>2, <2>3, <2>4 DEF Saved
<1>4. CASE EditorSave(v) \/ EditorDelete(v)
  <2>1. own' = own
    BY <1>4 DEF EditorSave, EditorDelete
  <2>2. \/ target' = v /\ owed' = (owed \ {target}) \cup {v}
        \/ target' = Missing /\ owed' = owed \ {target}
    BY <1>4 DEF EditorSave, EditorDelete
  <2>3. Unwritten'
    BY <1>1, <1>2, <2>1, <2>2, DistinctBytes DEF Saved, Unwritten, Temp, Recov,
       Before
  <2>4. \A x : /\ Archived(x)' <=> Archived(x)
               /\ \A s \in Run : Holds(s, x)' <=> Holds(s, x)
    BY <1>1, <2>1 DEF Archived, Holds, Temp, Recov, Before
  <2>5. \A x, r : Spare(x, r)' <=> Spare(x, r)
    BY <2>4 DEF Spare
  <2>6. \A x \in owed' : \/ x = v /\ target' = v
                         \/ x \in owed /\ x # target /\ x # target'
    BY <1>2, <2>2, DistinctBytes
  <2>7. \A x \in owed' : Safe(x)'
    BY <2>4, <2>6 DEF Saved, Safe
  <2>8. \A p \in Process : Restoring(p)'
    <3> SUFFICES ASSUME NEW p \in Process PROVE Restoring(p)'
      OBVIOUS
    <3>1. UNCHANGED <<pc[p], run[p], want[p], Temp(run[p]), Recov(run[p]),
                      Before(run[p]), After(run[p])>>
      BY <1>1, <2>1 DEF Temp, Recov, Before, After
    <3>2. pc[p] \in Restores => run[p] \in Run /\ op[run[p]] # NoOp
      BY DEF Restores, KnownRuns, Working, Locked, Recovering
    <3>3. pc[p] \in Restores \ {"recover_unstage"} =>
            \A x \in owed' :
              (x = want[p] \/ (x = target' /\ x = Before(run[p])))
                => Elsewhere(x, run[p])'
      BY <1>2, <2>5, <2>6, <3>1, <3>2 DEF Saved, Restoring, Elsewhere
    <3>4. pc[p] \in {"recover_stage", "recover_exchange"} =>
            (Temp(run[p]) \in owed' => Temp(run[p]) = want[p])
      BY <1>2, <2>6, <3>2 DEF Saved, Restoring, Restores
    <3>5. \A x \in owed' :
            /\ WithoutTemp(x, run[p]) => WithoutTemp(x, run[p])'
            /\ WithoutFiles(x, run[p]) => WithoutFiles(x, run[p])'
      BY <2>5, <2>6, <3>1 DEF WithoutTemp, WithoutFiles
    <3>6. \A x \in owed' :
            x = v => WithoutTemp(x, run[p])' /\ WithoutFiles(x, run[p])'
      BY <1>2, <2>6 DEF WithoutTemp, WithoutFiles
    <3>7. Restoring(p)
      BY DEF Saved
    <3> QED
      BY <1>2, <2>6, <3>1, <3>3, <3>4, <3>5, <3>6, <3>7 DEF Restoring
  <2> QED
    BY <2>3, <2>7, <2>8 DEF Saved
<1>5. ASSUME NEW r \in Run, EditorWriteDisplaced(v, r)
      PROVE  Saved'
  <2>1. /\ own' = [own EXCEPT !["temp"][r] = v]
        /\ target' = target /\ Temp(r) # Missing
        /\ owed' = (owed \ {Temp(r)}) \cup (IF Observable(r) THEN {v} ELSE {})
    BY <1>5 DEF EditorWriteDisplaced
  <2>2. /\ Temp(r)' = v /\ \A s \in Run \ {r} : Temp(s)' = Temp(s)
        /\ \A s \in Run : /\ Recov(s)' = Recov(s)
                          /\ own'["backup"][s] = own["backup"][s]
        /\ \A s : Before(s)' = Before(s) /\ After(s)' = After(s)
    BY <1>1, <2>1, SMTT(30) DEF Temp, Recov, Before, After
  <2>3. Unwritten'
    BY <1>1, <1>2, <2>1, <2>2 DEF Saved, Unwritten
  <2>4. \A x \in owed' : \/ x = v /\ Observable(r)
                         \/ x \in owed /\ x # Temp(r) /\ x # v
    BY <1>2, <2>1
  <2>5. \A x : Archived(x) => Archived(x)'
    BY <1>1, <2>2 DEF Archived
  <2>6. \A x : \A s \in Run : Holds(s, x) => Holds(s, x)' \/ x = Temp(r)
    BY <2>2 DEF Holds
  <2>7. Holds(r, v)'
    BY <2>2 DEF Holds
  <2>8. \A x \in owed' : Safe(x)'
    BY <1>2, <2>1, <2>4, <2>5, <2>6, <2>7 DEF Saved, Safe
  <2>9. \A x \in owed' : \A s : Spare(x, s) => Spare(x, s)'
    BY <1>2, <2>4, <2>5, <2>6, <2>7 DEF Spare
  <2>10. \A p \in Process : Restoring(p)'
    <3> SUFFICES ASSUME NEW p \in Process PROVE Restoring(p)'
      OBVIOUS
    <3> DEFINE relies == Restores \cup (Cleans \ {"clean_journal"}) \cup
                         {"finish_temp", "keep_manifest", "keep_temp"}
    <3>1. UNCHANGED <<pc[p], run[p], want[p], target, Recov(run[p]),
                      Before(run[p]), After(run[p])>>
      BY <1>1, <2>1 DEF Recov, Before, After
    <3>2. pc[p] \in Working => run[p] \in Run
      BY DEF KnownRuns
    <3>3. relies \subseteq Working /\ relies \ {"clean_recovery"} \subseteq Blind
      BY SMTT(30) DEF Restores, Cleans, Working, Blind, Locked, Recovering,
         Finishing, Keeping
    <3>4. Restoring(p)
      BY DEF Saved
    <3>8. pc[p] \notin relies => Restoring(p)'
      BY <3>1, SMTT(30) DEF Restoring, Restores, Cleans
    <3>5. CASE run[p] = r
      <4>1. pc[p] # "clean_recovery"
        BY <2>1, <3>5 DEF Files, Removed
      <4>2. pc[p] \in Blind => v \notin owed'
        BY <1>2, <2>1, <3>5 DEF Observable
      <4>3. \A x \in owed' : x # v =>
              /\ Elsewhere(x, r) => Elsewhere(x, r)'
              /\ WithoutTemp(x, r) => WithoutTemp(x, r)'
              /\ WithoutFiles(x, r) => WithoutFiles(x, r)'
        BY <2>1, <2>2, <2>4, <2>9 DEF Elsewhere, WithoutTemp, WithoutFiles
      <4>4. CASE pc[p] \in Blind
        <5>1. v \notin owed' /\ \A x \in owed' : x \in owed /\ x # Temp(r)
          BY <2>4, <4>2, <4>4
        <5>2. Temp(r)' = v
          BY <2>2
        <5> QED
          BY <3>1, <3>4, <3>5, <4>3, <5>1, <5>2 DEF Restoring
      <4>5. CASE pc[p] \notin Blind
        BY <3>3, <3>8, <4>1, <4>5
      <4> QED
        BY <4>4, <4>5
    <3>6. CASE run[p] # r /\ run[p] \in Run
      <4>1. Temp(run[p])' = Temp(run[p])
        BY <2>2, <3>1, <3>6
      <4>2. Spare(v, run[p])'
        BY <2>7, <3>1, <3>6 DEF Spare
      <4>3. \A x \in owed' : x # v =>
              /\ Elsewhere(x, run[p]) => Elsewhere(x, run[p])'
              /\ WithoutTemp(x, run[p]) => WithoutTemp(x, run[p])'
              /\ WithoutFiles(x, run[p]) => WithoutFiles(x, run[p])'
        BY <2>1, <2>2, <2>4, <2>9, <3>1, <4>1 DEF Elsewhere, WithoutTemp,
           WithoutFiles
      <4>4. /\ Elsewhere(v, run[p])'
            /\ WithoutTemp(v, run[p])' /\ WithoutFiles(v, run[p])'
        BY <4>2 DEF Elsewhere, WithoutTemp, WithoutFiles
      <4> QED
        BY <1>2, <2>1, <2>4, <3>1, <3>4, <3>6, <4>1, <4>3, <4>4 DEF Restoring
    <3>7. CASE run[p] \notin Run
      BY <3>2, <3>3, <3>7, <3>8
    <3> QED
      BY <3>5, <3>6, <3>7
  <2> QED
    BY <2>3, <2>8, <2>10 DEF Saved
<1> QED
  BY <1>3, <1>4, <1>5

----------------------------------------------------------------------------
\* The whole inductive invariant.
Durable == WriterInvariant /\ Files /\ Saved

\* A fresh project has no files of any run and owes nothing to an editor.
LEMMA InitDurable == Init => Durable
<1> SUFFICES ASSUME Init PROVE Durable
  OBVIOUS
<1>1. WriterInvariant
  BY InitApplies
<1>2. Files
  BY DistinctBytes, SMTT(30) DEF Init, Files, NoOrphans, RunFiles, Journaled,
     Replacing, Marked, Removed, Listed, Cleaning, Publishing, Applying,
     Finishing, Keeping, Restores, Cleans, Keeps, Exchanging, Ahead, Temp,
     Recov, Owned
<1>3. Saved
  BY DistinctBytes, SMTT(30) DEF Init, Saved, Unwritten, Restoring, Restores,
     Cleans, Temp, Recov, Owned
<1> QED
  BY <1>1, <1>2, <1>3 DEF Durable

\* Every step preserves it: the steps of a process by what they do to its own
\* run and by their leaving the others alone; the editor by what it owes.
LEMMA StepDurable == Durable /\ [Next]_vars => Durable'
<1> SUFFICES ASSUME Durable, [Next]_vars PROVE Durable'
  OBVIOUS
<1>1. WriterInvariant /\ Files /\ Saved
  BY DEF Durable
<1>2. WriterInvariant'
  BY <1>1, StepApplies
<1>3. SUFFICES Files' /\ Saved'
  BY <1>2 DEF Durable
<1>4. ASSUME NEW p \in Process, Mine(p)', Alone(p)
      PROVE  Files'
  BY <1>1, <1>4, AloneFiles
<1>5. ASSUME NEW p \in Process, Alone(p), Unwritten', Kept(p)'
      PROVE  Saved'
  BY <1>1, <1>5, AloneSaved
<1>6. ASSUME NEW p \in Process, RecoverStep(p)
      PROVE  Files' /\ Saved'
  BY <1>1, <1>4, <1>5, <1>6, RecoverFiles, RecoverAlone, RecoverUnwritten,
     RecoverKept
<1>7. ASSUME NEW p \in Process, ApplyStep(p)
      PROVE  Files' /\ Saved'
  BY <1>1, <1>4, <1>5, <1>7, ApplyFiles, ApplyAlone, ApplyUnwritten, ApplyKept
<1>8. ASSUME NEW p \in Process, KeepStep(p)
      PROVE  Files' /\ Saved'
  BY <1>1, <1>4, <1>5, <1>8, KeepFiles, KeepAlone, KeepUnwritten, KeepKept
<1>9. ASSUME NEW p \in Process,
             \/ \E k \in Commands : Open(p, k)
             \/ BusyTimeout(p) \/ Crash(p) \/ IoFailure(p)
      PROVE  Files' /\ Saved'
  BY <1>1, <1>4, <1>5, <1>9, OtherFiles, OtherAlone, OtherUnwritten, OtherKept
<1>10. CASE Editor
  BY <1>1, <1>10, EditorFiles, EditorSaved
<1>11. CASE UNCHANGED vars \/ \E q \in Proposal : Approve(q)
  <2>1. UNCHANGED <<projectVars, markers, pc, localVars, historyVars>>
    BY <1>11 DEF vars, dbVars, Approve
  <2>2. Files'
    BY <1>1, <2>1 DEF projectVars, articleVars, journalVars, archiveVars,
       localVars, Files, NoOrphans, RunFiles, Journaled, Replacing, Marked,
       Removed, Listed, Temp, Recov, Before
  <2>3. Saved'
    BY <1>1, <2>1 DEF projectVars, articleVars, journalVars, archiveVars,
       localVars, historyVars, outVars, Saved, Unwritten, Safe, Restoring,
       Elsewhere, WithoutTemp, WithoutFiles, Spare, Archived, Holds, Temp,
       Recov, Before, After
  <2> QED
    BY <2>2, <2>3
<1> QED
  BY <1>6, <1>7, <1>8, <1>9, <1>10, <1>11 DEF Next, Step

\* The inductive invariant holds in every reachable state.
THEOREM DurableAlways == Spec => []Durable
  BY InitDurable, StepDurable, PTL DEF Spec

\* No bytes that an external editor saved and did not itself replace ever
\* disappear, wherever an apply, a recovery or a keep is interrupted
\* (FileOperation::replace, recover_journal, preserve_displaced).
THEOREM NothingLost == Spec => []SavesSurvive
<1>1. Durable => SavesSurvive
  <2> SUFFICES ASSUME Durable, NEW x \in owed PROVE x \in Stored
    BY DEF SavesSurvive
  <2>1. Safe(x)
    BY DEF Durable, Saved
  <2> QED
    BY <2>1 DEF Safe, Archived, Holds, Stored, Temp, Recov
<1> QED
  BY <1>1, DurableAlways, PTL

\* Once its journal is gone a run has left no temporary, and a backup only if
\* it committed or its conflict was archived (cleanup_operation,
\* keep_recovery_conflicts).
THEOREM NothingLeft == Spec => []NoOrphans
<1>1. Durable => NoOrphans
  BY DEF Durable, Files
<1> QED
  BY <1>1, DurableAlways, PTL
=============================================================================
