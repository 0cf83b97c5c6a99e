----------------------- MODULE FileSequential_proofs -----------------------
(***************************************************************************)
(* What holds of an apply while commands run one after the other, with any *)
(* number of runs, proposals, saves and faults: the article is what the    *)
(* last save or commit left (Settled), the cited source stays              *)
(* (SourcesRetained), an interrupted recovery can be repeated              *)
(* (JournalRecoveryRepeats), and without an editor the file operation      *)
(* implements AtomicApply and its database row agrees with the file        *)
(* (DigestMatches).  With two commands at a time none of the five is true, *)
(* because recover_on_open lists journals before it takes a lock.          *)
(***************************************************************************)
EXTENDS FileDurability_proofs, AtomicApplyRefinement

\* Commands run one after the other: there is one process at most.
OneCommand == \A p, q \in Process : p = q

----------------------------------------------------------------------------
\* One journal at a time.  A listing of a command that has the lock names
\* every journal it has not handled, and an apply starts with none.
OneJournal == \A r, s \in Journals : r = s
Covered(p) ==
  /\ pc[p] \in {"recover_begin", "recover", "clean_pending", "keep"}
       => Journals \subseteq list[p]
  /\ pc[p] \in Restores \cup {"recover_archive"} \cup Cleans \cup Keeps
       => Journals \subseteq list[p] \cup {run[p]}
  /\ pc[p] \in {"purge_begin", "apply_begin", "validate", "journal",
                "journal_publish"}
       => Journals = {}
  /\ pc[p] \in (Publishing \ {"journal", "journal_publish"})
               \cup {"cleanup_begin"} \cup (Finishing \ {"finish_commit"})
       => Journals \subseteq {run[p]}
Sequential == OneJournal /\ \A p \in Process : Covered(p)

\* recover_on_open handles the journals one by one ...
LEMMA RecoverSequential ==
  ASSUME NEW p \in Process, TypeOK, KnownRuns, Journaled(p), OneJournal,
         Covered(p), RecoverStep(p)
  PROVE  OneJournal' /\ Covered(p)'
<1> USE DEF TypeOK, ArticleOK, JournalOK, DbOK, LocalsOK, Phases,
      Kinds, Owned, Operation
<1> USE DEF Waiting, Locked, Recovering, Applying, Finishing, Keeping,
      Publishing, Restores, Cleans, Keeps
<1> USE DEF At, Goto, Move, Look, Store, Leave, Unlock, Throw, Fail, Conflict,
      Begin, Opened, TakeJournal, RemoveJournal, WritePending, PublishJournal,
      PreserveDisplaced, ArchiveBytes, Swap
<1> USE DEF articleVars, journalVars, archiveVars, projectVars, dbVars,
      localVars, outVars, historyVars, vars
<1> USE DEF Journals, OneJournal, Covered
<1> USE DEF KnownRuns, Working, Journaled
<1>1. CASE RecoverBegin(p)
  BY <1>1, SMTT(30) DEF RecoverBegin
<1>2. ASSUME NEW r \in Run, RecoverGone(p, r)
      PROVE  OneJournal' /\ Covered(p)'
  BY <1>2, SMTT(30) DEF RecoverGone
<1>3. ASSUME NEW r \in Run, RecoverCommitted(p, r)
      PROVE  OneJournal' /\ Covered(p)'
  BY <1>3, SMTT(30) DEF RecoverCommitted
<1>4. ASSUME NEW r \in Run, RecoverPrepared(p, r)
      PROVE  OneJournal' /\ Covered(p)'
  BY <1>4, SMTT(30) DEF RecoverPrepared
<1>5. ASSUME NEW r \in Run, RecoverReplaced(p, r)
      PROVE  OneJournal' /\ Covered(p)'
  BY <1>5, SMTT(30) DEF RecoverReplaced
<1>6. ASSUME NEW r \in Run, RecoverRecognized(p, r)
      PROVE  OneJournal' /\ Covered(p)'
  BY <1>6, SMTT(30) DEF RecoverRecognized
<1>7. ASSUME NEW r \in Run, RecoverConflict(p, r)
      PROVE  OneJournal' /\ Covered(p)'
  BY <1>7, SMTT(30) DEF RecoverConflict
<1>8. CASE RecoverStage(p)
  BY <1>8, SMTT(30) DEF RecoverStage
<1>9. CASE RecoverExchange(p)
  BY <1>9, SMTT(30) DEF RecoverExchange
<1>10. CASE RecoverVerified(p)
  BY <1>10, SMTT(30) DEF RecoverVerified
<1>11. CASE RecoverRaced(p)
  BY <1>11, SMTT(30) DEF RecoverRaced
<1>12. CASE RecoverUndo(p)
  BY <1>12, SMTT(30) DEF RecoverUndo
<1>13. CASE RecoverBlocked(p)
  BY <1>13, SMTT(30) DEF RecoverBlocked
<1>14. CASE RecoverUnstage(p)
  BY <1>14, SMTT(30) DEF RecoverUnstage
<1>15. CASE RecoverArchive(p)
  BY <1>15, SMTT(30) DEF RecoverArchive
<1>16. CASE CleanStaged(p)
  BY <1>16, SMTT(30) DEF CleanStaged
<1>17. CASE CleanCopy(p)
  BY <1>17, SMTT(30) DEF CleanCopy
<1>18. CASE CleanBackup(p)
  BY <1>18, SMTT(30) DEF CleanBackup
<1>19. CASE CleanTemp(p)
  BY <1>19, SMTT(30) DEF CleanTemp
<1>20. CASE CleanRecovery(p)
  BY <1>20, SMTT(30) DEF CleanRecovery
<1>21. CASE CleanJournal(p)
  BY <1>21, SMTT(30) DEF CleanJournal
<1>22. CASE CleanPending(p)
  BY <1>22, SMTT(30) DEF CleanPending
<1>23. CASE RecoverCommit(p)
  BY <1>23, SMTT(30) DEF RecoverCommit
<1>24. CASE Purge(p)
  BY <1>24, SMTT(30) DEF Purge
<1> QED
  BY <1>1, <1>2, <1>3, <1>4, <1>5, <1>6, <1>7, <1>8, <1>9, <1>10, <1>11,
     <1>12, <1>13, <1>14, <1>15, <1>16, <1>17, <1>18, <1>19, <1>20, <1>21,
     <1>22, <1>23, <1>24
     DEF RecoverStep

\* ... an apply makes one when there is none ...
LEMMA ApplySequential ==
  ASSUME NEW p \in Process, TypeOK, KnownRuns, Journaled(p), OneJournal,
         Covered(p), ApplyStep(p)
  PROVE  OneJournal' /\ Covered(p)'
<1> USE DEF TypeOK, ArticleOK, JournalOK, DbOK, LocalsOK, Phases,
      Kinds, Owned, Operation
<1> USE DEF Waiting, Locked, Recovering, Applying, Finishing, Keeping,
      Publishing, Restores, Cleans, Keeps
<1> USE DEF At, Goto, Move, Look, Store, Leave, Unlock, Throw, Fail, Conflict,
      Begin, Opened, TakeJournal, RemoveJournal, WritePending, PublishJournal,
      PreserveDisplaced, ArchiveBytes, Swap
<1> USE DEF articleVars, journalVars, archiveVars, projectVars, dbVars,
      localVars, outVars, historyVars, vars
<1> USE DEF Journals, OneJournal, Covered
<1> USE DEF KnownRuns, Working, Journaled
<1>1. CASE ApplyBegin(p)
  BY <1>1, SMTT(30) DEF ApplyBegin
<1>2. ASSUME NEW q \in Proposal, Refuse(p, q)
      PROVE  OneJournal' /\ Covered(p)'
  BY <1>2, SMTT(30) DEF Refuse
<1>3. ASSUME NEW q \in Proposal, NEW r \in Run, Validate(p, q, r)
      PROVE  OneJournal' /\ Covered(p)'
  BY <1>3, SMTT(30) DEF Validate
<1>4. CASE PrepareJournal(p)
  BY <1>4, SMTT(30) DEF PrepareJournal
<1>5. CASE PrepareBackup(p)
  BY <1>5, SMTT(30) DEF PrepareBackup
<1>6. CASE PrepareCopy(p)
  BY <1>6, SMTT(30) DEF PrepareCopy
<1>7. CASE PublishCopy(p)
  BY <1>7, SMTT(30) DEF PublishCopy
<1>8. CASE StageArticle(p)
  BY <1>8, SMTT(30) DEF StageArticle
<1>9. CASE Recheck(p)
  BY <1>9, SMTT(30) DEF Recheck
<1>10. CASE MarkReplacing(p)
  BY <1>10, SMTT(30) DEF MarkReplacing
<1>11. CASE ReplaceArticle(p)
  BY <1>11, SMTT(30) DEF ReplaceArticle
<1>12. CASE VerifyReplaced(p)
  BY <1>12, SMTT(30) DEF VerifyReplaced
<1>13. CASE MarkReplaced(p)
  BY <1>13, SMTT(30) DEF MarkReplaced
<1>14. CASE FinalCheck(p)
  BY <1>14, SMTT(30) DEF FinalCheck
<1>15. CASE ApplyBlocked(p)
  BY <1>15, SMTT(30) DEF ApplyBlocked
<1>16. CASE Commit(p)
  BY <1>16, SMTT(30) DEF Commit
<1>17. CASE CleanupBegin(p)
  BY <1>17, SMTT(30) DEF CleanupBegin
<1>18. CASE FinishArchive(p)
  BY <1>18, SMTT(30) DEF FinishArchive
<1>19. CASE FinishTemp(p)
  BY <1>19, SMTT(30) DEF FinishTemp
<1>20. CASE FinishJournal(p)
  BY <1>20, SMTT(30) DEF FinishJournal
<1>21. CASE FinishCommit(p)
  BY <1>21, SMTT(30) DEF FinishCommit
<1> QED
  BY <1>1, <1>2, <1>3, <1>4, <1>5, <1>6, <1>7, <1>8, <1>9, <1>10, <1>11,
     <1>12, <1>13, <1>14, <1>15, <1>16, <1>17, <1>18, <1>19, <1>20, <1>21
     DEF ApplyStep

\* ... and keep_recovery_conflicts lists them under the lock.
LEMMA KeepSequential ==
  ASSUME NEW p \in Process, TypeOK, KnownRuns, Journaled(p), OneJournal,
         Covered(p), KeepStep(p)
  PROVE  OneJournal' /\ Covered(p)'
<1> USE DEF TypeOK, ArticleOK, JournalOK, DbOK, LocalsOK, Phases,
      Kinds, Owned, Operation
<1> USE DEF Waiting, Locked, Recovering, Applying, Finishing, Keeping,
      Publishing, Restores, Cleans, Keeps
<1> USE DEF At, Goto, Move, Look, Store, Leave, Unlock, Throw, Fail, Conflict,
      Begin, Opened, TakeJournal, RemoveJournal, WritePending, PublishJournal,
      PreserveDisplaced, ArchiveBytes, Swap
<1> USE DEF articleVars, journalVars, archiveVars, projectVars, dbVars,
      localVars, outVars, historyVars, vars
<1> USE DEF Journals, OneJournal, Covered
<1> USE DEF KnownRuns, Working, Journaled
<1>1. CASE KeepBegin(p)
  BY <1>1, SMTT(30) DEF KeepBegin
<1>2. ASSUME NEW r \in Run, KeepJournal(p, r)
      PROVE  OneJournal' /\ Covered(p)'
  BY <1>2, SMTT(30) DEF KeepJournal
<1>3. CASE KeepTarget(p)
  BY <1>3, SMTT(30) DEF KeepTarget
<1>4. CASE KeepDisplaced(p)
  BY <1>4, SMTT(30) DEF KeepDisplaced
<1>5. CASE KeepManifest(p)
  BY <1>5, SMTT(30) DEF KeepManifest
<1>6. CASE KeepTemp(p)
  BY <1>6, SMTT(30) DEF KeepTemp
<1>7. CASE KeepSource(p)
  BY <1>7, SMTT(30) DEF KeepSource
<1>8. CASE KeepRecovery(p)
  BY <1>8, SMTT(30) DEF KeepRecovery
<1>9. CASE KeepRemoveJournal(p)
  BY <1>9, SMTT(30) DEF KeepRemoveJournal
<1>10. CASE KeepCommit(p)
  BY <1>10, SMTT(30) DEF KeepCommit
<1> QED
  BY <1>1, <1>2, <1>3, <1>4, <1>5, <1>6, <1>7, <1>8, <1>9, <1>10
     DEF KeepStep

\* Whoever opens the project, gives up or dies is nowhere in that work.
LEMMA OtherSequential ==
  ASSUME NEW p \in Process, TypeOK, OneJournal, Covered(p),
         \/ \E k \in Commands : Open(p, k)
         \/ BusyTimeout(p) \/ Crash(p) \/ IoFailure(p)
  PROVE  OneJournal' /\ Covered(p)'
<1> USE DEF TypeOK, ArticleOK, JournalOK, DbOK, LocalsOK, Phases,
      Kinds, Owned, Operation
<1> USE DEF Waiting, Locked, Recovering, Applying, Finishing, Keeping,
      Publishing, Restores, Cleans, Keeps
<1> USE DEF At, Goto, Move, Look, Store, Leave, Unlock, Throw, Fail, Conflict,
      Begin, Opened, TakeJournal, RemoveJournal, WritePending, PublishJournal,
      PreserveDisplaced, ArchiveBytes, Swap
<1> USE DEF articleVars, journalVars, archiveVars, projectVars, dbVars,
      localVars, outVars, historyVars, vars
<1> USE DEF Journals, OneJournal, Covered
<1>1. ASSUME NEW k \in Commands, Open(p, k)
      PROVE  OneJournal' /\ Covered(p)'
  BY <1>1, SMTT(30) DEF Open
<1>2. CASE BusyTimeout(p)
  BY <1>2, SMTT(30) DEF BusyTimeout
<1>3. CASE Crash(p)
  BY <1>3, SMTT(30) DEF Crash, Fault
<1>4. CASE IoFailure(p)
  BY <1>4, SMTT(30) DEF IoFailure, Fault
<1> QED
  BY <1>1, <1>2, <1>3, <1>4

\* One command at a time keeps it.
LEMMA StepSequential ==
  ASSUME OneCommand, Durable, Sequential, [Next]_vars
  PROVE  Sequential'
<1>1. /\ TypeOK /\ KnownRuns /\ OneJournal
      /\ \A p \in Process : Journaled(p) /\ Covered(p)
  BY DEF Durable, WriterInvariant, Files, Sequential
<1>2. ASSUME NEW p \in Process, OneJournal' /\ Covered(p)'
      PROVE  Sequential'
  BY <1>2 DEF OneCommand, Sequential
<1>3. ASSUME NEW p \in Process,
             \/ \E k \in Commands : Open(p, k)
             \/ Step(p) \/ Crash(p) \/ IoFailure(p)
      PROVE  Sequential'
  BY <1>1, <1>2, <1>3, RecoverSequential, ApplySequential, KeepSequential,
     OtherSequential DEF Step
<1>4. CASE Editor \/ (\E q \in Proposal : Approve(q)) \/ UNCHANGED vars
  <2>1. UNCHANGED <<journal, pc, list, run>>
    BY <1>4 DEF Editor, EditorSave, EditorDelete, EditorReplaceCopy,
       EditorWriteDisplaced, Edit, Approve, vars, projectVars, journalVars,
       localVars
  <2> QED
    BY <1>1, <2>1 DEF Sequential, OneJournal, Covered, Journals
<1> QED
  BY <1>3, <1>4 DEF Next

----------------------------------------------------------------------------
\* The vault's copy of the source: made by the run that published it or there
\* before, and a run that made it is the first.
Cited(p) ==
  /\ pc[p] \in Publishing => copy # Missing \/ op[run[p]].owns
  /\ pc[p] \in Publishing /\ op[run[p]].owns => markers = {}
  /\ pc[p] = "copy_publish" => own["staged"][run[p]] # Missing
  /\ pc[p] \in {"stage", "recheck", "replacing"} \cup Exchanging
       => copy # Missing
Owners == \A r \in Journals \ markers : op[r].owns => markers = {}
Retained == SourcesRetained /\ Owners /\ \A p \in Process : Cited(p)

\* Cleanup removes what its run made while no run has committed ...
LEMMA RecoverRetained ==
  ASSUME NEW p \in Process, TypeOK, KnownRuns, Journaled(p), Marked(p),
         OneJournal,
         Covered(p), SourcesRetained, Owners, Cited(p), RecoverStep(p)
  PROVE  SourcesRetained' /\ Owners' /\ Cited(p)'
<1> USE DEF TypeOK, ArticleOK, JournalOK, DbOK, LocalsOK, Phases,
      Kinds, Owned, Operation
<1> USE DEF Waiting, Locked, Recovering, Applying, Finishing, Keeping,
      Publishing, Restores, Cleans, Keeps
<1> USE DEF At, Goto, Move, Look, Store, Leave, Unlock, Throw, Fail, Conflict,
      Begin, Opened, TakeJournal, RemoveJournal, WritePending, PublishJournal,
      PreserveDisplaced, ArchiveBytes, Swap
<1> USE DEF articleVars, journalVars, archiveVars, projectVars, dbVars,
      localVars, outVars, historyVars, vars
<1> USE DEF Journals, OneJournal, Covered, SourcesRetained, Owners, Cited
<1> USE DEF KnownRuns, Working, Journaled, Marked, Exchanging, Before,
    After, Temp,
      Recov, Made, Committed
<1> USE DistinctBytes, DistinctNames
<1>1. CASE RecoverBegin(p)
  BY <1>1, SMTT(30) DEF RecoverBegin
<1>2. ASSUME NEW r \in Run, RecoverGone(p, r)
      PROVE  SourcesRetained' /\ Owners' /\ Cited(p)'
  BY <1>2, SMTT(30) DEF RecoverGone
<1>3. ASSUME NEW r \in Run, RecoverCommitted(p, r)
      PROVE  SourcesRetained' /\ Owners' /\ Cited(p)'
  BY <1>3, SMTT(30) DEF RecoverCommitted
<1>4. ASSUME NEW r \in Run, RecoverPrepared(p, r)
      PROVE  SourcesRetained' /\ Owners' /\ Cited(p)'
  BY <1>4, SMTT(30) DEF RecoverPrepared
<1>5. ASSUME NEW r \in Run, RecoverReplaced(p, r)
      PROVE  SourcesRetained' /\ Owners' /\ Cited(p)'
  BY <1>5, SMTT(30) DEF RecoverReplaced
<1>6. ASSUME NEW r \in Run, RecoverRecognized(p, r)
      PROVE  SourcesRetained' /\ Owners' /\ Cited(p)'
  BY <1>6, SMTT(30) DEF RecoverRecognized
<1>7. ASSUME NEW r \in Run, RecoverConflict(p, r)
      PROVE  SourcesRetained' /\ Owners' /\ Cited(p)'
  BY <1>7, SMTT(30) DEF RecoverConflict
<1>8. CASE RecoverStage(p)
  BY <1>8, SMTT(30) DEF RecoverStage
<1>9. CASE RecoverExchange(p)
  BY <1>9, SMTT(30) DEF RecoverExchange
<1>10. CASE RecoverVerified(p)
  BY <1>10, SMTT(30) DEF RecoverVerified
<1>11. CASE RecoverRaced(p)
  BY <1>11, SMTT(30) DEF RecoverRaced
<1>12. CASE RecoverUndo(p)
  BY <1>12, SMTT(30) DEF RecoverUndo
<1>13. CASE RecoverBlocked(p)
  BY <1>13, SMTT(30) DEF RecoverBlocked
<1>14. CASE RecoverUnstage(p)
  BY <1>14, SMTT(30) DEF RecoverUnstage
<1>15. CASE RecoverArchive(p)
  BY <1>15, SMTT(30) DEF RecoverArchive
<1>16. CASE CleanStaged(p)
  BY <1>16, SMTT(30) DEF CleanStaged
<1>17. CASE CleanCopy(p)
  BY <1>17, SMTT(30) DEF CleanCopy
<1>18. CASE CleanBackup(p)
  BY <1>18, SMTT(30) DEF CleanBackup
<1>19. CASE CleanTemp(p)
  BY <1>19, SMTT(30) DEF CleanTemp
<1>20. CASE CleanRecovery(p)
  BY <1>20, SMTT(30) DEF CleanRecovery
<1>21. CASE CleanJournal(p)
  BY <1>21, SMTT(30) DEF CleanJournal
<1>22. CASE CleanPending(p)
  BY <1>22, SMTT(30) DEF CleanPending
<1>23. CASE RecoverCommit(p)
  BY <1>23, SMTT(30) DEF RecoverCommit
<1>24. CASE Purge(p)
  BY <1>24, SMTT(30) DEF Purge
<1> QED
  BY <1>1, <1>2, <1>3, <1>4, <1>5, <1>6, <1>7, <1>8, <1>9, <1>10, <1>11,
     <1>12, <1>13, <1>14, <1>15, <1>16, <1>17, <1>18, <1>19, <1>20, <1>21,
     <1>22, <1>23, <1>24
     DEF RecoverStep

\* ... an apply publishes the copy before it can commit ...
LEMMA ApplyRetained ==
  ASSUME NEW p \in Process, TypeOK, KnownRuns, Journaled(p), Marked(p),
         OneJournal,
         Covered(p), SourcesRetained, Owners, Cited(p), ApplyStep(p)
  PROVE  SourcesRetained' /\ Owners' /\ Cited(p)'
<1> USE DEF TypeOK, ArticleOK, JournalOK, DbOK, LocalsOK, Phases,
      Kinds, Owned, Operation
<1> USE DEF Waiting, Locked, Recovering, Applying, Finishing, Keeping,
      Publishing, Restores, Cleans, Keeps
<1> USE DEF At, Goto, Move, Look, Store, Leave, Unlock, Throw, Fail, Conflict,
      Begin, Opened, TakeJournal, RemoveJournal, WritePending, PublishJournal,
      PreserveDisplaced, ArchiveBytes, Swap
<1> USE DEF articleVars, journalVars, archiveVars, projectVars, dbVars,
      localVars, outVars, historyVars, vars
<1> USE DEF Journals, OneJournal, Covered, SourcesRetained, Owners, Cited
<1> USE DEF KnownRuns, Working, Journaled, Marked, Exchanging, Before,
    After, Temp,
      Recov, Made, Committed
<1> USE DistinctBytes, DistinctNames
<1>1. CASE ApplyBegin(p)
  BY <1>1, SMTT(30) DEF ApplyBegin
<1>2. ASSUME NEW q \in Proposal, Refuse(p, q)
      PROVE  SourcesRetained' /\ Owners' /\ Cited(p)'
  BY <1>2, SMTT(30) DEF Refuse
<1>3. ASSUME NEW q \in Proposal, NEW r \in Run, Validate(p, q, r)
      PROVE  SourcesRetained' /\ Owners' /\ Cited(p)'
  <2>1. /\ op[r] = NoOp /\ run'[p] = r /\ pc'[p] = "journal"
        /\ op' = [op EXCEPT ![r] = [proposal |-> q, before |-> target,
                                    owns |-> copy = Missing]]
        /\ UNCHANGED <<copy, journal, markers>>
    BY <1>3, SMTT(30) DEF Validate
  <2>2. op'[r].owns <=> copy = Missing
    BY <2>1
  <2>3. \A s \in Journals : s # r /\ op'[s] = op[s]
    BY <2>1
  <2>4. Journals' = Journals /\ SourcesRetained' /\ Owners'
    BY <2>1, <2>3
  <2> QED
    BY <2>1, <2>2, <2>4
<1>4. CASE PrepareJournal(p)
  BY <1>4, SMTT(30) DEF PrepareJournal
<1>5. CASE PrepareBackup(p)
  BY <1>5, SMTT(30) DEF PrepareBackup
<1>6. CASE PrepareCopy(p)
  BY <1>6, SMTT(30) DEF PrepareCopy
<1>7. CASE PublishCopy(p)
  BY <1>7, SMTT(30) DEF PublishCopy
<1>8. CASE StageArticle(p)
  BY <1>8, SMTT(30) DEF StageArticle
<1>9. CASE Recheck(p)
  BY <1>9, SMTT(30) DEF Recheck
<1>10. CASE MarkReplacing(p)
  BY <1>10, SMTT(30) DEF MarkReplacing
<1>11. CASE ReplaceArticle(p)
  BY <1>11, SMTT(30) DEF ReplaceArticle
<1>12. CASE VerifyReplaced(p)
  BY <1>12, SMTT(30) DEF VerifyReplaced
<1>13. CASE MarkReplaced(p)
  BY <1>13, SMTT(30) DEF MarkReplaced
<1>14. CASE FinalCheck(p)
  BY <1>14, SMTT(30) DEF FinalCheck
<1>15. CASE ApplyBlocked(p)
  BY <1>15, SMTT(30) DEF ApplyBlocked
<1>16. CASE Commit(p)
  BY <1>16, SMTT(30) DEF Commit
<1>17. CASE CleanupBegin(p)
  BY <1>17, SMTT(30) DEF CleanupBegin
<1>18. CASE FinishArchive(p)
  BY <1>18, SMTT(30) DEF FinishArchive
<1>19. CASE FinishTemp(p)
  BY <1>19, SMTT(30) DEF FinishTemp
<1>20. CASE FinishJournal(p)
  BY <1>20, SMTT(30) DEF FinishJournal
<1>21. CASE FinishCommit(p)
  BY <1>21, SMTT(30) DEF FinishCommit
<1> QED
  BY <1>1, <1>2, <1>3, <1>4, <1>5, <1>6, <1>7, <1>8, <1>9, <1>10, <1>11,
     <1>12, <1>13, <1>14, <1>15, <1>16, <1>17, <1>18, <1>19, <1>20, <1>21
     DEF ApplyStep

\* ... and keep leaves it alone.
LEMMA KeepRetained ==
  ASSUME NEW p \in Process, TypeOK, KnownRuns, Journaled(p), Marked(p),
         OneJournal,
         Covered(p), SourcesRetained, Owners, Cited(p), KeepStep(p)
  PROVE  SourcesRetained' /\ Owners' /\ Cited(p)'
<1> USE DEF TypeOK, ArticleOK, JournalOK, DbOK, LocalsOK, Phases,
      Kinds, Owned, Operation
<1> USE DEF Waiting, Locked, Recovering, Applying, Finishing, Keeping,
      Publishing, Restores, Cleans, Keeps
<1> USE DEF At, Goto, Move, Look, Store, Leave, Unlock, Throw, Fail, Conflict,
      Begin, Opened, TakeJournal, RemoveJournal, WritePending, PublishJournal,
      PreserveDisplaced, ArchiveBytes, Swap
<1> USE DEF articleVars, journalVars, archiveVars, projectVars, dbVars,
      localVars, outVars, historyVars, vars
<1> USE DEF Journals, OneJournal, Covered, SourcesRetained, Owners, Cited
<1> USE DEF KnownRuns, Working, Journaled, Marked, Exchanging, Before,
    After, Temp,
      Recov, Made, Committed
<1> USE DistinctBytes, DistinctNames
<1>1. CASE KeepBegin(p)
  BY <1>1, SMTT(30) DEF KeepBegin
<1>2. ASSUME NEW r \in Run, KeepJournal(p, r)
      PROVE  SourcesRetained' /\ Owners' /\ Cited(p)'
  BY <1>2, SMTT(30) DEF KeepJournal
<1>3. CASE KeepTarget(p)
  BY <1>3, SMTT(30) DEF KeepTarget
<1>4. CASE KeepDisplaced(p)
  BY <1>4, SMTT(30) DEF KeepDisplaced
<1>5. CASE KeepManifest(p)
  BY <1>5, SMTT(30) DEF KeepManifest
<1>6. CASE KeepTemp(p)
  BY <1>6, SMTT(30) DEF KeepTemp
<1>7. CASE KeepSource(p)
  BY <1>7, SMTT(30) DEF KeepSource
<1>8. CASE KeepRecovery(p)
  BY <1>8, SMTT(30) DEF KeepRecovery
<1>9. CASE KeepRemoveJournal(p)
  BY <1>9, SMTT(30) DEF KeepRemoveJournal
<1>10. CASE KeepCommit(p)
  BY <1>10, SMTT(30) DEF KeepCommit
<1> QED
  BY <1>1, <1>2, <1>3, <1>4, <1>5, <1>6, <1>7, <1>8, <1>9, <1>10
     DEF KeepStep

\* Nor does anybody else take it away.
LEMMA OtherRetained ==
  ASSUME NEW p \in Process, TypeOK, SourcesRetained, Owners, Cited(p),
         \/ \E k \in Commands : Open(p, k)
         \/ BusyTimeout(p) \/ Crash(p) \/ IoFailure(p)
  PROVE  SourcesRetained' /\ Owners' /\ Cited(p)'
<1> USE DEF TypeOK, ArticleOK, JournalOK, DbOK, LocalsOK, Phases,
      Kinds, Owned, Operation
<1> USE DEF Waiting, Locked, Recovering, Applying, Finishing, Keeping,
      Publishing, Restores, Cleans, Keeps
<1> USE DEF At, Goto, Move, Look, Store, Leave, Unlock, Throw, Fail, Conflict,
      Begin, Opened, TakeJournal, RemoveJournal, WritePending, PublishJournal,
      PreserveDisplaced, ArchiveBytes, Swap
<1> USE DEF articleVars, journalVars, archiveVars, projectVars, dbVars,
      localVars, outVars, historyVars, vars
<1> USE DEF Journals, SourcesRetained, Owners, Cited, Exchanging
<1> USE DEF TornWrite, TornArchive, TornFile
<1>1. ASSUME NEW k \in Commands, Open(p, k)
      PROVE  SourcesRetained' /\ Owners' /\ Cited(p)'
  BY <1>1, SMTT(30) DEF Open
<1>2. CASE BusyTimeout(p)
  BY <1>2, SMTT(30) DEF BusyTimeout
<1>3. CASE Crash(p)
  BY <1>3, SMTT(30) DEF Crash, Fault
<1>4. CASE IoFailure(p)
  BY <1>4, SMTT(30) DEF IoFailure, Fault
<1> QED
  BY <1>1, <1>2, <1>3, <1>4

\* Every step keeps the cited copy of an apply that is committed or may commit.
LEMMA StepRetained ==
  ASSUME OneCommand, Durable, Sequential, Retained, [Next]_vars
  PROVE  Retained'
<1>1. /\ TypeOK /\ KnownRuns /\ OneJournal /\ SourcesRetained /\ Owners
      /\ \A p \in Process : Journaled(p) /\ Marked(p) /\ Covered(p) /\ Cited(p)
  BY DEF Durable, WriterInvariant, Files, Sequential, Retained
<1>2. ASSUME NEW p \in Process, SourcesRetained' /\ Owners' /\ Cited(p)'
      PROVE  Retained'
  BY <1>2 DEF OneCommand, Retained
<1>3. ASSUME NEW p \in Process,
             \/ \E k \in Commands : Open(p, k)
             \/ Step(p) \/ Crash(p) \/ IoFailure(p)
      PROVE  Retained'
  BY <1>1, <1>2, <1>3, RecoverRetained, ApplyRetained, KeepRetained,
     OtherRetained DEF Step
<1>4. CASE Editor \/ (\E q \in Proposal : Approve(q)) \/ UNCHANGED vars
  <2>1. /\ UNCHANGED <<journal, op, markers, pc, run, own["staged"]>>
        /\ copy' = copy \/ copy' = Foreign
    BY <1>1, <1>4, SMTT(30) DEF Editor, EditorSave, EditorDelete,
       EditorReplaceCopy,
       EditorWriteDisplaced, Edit, Approve, vars, projectVars, articleVars,
       journalVars, dbVars, localVars, TypeOK, ArticleOK, Owned
  <2> QED
    BY <1>1, <2>1, DistinctBytes DEF Retained, SourcesRetained, Owners, Cited,
       Journals
<1> QED
  BY <1>3, <1>4 DEF Next

\* Once an apply has committed, the source its article cites stays in the
\* vault, whatever is interrupted, recovered or kept afterwards (prepare,
\* cleanup_operation in file_operation.cpp).
THEOREM SourcesStay ==
  ASSUME OneCommand
  PROVE  Spec => []SourcesRetained
<1>1. Init => Sequential /\ Retained
  BY DistinctBytes, SMTT(30) DEF Init, Sequential, OneJournal, Covered,
     Journals, Retained,
     SourcesRetained, Owners, Cited, Publishing, Applying, Finishing, Restores,
     Cleans, Keeps, Exchanging
<1>2. Durable /\ Durable' /\ Sequential /\ Retained /\ [Next]_vars
      => Sequential' /\ Retained'
  BY StepSequential, StepRetained
<1>3. Retained => SourcesRetained
  BY DEF Retained
<1> QED
  BY <1>1, <1>2, <1>3, DurableAlways, PTL DEF Spec

----------------------------------------------------------------------------
\* The bytes of a proposal nobody has approved are nowhere, so what an apply
\* replaces is never what it publishes.
NewBytes(q) ==
  /\ status[q] = "pending" =>
       /\ token[q] = NoToken /\ target # q
       /\ \A r \in Run : /\ Temp(r) # q /\ Recov(r) # q
                         /\ op[r] # NoOp => After(r) # q /\ Before(r) # q
       /\ \A p \in Process : want[p] # q
  /\ token[q] # NoToken => token[q].before # q
Fresh == \A q \in Proposal : NewBytes(q)
Parted ==
  \A r \in Run : /\ op[r] # NoOp => Before(r) # After(r)
                 /\ r \in moved => Temp(r) # After(r)

\* Where a command replaces or restores an article, the article is the one it
\* was about, or an editor has written or removed it.
Exchanged == {"verify", "replaced", "final_check", "commit"}
Touched(r) == target = Missing \/ target \notin {Before(r), Temp(r)}
Shaped(p) ==
  LET r == run[p] IN
  /\ pc[p] \in Ahead => target # After(r)
  /\ pc[p] \in Ahead \ {"journal", "journal_publish", "exchange"} =>
       journal[r] = "prepared"
  /\ pc[p] \in {"recheck", "replacing", "exchange"} => Temp(r) = After(r)
  /\ pc[p] \in Exchanged =>
       target = After(r) \/ target = Missing \/ target # Temp(r)
  /\ pc[p] \in {"recover_stage", "recover_exchange"} =>
       /\ target = After(r) \/ Touched(r)
       /\ ~Unexpected(r) => want[p] = Before(r)
       /\ want[p] # After(r)
  /\ pc[p] = "recover_verify" =>
       IF Recov(r) = After(r) THEN target # After(r)
       ELSE Recov(r) \notin {Missing, Before(r), Temp(r)}
  /\ pc[p] = "recover_undo" =>
       Recov(r) \notin {Missing, After(r), Before(r), Temp(r)}
  /\ pc[p] \in {"recover_unstage"} \cup Cleans /\ Interrupted(r) =>
       target # After(r)
Shape == Fresh /\ Parted /\ \A p \in Process : Shaped(p)

\* What recovery puts back is not what the apply published, and it is the
\* journal's before image unless an editor wrote the displaced file.
LEMMA DisplacedIs ==
  ASSUME NEW r \in Run, Before(r) # After(r)
  PROVE  /\ Displaced(r) # After(r)
         /\ ~Unexpected(r) => Displaced(r) = Before(r)
  BY DEF Displaced, Unexpected

\* Recovery moves bytes that are there ...
LEMMA RecoverFresh ==
  ASSUME NEW p \in Process, NEW n \in Proposal, TypeOK, KnownRuns, Reviewed,
         NewBytes(n), RecoverStep(p)
  PROVE  NewBytes(n)'
<1> USE DEF TypeOK, ArticleOK, JournalOK, DbOK, LocalsOK, Phases,
      Kinds, Owned, Operation
<1> USE DEF Waiting, Locked, Recovering, Applying, Finishing, Keeping,
      Publishing, Restores, Cleans, Keeps
<1> USE DEF At, Goto, Move, Look, Store, Leave, Unlock, Throw, Fail, Conflict,
      Begin, Opened, TakeJournal, RemoveJournal, WritePending, PublishJournal,
      PreserveDisplaced, ArchiveBytes, Swap
<1> USE DEF articleVars, journalVars, archiveVars, projectVars, dbVars,
      localVars, outVars, historyVars, vars
<1> USE DEF KnownRuns, Working, Before, After, Temp, Recov, Committed, Made
<1> USE DEF NewBytes, Displaced, Reviewed
<1> USE DistinctBytes, DistinctNames
<1>1. CASE RecoverBegin(p)
  BY <1>1, SMTT(30) DEF RecoverBegin
<1>2. ASSUME NEW r \in Run, RecoverGone(p, r)
      PROVE  NewBytes(n)'
  BY <1>2, SMTT(30) DEF RecoverGone
<1>3. ASSUME NEW r \in Run, RecoverCommitted(p, r)
      PROVE  NewBytes(n)'
  BY <1>3, SMTT(30) DEF RecoverCommitted
<1>4. ASSUME NEW r \in Run, RecoverPrepared(p, r)
      PROVE  NewBytes(n)'
  BY <1>4, SMTT(30) DEF RecoverPrepared
<1>5. ASSUME NEW r \in Run, RecoverReplaced(p, r)
      PROVE  NewBytes(n)'
  BY <1>5, SMTT(30) DEF RecoverReplaced
<1>6. ASSUME NEW r \in Run, RecoverRecognized(p, r)
      PROVE  NewBytes(n)'
  BY <1>6, SMTT(30) DEF RecoverRecognized
<1>7. ASSUME NEW r \in Run, RecoverConflict(p, r)
      PROVE  NewBytes(n)'
  BY <1>7, SMTT(30) DEF RecoverConflict
<1>8. CASE RecoverStage(p)
  BY <1>8, SMTT(30) DEF RecoverStage
<1>9. CASE RecoverExchange(p)
  BY <1>9, SMTT(30) DEF RecoverExchange
<1>10. CASE RecoverVerified(p)
  BY <1>10, SMTT(30) DEF RecoverVerified
<1>11. CASE RecoverRaced(p)
  BY <1>11, SMTT(30) DEF RecoverRaced
<1>12. CASE RecoverUndo(p)
  BY <1>12, SMTT(30) DEF RecoverUndo
<1>13. CASE RecoverBlocked(p)
  BY <1>13, SMTT(30) DEF RecoverBlocked
<1>14. CASE RecoverUnstage(p)
  BY <1>14, SMTT(30) DEF RecoverUnstage
<1>15. CASE RecoverArchive(p)
  BY <1>15, SMTT(30) DEF RecoverArchive
<1>16. CASE CleanStaged(p)
  BY <1>16, SMTT(30) DEF CleanStaged
<1>17. CASE CleanCopy(p)
  BY <1>17, SMTT(30) DEF CleanCopy
<1>18. CASE CleanBackup(p)
  BY <1>18, SMTT(30) DEF CleanBackup
<1>19. CASE CleanTemp(p)
  BY <1>19, SMTT(30) DEF CleanTemp
<1>20. CASE CleanRecovery(p)
  BY <1>20, SMTT(30) DEF CleanRecovery
<1>21. CASE CleanJournal(p)
  BY <1>21, SMTT(30) DEF CleanJournal
<1>22. CASE CleanPending(p)
  BY <1>22, SMTT(30) DEF CleanPending
<1>23. CASE RecoverCommit(p)
  BY <1>23, SMTT(30) DEF RecoverCommit
<1>24. CASE Purge(p)
  BY <1>24, SMTT(30) DEF Purge
<1> QED
  BY <1>1, <1>2, <1>3, <1>4, <1>5, <1>6, <1>7, <1>8, <1>9, <1>10, <1>11,
     <1>12, <1>13, <1>14, <1>15, <1>16, <1>17, <1>18, <1>19, <1>20, <1>21,
     <1>22, <1>23, <1>24
     DEF RecoverStep

\* ... an apply writes those of an approved proposal ...
LEMMA ApplyFresh ==
  ASSUME NEW p \in Process, NEW n \in Proposal, TypeOK, KnownRuns, Reviewed,
         NewBytes(n), ApplyStep(p)
  PROVE  NewBytes(n)'
<1> USE DEF TypeOK, ArticleOK, JournalOK, DbOK, LocalsOK, Phases,
      Kinds, Owned, Operation
<1> USE DEF Waiting, Locked, Recovering, Applying, Finishing, Keeping,
      Publishing, Restores, Cleans, Keeps
<1> USE DEF At, Goto, Move, Look, Store, Leave, Unlock, Throw, Fail, Conflict,
      Begin, Opened, TakeJournal, RemoveJournal, WritePending, PublishJournal,
      PreserveDisplaced, ArchiveBytes, Swap
<1> USE DEF articleVars, journalVars, archiveVars, projectVars, dbVars,
      localVars, outVars, historyVars, vars
<1> USE DEF KnownRuns, Working, Before, After, Temp, Recov, Committed, Made
<1> USE DEF NewBytes, Displaced, Reviewed
<1> USE DistinctBytes, DistinctNames
<1>1. CASE ApplyBegin(p)
  BY <1>1, SMTT(30) DEF ApplyBegin
<1>2. ASSUME NEW q \in Proposal, Refuse(p, q)
      PROVE  NewBytes(n)'
  BY <1>2, SMTT(30) DEF Refuse
<1>3. ASSUME NEW q \in Proposal, NEW r \in Run, Validate(p, q, r)
      PROVE  NewBytes(n)'
  <2>1. /\ op[r] = NoOp /\ status[q] = "approved"
        /\ op' = [op EXCEPT ![r] = [proposal |-> q, before |-> target,
                                    owns |-> copy = Missing]]
        /\ UNCHANGED <<articleVars, status, token, want>>
    BY <1>3, SMTT(30) DEF Validate, Applicable
  <2>2. After(r)' = q /\ Before(r)' = target
    BY <2>1
  <2>3. \A s \in Run \ {r} : op'[s] = op[s]
    BY <2>1
  <2> QED
    BY <2>1, <2>2, <2>3
<1>4. CASE PrepareJournal(p)
  BY <1>4, SMTT(30) DEF PrepareJournal
<1>5. CASE PrepareBackup(p)
  BY <1>5, SMTT(30) DEF PrepareBackup
<1>6. CASE PrepareCopy(p)
  BY <1>6, SMTT(30) DEF PrepareCopy
<1>7. CASE PublishCopy(p)
  BY <1>7, SMTT(30) DEF PublishCopy
<1>8. CASE StageArticle(p)
  BY <1>8, SMTT(30) DEF StageArticle
<1>9. CASE Recheck(p)
  BY <1>9, SMTT(30) DEF Recheck
<1>10. CASE MarkReplacing(p)
  BY <1>10, SMTT(30) DEF MarkReplacing
<1>11. CASE ReplaceArticle(p)
  BY <1>11, SMTT(30) DEF ReplaceArticle
<1>12. CASE VerifyReplaced(p)
  BY <1>12, SMTT(30) DEF VerifyReplaced
<1>13. CASE MarkReplaced(p)
  BY <1>13, SMTT(30) DEF MarkReplaced
<1>14. CASE FinalCheck(p)
  BY <1>14, SMTT(30) DEF FinalCheck
<1>15. CASE ApplyBlocked(p)
  BY <1>15, SMTT(30) DEF ApplyBlocked
<1>16. CASE Commit(p)
  BY <1>16, SMTT(30) DEF Commit
<1>17. CASE CleanupBegin(p)
  BY <1>17, SMTT(30) DEF CleanupBegin
<1>18. CASE FinishArchive(p)
  BY <1>18, SMTT(30) DEF FinishArchive
<1>19. CASE FinishTemp(p)
  BY <1>19, SMTT(30) DEF FinishTemp
<1>20. CASE FinishJournal(p)
  BY <1>20, SMTT(30) DEF FinishJournal
<1>21. CASE FinishCommit(p)
  BY <1>21, SMTT(30) DEF FinishCommit
<1> QED
  BY <1>1, <1>2, <1>3, <1>4, <1>5, <1>6, <1>7, <1>8, <1>9, <1>10, <1>11,
     <1>12, <1>13, <1>14, <1>15, <1>16, <1>17, <1>18, <1>19, <1>20, <1>21
     DEF ApplyStep

\* ... and keep removes some.
LEMMA KeepFresh ==
  ASSUME NEW p \in Process, NEW n \in Proposal, TypeOK, KnownRuns, Reviewed,
         NewBytes(n), KeepStep(p)
  PROVE  NewBytes(n)'
<1> USE DEF TypeOK, ArticleOK, JournalOK, DbOK, LocalsOK, Phases,
      Kinds, Owned, Operation
<1> USE DEF Waiting, Locked, Recovering, Applying, Finishing, Keeping,
      Publishing, Restores, Cleans, Keeps
<1> USE DEF At, Goto, Move, Look, Store, Leave, Unlock, Throw, Fail, Conflict,
      Begin, Opened, TakeJournal, RemoveJournal, WritePending, PublishJournal,
      PreserveDisplaced, ArchiveBytes, Swap
<1> USE DEF articleVars, journalVars, archiveVars, projectVars, dbVars,
      localVars, outVars, historyVars, vars
<1> USE DEF KnownRuns, Working, Before, After, Temp, Recov, Committed, Made
<1> USE DEF NewBytes, Displaced, Reviewed
<1> USE DistinctBytes, DistinctNames
<1>1. CASE KeepBegin(p)
  BY <1>1, SMTT(30) DEF KeepBegin
<1>2. ASSUME NEW r \in Run, KeepJournal(p, r)
      PROVE  NewBytes(n)'
  BY <1>2, SMTT(30) DEF KeepJournal
<1>3. CASE KeepTarget(p)
  BY <1>3, SMTT(30) DEF KeepTarget
<1>4. CASE KeepDisplaced(p)
  BY <1>4, SMTT(30) DEF KeepDisplaced
<1>5. CASE KeepManifest(p)
  BY <1>5, SMTT(30) DEF KeepManifest
<1>6. CASE KeepTemp(p)
  BY <1>6, SMTT(30) DEF KeepTemp
<1>7. CASE KeepSource(p)
  BY <1>7, SMTT(30) DEF KeepSource
<1>8. CASE KeepRecovery(p)
  BY <1>8, SMTT(30) DEF KeepRecovery
<1>9. CASE KeepRemoveJournal(p)
  BY <1>9, SMTT(30) DEF KeepRemoveJournal
<1>10. CASE KeepCommit(p)
  BY <1>10, SMTT(30) DEF KeepCommit
<1> QED
  BY <1>1, <1>2, <1>3, <1>4, <1>5, <1>6, <1>7, <1>8, <1>9, <1>10
     DEF KeepStep

\* Recovery knows which bytes it trades against which ...
LEMMA RecoverShape ==
  ASSUME NEW p \in Process, \A r \in Run : RunFiles(r), TypeOK,
         KnownRuns, Journaled(p), Replacing(p),
         Marked(p), Restoring(p), Fresh, Parted, Shaped(p),
         RecoverStep(p)
  PROVE  Parted' /\ Shaped(p)'
<1> USE DEF TypeOK, ArticleOK, JournalOK, DbOK, LocalsOK, Phases,
      Kinds, Owned, Operation
<1> USE DEF Waiting, Locked, Recovering, Applying, Finishing, Keeping,
      Publishing, Restores, Cleans, Keeps
<1> USE DEF At, Goto, Move, Look, Store, Leave, Unlock, Throw, Fail, Conflict,
      Begin, Opened, TakeJournal, RemoveJournal, WritePending, PublishJournal,
      PreserveDisplaced, ArchiveBytes, Swap
<1> USE DEF articleVars, journalVars, archiveVars, projectVars, dbVars,
      localVars, outVars, historyVars, vars
<1> USE DEF KnownRuns, Working, Before, After, Temp, Recov, Committed, Made,
      Displaced, Unexpected, Interrupted, Touched, Exchanged, Exchanging, Ahead
<1> USE DEF Parted, Shaped, Journaled, Replacing, Marked
<1> USE DistinctBytes, DistinctNames
<1>1. CASE RecoverBegin(p)
  BY <1>1, SMTT(30) DEF RecoverBegin
<1>2. ASSUME NEW r \in Run, RecoverGone(p, r)
      PROVE  Parted' /\ Shaped(p)'
  BY <1>2, SMTT(30) DEF RecoverGone
<1>3. ASSUME NEW r \in Run, RecoverCommitted(p, r)
      PROVE  Parted' /\ Shaped(p)'
  BY <1>3, SMTT(30) DEF RecoverCommitted
<1>4. ASSUME NEW r \in Run, RecoverPrepared(p, r)
      PROVE  Parted' /\ Shaped(p)'
  BY <1>4, SMTT(30) DEF RecoverPrepared
<1>5. ASSUME NEW r \in Run, RecoverReplaced(p, r)
      PROVE  Parted' /\ Shaped(p)'
  <2>1. /\ op[r] # NoOp /\ target = After(r)
        /\ pc' = [pc EXCEPT ![p] = IF Displaced(r) = Missing
                                  THEN "recover_exchange" ELSE "recover_stage"]
        /\ run'[p] = r /\ want'[p] = Displaced(r)
        /\ UNCHANGED <<projectVars, markers>>
    BY <1>5, SMTT(30) DEF RecoverReplaced
  <2>2. Displaced(r) # After(r) /\ (~Unexpected(r) => Displaced(r) = Before(r))
    <3>1. Before(r) # After(r)
      BY <2>1
    <3> QED
      BY ONLY <3>1, DisplacedIs
  <2>3. Parted'
    BY <2>1
  <2>4. pc'[p] \in {"recover_exchange", "recover_stage"}
    BY <2>1
  <2> QED
    BY <2>1, <2>2, <2>3, <2>4, SMTT(30)
<1>6. ASSUME NEW r \in Run, RecoverRecognized(p, r)
      PROVE  Parted' /\ Shaped(p)'
  BY <1>6, SMTT(30) DEF RecoverRecognized
<1>7. ASSUME NEW r \in Run, RecoverConflict(p, r)
      PROVE  Parted' /\ Shaped(p)'
  BY <1>7, SMTT(30) DEF RecoverConflict
<1>8. CASE RecoverStage(p)
  BY <1>8, SMTT(30) DEF RecoverStage
<1>9. CASE RecoverExchange(p)
  <2>1. want[p] = Missing \/ Recov(run[p]) = want[p]
    BY <1>9 DEF RecoverExchange, Restoring
  <2> QED
    BY <1>9, <2>1, SMTT(30) DEF RecoverExchange
<1>10. CASE RecoverVerified(p)
  BY <1>10, SMTT(30) DEF RecoverVerified
<1>11. CASE RecoverRaced(p)
  BY <1>11, SMTT(30) DEF RecoverRaced
<1>12. CASE RecoverUndo(p)
  BY <1>12, SMTT(30) DEF RecoverUndo
<1>13. CASE RecoverBlocked(p)
  BY <1>13, SMTT(30) DEF RecoverBlocked
<1>14. CASE RecoverUnstage(p)
  BY <1>14, SMTT(30) DEF RecoverUnstage
<1>15. CASE RecoverArchive(p)
  BY <1>15, SMTT(30) DEF RecoverArchive
<1>16. CASE CleanStaged(p)
  BY <1>16, SMTT(30) DEF CleanStaged
<1>17. CASE CleanCopy(p)
  BY <1>17, SMTT(30) DEF CleanCopy
<1>18. CASE CleanBackup(p)
  BY <1>18, SMTT(30) DEF CleanBackup
<1>19. CASE CleanTemp(p)
  BY <1>19, SMTT(30) DEF CleanTemp
<1>20. CASE CleanRecovery(p)
  BY <1>20, SMTT(30) DEF CleanRecovery
<1>21. CASE CleanJournal(p)
  BY <1>21, SMTT(30) DEF CleanJournal
<1>22. CASE CleanPending(p)
  BY <1>22, SMTT(30) DEF CleanPending
<1>23. CASE RecoverCommit(p)
  BY <1>23, SMTT(30) DEF RecoverCommit
<1>24. CASE Purge(p)
  BY <1>24, SMTT(30) DEF Purge
<1> QED
  BY <1>1, <1>2, <1>3, <1>4, <1>5, <1>6, <1>7, <1>8, <1>9, <1>10, <1>11,
     <1>12, <1>13, <1>14, <1>15, <1>16, <1>17, <1>18, <1>19, <1>20, <1>21,
     <1>22, <1>23, <1>24
     DEF RecoverStep

\* ... an apply displaces something else than it publishes ...
LEMMA ApplyShape ==
  ASSUME NEW p \in Process, \A r \in Run : RunFiles(r), TypeOK,
         KnownRuns, Journaled(p), Replacing(p),
         Marked(p), Restoring(p), Fresh, Parted, Shaped(p),
         ApplyStep(p)
  PROVE  Parted' /\ Shaped(p)'
<1> USE DEF TypeOK, ArticleOK, JournalOK, DbOK, LocalsOK, Phases,
      Kinds, Owned, Operation
<1> USE DEF Waiting, Locked, Recovering, Applying, Finishing, Keeping,
      Publishing, Restores, Cleans, Keeps
<1> USE DEF At, Goto, Move, Look, Store, Leave, Unlock, Throw, Fail, Conflict,
      Begin, Opened, TakeJournal, RemoveJournal, WritePending, PublishJournal,
      PreserveDisplaced, ArchiveBytes, Swap
<1> USE DEF articleVars, journalVars, archiveVars, projectVars, dbVars,
      localVars, outVars, historyVars, vars
<1> USE DEF KnownRuns, Working, Before, After, Temp, Recov, Committed, Made,
      Displaced, Unexpected, Interrupted, Touched, Exchanged, Exchanging, Ahead
<1> USE DEF Parted, Shaped, Journaled, Replacing, Marked
<1> USE DistinctBytes, DistinctNames
<1>1. CASE ApplyBegin(p)
  BY <1>1, SMTT(30) DEF ApplyBegin
<1>2. ASSUME NEW q \in Proposal, Refuse(p, q)
      PROVE  Parted' /\ Shaped(p)'
  BY <1>2, SMTT(30) DEF Refuse
<1>3. ASSUME NEW q \in Proposal, NEW r \in Run, Validate(p, q, r)
      PROVE  Parted' /\ Shaped(p)'
  <2>1. /\ op[r] = NoOp /\ token[q] = Token
        /\ op' = [op EXCEPT ![r] = [proposal |-> q, before |-> target,
                                    owns |-> copy = Missing]]
        /\ pc' = [pc EXCEPT ![p] = "journal"] /\ run'[p] = r
        /\ UNCHANGED <<articleVars, markers>>
    BY <1>3, SMTT(30) DEF Validate, Applicable
  <2>2. After(r)' = q /\ Before(r)' = target
    BY <2>1
  <2>3. token[q] # NoToken
    BY DistinctNames, <2>1 DEF Token, PreviewToken
  <2>4. target # q
    BY <2>1, <2>3 DEF Fresh, NewBytes, Token
  <2>5. r \notin moved /\ \A s \in Run \ {r} : op'[s] = op[s]
    BY <2>1 DEF RunFiles
  <2>6. Parted'
    BY <2>1, <2>2, <2>4, <2>5
  <2> QED
    BY <2>1, <2>2, <2>4, <2>6, SMTT(30)
<1>4. CASE PrepareJournal(p)
  BY <1>4, SMTT(30) DEF PrepareJournal
<1>5. CASE PrepareBackup(p)
  BY <1>5, SMTT(30) DEF PrepareBackup
<1>6. CASE PrepareCopy(p)
  BY <1>6, SMTT(30) DEF PrepareCopy
<1>7. CASE PublishCopy(p)
  BY <1>7, SMTT(30) DEF PublishCopy
<1>8. CASE StageArticle(p)
  BY <1>8, SMTT(30) DEF StageArticle
<1>9. CASE Recheck(p)
  BY <1>9, SMTT(30) DEF Recheck
<1>10. CASE MarkReplacing(p)
  BY <1>10, SMTT(30) DEF MarkReplacing
<1>11. CASE ReplaceArticle(p)
  BY <1>11, SMTT(30) DEF ReplaceArticle
<1>12. CASE VerifyReplaced(p)
  BY <1>12, SMTT(30) DEF VerifyReplaced
<1>13. CASE MarkReplaced(p)
  BY <1>13, SMTT(30) DEF MarkReplaced
<1>14. CASE FinalCheck(p)
  BY <1>14, SMTT(30) DEF FinalCheck
<1>15. CASE ApplyBlocked(p)
  BY <1>15, SMTT(30) DEF ApplyBlocked
<1>16. CASE Commit(p)
  BY <1>16, SMTT(30) DEF Commit
<1>17. CASE CleanupBegin(p)
  BY <1>17, SMTT(30) DEF CleanupBegin
<1>18. CASE FinishArchive(p)
  BY <1>18, SMTT(30) DEF FinishArchive
<1>19. CASE FinishTemp(p)
  BY <1>19, SMTT(30) DEF FinishTemp
<1>20. CASE FinishJournal(p)
  BY <1>20, SMTT(30) DEF FinishJournal
<1>21. CASE FinishCommit(p)
  BY <1>21, SMTT(30) DEF FinishCommit
<1> QED
  BY <1>1, <1>2, <1>3, <1>4, <1>5, <1>6, <1>7, <1>8, <1>9, <1>10, <1>11,
     <1>12, <1>13, <1>14, <1>15, <1>16, <1>17, <1>18, <1>19, <1>20, <1>21
     DEF ApplyStep

\* ... and keep does neither.
LEMMA KeepShape ==
  ASSUME NEW p \in Process, \A r \in Run : RunFiles(r), TypeOK,
         KnownRuns, Journaled(p), Replacing(p),
         Marked(p), Restoring(p), Fresh, Parted, Shaped(p),
         KeepStep(p)
  PROVE  Parted' /\ Shaped(p)'
<1> USE DEF TypeOK, ArticleOK, JournalOK, DbOK, LocalsOK, Phases,
      Kinds, Owned, Operation
<1> USE DEF Waiting, Locked, Recovering, Applying, Finishing, Keeping,
      Publishing, Restores, Cleans, Keeps
<1> USE DEF At, Goto, Move, Look, Store, Leave, Unlock, Throw, Fail, Conflict,
      Begin, Opened, TakeJournal, RemoveJournal, WritePending, PublishJournal,
      PreserveDisplaced, ArchiveBytes, Swap
<1> USE DEF articleVars, journalVars, archiveVars, projectVars, dbVars,
      localVars, outVars, historyVars, vars
<1> USE DEF KnownRuns, Working, Before, After, Temp, Recov, Committed, Made,
      Displaced, Unexpected, Interrupted, Touched, Exchanged, Exchanging, Ahead
<1> USE DEF Parted, Shaped, Journaled, Replacing, Marked
<1> USE DistinctBytes, DistinctNames
<1>1. CASE KeepBegin(p)
  BY <1>1, SMTT(30) DEF KeepBegin
<1>2. ASSUME NEW r \in Run, KeepJournal(p, r)
      PROVE  Parted' /\ Shaped(p)'
  BY <1>2, SMTT(30) DEF KeepJournal
<1>3. CASE KeepTarget(p)
  BY <1>3, SMTT(30) DEF KeepTarget
<1>4. CASE KeepDisplaced(p)
  BY <1>4, SMTT(30) DEF KeepDisplaced
<1>5. CASE KeepManifest(p)
  BY <1>5, SMTT(30) DEF KeepManifest
<1>6. CASE KeepTemp(p)
  BY <1>6, SMTT(30) DEF KeepTemp
<1>7. CASE KeepSource(p)
  BY <1>7, SMTT(30) DEF KeepSource
<1>8. CASE KeepRecovery(p)
  BY <1>8, SMTT(30) DEF KeepRecovery
<1>9. CASE KeepRemoveJournal(p)
  BY <1>9, SMTT(30) DEF KeepRemoveJournal
<1>10. CASE KeepCommit(p)
  BY <1>10, SMTT(30) DEF KeepCommit
<1> QED
  BY <1>1, <1>2, <1>3, <1>4, <1>5, <1>6, <1>7, <1>8, <1>9, <1>10
     DEF KeepStep

\* A command that dies or fails leaves the article and the database alone, and
\* of its run a prefix, or nothing, of the file it was staging.
LEMMA FaultLeaves ==
  ASSUME TypeOK, NEW p \in Process, Crash(p) \/ IoFailure(p)
  PROVE  /\ UNCHANGED <<target, copy, moved, journal, op, manifests, status, token,
                       markers, lastOp, digest, unsaved, due>>
         /\ pc'[p] \in {"idle", "reopen"} /\ kind'[p] = "open"
         /\ want' = [want EXCEPT ![p] = Missing]
         /\ \A r \in Run :
              /\ \/ Temp(r)' = Temp(r)
                 \/ r = run[p] /\ pc[p] = "stage" /\ Temp(r)' \in {Torn, Missing}
              /\ \/ Recov(r)' = Recov(r)
                 \/ /\ r = run[p] /\ pc[p] = "recover_stage"
                    /\ Recov(r)' \in {Torn, Missing}
<1>1. /\ UNCHANGED <<target, copy, moved, journal, op, manifests, status, token,
                    markers, lastOp, digest, unsaved, due>>
      /\ own' = own \/ TornWrite(p)
  BY DEF Crash, IoFailure, Fault, TornWrite, TornArchive, articleVars,
     journalVars, dbVars
<1>2. /\ pc'[p] \in {"idle", "reopen"} /\ kind'[p] = "open"
      /\ want' = [want EXCEPT ![p] = Missing]
  BY DEF Crash, IoFailure, Throw, Leave, Goto, TypeOK, LocalsOK
<1>3. CASE own' = own
  BY <1>1, <1>2, <1>3 DEF Temp, Recov
<1>4. CASE TornWrite(p)
  <2>1. PICK left \in {Torn, Missing} :
          own' = [own EXCEPT ![TornFile[pc[p]]][run[p]] = left]
    BY <1>4 DEF TornWrite
  <2>2. CASE pc[p] = "stage"
    BY <1>1, <1>2, <2>1, <2>2
    DEF TornFile, TypeOK, ArticleOK, Owned, Temp, Recov
  <2>3. CASE pc[p] = "recover_stage"
    BY <1>1, <1>2, <2>1, <2>3
    DEF TornFile, TypeOK, ArticleOK, Owned, Temp, Recov
  <2>4. CASE pc[p] \in {"backup", "copy"}
    BY <1>1, <1>2, <2>1, <2>4
    DEF TornFile, TypeOK, ArticleOK, Owned, Temp, Recov
  <2> QED
    BY <1>4, <2>2, <2>3, <2>4 DEF TornWrite, TornFile
<1> QED
  BY <1>1, <1>3, <1>4

\* A prefix left by a fault, or an absence, is nobody's bytes.
LEMMA OtherShape ==
  ASSUME NEW p \in Process, TypeOK, KnownRuns, Fresh, Parted, Shaped(p),
         \/ \E k \in Commands : Open(p, k)
         \/ BusyTimeout(p) \/ Crash(p) \/ IoFailure(p)
  PROVE  Fresh' /\ Parted' /\ Shaped(p)'
<1> USE DEF TypeOK, ArticleOK, JournalOK, DbOK, LocalsOK, Phases,
      Kinds, Owned, Operation
<1> USE DEF Waiting, Locked, Recovering, Applying, Finishing, Keeping,
      Publishing, Restores, Cleans, Keeps
<1> USE DEF At, Goto, Move, Look, Store, Leave, Unlock, Throw, Fail, Conflict,
      Begin, Opened, TakeJournal, RemoveJournal, WritePending, PublishJournal,
      PreserveDisplaced, ArchiveBytes, Swap
<1> USE DEF articleVars, journalVars, archiveVars, projectVars, dbVars,
      localVars, outVars, historyVars, vars
<1> USE DEF KnownRuns, Working, Before, After, Temp, Recov, Committed, Made,
      Displaced, Unexpected, Interrupted, Touched, Exchanged, Exchanging, Ahead
<1> USE DEF NewBytes, Fresh, Parted, Shaped
<1> USE DistinctBytes, DistinctNames
<1>1. ASSUME NEW k \in Commands, Open(p, k)
      PROVE  Fresh' /\ Parted' /\ Shaped(p)'
  BY <1>1, SMTT(30) DEF Open
<1>2. CASE BusyTimeout(p)
  BY <1>2, SMTT(30) DEF BusyTimeout
<1>3. CASE Crash(p) \/ IoFailure(p)
  BY <1>3, FaultLeaves, SMTT(30)
<1> QED
  BY <1>1, <1>2, <1>3

\* What an editor writes is nowhere yet.
LEMMA EditorShape ==
  ASSUME TypeOK, KnownRuns, Unwritten, Shape, Editor, \A r \in Run :
         RunFiles(r),
         \A p \in Process : Replacing(p)
  PROVE  Shape'
<1> USE DEF TypeOK, ArticleOK, JournalOK, DbOK, LocalsOK, Phases,
      Kinds, Owned, Operation
<1> USE DEF Waiting, Locked, Recovering, Applying, Finishing, Keeping,
      Publishing, Restores, Cleans, Keeps
<1> USE DEF At, Goto, Move, Look, Store, Leave, Unlock, Throw, Fail, Conflict,
      Begin, Opened, TakeJournal, RemoveJournal, WritePending, PublishJournal,
      PreserveDisplaced, ArchiveBytes, Swap
<1> USE DEF articleVars, journalVars, archiveVars, projectVars, dbVars,
      localVars, outVars, historyVars, vars
<1> USE DEF KnownRuns, Working, Before, After, Temp, Recov, Committed, Made,
      Displaced, Unexpected, Interrupted, Touched, Exchanged, Exchanging, Ahead
<1> USE DEF Shape, NewBytes, Fresh, Parted, Shaped, Unwritten, Edit
<1> USE DistinctBytes, DistinctNames
<1>1. ASSUME NEW v \in Save, EditorSave(v)
      PROVE  Shape'
  BY <1>1, SMTT(30) DEF EditorSave
<1>2. ASSUME NEW v \in Save, EditorDelete(v)
      PROVE  Shape'
  BY <1>2, SMTT(30) DEF EditorDelete
<1>3. ASSUME NEW v \in Save, EditorReplaceCopy(v)
      PROVE  Shape'
  BY <1>3, SMTT(30) DEF EditorReplaceCopy
<1>4. ASSUME NEW v \in Save, NEW s \in Run, EditorWriteDisplaced(v, s)
      PROVE  Shape'
  BY <1>4, SMTT(30) DEF EditorWriteDisplaced, RunFiles, Replacing
<1> QED
  BY <1>1, <1>2, <1>3, <1>4 DEF Editor

\* A reviewer sees the article of a proposal whose bytes are nowhere.
LEMMA ApproveShape ==
  ASSUME TypeOK, Shape, NEW q \in Proposal, Approve(q)
  PROVE  Shape'
<1>1. /\ UNCHANGED <<projectVars, markers, pc, run, want>>
      /\ status[q] = "pending"
      /\ status' = [status EXCEPT ![q] = "approved"]
      /\ token' = [token EXCEPT ![q] = Token]
  BY DEF Approve, dbVars, localVars
<1>2. Parted' /\ \A p \in Process : Shaped(p)'
  BY <1>1 DEF Shape, projectVars, articleVars, journalVars, Parted, Shaped,
     Before,
     After, Temp, Recov, Touched, Unexpected, Interrupted, Committed
<1>3. Fresh'
  BY <1>1, SMTT(30) DEF projectVars, articleVars, journalVars, Shape, Fresh,
     NewBytes, Before,
     After, Temp, Recov, TypeOK, DbOK, Token
<1> QED
  BY <1>2, <1>3 DEF Shape

\* Every step keeps the shape of what commands replace and restore.
LEMMA StepShape ==
  ASSUME OneCommand, Durable, Shape, [Next]_vars
  PROVE  Shape'
<1>1. /\ TypeOK /\ KnownRuns /\ Reviewed /\ Fresh /\ Parted /\ Unwritten
      /\ \A r \in Run : RunFiles(r)
      /\ \A n \in Proposal : NewBytes(n)
      /\ \A p \in Process : /\ Journaled(p) /\ Replacing(p) /\ Marked(p)
                            /\ Restoring(p) /\ Shaped(p)
  BY DEF Durable, WriterInvariant, Files, Saved, Shape, Fresh
<1>2. ASSUME NEW p \in Process, Fresh' /\ Parted' /\ Shaped(p)'
      PROVE  Shape'
  BY <1>2 DEF OneCommand, Shape
<1>3. ASSUME NEW p \in Process, Step(p) \/ (\E k \in Commands : Open(p, k))
                               \/ Crash(p) \/ IoFailure(p)
      PROVE  Shape'
  <2>1. CASE RecoverStep(p)
    BY <1>1, <1>2, <2>1, RecoverFresh, RecoverShape DEF Fresh
  <2>2. CASE ApplyStep(p)
    BY <1>1, <1>2, <2>2, ApplyFresh, ApplyShape DEF Fresh
  <2>3. CASE KeepStep(p)
    BY <1>1, <1>2, <2>3, KeepFresh, KeepShape DEF Fresh
  <2> QED
    BY <1>1, <1>2, <1>3, <2>1, <2>2, <2>3, OtherShape DEF Step
<1>4. CASE Editor \/ (\E q \in Proposal : Approve(q))
  BY <1>1, <1>4, EditorShape, ApproveShape
<1>5. CASE UNCHANGED vars
  BY <1>1, <1>5 DEF vars, projectVars, articleVars, journalVars, dbVars,
     localVars, Shape, Fresh, NewBytes, Parted, Shaped, Before, After, Temp,
     Recov, Touched, Unexpected, Interrupted, Committed
<1> QED
  BY <1>3, <1>4, <1>5 DEF Next

----------------------------------------------------------------------------
\* What an interrupted apply displaced, if recovery can still act on it, and
\* the article otherwise, are what the last save or commit left.
Recovers ==
  \A r \in Run : Interrupted(r) /\ Recoverable(r) => Displaced(r) \in due
Stands == (\A r \in Run : ~Interrupted(r)) => target \in due

\* ... and so is the article within a command, unless it holds the bytes of
\* the run, or is about to be traded for what is due.
DueAt(p) ==
  LET r == run[p] IN
  /\ pc[p] \in Ahead \cup {"recover_unstage"} \cup Cleans => target \in due
  /\ pc[p] \in Exchanged => target = After(r) \/ target \in due
  /\ pc[p] \in {"recover_stage", "recover_exchange"} =>
       IF target = After(r) THEN want[p] \in due /\ Displaced(r) \in due
       ELSE target \in due
  /\ pc[p] = "recover_verify" /\ Recov(r) = After(r) => target \in due
Rightful(p) == manifests = {} => Recovers /\ Stands /\ DueAt(p)
Due == manifests = {} => Recovers /\ Stands /\ \A p \in Process : DueAt(p)

\* Recovery puts back what is due, or leaves it ...
LEMMA RecoverDue ==
  ASSUME NEW p \in Process, TypeOK, KnownRuns, Reviewed, OneJournal,
         Covered(p), \A r \in Run : RunFiles(r), Journaled(p),
         Replacing(p), Marked(p), Restoring(p), Parted, Shaped(p), Rightful(p),
         RecoverStep(p)
  PROVE  Rightful(p)'
<1> USE DEF TypeOK, ArticleOK, JournalOK, DbOK, LocalsOK, Phases,
      Kinds, Owned, Operation
<1> USE DEF Waiting, Locked, Recovering, Applying, Finishing, Keeping,
      Publishing, Restores, Cleans, Keeps
<1> USE DEF At, Goto, Move, Look, Store, Leave, Unlock, Throw, Fail, Conflict,
      Begin, Opened, TakeJournal, RemoveJournal, WritePending, PublishJournal,
      PreserveDisplaced, ArchiveBytes, Swap
<1> USE DEF articleVars, journalVars, archiveVars, projectVars, dbVars,
      localVars, outVars, historyVars, vars
<1> USE DEF Journals, OneJournal, KnownRuns, Working, Before, After, Temp,
    Recov,
      Committed, Made, Displaced, Unexpected, Interrupted, Touched,
      KnownRecovery, Recoverable, Exchanged, Exchanging, Ahead
<1> USE DEF Rightful, Recovers, Stands, DueAt, Parted, Shaped, Covered,
      Journaled, Replacing, Marked
<1> USE DistinctBytes, DistinctNames
<1>1. CASE RecoverBegin(p)
  BY <1>1, SMTT(30) DEF RecoverBegin
<1>2. ASSUME NEW r \in Run, RecoverGone(p, r)
      PROVE  Rightful(p)'
  BY <1>2, SMTT(30) DEF RecoverGone
<1>3. ASSUME NEW r \in Run, RecoverCommitted(p, r)
      PROVE  Rightful(p)'
  BY <1>3, SMTT(30) DEF RecoverCommitted
<1>4. ASSUME NEW r \in Run, RecoverPrepared(p, r)
      PROVE  Rightful(p)'
  BY <1>4, SMTT(30) DEF RecoverPrepared
<1>5. ASSUME NEW r \in Run, RecoverReplaced(p, r)
      PROVE  Rightful(p)'
  BY <1>5, SMTT(30) DEF RecoverReplaced
<1>6. ASSUME NEW r \in Run, RecoverRecognized(p, r)
      PROVE  Rightful(p)'
  BY <1>6, SMTT(30) DEF RecoverRecognized
<1>7. ASSUME NEW r \in Run, RecoverConflict(p, r)
      PROVE  Rightful(p)'
  BY <1>7, SMTT(30) DEF RecoverConflict
<1>8. CASE RecoverStage(p)
  BY <1>8, SMTT(30) DEF RecoverStage
<1>9. CASE RecoverExchange(p)
  <2>0. PICK r \in Run : run[p] = r
    BY <1>9 DEF RecoverExchange
  <2>1. /\ op[r] # NoOp /\ Interrupted(r) /\ target # Missing
        /\ want[p] = Missing \/ Recov(r) = want[p]
        /\ want[p] = Missing => Recov(r) = Missing
    BY <1>9, <2>0, SMTT(30) DEF RecoverExchange, Restoring
  <2>2. /\ pc'[p] = "recover_verify" /\ run'[p] = r
        /\ target' = Recov(r) /\ Recov(r)' = target
        /\ UNCHANGED <<journal, op, markers, manifests, due, own["temp"]>>
    BY <1>9, <2>0, SMTT(30) DEF RecoverExchange
  <2>3. \A s \in Run : Interrupted(s)' => s = r
    BY <2>1, <2>2, SMTT(30)
  <2>4. Interrupted(r)' /\ Displaced(r)' = Displaced(r) /\ After(r)' = After(r)
    BY <2>1, <2>2
  <2>5. ASSUME manifests = {}, target = After(r) PROVE Rightful(p)'
    <3>1. want[p] \in due /\ Displaced(r) \in due
      BY <1>9, <2>0, <2>5 DEF RecoverExchange
    <3>2. target' \in due
      BY <2>0, <2>1, <2>2, <3>1
    <3> HIDE DEF Interrupted, Displaced, Recoverable, After, Recov
    <3> QED
      BY <2>2, <2>3, <2>4, <3>1, <3>2
  <2>6. ASSUME target # After(r) PROVE Rightful(p)'
    <3>1. target \notin {Before(r), Temp(r)}
      BY <1>9, <2>0, <2>1, <2>6 DEF RecoverExchange
    <3>2. Recov(r)' \notin {Missing, After(r), Displaced(r)}
      BY <2>1, <2>2, <2>6, <3>1
    <3>3. ~Recoverable(r)'
      BY ONLY <2>4, <3>2 DEF Recoverable, KnownRecovery
    <3> HIDE DEF Interrupted, Displaced, Recoverable, After, Recov
    <3>4. Recovers' /\ Stands'
      BY <2>3, <2>4, <3>3
    <3>5. Recov(r)' # After(r)'
      BY <2>4, <3>2
    <3> QED
      BY <2>2, <3>4, <3>5
  <2> QED
    BY <2>2, <2>5, <2>6
<1>10. CASE RecoverVerified(p)
  BY <1>10, SMTT(30) DEF RecoverVerified
<1>11. CASE RecoverRaced(p)
  BY <1>11, SMTT(30) DEF RecoverRaced
<1>12. CASE RecoverUndo(p)
  BY <1>12, SMTT(60) DEF RecoverUndo
<1>13. CASE RecoverBlocked(p)
  BY <1>13, SMTT(30) DEF RecoverBlocked
<1>14. CASE RecoverUnstage(p)
  BY <1>14, SMTT(30) DEF RecoverUnstage
<1>15. CASE RecoverArchive(p)
  <2>1. /\ UNCHANGED <<target, own, journal, op, markers, manifests, due>>
        /\ pc[p] = "recover_archive"
        /\ pc'[p] \in {"clean_staged", "idle", "reopen"}
    BY <1>15, SMTT(30) DEF RecoverArchive
  <2> QED
    BY <2>1, SMTT(30)
<1>16. CASE CleanStaged(p)
  BY <1>16, SMTT(30) DEF CleanStaged
<1>17. CASE CleanCopy(p)
  BY <1>17, SMTT(30) DEF CleanCopy
<1>18. CASE CleanBackup(p)
  BY <1>18, SMTT(30) DEF CleanBackup
<1>19. CASE CleanTemp(p)
  BY <1>19, SMTT(30) DEF CleanTemp
<1>20. CASE CleanRecovery(p)
  BY <1>20, SMTT(30) DEF CleanRecovery
<1>21. CASE CleanJournal(p)
  BY <1>21, SMTT(30) DEF CleanJournal
<1>22. CASE CleanPending(p)
  BY <1>22, SMTT(30) DEF CleanPending
<1>23. CASE RecoverCommit(p)
  BY <1>23, SMTT(30) DEF RecoverCommit
<1>24. CASE Purge(p)
  BY <1>24, SMTT(30) DEF Purge
<1> QED
  BY <1>1, <1>2, <1>3, <1>4, <1>5, <1>6, <1>7, <1>8, <1>9, <1>10, <1>11,
     <1>12, <1>13, <1>14, <1>15, <1>16, <1>17, <1>18, <1>19, <1>20, <1>21,
     <1>22, <1>23, <1>24
     DEF RecoverStep

\* ... an apply displaces it and commits what is due then ...
LEMMA ApplyDue ==
  ASSUME NEW p \in Process, TypeOK, KnownRuns, Reviewed, OneJournal,
         Covered(p), \A r \in Run : RunFiles(r), Journaled(p),
         Replacing(p), Marked(p), Restoring(p), Parted, Shaped(p), Rightful(p),
         ApplyStep(p)
  PROVE  Rightful(p)'
<1> USE DEF TypeOK, ArticleOK, JournalOK, DbOK, LocalsOK, Phases,
      Kinds, Owned, Operation
<1> USE DEF Waiting, Locked, Recovering, Applying, Finishing, Keeping,
      Publishing, Restores, Cleans, Keeps
<1> USE DEF At, Goto, Move, Look, Store, Leave, Unlock, Throw, Fail, Conflict,
      Begin, Opened, TakeJournal, RemoveJournal, WritePending, PublishJournal,
      PreserveDisplaced, ArchiveBytes, Swap
<1> USE DEF articleVars, journalVars, archiveVars, projectVars, dbVars,
      localVars, outVars, historyVars, vars
<1> USE DEF Journals, OneJournal, KnownRuns, Working, Before, After, Temp,
    Recov,
      Committed, Made, Displaced, Unexpected, Interrupted, Touched,
      KnownRecovery, Recoverable, Exchanged, Exchanging, Ahead
<1> USE DEF Rightful, Recovers, Stands, DueAt, Parted, Shaped, Covered,
      Journaled, Replacing, Marked
<1> USE DistinctBytes, DistinctNames
<1>1. CASE ApplyBegin(p)
  BY <1>1, SMTT(30) DEF ApplyBegin
<1>2. ASSUME NEW q \in Proposal, Refuse(p, q)
      PROVE  Rightful(p)'
  BY <1>2, SMTT(30) DEF Refuse
<1>3. ASSUME NEW q \in Proposal, NEW r \in Run, Validate(p, q, r)
      PROVE  Rightful(p)'
  BY <1>3, SMTT(30) DEF Validate
<1>4. CASE PrepareJournal(p)
  BY <1>4, SMTT(30) DEF PrepareJournal
<1>5. CASE PrepareBackup(p)
  BY <1>5, SMTT(30) DEF PrepareBackup
<1>6. CASE PrepareCopy(p)
  BY <1>6, SMTT(30) DEF PrepareCopy
<1>7. CASE PublishCopy(p)
  BY <1>7, SMTT(30) DEF PublishCopy
<1>8. CASE StageArticle(p)
  BY <1>8, SMTT(30) DEF StageArticle
<1>9. CASE Recheck(p)
  BY <1>9, SMTT(30) DEF Recheck
<1>10. CASE MarkReplacing(p)
  BY <1>10, SMTT(30) DEF MarkReplacing
<1>11. CASE ReplaceArticle(p)
  <2>0. PICK r \in Run : run[p] = r
    BY <1>11 DEF ReplaceArticle
  <2>1. /\ op[r] # NoOp /\ journal[r] # "none"
        /\ target # After(r) /\ Temp(r) = After(r)
        /\ (target = Missing <=> Before(r) = Missing)
        /\ manifests = {} => target \in due
    BY <1>11, <2>0, SMTT(30) DEF ReplaceArticle, Replaceable
  <2>2. /\ pc'[p] = "verify" /\ run'[p] = r
        /\ target' = After(r) /\ Temp(r)' = target
        /\ UNCHANGED <<journal, op, markers, manifests, due>>
    BY <1>11, <2>0, SMTT(30) DEF ReplaceArticle
  <2>3. Displaced(r)' = target /\ After(r)' = After(r)
    BY <2>1, <2>2
  <2>4. \A s \in Run : Interrupted(s)' => s = r
    BY <2>1, <2>2, SMTT(30)
  <2>5. Interrupted(r)'
    BY <1>11, <2>0, <2>1, <2>2, SMTT(30) DEF ReplaceArticle, Reviewed
  <2> HIDE DEF Interrupted, Displaced, Recoverable, After, Recov
  <2> QED
    BY <2>1, <2>2, <2>3, <2>4, <2>5
<1>12. CASE VerifyReplaced(p)
  BY <1>12, SMTT(30) DEF VerifyReplaced
<1>13. CASE MarkReplaced(p)
  BY <1>13, SMTT(30) DEF MarkReplaced
<1>14. CASE FinalCheck(p)
  BY <1>14, SMTT(30) DEF FinalCheck
<1>15. CASE ApplyBlocked(p)
  BY <1>15, SMTT(60) DEF ApplyBlocked
<1>16. CASE Commit(p)
  BY <1>16, SMTT(30) DEF Commit
<1>17. CASE CleanupBegin(p)
  BY <1>17, SMTT(30) DEF CleanupBegin
<1>18. CASE FinishArchive(p)
  <2>1. /\ UNCHANGED <<target, own, journal, op, markers, manifests, due>>
        /\ pc[p] = "finish" /\ pc'[p] \in {"finish_temp", "idle", "reopen"}
    BY <1>18, SMTT(30) DEF FinishArchive
  <2> QED
    BY <2>1, SMTT(30)
<1>19. CASE FinishTemp(p)
  BY <1>19, SMTT(30) DEF FinishTemp
<1>20. CASE FinishJournal(p)
  BY <1>20, SMTT(30) DEF FinishJournal
<1>21. CASE FinishCommit(p)
  BY <1>21, SMTT(30) DEF FinishCommit
<1> QED
  BY <1>1, <1>2, <1>3, <1>4, <1>5, <1>6, <1>7, <1>8, <1>9, <1>10, <1>11,
     <1>12, <1>13, <1>14, <1>15, <1>16, <1>17, <1>18, <1>19, <1>20, <1>21
     DEF ApplyStep

\* ... and keep writes its manifest before it gives it up.
LEMMA KeepDue ==
  ASSUME NEW p \in Process, TypeOK, KnownRuns, Reviewed, OneJournal,
         Covered(p), \A r \in Run : RunFiles(r), Journaled(p),
         Replacing(p), Marked(p), Restoring(p), Parted, Shaped(p), Rightful(p),
         KeepStep(p)
  PROVE  Rightful(p)'
<1> USE DEF TypeOK, ArticleOK, JournalOK, DbOK, LocalsOK, Phases,
      Kinds, Owned, Operation
<1> USE DEF Waiting, Locked, Recovering, Applying, Finishing, Keeping,
      Publishing, Restores, Cleans, Keeps
<1> USE DEF At, Goto, Move, Look, Store, Leave, Unlock, Throw, Fail, Conflict,
      Begin, Opened, TakeJournal, RemoveJournal, WritePending, PublishJournal,
      PreserveDisplaced, ArchiveBytes, Swap
<1> USE DEF articleVars, journalVars, archiveVars, projectVars, dbVars,
      localVars, outVars, historyVars, vars
<1> USE DEF Journals, OneJournal, KnownRuns, Working, Before, After, Temp,
    Recov,
      Committed, Made, Displaced, Unexpected, Interrupted, Touched,
      KnownRecovery, Recoverable, Exchanged, Exchanging, Ahead
<1> USE DEF Rightful, Recovers, Stands, DueAt, Parted, Shaped, Covered,
      Journaled, Replacing, Marked
<1> USE DistinctBytes, DistinctNames
<1>1. CASE KeepBegin(p)
  BY <1>1, SMTT(30) DEF KeepBegin
<1>2. ASSUME NEW r \in Run, KeepJournal(p, r)
      PROVE  Rightful(p)'
  BY <1>2, SMTT(30) DEF KeepJournal
<1>3. CASE KeepTarget(p)
  BY <1>3, SMTT(30) DEF KeepTarget
<1>4. CASE KeepDisplaced(p)
  BY <1>4, SMTT(30) DEF KeepDisplaced
<1>5. CASE KeepManifest(p)
  BY <1>5, SMTT(30) DEF KeepManifest
<1>6. CASE KeepTemp(p)
  BY <1>6, SMTT(30) DEF KeepTemp
<1>7. CASE KeepSource(p)
  BY <1>7, SMTT(30) DEF KeepSource
<1>8. CASE KeepRecovery(p)
  BY <1>8, SMTT(30) DEF KeepRecovery
<1>9. CASE KeepRemoveJournal(p)
  BY <1>9, SMTT(30) DEF KeepRemoveJournal
<1>10. CASE KeepCommit(p)
  BY <1>10, SMTT(30) DEF KeepCommit
<1> QED
  BY <1>1, <1>2, <1>3, <1>4, <1>5, <1>6, <1>7, <1>8, <1>9, <1>10
     DEF KeepStep

\* A command that stops leaves what is due where recovery finds it.
LEMMA OtherDue ==
  ASSUME NEW p \in Process, TypeOK, KnownRuns, OneJournal, Covered(p),
         \A r \in Run : RunFiles(r), Journaled(p), Replacing(p), Marked(p),
         Parted, Shaped(p), Rightful(p),
         \/ \E k \in Commands : Open(p, k)
         \/ BusyTimeout(p) \/ Crash(p) \/ IoFailure(p)
  PROVE  Rightful(p)'
<1> USE DEF TypeOK, ArticleOK, JournalOK, DbOK, LocalsOK, Phases,
      Kinds, Owned, Operation
<1> USE DEF Waiting, Locked, Recovering, Applying, Finishing, Keeping,
      Publishing, Restores, Cleans, Keeps
<1> USE DEF At, Goto, Move, Look, Store, Leave, Unlock, Throw, Fail, Conflict,
      Begin, Opened, TakeJournal, RemoveJournal, WritePending, PublishJournal,
      PreserveDisplaced, ArchiveBytes, Swap
<1> USE DEF articleVars, journalVars, archiveVars, projectVars, dbVars,
      localVars, outVars, historyVars, vars
<1> USE DEF Journals, OneJournal, KnownRuns, Working, Before, After, Temp,
    Recov,
      Committed, Made, Displaced, Unexpected, Interrupted, Touched,
      KnownRecovery, Recoverable, Exchanged, Exchanging, Ahead
<1> USE DEF Rightful, Recovers, Stands, DueAt, Parted, Shaped, Covered,
      Journaled, Replacing, Marked
<1> USE DistinctBytes, DistinctNames
<1>1. ASSUME NEW k \in Commands, Open(p, k)
      PROVE  Rightful(p)'
  BY <1>1, SMTT(30) DEF Open
<1>2. CASE BusyTimeout(p)
  BY <1>2, SMTT(30) DEF BusyTimeout
<1>3. CASE Crash(p) \/ IoFailure(p)
  BY <1>3, FaultLeaves, SMTT(30)
<1> QED
  BY <1>1, <1>2, <1>3

\* What an editor writes to the article is due, and so is what it writes to
\* the displaced file that recovery would put back.
LEMMA EditorDue ==
  ASSUME TypeOK, KnownRuns, OneJournal, Files, Unwritten, Shape, Due, Editor,
         \A p \in Process : Covered(p)
  PROVE  Due'
<1> USE DEF TypeOK, ArticleOK, JournalOK, DbOK, LocalsOK, Phases,
      Kinds, Owned, Operation
<1> USE DEF Waiting, Locked, Recovering, Applying, Finishing, Keeping,
      Publishing, Restores, Cleans, Keeps
<1> USE DEF At, Goto, Move, Look, Store, Leave, Unlock, Throw, Fail, Conflict,
      Begin, Opened, TakeJournal, RemoveJournal, WritePending, PublishJournal,
      PreserveDisplaced, ArchiveBytes, Swap
<1> USE DEF articleVars, journalVars, archiveVars, projectVars, dbVars,
      localVars, outVars, historyVars, vars
<1> USE DEF Journals, OneJournal, KnownRuns, Working, Before, After, Temp,
    Recov,
      Committed, Made, Displaced, Unexpected, Interrupted, Touched,
      KnownRecovery, Recoverable, Exchanged, Exchanging, Ahead
<1> USE DEF Due, Recovers, Stands, DueAt, Shape, Parted, Shaped, Covered,
      Journaled, Replacing, Marked, Unwritten, Edit, Files, RunFiles
<1> USE DistinctBytes, DistinctNames
<1>1. ASSUME NEW v \in Save, EditorSave(v)
      PROVE  Due'
  BY <1>1, SMTT(30) DEF EditorSave
<1>2. ASSUME NEW v \in Save, EditorDelete(v)
      PROVE  Due'
  BY <1>2, SMTT(30) DEF EditorDelete
<1>3. ASSUME NEW v \in Save, EditorReplaceCopy(v)
      PROVE  Due'
  BY <1>3, SMTT(30) DEF EditorReplaceCopy
<1>4. ASSUME NEW v \in Save, NEW s \in Run, EditorWriteDisplaced(v, s)
      PROVE  Due'
  <2>1. /\ s \in moved /\ Temp(s) # Missing /\ v \in unsaved
        /\ Temp(s)' = v
        /\ UNCHANGED <<target, own["recov"], journal, op, markers, manifests, pc,
                      run, want>>
    BY <1>4, SMTT(30) DEF EditorWriteDisplaced
  <2>2. /\ journal[s] # "none" /\ \A t \in Journals : t = s
        /\ Interrupted(s) \/ Committed(s)
        /\ op[s] # NoOp /\ Temp(s) # After(s)
    BY <2>1, SMTT(30) DEF NoOrphans
  <2>3. v \notin {target, After(s), Missing} /\ Recov(s) # v
    BY <1>4, <2>1
  <2>4. \A t \in Run : Interrupted(t)' => t = s /\ Interrupted(s)
    BY <2>1, <2>2, SMTT(30)
  <2>5. ASSUME NEW x \in due, Observable(s) => x # Temp(s) PROVE x \in due'
    BY <1>4, <2>5 DEF EditorWriteDisplaced
  <2>6. Interrupted(s) => Displaced(s) = Temp(s) /\ Displaced(s)' = v
    BY <2>1, <2>2, <2>3
  <2>7. Interrupted(s) /\ Displaced(s) \in due => v \in due'
    BY <1>4, <2>6 DEF EditorWriteDisplaced
  <2> SUFFICES ASSUME manifests = {} PROVE Due'
    BY <2>1
  <2>8. Recovers'
    <3> SUFFICES ASSUME Interrupted(s), Recoverable(s)' PROVE v \in due'
      BY <2>4, <2>6
    <3>1. Recoverable(s)
      BY <2>1, <2>3, <2>6
    <3> QED
      BY <2>7, <3>1
  <2>9. Stands'
    <3>1. CASE Interrupted(s)
      BY <2>1, <3>1
    <3>2. CASE Committed(s)
      <4>1. target \in due
        BY <2>2, <3>2
      <4>2. due' = due
        BY <1>4, <3>2 DEF EditorWriteDisplaced
      <4> QED
        BY <2>1, <4>1, <4>2
    <3> QED
      BY <2>2, <3>1, <3>2
  <2>10. ASSUME NEW p \in Process PROVE DueAt(p)'
    <3>1. pc[p] \notin Ahead
      BY <2>1, <2>2, SMTT(30)
    <3>2. pc[p] \in Exchanged \cup Restores \cup Cleans => run[p] = s
      BY <2>2, SMTT(30)
    <3>3. pc[p] \in Cleans => pc[p] \in Blind
      BY <2>1, <3>2, SMTT(30) DEF Removed, Blind
    <3>4. pc[p] \in Restores \cup Cleans => ~Observable(s)
      BY <3>2, <3>3, SMTT(30) DEF Observable, Blind
    <3>5. pc[p] \in Restores => Interrupted(s)
      BY <2>2, <3>2, SMTT(30)
    <3>6. pc[p] \in Exchanged => target = After(s) \/ target \in due'
      BY <2>1, <2>5, <3>2, SMTT(30)
    <3>7. pc[p] \in {"recover_unstage"} \cup Cleans => target \in due'
      BY <2>5, <3>4, SMTT(30)
    <3>8. pc[p] \in {"recover_stage", "recover_exchange"} =>
            IF target = After(s) THEN want[p] \in due' /\ v \in due'
            ELSE target \in due'
      BY <2>5, <2>7, <3>2, <3>4, <3>5, SMTT(30)
    <3>9. pc[p] = "recover_verify" /\ Recov(s) = After(s) => target \in due'
      BY <2>5, <3>2, <3>4, SMTT(30)
    <3> QED
      BY <2>1, <2>6, <3>1, <3>2, <3>5, <3>6, <3>7, <3>8, <3>9, SMTT(30)
  <2> QED
    BY <2>8, <2>9, <2>10
<1> QED
  BY <1>1, <1>2, <1>3, <1>4 DEF Editor

\* Every step leaves the due bytes in the article, or where recovery puts
\* them back from.
LEMMA StepDue ==
  ASSUME OneCommand, Durable, Sequential, Shape, Due, [Next]_vars
  PROVE  Due'
<1>1. /\ TypeOK /\ KnownRuns /\ Reviewed /\ Files /\ Unwritten
      /\ OneJournal /\ Parted /\ \A r \in Run : RunFiles(r)
      /\ \A p \in Process : /\ Journaled(p) /\ Replacing(p) /\ Marked(p)
                            /\ Covered(p) /\ Restoring(p) /\ Shaped(p)
                            /\ Rightful(p)
  BY DEF Durable, WriterInvariant, Files, Saved, Sequential, Shape, Due,
     Rightful
<1>2. ASSUME NEW p \in Process, Rightful(p)'
      PROVE  Due'
  BY <1>2 DEF OneCommand, Due, Rightful
<1>3. ASSUME NEW p \in Process, Step(p) \/ (\E k \in Commands : Open(p, k))
                               \/ Crash(p) \/ IoFailure(p)
      PROVE  Due'
  BY <1>1, <1>2, <1>3, RecoverDue, ApplyDue, KeepDue, OtherDue DEF Step
<1>4. CASE Editor
  BY <1>1, <1>4, EditorDue
<1>5. CASE (\E q \in Proposal : Approve(q)) \/ UNCHANGED vars
  <2>1. UNCHANGED <<projectVars, markers, pc, run, want, due>>
    BY <1>5 DEF Approve, vars, dbVars, localVars, historyVars, outVars
  <2> QED
    BY <2>1 DEF projectVars, articleVars, journalVars, archiveVars, Due,
       Recovers, Stands, DueAt, Before, After, Temp, Recov, Displaced,
       Interrupted, Committed, KnownRecovery, Recoverable
<1> QED
  BY <1>3, <1>4, <1>5 DEF Next

\* What one command after the other keeps.
Settling == Durable /\ Sequential /\ Shape /\ Due

\* A fresh project is settled,
LEMMA InitSettling == Init => Settling
<1> SUFFICES ASSUME Init PROVE Settling
  OBVIOUS
<1>1. Sequential
  BY SMTT(30) DEF Init, Sequential, OneJournal, Covered, Journals, Publishing,
     Applying, Finishing, Restores, Cleans, Keeps
<1>2. Shape
  BY DistinctBytes, SMTT(30) DEF Init, Shape, Fresh, NewBytes, Parted, Shaped,
     Temp, Recov, Owned, Ahead, Exchanged, Publishing, Applying, Cleans
<1>3. Due
  BY DistinctBytes, SMTT(30) DEF Init, Due, Recovers, Stands, DueAt,
     Interrupted,
     Ahead, Exchanged, Publishing, Applying, Cleans
<1> QED
  BY <1>1, <1>2, <1>3, InitDurable DEF Settling

\* and every step of commands that run one after the other keeps it so.
LEMMA StepSettling ==
  ASSUME OneCommand, Settling, [Next]_vars
  PROVE  Settling'
  BY StepDurable, StepSequential, StepShape, StepDue DEF Settling

\* With no journal left and nothing kept by hand, the article is what the last
\* save or the last commit left, wherever editors, crashes and failures met
\* apply, recovery and keep (file_operation.cpp).
THEOREM ArticleSettles ==
  ASSUME OneCommand
  PROVE  Spec => []Settled
<1>1. Settling => Settled
  BY DEF Settling, Due, Stands, Settled, Journals, Interrupted
<1> QED
  BY <1>1, InitSettling, StepSettling, PTL DEF Spec

----------------------------------------------------------------------------
\* Recovery can be repeated: what it could undo it still can.
Repeats ==
  \A r \in Run :
    /\ Interrupted(r) /\ Recoverable(r) /\ Interrupted(r)'
    /\ ~Unexpected(r) /\ Recov(r)' # Torn
    => Recoverable(r)'

\* Recovery trades the two sides of the exchange, or finds another article ...
LEMMA RecoverRepeats ==
  ASSUME NEW p \in Process, TypeOK, KnownRuns, Reviewed, OneJournal,
         Covered(p), \A r \in Run : RunFiles(r), Journaled(p),
         Replacing(p), Marked(p), Restoring(p), Parted, Shaped(p),
         RecoverStep(p)
  PROVE  Repeats
<1> USE DEF TypeOK, ArticleOK, JournalOK, DbOK, LocalsOK, Phases,
      Kinds, Owned, Operation
<1> USE DEF Waiting, Locked, Recovering, Applying, Finishing, Keeping,
      Publishing, Restores, Cleans, Keeps
<1> USE DEF At, Goto, Move, Look, Store, Leave, Unlock, Throw, Fail, Conflict,
      Begin, Opened, TakeJournal, RemoveJournal, WritePending, PublishJournal,
      PreserveDisplaced, ArchiveBytes, Swap
<1> USE DEF articleVars, journalVars, archiveVars, projectVars, dbVars,
      localVars, outVars, historyVars, vars
<1> USE DEF Journals, OneJournal, KnownRuns, Working, Before, After, Temp,
    Recov,
      Committed, Made, Displaced, Unexpected, Interrupted, Touched,
      KnownRecovery, Recoverable, Exchanged, Exchanging, Ahead
<1> USE DEF Repeats, Parted, Shaped, Covered, Journaled, Replacing, Marked
<1> USE DistinctBytes, DistinctNames
<1>1. CASE RecoverBegin(p)
  BY <1>1, SMTT(30) DEF RecoverBegin
<1>2. ASSUME NEW r \in Run, RecoverGone(p, r)
      PROVE  Repeats
  BY <1>2, SMTT(30) DEF RecoverGone
<1>3. ASSUME NEW r \in Run, RecoverCommitted(p, r)
      PROVE  Repeats
  BY <1>3, SMTT(30) DEF RecoverCommitted
<1>4. ASSUME NEW r \in Run, RecoverPrepared(p, r)
      PROVE  Repeats
  BY <1>4, SMTT(30) DEF RecoverPrepared
<1>5. ASSUME NEW r \in Run, RecoverReplaced(p, r)
      PROVE  Repeats
  BY <1>5, SMTT(30) DEF RecoverReplaced
<1>6. ASSUME NEW r \in Run, RecoverRecognized(p, r)
      PROVE  Repeats
  BY <1>6, SMTT(30) DEF RecoverRecognized
<1>7. ASSUME NEW r \in Run, RecoverConflict(p, r)
      PROVE  Repeats
  BY <1>7, SMTT(30) DEF RecoverConflict
<1>8. CASE RecoverStage(p)
  BY <1>8, SMTT(30) DEF RecoverStage
<1>9. CASE RecoverExchange(p)
  <2>0. PICK r \in Run : run[p] = r
    BY <1>9 DEF RecoverExchange
  <2>1. /\ op[r] # NoOp /\ target # Missing /\ Before(r) # After(r)
        /\ want[p] = Missing \/ Recov(r) = want[p]
        /\ want[p] = Missing => Recov(r) = Missing
        /\ target = After(r) \/ target \notin {Before(r), Temp(r)}
        /\ ~Unexpected(r) => want[p] = Before(r)
    BY <1>9, <2>0, SMTT(30) DEF RecoverExchange, Restoring
  <2>2. /\ target' = Recov(r) /\ Recov(r)' = target
        /\ UNCHANGED <<journal, op, own["temp"]>>
    BY <1>9, <2>0, SMTT(30) DEF RecoverExchange
  <2>3. \A s \in Run : Interrupted(s) => s = r
    BY <1>9, <2>0, SMTT(30) DEF RecoverExchange
  <2>4. Recoverable(r) => target = After(r)
    BY <2>1
  <2>5. ASSUME target = After(r), ~Unexpected(r) PROVE Recoverable(r)'
    <3>1. Recov(r)' = After(r)' /\ target' = Displaced(r)'
      BY <2>1, <2>2, <2>5
    <3> QED
      BY ONLY <3>1 DEF Recoverable, KnownRecovery
  <2> HIDE DEF Interrupted, Displaced, Recoverable, Unexpected
  <2> QED
    BY <2>3, <2>4, <2>5
<1>10. CASE RecoverVerified(p)
  BY <1>10, SMTT(30) DEF RecoverVerified
<1>11. CASE RecoverRaced(p)
  BY <1>11, SMTT(30) DEF RecoverRaced
<1>12. CASE RecoverUndo(p)
  BY <1>12, SMTT(30) DEF RecoverUndo
<1>13. CASE RecoverBlocked(p)
  BY <1>13, SMTT(30) DEF RecoverBlocked
<1>14. CASE RecoverUnstage(p)
  BY <1>14, SMTT(30) DEF RecoverUnstage
<1>15. CASE RecoverArchive(p)
  BY <1>15, SMTT(30) DEF RecoverArchive
<1>16. CASE CleanStaged(p)
  BY <1>16, SMTT(30) DEF CleanStaged
<1>17. CASE CleanCopy(p)
  BY <1>17, SMTT(30) DEF CleanCopy
<1>18. CASE CleanBackup(p)
  BY <1>18, SMTT(30) DEF CleanBackup
<1>19. CASE CleanTemp(p)
  BY <1>19, SMTT(30) DEF CleanTemp
<1>20. CASE CleanRecovery(p)
  BY <1>20, SMTT(30) DEF CleanRecovery
<1>21. CASE CleanJournal(p)
  BY <1>21, SMTT(30) DEF CleanJournal
<1>22. CASE CleanPending(p)
  BY <1>22, SMTT(30) DEF CleanPending
<1>23. CASE RecoverCommit(p)
  BY <1>23, SMTT(30) DEF RecoverCommit
<1>24. CASE Purge(p)
  BY <1>24, SMTT(30) DEF Purge
<1> QED
  BY <1>1, <1>2, <1>3, <1>4, <1>5, <1>6, <1>7, <1>8, <1>9, <1>10, <1>11,
     <1>12, <1>13, <1>14, <1>15, <1>16, <1>17, <1>18, <1>19, <1>20, <1>21,
     <1>22, <1>23, <1>24
     DEF RecoverStep

\* ... an apply exchanges the before image ...
LEMMA ApplyRepeats ==
  ASSUME NEW p \in Process, TypeOK, KnownRuns, Reviewed, OneJournal,
         Covered(p), \A r \in Run : RunFiles(r), Journaled(p),
         Replacing(p), Marked(p), Restoring(p), Parted, Shaped(p),
         ApplyStep(p)
  PROVE  Repeats
<1> USE DEF TypeOK, ArticleOK, JournalOK, DbOK, LocalsOK, Phases,
      Kinds, Owned, Operation
<1> USE DEF Waiting, Locked, Recovering, Applying, Finishing, Keeping,
      Publishing, Restores, Cleans, Keeps
<1> USE DEF At, Goto, Move, Look, Store, Leave, Unlock, Throw, Fail, Conflict,
      Begin, Opened, TakeJournal, RemoveJournal, WritePending, PublishJournal,
      PreserveDisplaced, ArchiveBytes, Swap
<1> USE DEF articleVars, journalVars, archiveVars, projectVars, dbVars,
      localVars, outVars, historyVars, vars
<1> USE DEF Journals, OneJournal, KnownRuns, Working, Before, After, Temp,
    Recov,
      Committed, Made, Displaced, Unexpected, Interrupted, Touched,
      KnownRecovery, Recoverable, Exchanged, Exchanging, Ahead
<1> USE DEF Repeats, Parted, Shaped, Covered, Journaled, Replacing, Marked
<1> USE DistinctBytes, DistinctNames
<1>1. CASE ApplyBegin(p)
  BY <1>1, SMTT(30) DEF ApplyBegin
<1>2. ASSUME NEW q \in Proposal, Refuse(p, q)
      PROVE  Repeats
  BY <1>2, SMTT(30) DEF Refuse
<1>3. ASSUME NEW q \in Proposal, NEW r \in Run, Validate(p, q, r)
      PROVE  Repeats
  BY <1>3, SMTT(30) DEF Validate
<1>4. CASE PrepareJournal(p)
  BY <1>4, SMTT(30) DEF PrepareJournal
<1>5. CASE PrepareBackup(p)
  BY <1>5, SMTT(30) DEF PrepareBackup
<1>6. CASE PrepareCopy(p)
  BY <1>6, SMTT(30) DEF PrepareCopy
<1>7. CASE PublishCopy(p)
  BY <1>7, SMTT(30) DEF PublishCopy
<1>8. CASE StageArticle(p)
  BY <1>8, SMTT(30) DEF StageArticle
<1>9. CASE Recheck(p)
  BY <1>9, SMTT(30) DEF Recheck
<1>10. CASE MarkReplacing(p)
  BY <1>10, SMTT(30) DEF MarkReplacing
<1>11. CASE ReplaceArticle(p)
  BY <1>11, SMTT(30) DEF ReplaceArticle
<1>12. CASE VerifyReplaced(p)
  BY <1>12, SMTT(30) DEF VerifyReplaced
<1>13. CASE MarkReplaced(p)
  BY <1>13, SMTT(30) DEF MarkReplaced
<1>14. CASE FinalCheck(p)
  BY <1>14, SMTT(30) DEF FinalCheck
<1>15. CASE ApplyBlocked(p)
  BY <1>15, SMTT(30) DEF ApplyBlocked
<1>16. CASE Commit(p)
  BY <1>16, SMTT(30) DEF Commit
<1>17. CASE CleanupBegin(p)
  BY <1>17, SMTT(30) DEF CleanupBegin
<1>18. CASE FinishArchive(p)
  BY <1>18, SMTT(30) DEF FinishArchive
<1>19. CASE FinishTemp(p)
  BY <1>19, SMTT(30) DEF FinishTemp
<1>20. CASE FinishJournal(p)
  BY <1>20, SMTT(30) DEF FinishJournal
<1>21. CASE FinishCommit(p)
  BY <1>21, SMTT(30) DEF FinishCommit
<1> QED
  BY <1>1, <1>2, <1>3, <1>4, <1>5, <1>6, <1>7, <1>8, <1>9, <1>10, <1>11,
     <1>12, <1>13, <1>14, <1>15, <1>16, <1>17, <1>18, <1>19, <1>20, <1>21
     DEF ApplyStep

\* ... and keep removes what the journal knows.
LEMMA KeepRepeats ==
  ASSUME NEW p \in Process, TypeOK, KnownRuns, Reviewed, OneJournal,
         Covered(p), \A r \in Run : RunFiles(r), Journaled(p),
         Replacing(p), Marked(p), Restoring(p), Parted, Shaped(p),
         KeepStep(p)
  PROVE  Repeats
<1> USE DEF TypeOK, ArticleOK, JournalOK, DbOK, LocalsOK, Phases,
      Kinds, Owned, Operation
<1> USE DEF Waiting, Locked, Recovering, Applying, Finishing, Keeping,
      Publishing, Restores, Cleans, Keeps
<1> USE DEF At, Goto, Move, Look, Store, Leave, Unlock, Throw, Fail, Conflict,
      Begin, Opened, TakeJournal, RemoveJournal, WritePending, PublishJournal,
      PreserveDisplaced, ArchiveBytes, Swap
<1> USE DEF articleVars, journalVars, archiveVars, projectVars, dbVars,
      localVars, outVars, historyVars, vars
<1> USE DEF Journals, OneJournal, KnownRuns, Working, Before, After, Temp,
    Recov,
      Committed, Made, Displaced, Unexpected, Interrupted, Touched,
      KnownRecovery, Recoverable, Exchanged, Exchanging, Ahead
<1> USE DEF Repeats, Parted, Shaped, Covered, Journaled, Replacing, Marked
<1> USE DistinctBytes, DistinctNames
<1>1. CASE KeepBegin(p)
  BY <1>1, SMTT(30) DEF KeepBegin
<1>2. ASSUME NEW r \in Run, KeepJournal(p, r)
      PROVE  Repeats
  BY <1>2, SMTT(30) DEF KeepJournal
<1>3. CASE KeepTarget(p)
  BY <1>3, SMTT(30) DEF KeepTarget
<1>4. CASE KeepDisplaced(p)
  BY <1>4, SMTT(30) DEF KeepDisplaced
<1>5. CASE KeepManifest(p)
  BY <1>5, SMTT(30) DEF KeepManifest
<1>6. CASE KeepTemp(p)
  BY <1>6, SMTT(30) DEF KeepTemp
<1>7. CASE KeepSource(p)
  BY <1>7, SMTT(30) DEF KeepSource
<1>8. CASE KeepRecovery(p)
  BY <1>8, SMTT(30) DEF KeepRecovery
<1>9. CASE KeepRemoveJournal(p)
  BY <1>9, SMTT(30) DEF KeepRemoveJournal
<1>10. CASE KeepCommit(p)
  BY <1>10, SMTT(30) DEF KeepCommit
<1> QED
  BY <1>1, <1>2, <1>3, <1>4, <1>5, <1>6, <1>7, <1>8, <1>9, <1>10
     DEF KeepStep

\* A fault leaves a prefix only where recovery stages.
LEMMA OtherRepeats ==
  ASSUME NEW p \in Process, TypeOK, KnownRuns, OneJournal, Covered(p),
         \A r \in Run : RunFiles(r), Journaled(p), Replacing(p), Marked(p),
         Parted, Shaped(p),
         \/ \E k \in Commands : Open(p, k)
         \/ BusyTimeout(p) \/ Crash(p) \/ IoFailure(p)
  PROVE  Repeats
<1> USE DEF TypeOK, ArticleOK, JournalOK, DbOK, LocalsOK, Phases,
      Kinds, Owned, Operation
<1> USE DEF Waiting, Locked, Recovering, Applying, Finishing, Keeping,
      Publishing, Restores, Cleans, Keeps
<1> USE DEF At, Goto, Move, Look, Store, Leave, Unlock, Throw, Fail, Conflict,
      Begin, Opened, TakeJournal, RemoveJournal, WritePending, PublishJournal,
      PreserveDisplaced, ArchiveBytes, Swap
<1> USE DEF articleVars, journalVars, archiveVars, projectVars, dbVars,
      localVars, outVars, historyVars, vars
<1> USE DEF Journals, OneJournal, KnownRuns, Working, Before, After, Temp,
    Recov,
      Committed, Made, Displaced, Unexpected, Interrupted, Touched,
      KnownRecovery, Recoverable, Exchanged, Exchanging, Ahead
<1> USE DEF Repeats, Parted, Shaped, Covered, Journaled, Replacing, Marked
<1> USE DistinctBytes, DistinctNames
<1>1. ASSUME NEW k \in Commands, Open(p, k)
      PROVE  Repeats
  BY <1>1, SMTT(30) DEF Open
<1>2. CASE BusyTimeout(p)
  BY <1>2, SMTT(30) DEF BusyTimeout
<1>3. CASE Crash(p) \/ IoFailure(p)
  BY <1>3, FaultLeaves, SMTT(30)
<1> QED
  BY <1>1, <1>2, <1>3

\* No step of the program turns an interrupted apply that recovery can undo
\* into one it reports as a conflict, as long as the bytes to put back are the
\* journal's and no write of .recovery was torn (file_operation.cpp:242-275).
THEOREM RecoveryRepeats ==
  ASSUME OneCommand
  PROVE  Spec => JournalRecoveryRepeats
<1>1. Settling /\ [Next]_vars => [unsaved' = unsaved => Repeats]_vars
  <2> SUFFICES ASSUME Settling, Next, unsaved' = unsaved PROVE Repeats
    OBVIOUS
  <2>1. /\ TypeOK /\ KnownRuns /\ Reviewed /\ Unwritten
        /\ OneJournal /\ Parted /\ \A r \in Run : RunFiles(r)
        /\ \A p \in Process : /\ Journaled(p) /\ Replacing(p) /\ Marked(p)
                              /\ Covered(p) /\ Restoring(p) /\ Shaped(p)
    BY DEF Settling, Durable, WriterInvariant, Files, Saved, Sequential, Shape
  <2>2. ASSUME NEW p \in Process, Step(p) \/ (\E k \in Commands : Open(p, k))
                                 \/ Crash(p) \/ IoFailure(p)
        PROVE  Repeats
    BY <2>1, <2>2, RecoverRepeats, ApplyRepeats, KeepRepeats, OtherRepeats
       DEF Step
  <2>3. ~Editor
    BY DEF Editor, EditorSave, EditorDelete, EditorReplaceCopy,
       EditorWriteDisplaced, Edit
  <2>4. CASE \E q \in Proposal : Approve(q)
    BY <2>4 DEF Approve, projectVars, articleVars, journalVars, Repeats,
       Recoverable, KnownRecovery, Displaced, Before, After, Temp, Recov
  <2> QED
    BY <2>2, <2>3, <2>4 DEF Next
<1> QED
  BY <1>1, InitSettling, StepSettling, PTL
     DEF Spec, JournalRecoveryRepeats, Repeats

----------------------------------------------------------------------------
\* Without an editor and without --keep-user-file an apply finds what was
\* reviewed at each of its steps, and recovery finds one of the two sides.
Unattended == OneCommand /\ Save = {} /\ "keep" \notin Commands

Latest ==
  /\ lastOp \in markers \cup {NoRun}
  /\ \A q \in Proposal : token[q] # NoToken =>
       token[q].last \in markers \cup {NoRun}
Sides ==
  \A r \in Run : Interrupted(r) =>
    Temp(r) \in {Missing, Before(r), After(r)} /\ target \in {Before(r), After(r)}
Quiet(p) ==
  LET r == run[p] IN
  /\ kind[p] # "keep" /\ pc[p] \notin Keeping \cup {"keep_begin"}
  /\ pc[p] \in Publishing =>
       token[After(r)] = [before |-> Before(r), last |-> lastOp]
  /\ pc[p] \in Ahead => target = Before(r)
  /\ pc[p] \in Exchanged \cup {"recover_stage", "recover_exchange"} =>
       target = After(r)
  /\ pc[p] \in {"recover_stage", "recover_exchange"} => want[p] = Before(r)
  /\ pc[p] = "recover_verify" => Recov(r) = After(r) /\ target = Before(r)
  /\ pc[p] # "recover_undo"
  /\ pc[p] \in {"recover_unstage"} \cup Cleans /\ Interrupted(r) =>
       target = Before(r)
Undisturbed == Latest /\ Sides /\ \A p \in Process : Quiet(p)

\* Recovery takes the article from one side to the other ...
LEMMA RecoverQuiet ==
  ASSUME NEW p \in Process, TypeOK, KnownRuns, Reviewed, OneJournal,
         Covered(p), \A r \in Run : RunFiles(r), Journaled(p),
         Replacing(p), Marked(p), Restoring(p), Parted, Shaped(p),
         Sides, Quiet(p),
         RecoverStep(p)
  PROVE  Sides' /\ Quiet(p)'
<1> USE DEF TypeOK, ArticleOK, JournalOK, DbOK, LocalsOK, Phases,
      Kinds, Owned, Operation
<1> USE DEF Waiting, Locked, Recovering, Applying, Finishing, Keeping,
      Publishing, Restores, Cleans, Keeps
<1> USE DEF At, Goto, Move, Look, Store, Leave, Unlock, Throw, Fail, Conflict,
      Begin, Opened, TakeJournal, RemoveJournal, WritePending, PublishJournal,
      PreserveDisplaced, ArchiveBytes, Swap
<1> USE DEF articleVars, journalVars, archiveVars, projectVars, dbVars,
      localVars, outVars, historyVars, vars
<1> USE DEF Journals, OneJournal, KnownRuns, Working, Before, After, Temp,
    Recov,
      Committed, Made, Displaced, Unexpected, Interrupted, Touched,
      KnownRecovery, Exchanged, Exchanging, Ahead
<1> USE DEF Sides, Quiet, Parted, Shaped, Covered, Journaled, Replacing, Marked
<1> USE DistinctBytes, DistinctNames
<1>1. CASE RecoverBegin(p)
  BY <1>1, SMTT(30) DEF RecoverBegin
<1>2. ASSUME NEW r \in Run, RecoverGone(p, r)
      PROVE  Sides' /\ Quiet(p)'
  BY <1>2, SMTT(30) DEF RecoverGone
<1>3. ASSUME NEW r \in Run, RecoverCommitted(p, r)
      PROVE  Sides' /\ Quiet(p)'
  BY <1>3, SMTT(30) DEF RecoverCommitted
<1>4. ASSUME NEW r \in Run, RecoverPrepared(p, r)
      PROVE  Sides' /\ Quiet(p)'
  BY <1>4, SMTT(30) DEF RecoverPrepared
<1>5. ASSUME NEW r \in Run, RecoverReplaced(p, r)
      PROVE  Sides' /\ Quiet(p)'
  BY <1>5, SMTT(30) DEF RecoverReplaced
<1>6. ASSUME NEW r \in Run, RecoverRecognized(p, r)
      PROVE  Sides' /\ Quiet(p)'
  BY <1>6, SMTT(30) DEF RecoverRecognized
<1>7. ASSUME NEW r \in Run, RecoverConflict(p, r)
      PROVE  Sides' /\ Quiet(p)'
  BY <1>7, SMTT(30) DEF RecoverConflict
<1>8. CASE RecoverStage(p)
  BY <1>8, SMTT(30) DEF RecoverStage
<1>9. CASE RecoverExchange(p)
  <2>0. PICK r \in Run : run[p] = r
    BY <1>9 DEF RecoverExchange
  <2>1. /\ target = After(r) /\ want[p] = Before(r) /\ Recov(r) = Before(r)
        /\ kind[p] # "keep" /\ Temp(r) \in {Missing, Before(r), After(r)}
        /\ After(r) # Before(r)
    BY <1>9, <2>0, SMTT(30) DEF RecoverExchange, Restoring
  <2>2. /\ target' = Recov(r) /\ Recov(r)' = target /\ pc'[p] = "recover_verify"
        /\ UNCHANGED <<journal, op, markers, own["temp"], kind, run>>
    BY <1>9, <2>0, SMTT(30) DEF RecoverExchange
  <2>3. \A s \in Run : Interrupted(s) => s = r
    BY <1>9, <2>0, SMTT(30) DEF RecoverExchange
  <2>4. Sides'
    BY <2>1, <2>2, <2>3
  <2> QED
    BY <2>0, <2>1, <2>2, <2>4, SMTT(30)
<1>10. CASE RecoverVerified(p)
  BY <1>10, SMTT(30) DEF RecoverVerified
<1>11. CASE RecoverRaced(p)
  BY <1>11, SMTT(30) DEF RecoverRaced
<1>12. CASE RecoverUndo(p)
  BY <1>12, SMTT(30) DEF RecoverUndo
<1>13. CASE RecoverBlocked(p)
  BY <1>13, SMTT(30) DEF RecoverBlocked
<1>14. CASE RecoverUnstage(p)
  BY <1>14, SMTT(30) DEF RecoverUnstage
<1>15. CASE RecoverArchive(p)
  BY <1>15, SMTT(30) DEF RecoverArchive
<1>16. CASE CleanStaged(p)
  BY <1>16, SMTT(30) DEF CleanStaged
<1>17. CASE CleanCopy(p)
  BY <1>17, SMTT(30) DEF CleanCopy
<1>18. CASE CleanBackup(p)
  BY <1>18, SMTT(30) DEF CleanBackup
<1>19. CASE CleanTemp(p)
  BY <1>19, SMTT(30) DEF CleanTemp
<1>20. CASE CleanRecovery(p)
  BY <1>20, SMTT(30) DEF CleanRecovery
<1>21. CASE CleanJournal(p)
  BY <1>21, SMTT(30) DEF CleanJournal
<1>22. CASE CleanPending(p)
  BY <1>22, SMTT(30) DEF CleanPending
<1>23. CASE RecoverCommit(p)
  BY <1>23, SMTT(30) DEF RecoverCommit
<1>24. CASE Purge(p)
  BY <1>24, SMTT(30) DEF Purge
<1> QED
  BY <1>1, <1>2, <1>3, <1>4, <1>5, <1>6, <1>7, <1>8, <1>9, <1>10, <1>11,
     <1>12, <1>13, <1>14, <1>15, <1>16, <1>17, <1>18, <1>19, <1>20, <1>21,
     <1>22, <1>23, <1>24
     DEF RecoverStep

\* ... and so does an apply.
LEMMA ApplyQuiet ==
  ASSUME NEW p \in Process, TypeOK, KnownRuns, Reviewed, OneJournal,
         Covered(p), \A r \in Run : RunFiles(r), Journaled(p),
         Replacing(p), Marked(p), Restoring(p), Parted, Shaped(p),
         Sides, Quiet(p),
         ApplyStep(p)
  PROVE  Sides' /\ Quiet(p)'
<1> USE DEF TypeOK, ArticleOK, JournalOK, DbOK, LocalsOK, Phases,
      Kinds, Owned, Operation
<1> USE DEF Waiting, Locked, Recovering, Applying, Finishing, Keeping,
      Publishing, Restores, Cleans, Keeps
<1> USE DEF At, Goto, Move, Look, Store, Leave, Unlock, Throw, Fail, Conflict,
      Begin, Opened, TakeJournal, RemoveJournal, WritePending, PublishJournal,
      PreserveDisplaced, ArchiveBytes, Swap
<1> USE DEF articleVars, journalVars, archiveVars, projectVars, dbVars,
      localVars, outVars, historyVars, vars
<1> USE DEF Journals, OneJournal, KnownRuns, Working, Before, After, Temp,
    Recov,
      Committed, Made, Displaced, Unexpected, Interrupted, Touched,
      KnownRecovery, Exchanged, Exchanging, Ahead
<1> USE DEF Sides, Quiet, Parted, Shaped, Covered, Journaled, Replacing, Marked
<1> USE DistinctBytes, DistinctNames
<1>1. CASE ApplyBegin(p)
  BY <1>1, SMTT(30) DEF ApplyBegin
<1>2. ASSUME NEW q \in Proposal, Refuse(p, q)
      PROVE  Sides' /\ Quiet(p)'
  BY <1>2, SMTT(30) DEF Refuse
<1>3. ASSUME NEW q \in Proposal, NEW r \in Run, Validate(p, q, r)
      PROVE  Sides' /\ Quiet(p)'
  <2>1. /\ op[r] = NoOp /\ token[q] = Token
        /\ op' = [op EXCEPT ![r] = [proposal |-> q, before |-> target,
                                    owns |-> copy = Missing]]
        /\ pc' = [pc EXCEPT ![p] = "journal"] /\ run'[p] = r
        /\ UNCHANGED <<articleVars, journal, markers, kind, token, lastOp>>
    BY <1>3, SMTT(30) DEF Validate, Applicable
  <2>2. After(r)' = q /\ Before(r)' = target
    BY <2>1
  <2>3. \A s \in Run \ {r} : op'[s] = op[s]
    BY <2>1
  <2>4. Sides'
    BY <2>1, <2>3
  <2>5. token'[After(r)'] = [before |-> Before(r)', last |-> lastOp']
    BY <2>1, <2>2 DEF Token
  <2> QED
    BY <2>1, <2>2, <2>4, <2>5, SMTT(30)
<1>4. CASE PrepareJournal(p)
  BY <1>4, SMTT(30) DEF PrepareJournal
<1>5. CASE PrepareBackup(p)
  BY <1>5, SMTT(30) DEF PrepareBackup
<1>6. CASE PrepareCopy(p)
  BY <1>6, SMTT(30) DEF PrepareCopy
<1>7. CASE PublishCopy(p)
  BY <1>7, SMTT(30) DEF PublishCopy
<1>8. CASE StageArticle(p)
  BY <1>8, SMTT(30) DEF StageArticle
<1>9. CASE Recheck(p)
  BY <1>9, SMTT(30) DEF Recheck
<1>10. CASE MarkReplacing(p)
  BY <1>10, SMTT(30) DEF MarkReplacing
<1>11. CASE ReplaceArticle(p)
  BY <1>11, SMTT(30) DEF ReplaceArticle
<1>12. CASE VerifyReplaced(p)
  BY <1>12, SMTT(30) DEF VerifyReplaced
<1>13. CASE MarkReplaced(p)
  BY <1>13, SMTT(30) DEF MarkReplaced
<1>14. CASE FinalCheck(p)
  BY <1>14, SMTT(30) DEF FinalCheck
<1>15. CASE ApplyBlocked(p)
  BY <1>15, SMTT(30) DEF ApplyBlocked
<1>16. CASE Commit(p)
  BY <1>16, SMTT(30) DEF Commit
<1>17. CASE CleanupBegin(p)
  BY <1>17, SMTT(30) DEF CleanupBegin
<1>18. CASE FinishArchive(p)
  BY <1>18, SMTT(60) DEF FinishArchive
<1>19. CASE FinishTemp(p)
  BY <1>19, SMTT(30) DEF FinishTemp
<1>20. CASE FinishJournal(p)
  BY <1>20, SMTT(30) DEF FinishJournal
<1>21. CASE FinishCommit(p)
  BY <1>21, SMTT(30) DEF FinishCommit
<1> QED
  BY <1>1, <1>2, <1>3, <1>4, <1>5, <1>6, <1>7, <1>8, <1>9, <1>10, <1>11,
     <1>12, <1>13, <1>14, <1>15, <1>16, <1>17, <1>18, <1>19, <1>20, <1>21
     DEF ApplyStep

\* What the article is to a reader: what an interrupted apply displaced, or
\* the file.  A silent step changes nothing of it, and no review.
Shows(x) ==
  /\ \A r \in InFlight : x = Before(r)
  /\ InFlight = {} => x = target
Recorded ==
  /\ UNCHANGED <<token, markers, lastOp, digest>>
  /\ \A r \in Run : op[r] # NoOp => op'[r] = op[r]
Silent(x) == Shows(x)' /\ Recorded

\* Recovery puts back what the article is ...
LEMMA RecoverSilent ==
  ASSUME NEW p \in Process, NEW x, Shows(x), TypeOK, KnownRuns,
         Reviewed, OneJournal,
         Covered(p), \A r \in Run : RunFiles(r), Journaled(p),
         Replacing(p), Marked(p), Restoring(p), Parted, Shaped(p),
         Sides, Quiet(p),
         RecoverStep(p)
  PROVE  Silent(x)
<1> USE DEF TypeOK, ArticleOK, JournalOK, DbOK, LocalsOK, Phases,
      Kinds, Owned, Operation
<1> USE DEF Waiting, Locked, Recovering, Applying, Finishing, Keeping,
      Publishing, Restores, Cleans, Keeps
<1> USE DEF At, Goto, Move, Look, Store, Leave, Unlock, Throw, Fail, Conflict,
      Begin, Opened, TakeJournal, RemoveJournal, WritePending, PublishJournal,
      PreserveDisplaced, ArchiveBytes, Swap
<1> USE DEF articleVars, journalVars, archiveVars, projectVars, dbVars,
      localVars, outVars, historyVars, vars
<1> USE DEF Journals, OneJournal, KnownRuns, Working, Before, After, Temp,
    Recov,
      Committed, Made, Displaced, Unexpected, Interrupted, Touched,
      KnownRecovery, Exchanged, Exchanging, Ahead
<1> USE DEF Silent, Shows, Recorded, InFlight
<1> USE DEF Sides, Quiet, Parted, Shaped, Covered, Journaled, Replacing, Marked
<1> USE DistinctBytes, DistinctNames
<1>1. CASE RecoverBegin(p)
  BY <1>1, SMTT(30) DEF RecoverBegin
<1>2. ASSUME NEW r \in Run, RecoverGone(p, r)
      PROVE  Silent(x)
  BY <1>2, SMTT(30) DEF RecoverGone
<1>3. ASSUME NEW r \in Run, RecoverCommitted(p, r)
      PROVE  Silent(x)
  BY <1>3, SMTT(30) DEF RecoverCommitted
<1>4. ASSUME NEW r \in Run, RecoverPrepared(p, r)
      PROVE  Silent(x)
  BY <1>4, SMTT(30) DEF RecoverPrepared
<1>5. ASSUME NEW r \in Run, RecoverReplaced(p, r)
      PROVE  Silent(x)
  BY <1>5, SMTT(30) DEF RecoverReplaced
<1>6. ASSUME NEW r \in Run, RecoverRecognized(p, r)
      PROVE  Silent(x)
  BY <1>6, SMTT(30) DEF RecoverRecognized
<1>7. ASSUME NEW r \in Run, RecoverConflict(p, r)
      PROVE  Silent(x)
  BY <1>7, SMTT(30) DEF RecoverConflict
<1>8. CASE RecoverStage(p)
  BY <1>8, SMTT(30) DEF RecoverStage
<1>9. CASE RecoverExchange(p)
  <2>0. PICK r \in Run : run[p] = r
    BY <1>9 DEF RecoverExchange
  <2>1. /\ target = After(r) /\ Recov(r) = Before(r) /\ Interrupted(r)
        /\ After(r) # Before(r)
    BY <1>9, <2>0, SMTT(30) DEF RecoverExchange, Restoring
  <2>2. /\ target' = Recov(r)
        /\ UNCHANGED <<journal, op, markers, token, lastOp, digest>>
    BY <1>9, <2>0, SMTT(30) DEF RecoverExchange
  <2>3. \A s \in Run : Interrupted(s) => s = r
    BY <1>9, <2>0, SMTT(30) DEF RecoverExchange
  <2>4. InFlight' = {}
    BY <2>1, <2>2, <2>3
  <2> QED
    BY <2>1, <2>2, <2>4
<1>10. CASE RecoverVerified(p)
  BY <1>10, SMTT(30) DEF RecoverVerified
<1>11. CASE RecoverRaced(p)
  BY <1>11, SMTT(30) DEF RecoverRaced
<1>12. CASE RecoverUndo(p)
  BY <1>12, SMTT(30) DEF RecoverUndo
<1>13. CASE RecoverBlocked(p)
  BY <1>13, SMTT(30) DEF RecoverBlocked
<1>14. CASE RecoverUnstage(p)
  BY <1>14, SMTT(30) DEF RecoverUnstage
<1>15. CASE RecoverArchive(p)
  BY <1>15, SMTT(30) DEF RecoverArchive
<1>16. CASE CleanStaged(p)
  BY <1>16, SMTT(30) DEF CleanStaged
<1>17. CASE CleanCopy(p)
  BY <1>17, SMTT(30) DEF CleanCopy
<1>18. CASE CleanBackup(p)
  BY <1>18, SMTT(30) DEF CleanBackup
<1>19. CASE CleanTemp(p)
  BY <1>19, SMTT(30) DEF CleanTemp
<1>20. CASE CleanRecovery(p)
  BY <1>20, SMTT(30) DEF CleanRecovery
<1>21. CASE CleanJournal(p)
  BY <1>21, SMTT(30) DEF CleanJournal
<1>22. CASE CleanPending(p)
  BY <1>22, SMTT(30) DEF CleanPending
<1>23. CASE RecoverCommit(p)
  BY <1>23, SMTT(30) DEF RecoverCommit
<1>24. CASE Purge(p)
  BY <1>24, SMTT(30) DEF Purge
<1> QED
  BY <1>1, <1>2, <1>3, <1>4, <1>5, <1>6, <1>7, <1>8, <1>9, <1>10, <1>11,
     <1>12, <1>13, <1>14, <1>15, <1>16, <1>17, <1>18, <1>19, <1>20, <1>21,
     <1>22, <1>23, <1>24
     DEF RecoverStep

\* ... and an apply shows nothing before it commits.
LEMMA ApplySilent ==
  ASSUME NEW p \in Process, NEW x, Shows(x), TypeOK, KnownRuns,
         Reviewed, OneJournal,
         Covered(p), \A r \in Run : RunFiles(r), Journaled(p),
         Replacing(p), Marked(p), Restoring(p), Parted, Shaped(p),
         Sides, Quiet(p),
         ApplyStep(p), ~Commit(p)
  PROVE  Silent(x)
<1> USE DEF TypeOK, ArticleOK, JournalOK, DbOK, LocalsOK, Phases,
      Kinds, Owned, Operation
<1> USE DEF Waiting, Locked, Recovering, Applying, Finishing, Keeping,
      Publishing, Restores, Cleans, Keeps
<1> USE DEF At, Goto, Move, Look, Store, Leave, Unlock, Throw, Fail, Conflict,
      Begin, Opened, TakeJournal, RemoveJournal, WritePending, PublishJournal,
      PreserveDisplaced, ArchiveBytes, Swap
<1> USE DEF articleVars, journalVars, archiveVars, projectVars, dbVars,
      localVars, outVars, historyVars, vars
<1> USE DEF Journals, OneJournal, KnownRuns, Working, Before, After, Temp,
    Recov,
      Committed, Made, Displaced, Unexpected, Interrupted, Touched,
      KnownRecovery, Exchanged, Exchanging, Ahead
<1> USE DEF Silent, Shows, Recorded, InFlight
<1> USE DEF Sides, Quiet, Parted, Shaped, Covered, Journaled, Replacing, Marked
<1> USE DistinctBytes, DistinctNames
<1>1. CASE ApplyBegin(p)
  BY <1>1, SMTT(30) DEF ApplyBegin
<1>2. ASSUME NEW q \in Proposal, Refuse(p, q)
      PROVE  Silent(x)
  BY <1>2, SMTT(30) DEF Refuse
<1>3. ASSUME NEW q \in Proposal, NEW r \in Run, Validate(p, q, r)
      PROVE  Silent(x)
  BY <1>3, SMTT(30) DEF Validate
<1>4. CASE PrepareJournal(p)
  BY <1>4, SMTT(30) DEF PrepareJournal
<1>5. CASE PrepareBackup(p)
  BY <1>5, SMTT(30) DEF PrepareBackup
<1>6. CASE PrepareCopy(p)
  BY <1>6, SMTT(30) DEF PrepareCopy
<1>7. CASE PublishCopy(p)
  BY <1>7, SMTT(30) DEF PublishCopy
<1>8. CASE StageArticle(p)
  BY <1>8, SMTT(30) DEF StageArticle
<1>9. CASE Recheck(p)
  BY <1>9, SMTT(30) DEF Recheck
<1>10. CASE MarkReplacing(p)
  BY <1>10, SMTT(30) DEF MarkReplacing
<1>11. CASE ReplaceArticle(p)
  <2>0. PICK r \in Run : run[p] = r
    BY <1>11 DEF ReplaceArticle
  <2>1. /\ target = Before(r) /\ Temp(r) = After(r) /\ Before(r) # After(r)
    BY <1>11, <2>0, SMTT(30) DEF ReplaceArticle
  <2>2. /\ target' = After(r)
        /\ UNCHANGED <<journal, op, markers, token, lastOp, digest>>
    BY <1>11, <2>0, <2>1, SMTT(30) DEF ReplaceArticle
  <2>3. \A s \in Run : Interrupted(s) => s = r
    BY <1>11, <2>0, SMTT(30) DEF ReplaceArticle
  <2>4. x = Before(r)
    BY <2>1, <2>3
  <2>5. \A s \in InFlight' : s = r
    BY <2>2, <2>3
  <2>6. InFlight' # {}
    <3>1. Interrupted(r)
      BY <1>11, <2>0, SMTT(30) DEF ReplaceArticle, Reviewed
    <3> QED
      BY <2>2, <3>1
  <2> QED
    BY <2>2, <2>4, <2>5, <2>6
<1>12. CASE VerifyReplaced(p)
  BY <1>12, SMTT(30) DEF VerifyReplaced
<1>13. CASE MarkReplaced(p)
  BY <1>13, SMTT(30) DEF MarkReplaced
<1>14. CASE FinalCheck(p)
  BY <1>14, SMTT(30) DEF FinalCheck
<1>15. CASE ApplyBlocked(p)
  BY <1>15, SMTT(30) DEF ApplyBlocked
<1>16. CASE CleanupBegin(p)
  BY <1>16, SMTT(30) DEF CleanupBegin
<1>17. CASE FinishArchive(p)
  BY <1>17, SMTT(30) DEF FinishArchive
<1>18. CASE FinishTemp(p)
  BY <1>18, SMTT(30) DEF FinishTemp
<1>19. CASE FinishJournal(p)
  BY <1>19, SMTT(30) DEF FinishJournal
<1>20. CASE FinishCommit(p)
  BY <1>20, SMTT(30) DEF FinishCommit
<1> QED
  BY <1>1, <1>2, <1>3, <1>4, <1>5, <1>6, <1>7, <1>8, <1>9, <1>10, <1>11,
     <1>12, <1>13, <1>14, <1>15, <1>16, <1>17, <1>18, <1>19, <1>20
     DEF ApplyStep

\* Whoever opens the project, gives up or dies shows nothing either.
LEMMA OtherSilent ==
  ASSUME NEW p \in Process, NEW x, Shows(x), TypeOK, KnownRuns, OneJournal,
         Covered(p), \A r \in Run : RunFiles(r), Journaled(p), Replacing(p),
         Marked(p), Parted, Shaped(p), Sides, Quiet(p), "keep" \notin Commands,
         \/ \E k \in Commands : Open(p, k)
         \/ BusyTimeout(p) \/ Crash(p) \/ IoFailure(p)
  PROVE  Sides' /\ Quiet(p)' /\ Silent(x)
<1> USE DEF TypeOK, ArticleOK, JournalOK, DbOK, LocalsOK, Phases,
      Kinds, Owned, Operation
<1> USE DEF Waiting, Locked, Recovering, Applying, Finishing, Keeping,
      Publishing, Restores, Cleans, Keeps
<1> USE DEF At, Goto, Move, Look, Store, Leave, Unlock, Throw, Fail, Conflict,
      Begin, Opened, TakeJournal, RemoveJournal, WritePending, PublishJournal,
      PreserveDisplaced, ArchiveBytes, Swap
<1> USE DEF articleVars, journalVars, archiveVars, projectVars, dbVars,
      localVars, outVars, historyVars, vars
<1> USE DEF Journals, OneJournal, KnownRuns, Working, Before, After, Temp,
    Recov,
      Committed, Made, Displaced, Unexpected, Interrupted, Touched,
      KnownRecovery, Exchanged, Exchanging, Ahead
<1> USE DEF Silent, Shows, Recorded, InFlight
<1> USE DEF Sides, Quiet, Parted, Shaped, Covered, Journaled, Replacing, Marked
<1> USE DistinctBytes, DistinctNames
<1>1. ASSUME NEW k \in Commands, Open(p, k)
      PROVE  Sides' /\ Quiet(p)' /\ Silent(x)
  BY <1>1, SMTT(30) DEF Open
<1>2. CASE BusyTimeout(p)
  BY <1>2, SMTT(30) DEF BusyTimeout
<1>3. CASE Crash(p) \/ IoFailure(p)
  BY <1>3, FaultLeaves, SMTT(30)
<1> QED
  BY <1>1, <1>2, <1>3

\* The two definitions of what the article is agree.
LEMMA ArticleShows ==
  OneJournal /\ Sides => \A x : Shows(x) <=> x = Article
<1> SUFFICES ASSUME OneJournal, Sides, NEW x
             PROVE  Shows(x) <=> x = Article
  OBVIOUS
<1>1. CASE InFlight = {}
  BY <1>1 DEF Shows, Article
<1>2. CASE InFlight # {}
  <2>1. PICK r \in InFlight : TRUE
    BY <1>2
  <2>2. \A s \in InFlight : s = r
    BY <2>1 DEF InFlight, OneJournal, Journals, Interrupted
  <2>3. (CHOOSE s \in InFlight : TRUE) = r
    BY <2>1, <2>2
  <2>4. Displaced(r) = Before(r)
    BY <2>1 DEF Displaced, Sides, InFlight
  <2> QED
    BY <1>2, <2>1, <2>2, <2>3, <2>4 DEF Shows, Article
<1> QED
  BY <1>1, <1>2

\* The invariant of the refinement.
Calm == Settling /\ Undisturbed

\* Every step but approval and commit is silent.
LEMMA CalmStep ==
  ASSUME Unattended, Calm, [Next]_vars, \A q \in Proposal : ~Approve(q),
         \A p \in Process : ~Commit(p)
  PROVE  Undisturbed' /\ Article' = Article /\ Recorded
<1>1. /\ TypeOK /\ KnownRuns /\ Reviewed /\ OneJournal
      /\ Parted /\ Latest /\ Sides /\ \A r \in Run : RunFiles(r)
      /\ \A p \in Process : /\ Journaled(p) /\ Replacing(p) /\ Marked(p)
                            /\ Covered(p) /\ Restoring(p) /\ Shaped(p)
                            /\ Quiet(p)
  BY DEF Calm, Settling, Undisturbed, Durable, WriterInvariant, Files, Saved,
     Sequential, Shape
<1>2. OneCommand /\ Save = {} /\ "keep" \notin Commands
  BY DEF Unattended
<1>3. PICK a : a = Article
  OBVIOUS
<1>4. Shows(a) /\ OneJournal'
  BY <1>1, <1>2, <1>3, ArticleShows, StepSequential
  DEF Calm, Settling, Sequential
<1>5. ASSUME NEW p \in Process, Sides', Quiet(p)', Silent(a)
      PROVE  Undisturbed' /\ Article' = Article /\ Recorded
  <2>1. Article' = Article
    <3>1. (OneJournal /\ Sides => \A x : Shows(x) <=> x = Article)'
      BY ArticleShows, PTL
    <3> QED
      BY <1>3, <1>4, <1>5, <3>1 DEF Silent
  <2>2. Latest'
    BY <1>1, <1>5 DEF Silent, Recorded, Latest
  <2>3. \A q \in Process : Quiet(q)'
    BY <1>2, <1>5 DEF OneCommand
  <2> QED
    BY <1>5, <2>1, <2>2, <2>3 DEF Undisturbed, Silent
<1>6. ASSUME NEW p \in Process,
             \/ \E k \in Commands : Open(p, k)
             \/ Step(p) \/ Crash(p) \/ IoFailure(p)
      PROVE  Undisturbed' /\ Article' = Article /\ Recorded
  <2>1. CASE RecoverStep(p)
    BY <1>1, <1>4, <1>5, <2>1, RecoverQuiet, RecoverSilent
  <2>2. CASE ApplyStep(p)
    BY <1>1, <1>4, <1>5, <2>2, ApplyQuiet, ApplySilent
  <2>3. ~KeepStep(p)
    BY <1>1 DEF Quiet, Keeping, KeepStep, KeepBegin, Begin, KeepJournal,
       KeepTarget, KeepDisplaced, KeepManifest, KeepTemp, KeepSource,
       KeepRecovery, KeepRemoveJournal, KeepCommit, ArchiveBytes, Move, Store,
       RemoveJournal, At
  <2>4. CASE (\E k \in Commands : Open(p, k)) \/ BusyTimeout(p)
             \/ Crash(p) \/ IoFailure(p)
    BY <1>1, <1>2, <1>4, <1>5, <2>4, OtherSilent
  <2> QED
    BY <1>6, <2>1, <2>2, <2>3, <2>4 DEF Step
<1>7. ~Editor
  BY <1>2 DEF Editor
<1>8. CASE UNCHANGED vars
  BY <1>1, <1>8 DEF vars, projectVars, articleVars, journalVars, dbVars,
     localVars, Undisturbed, Latest, Sides, Quiet, Recorded, Article, InFlight,
     Interrupted, Committed, Displaced, Before, After, Temp, Recov
<1> QED
  BY <1>6, <1>7, <1>8 DEF Next

\* Approval remembers what the file shows, of a proposal not yet reviewed.
LEMMA CalmApprove ==
  ASSUME Calm, NEW q \in Proposal, Approve(q)
  PROVE  Undisturbed' /\ Abstract!Approve(q)
<1>1. /\ TypeOK /\ KnownRuns /\ Reviewed /\ Latest /\ Sides
      /\ \A p \in Process : Quiet(p)
      /\ token[q] = NoToken
  BY DEF Calm, Settling, Undisturbed, Durable, WriterInvariant, Files, Shape,
     Fresh, NewBytes, Approve
<1>2. /\ UNCHANGED <<projectVars, markers, lastOp, pc, localVars>>
      /\ status[q] = "pending"
      /\ token' = [token EXCEPT ![q] = Token]
  BY DEF Approve
<1>3. UNCHANGED <<target, own, moved, journal, op, kind, run, want>>
  BY <1>2 DEF projectVars, articleVars, journalVars, localVars
<1>4. Undisturbed'
  <2>1. Latest'
    BY <1>1, <1>2 DEF Latest, Token, TypeOK, DbOK
  <2>2. Sides'
    BY <1>1, <1>2, <1>3 DEF Sides, Interrupted, Committed, Temp, Before, After
  <2>3. ASSUME NEW p \in Process
        PROVE  Quiet(p)'
    <3>1. pc[p] \in Publishing => After(run[p]) # q
      BY <1>1, <1>2 DEF Reviewed
    <3>2. pc[p] \in Publishing => After(run[p]) \in Proposal
      BY <1>1 DEF KnownRuns, Publishing, Working, Locked, TypeOK, JournalOK,
         Operation, After, Applying
    <3>3. pc[p] \in Publishing => token'[After(run[p])] = token[After(run[p])]
      BY <1>1, <1>2, <3>1, <3>2 DEF TypeOK, DbOK
    <3> QED
      BY <1>1, <1>2, <1>3, <3>3 DEF Quiet, Interrupted, Committed, Before,
         After, Recov
  <2> QED
    BY <2>1, <2>2, <2>3 DEF Undisturbed
<1>5. /\ Article' = Article /\ Published(lastOp)' = Published(lastOp)
      /\ {After(r) : r \in markers}' = {After(r) : r \in markers}
  BY <1>2, <1>3 DEF Article, InFlight, Interrupted, Committed, Displaced,
     Before, After, Temp, Published
<1>6. /\ Seen(q) = NoRun
      /\ Seen(q)' = <<target, Published(lastOp)>>
  <2>1. token'[q] = Token /\ Token # NoToken
    BY <1>1, <1>2, DistinctNames
    DEF TypeOK, DbOK, ArticleOK, Token, PreviewToken
  <2> QED
    BY <1>1, <1>2, <1>3, <2>1 DEF Seen, Token, Published, After
<1>7. \A x \in Proposal \ {q} : Seen(x)' = Seen(x)
  BY <1>1, <1>2, <1>3 DEF Seen, Published, After, TypeOK, DbOK
<1>8. <<target, Published(lastOp)>> \in Abstract!Review
  <2>1. Published(lastOp) \in Proposal \cup {NoRun}
    BY <1>1 DEF Published, Latest, KnownRuns, TypeOK, DbOK, JournalOK,
       Operation, After
  <2> QED
    BY <1>1, <2>1 DEF Abstract!Review, TypeOK, ArticleOK
<1>9. [x \in Proposal |-> Seen(x)]'
        = [[x \in Proposal |-> Seen(x)] EXCEPT ![q] = Seen(q)']
  BY <1>7
<1> QED
  BY <1>4, <1>5, <1>6, <1>8, <1>9 DEF Abstract!Approve

\* A commit publishes the reviewed replacement of the article.
LEMMA CalmCommit ==
  ASSUME Unattended, Calm, NEW p \in Process, Commit(p)
  PROVE  Undisturbed' /\ Abstract!Publish(After(run[p]))
<1> DEFINE r == run[p]
<1>1. /\ TypeOK /\ KnownRuns /\ Reviewed /\ OneJournal
      /\ Parted /\ Latest /\ Sides /\ \A s \in Run : RunFiles(s)
      /\ Journaled(p) /\ Replacing(p) /\ Marked(p)
      /\ Covered(p) /\ Restoring(p) /\ Shaped(p) /\ Quiet(p)
  BY DEF Calm, Settling, Undisturbed, Durable, WriterInvariant, Files, Saved,
     Sequential, Shape
<1>2. /\ pc[p] = "commit" /\ lastOp' = r
      /\ markers' = markers \cup {r}
      /\ UNCHANGED <<target, own, moved, journal, op, token, kind, run, want>>
  BY DEF Commit, At, projectVars, articleVars, journalVars, localVars
<1>3. /\ r \in Run /\ op[r] # NoOp /\ r \notin markers
      /\ After(r) \in Proposal /\ status[After(r)] = "approved"
      /\ target = After(r) /\ Before(r) # After(r)
      /\ token[After(r)] = [before |-> Before(r), last |-> lastOp]
  <2>1. pc[p] \in Publishing /\ pc[p] \in Working /\ pc[p] \in Exchanged
    BY <1>2 DEF Publishing, Working, Locked, Applying, Exchanged
  <2>2. r \in Run /\ op[r] # NoOp /\ status[After(r)] = "approved"
    BY <1>1, <2>1 DEF KnownRuns, Reviewed
  <2>3. r \notin markers
    BY <1>1, <2>2 DEF Reviewed
  <2>4. After(r) \in Proposal
    BY <1>1, <2>2 DEF TypeOK, JournalOK, Operation, After
  <2> QED
    BY <1>1, <2>1, <2>2, <2>3, <2>4 DEF Quiet, Parted
<1>4. Interrupted(r)
  BY <1>1, <1>2, <1>3 DEF Interrupted, Committed, Replacing, Exchanging
<1>5. Undisturbed'
  <2>1. Sides' /\ Quiet(p)'
    BY <1>1, ApplyQuiet DEF ApplyStep
  <2>2. Latest'
    BY <1>1, <1>2 DEF Latest
  <2> QED
    BY <2>1, <2>2 DEF Unattended, OneCommand, Undisturbed
<1>6. Article = Before(r)
  <2>1. PICK x : x = Article
    OBVIOUS
  <2>2. Shows(x)
    BY <1>1, <2>1, ArticleShows
  <2> QED
    BY <1>3, <1>4, <2>1, <2>2 DEF Shows, InFlight
<1>7. Article' = After(r)
  <2>1. \A s \in Run : Interrupted(s) => s = r
    BY <1>1, <1>3, <1>4 DEF OneJournal, Journals, Interrupted
  <2>2. InFlight' = {}
    BY <1>2, <2>1 DEF InFlight, Interrupted, Committed
  <2> QED
    BY <1>2, <1>3, <2>2 DEF Article
<1>8. Published(lastOp)' = After(r)
  BY <1>2, <1>3, DistinctNames DEF Published, After
<1>9. Seen(After(r)) = <<Article, Published(lastOp)>>
  <2>1. token[After(r)] # NoToken
    BY <1>1, <1>3, DistinctNames
    DEF TypeOK, DbOK, JournalOK, Operation, Before, PreviewToken
  <2> QED
    BY <1>3, <1>6, <2>1 DEF Seen
<1>10. \A x \in Proposal : Seen(x)' = Seen(x)
  BY <1>2 DEF Seen, Published, After
<1>11. After(r) \notin {After(s) : s \in markers}
  BY <1>1, <1>3 DEF Reviewed
<1>12. {After(s) : s \in markers}' = {After(s) : s \in markers} \cup {After(r)}
  BY <1>2 DEF After
<1>13. [x \in Proposal |-> Seen(x)]' = [x \in Proposal |-> Seen(x)]
  BY <1>10
<1> QED
  BY <1>3, <1>5, <1>6, <1>7, <1>8, <1>9, <1>11, <1>12, <1>13
  DEF Abstract!Publish

\* A silent step of the operation is a stutter of the compare-and-swap.
LEMMA CalmSilent ==
  ASSUME Calm, Recorded, Article' = Article
  PROVE  UNCHANGED Abstract!vars
<1>1. TypeOK /\ KnownRuns /\ Latest
  BY DEF Calm, Settling, Undisturbed, Durable, WriterInvariant
<1>2. \A r \in markers : op'[r] = op[r]
  BY <1>1 DEF Recorded, KnownRuns, TypeOK, DbOK
<1>3. Published(lastOp)' = Published(lastOp)
  BY <1>1, <1>2 DEF Published, Recorded, Latest, After
<1>4. \A q \in Proposal : Seen(q)' = Seen(q)
  BY <1>1, <1>2 DEF Seen, Published, Recorded, Latest, After
<1>5. {After(r) : r \in markers}' = {After(r) : r \in markers}
  BY <1>2 DEF Recorded, After
<1> QED
  BY <1>3, <1>4, <1>5 DEF Abstract!vars

\* A fresh project is undisturbed and starts as the compare-and-swap does.
LEMMA CalmInit == Init => Undisturbed /\ Abstract!Init
<1> SUFFICES ASSUME Init PROVE Undisturbed /\ Abstract!Init
  OBVIOUS
<1>1. Undisturbed
  BY SMTT(30) DEF Init, Undisturbed, Latest, Sides, Quiet, Interrupted,
     Publishing, Applying, Keeping, Ahead, Exchanged, Cleans
<1>2. InFlight = {}
  BY DEF Init, InFlight, Interrupted
<1>3. Article \in Bytes
  BY <1>2 DEF Init, Article, Bytes
<1>4. /\ Published(lastOp) = NoRun /\ {After(r) : r \in markers} = {}
      /\ [q \in Proposal |-> Seen(q)] = [q \in Proposal |-> NoRun]
  BY DEF Init, Published, Seen
<1> QED
  BY <1>1, <1>3, <1>4 DEF Abstract!Init

\* Without an editor, commands that run one after the other apply atomically:
\* open, approve and apply, crashed, failed and recovered any number of times,
\* implement the compare-and-swap (VaultWriter::apply, recover_journal).
THEOREM ApplyIsAtomic ==
  ASSUME Unattended
  PROVE  Spec => AppliesAtomically
<1>1. Init => Calm /\ Abstract!Init
  BY InitSettling, CalmInit DEF Calm
<1>2. Calm /\ [Next]_vars => Calm' /\ [Abstract!Next]_(Abstract!vars)
  <2> SUFFICES ASSUME Calm, [Next]_vars
               PROVE  Calm' /\ [Abstract!Next]_(Abstract!vars)
    OBVIOUS
  <2>1. Settling'
    BY StepSettling DEF Unattended, Calm
  <2>2. ASSUME NEW q \in Proposal, Approve(q)
        PROVE  Undisturbed' /\ [Abstract!Next]_(Abstract!vars)
    BY <2>2, CalmApprove DEF Abstract!Next
  <2>3. ASSUME NEW p \in Process, Commit(p)
        PROVE  Undisturbed' /\ [Abstract!Next]_(Abstract!vars)
    <3>1. After(run[p]) \in Proposal
      BY <2>3 DEF Calm, Settling, Durable, WriterInvariant, KnownRuns, Commit,
         At, Working, Locked, Applying, TypeOK, JournalOK, Operation, After
    <3> QED
      BY <2>3, <3>1, CalmCommit DEF Abstract!Next
  <2>4. CASE /\ \A q \in Proposal : ~Approve(q)
             /\ \A p \in Process : ~Commit(p)
    <3>1. Undisturbed' /\ Article' = Article /\ Recorded
      BY <2>4, CalmStep
    <3> QED
      BY <2>1, <3>1, CalmSilent DEF Calm
  <2> QED
    BY <2>1, <2>2, <2>3, <2>4 DEF Calm
<1> QED
  BY <1>1, <1>2, PTL DEF Spec, AppliesAtomically, Abstract!Spec

\* The rows and the reader agree on the article: what DigestMatches says of a
\* vault without a journal, at every step.
Follows == digest # Missing => Article = digest

\* Under the same conditions file and database agree whenever no journal is
\* left, and what the v_rollback run shows needs two commands at a time.
THEOREM RowsFollowFile ==
  ASSUME Unattended
  PROVE  Spec => []DigestMatches
<1>1. Init => Calm /\ Follows
  <2> SUFFICES ASSUME Init PROVE Calm /\ Follows
    OBVIOUS
  <2>1. InFlight = {}
    BY DEF Init, InFlight, Interrupted
  <2> QED
    BY <2>1, InitSettling, CalmInit DEF Calm, Init, Follows, Article
<1>2. Calm /\ Follows /\ [Next]_vars => Calm' /\ Follows'
  <2> SUFFICES ASSUME Calm, Follows, [Next]_vars PROVE Calm' /\ Follows'
    OBVIOUS
  <2>1. Settling'
    BY StepSettling DEF Unattended, Calm
  <2>2. ASSUME NEW q \in Proposal, Approve(q)
        PROVE  Undisturbed' /\ Follows'
    BY <2>2, CalmApprove DEF Abstract!Approve, Approve, Follows
  <2>3. ASSUME NEW p \in Process, Commit(p)
        PROVE  Undisturbed' /\ Follows'
    <3>1. Undisturbed' /\ Article' = After(run[p]) /\ digest' = After(run[p])
      BY <2>3, CalmCommit DEF Abstract!Publish, Commit
    <3> QED
      BY <3>1 DEF Follows
  <2>4. CASE /\ \A q \in Proposal : ~Approve(q)
             /\ \A p \in Process : ~Commit(p)
    <3>1. Undisturbed' /\ Article' = Article /\ Recorded
      BY <2>4, CalmStep
    <3> QED
      BY <2>1, <3>1 DEF Calm, Recorded, Follows
  <2> QED
    BY <2>1, <2>2, <2>3, <2>4 DEF Calm
<1>3. Follows => DigestMatches
  BY DEF Follows, DigestMatches, Article, InFlight, Interrupted, Journals
<1> QED
  BY <1>1, <1>2, <1>3, PTL DEF Spec

=============================================================================
