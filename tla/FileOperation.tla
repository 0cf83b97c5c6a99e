--------------------------- MODULE FileOperation ---------------------------
(***************************************************************************)
(* The durable file operation behind `kc apply`: one vault article, the    *)
(* journal and sibling files of each apply run, SQLite's single writer     *)
(* lock and commit marker, the recovery every read-write open performs,    *)
(* `kc recover --keep-user-file`, and an external editor that takes none   *)
(* of the program's locks.                                                 *)
(*                                                                         *)
(* A step of a process ends where the code reaches a durable boundary      *)
(* (a write with its sync, a rename, an exchange, a removal, COMMIT), so   *)
(* the editor, another process, a crash or a throw may come between any    *)
(* two of them.  Bytes are members of a small set; the bytes a proposal    *)
(* renders to are named by the proposal itself.                            *)
(***************************************************************************)
EXTENDS Integers

CONSTANTS
  Process,    \* kc commands that may run at the same time
  Run,        \* run identifiers still to be generated (a bound on applies)
  Proposal,   \* proposals; also the bytes each renders to
  Save,       \* bytes an external editor will write (a bound on its actions)
  Base,       \* bytes of the article before the first apply
  Missing,    \* the path does not exist
  Torn,       \* a strict prefix left by an interrupted durable_write
  Source,     \* bytes of the one cited source
  Foreign,    \* other bytes at the source copy's path
  NoProcess, NoRun, NoOp, NoToken,
  Commands,   \* the kinds of command that are run: "open", "apply", "keep"
  HeldInode,  \* whether an editor may keep a displaced file open and write it
  MaxFaults   \* bound on crashes plus I/O failures

Bytes == Proposal \cup Save \cup {Base, Missing, Torn, Source, Foreign}
Operation == [proposal : Proposal, before : Bytes, owns : BOOLEAN]
PreviewToken == [before : Bytes, last : Run \cup {NoRun}]

ASSUME DistinctBytes ==
  /\ Proposal \cap Save = {}
  /\ {Base, Missing, Torn, Source, Foreign} \cap (Proposal \cup Save) = {}
  /\ Missing \notin {Base, Torn, Source, Foreign}
  /\ Torn \notin {Base, Source, Foreign}
  /\ Source # Foreign

ASSUME DistinctNames ==
  /\ NoProcess \notin Process
  /\ NoRun \notin Run
  /\ NoOp \notin Operation
  /\ NoToken \notin PreviewToken

ASSUME Environment ==
  /\ Commands \subseteq {"open", "apply", "keep"}
  /\ HeldInode \in BOOLEAN
  /\ MaxFaults \in Nat

VARIABLES
  target,      \* the article's path in the vault
  copy,        \* the vault's copy of the cited source
  own,         \* the files a run owns: [Owned -> [Run -> Bytes]]
  moved,       \* runs whose temp is the inode displaced by the exchange
  journal,     \* [Run -> phase] in cache/transactions/RUN.json
  pending,     \* runs with a cache/transactions/RUN.json.pending
  op,          \* [Run -> the FileOperation record, as its journal holds it]
  archive,     \* complete files in cache/recovery-conflicts
  tornArchive, \* names in cache/recovery-conflicts that hold a prefix only
  manifests,   \* runs with a cache/recovery-conflicts/RUN.json
  lock,        \* the process between BEGIN IMMEDIATE and COMMIT or ROLLBACK
  status,      \* [Proposal -> proposals.status]
  token,       \* [Proposal -> proposal_approvals.preview_sha256]
  markers,     \* runs with a row in file_operations
  lastOp,      \* the latest file operation of the article
  digest,      \* articles.content_sha256, or Missing without an article row
  pc,          \* [Process -> the step it is about to take]
  kind,        \* [Process -> "open", "apply" or "keep"]
  run,         \* [Process -> the run whose files it works on]
  list,        \* [Process -> journals it listed and has not handled]
  purge,       \* [Process -> it saw a pending journal]
  want,        \* [Process -> the bytes its recovery puts back]
  unsaved,     \* bytes the editor has not written yet
  faults,      \* crashes and I/O failures so far
  conflicted,  \* history: runs on which recovery raised conflict()
  due,         \* history: the article's bytes, as the last save or commit left it
  owed         \* history: bytes an editor wrote and did not itself replace

articleVars == <<target, copy, own, moved>>
journalVars == <<journal, pending, op>>
archiveVars == <<archive, tornArchive, manifests>>
projectVars == <<articleVars, journalVars, archiveVars>>
dbVars      == <<status, token, markers, lastOp, digest>>
localVars   == <<kind, run, list, purge, want>>
outVars     == <<unsaved, faults, due, owed>>
historyVars == <<outVars, conflicted>>
vars == <<projectVars, lock, dbVars, pc, localVars, historyVars>>

Owned == {"temp",     \* ARTICLE.kc-RUN.tmp
          "recov",    \* ARTICLE.kc-RUN.tmp.recovery
          "backup",   \* cache/backups/transactions/RUN.md
          "staged"}   \* SOURCE.kc-RUN.tmp
Phases == {"none", "prepared", "replacing", "replaced"}
Kinds == {"open", "apply", "keep"}

\* Control points at which a process waits for the write lock ...
Waiting == {"recover_begin", "purge_begin", "apply_begin", "cleanup_begin",
            "keep_begin"}
\* ... and at which it holds the lock.
Recovering == {"recover", "recover_stage", "recover_exchange",
               "recover_verify", "recover_undo", "recover_unstage",
               "recover_archive", "clean_staged", "clean_copy",
               "clean_backup", "clean_temp", "clean_recovery", "clean_journal", "clean_pending"}
Applying == {"validate", "journal", "journal_publish", "backup", "copy",
             "copy_publish", "stage", "recheck", "replacing", "exchange",
             "verify", "replaced", "final_check", "commit"}
Finishing == {"finish", "finish_temp", "finish_journal", "finish_commit"}
Keeping == {"keep", "keep_kept", "keep_displaced", "keep_manifest",
            "keep_temp", "keep_source", "keep_recovery", "keep_journal"}
Locked == Recovering \cup Applying \cup Finishing \cup Keeping

Journals == {r \in Run : journal[r] # "none"}
Committed(r) == r \in markers
After(r) == op[r].proposal
Before(r) == op[r].before
Temp(r) == own["temp"][r]
Recov(r) == own["recov"][r]

\* A fresh project: no article, a tracked one, or an untracked file.
Init ==
  /\ target \in {Missing, Base}
  /\ digest \in {Missing, target}
  /\ copy = Missing
  /\ own = [f \in Owned |-> [r \in Run |-> Missing]]
  /\ journal = [r \in Run |-> "none"] /\ op = [r \in Run |-> NoOp]
  /\ pending = {} /\ archive = {} /\ tornArchive = {} /\ manifests = {}
  /\ lock = NoProcess
  /\ status = [q \in Proposal |-> "pending"]
  /\ token = [q \in Proposal |-> NoToken]
  /\ markers = {} /\ lastOp = NoRun
  /\ pc = [p \in Process |-> "idle"] /\ kind = [p \in Process |-> "open"]
  /\ run = [p \in Process |-> NoRun] /\ list = [p \in Process |-> {}]
  /\ purge = [p \in Process |-> FALSE]
  /\ want = [p \in Process |-> Missing]
  /\ unsaved = Save /\ faults = 0 /\ moved = {} /\ conflicted = {}
  /\ due = {target} /\ owed = {}

----------------------------------------------------------------------------
\* How a process moves.

At(p, here) == pc[p] = here
Goto(p, there) == pc' = [pc EXCEPT ![p] = there]

\* A step inside a command that touches neither SQLite nor its locals.
Move(p, here, there) ==
  /\ At(p, here)
  /\ Goto(p, there)
  /\ UNCHANGED <<lock, dbVars, localVars, historyVars>>

\* ... that only looks,
Look(p, here, there) == Move(p, here, there) /\ UNCHANGED projectVars

\* ... or writes or removes one file of its run.
Store(p, here, file, bytes, there) ==
  /\ Move(p, here, there)
  /\ own' = [own EXCEPT ![file][run[p]] = bytes]
  /\ UNCHANGED <<target, copy, moved, journalVars, archiveVars>>

\* The command ends and its locals vanish with it.
Leave(p, there) ==
  /\ Goto(p, there)
  /\ kind' = [kind EXCEPT ![p] = "open"]
  /\ run' = [run EXCEPT ![p] = NoRun]
  /\ list' = [list EXCEPT ![p] = {}]
  /\ purge' = [purge EXCEPT ![p] = FALSE]
  /\ want' = [want EXCEPT ![p] = Missing]

Unlock(p) == lock' = IF lock = p THEN NoProcess ELSE lock

\* An exception unwinds: SQLite rolls back and the lock is free again.  The
\* catch block of apply opens a fresh Database; other commands just fail.
Throw(p) ==
  /\ Leave(p, IF kind[p] = "apply" THEN "reopen" ELSE "idle")
  /\ Unlock(p)

Fail(p) == Throw(p) /\ UNCHANGED <<projectVars, dbVars, historyVars>>

\* conflict(): nothing is overwritten and the journal stays.
Conflict(p, r) ==
  /\ Throw(p)
  /\ conflicted' = conflicted \cup {r}
  /\ UNCHANGED <<projectVars, dbVars, outVars>>

\* Mutant: the transaction starts DEFERRED and takes no lock.
BeginDeferred(p, here, there) ==
  /\ At(p, here)
  /\ lock' = p
  /\ Goto(p, there)
  /\ UNCHANGED <<projectVars, dbVars, historyVars>>

\* BEGIN IMMEDIATE returns once no other connection writes ...
Begin(p, here, there) ==
  /\ At(p, here)
  /\ lock = NoProcess
  /\ lock' = p
  /\ Goto(p, there)
  /\ UNCHANGED <<projectVars, dbVars, historyVars>>

\* ... or fails when the busy timeout expires first.
BusyTimeout(p) == pc[p] \in Waiting /\ lock # NoProcess /\ Fail(p)

----------------------------------------------------------------------------
\* Opening the state database: recover_on_open and recover_journal.

\* The open is over: apply goes on to its transaction, other commands end.
Opened(p) ==
  IF kind[p] = "apply"
  THEN Goto(p, "apply_begin") /\ UNCHANGED localVars
  ELSE Leave(p, "idle")

\* The transactions directory is listed before any lock is taken.
Open(p, k) ==
  /\ At(p, "idle") \/ (At(p, "reopen") /\ k = "open")
  /\ kind' = [kind EXCEPT ![p] = k]
  /\ list' = [list EXCEPT ![p] = Journals]
  /\ purge' = [purge EXCEPT ![p] = pending # {}]
  /\ Goto(p, CASE k = "keep" -> "keep_begin"
               [] k # "keep" /\ Journals # {} -> "recover_begin"
               [] k # "keep" /\ Journals = {} /\ pending # {} -> "purge_begin"
               [] OTHER -> IF k = "apply" THEN "apply_begin" ELSE "idle")
  /\ UNCHANGED <<projectVars, lock, dbVars, run, want, historyVars>>

RecoverBegin(p) == Begin(p, "recover_begin", "recover") /\ UNCHANGED localVars

\* Mutant: recovery always puts the before image back.
DisplacedIgnored(r) == Before(r)

\* The bytes recovery puts back: what the exchange displaced, unless that is
\* our own staged bytes or gone; then the journal's before image.
Displaced(r) == IF Temp(r) \in {Missing, After(r)} THEN Before(r) ELSE Temp(r)

\* Take one listed journal, if it still exists, to the step it calls for.
TakeJournal(p, r, restore, there) ==
  /\ At(p, "recover")
  /\ r \in list[p]
  /\ journal[r] # "none"
  /\ run' = [run EXCEPT ![p] = r]
  /\ list' = [list EXCEPT ![p] = @ \ {r}]
  /\ want' = [want EXCEPT ![p] = restore]
  /\ Goto(p, there)
  /\ UNCHANGED <<projectVars, lock, dbVars, kind, purge, historyVars>>

RecoverGone(p, r) ==
  /\ At(p, "recover")
  /\ r \in list[p]
  /\ journal[r] = "none"
  /\ list' = [list EXCEPT ![p] = @ \ {r}]
  /\ UNCHANGED <<projectVars, lock, dbVars, pc, kind, run, purge, want,
                 historyVars>>

RecoverCommitted(p, r) ==
  /\ Committed(r)
  /\ TakeJournal(p, r, Missing, "recover_archive")

\* Mutant: the phase of an uncommitted journal is not looked at.
RecoverAnyPhase(p, r) ==
  /\ ~Committed(r)
  /\ TakeJournal(p, r, Missing, "clean_staged")

RecoverPrepared(p, r) ==
  /\ ~Committed(r)
  /\ journal[r] = "prepared"
  /\ TakeJournal(p, r, Missing, "clean_staged")

\* The article may have been replaced without a commit marker.
Interrupted(r) == ~Committed(r) /\ journal[r] \in {"replacing", "replaced"}
\* Mutant: a .recovery that holds our own bytes is taken for a user's.
KnownUnlessExchanged(r) == Recov(r) \in {Missing, Displaced(r)}

KnownRecovery(r) == Recov(r) \in {Missing, After(r), Displaced(r)}

RecoverReplaced(p, r) ==
  /\ Interrupted(r)
  /\ KnownRecovery(r)
  /\ target = After(r)
  /\ TakeJournal(p, r, Displaced(r), IF Displaced(r) = Missing
                                     THEN "recover_exchange"
                                     ELSE "recover_stage")

RecoverRecognized(p, r) ==
  /\ Interrupted(r)
  /\ KnownRecovery(r)
  /\ target # After(r)
  /\ target = Displaced(r)
  /\ TakeJournal(p, r, Missing, "clean_staged")

RecoverConflict(p, r) ==
  /\ At(p, "recover")
  /\ r \in list[p]
  /\ Interrupted(r)
  /\ ~KnownRecovery(r) \/ target \notin {After(r), Displaced(r)}
  /\ Conflict(p, r)

RecoverStage(p) ==
  Store(p, "recover_stage", "recov", want[p], "recover_exchange")

\* The article and .recovery trade places; with nothing to put back the
\* article is only moved aside, by an exclusive rename.
Swap(r) ==
  /\ target' = Recov(r)
  /\ own' = [own EXCEPT !["recov"][r] = target]
  /\ UNCHANGED <<copy, moved, journalVars, archiveVars>>

RecoverExchange(p) ==
  /\ Move(p, "recover_exchange", "recover_verify")
  /\ target # Missing
  /\ want[p] = Missing => Recov(run[p]) = Missing
  /\ Swap(run[p])

RecoverVerified(p) ==
  /\ Look(p, "recover_verify", "recover_unstage")
  /\ Recov(run[p]) = After(run[p])

\* An editor saved between the read and the exchange: trade back when our own
\* bytes (or our absence) still stand there, otherwise keep both.
RecoverRaced(p) ==
  /\ At(p, "recover_verify")
  /\ Recov(run[p]) # After(run[p])
  /\ \/ target = want[p] /\ Look(p, "recover_verify", "recover_undo")
     \/ target # want[p] /\ Conflict(p, run[p])

RecoverUndo(p) ==
  /\ At(p, "recover_undo")
  /\ target = Missing <=> want[p] = Missing
  /\ Swap(run[p])
  /\ conflicted' = conflicted \cup {run[p]}
  /\ Throw(p)
  /\ UNCHANGED <<dbVars, outVars>>

\* The native rename or exchange finds a name absent or taken.
RecoverBlocked(p) ==
  /\ \/ /\ At(p, "recover_exchange")
        /\ target = Missing \/ (want[p] = Missing /\ Recov(run[p]) # Missing)
     \/ At(p, "recover_undo") /\ ~(target = Missing <=> want[p] = Missing)
  /\ Fail(p)

RecoverUnstage(p) ==
  Store(p, "recover_unstage", "recov", Missing, "clean_staged")

DisplacedName(r) == <<r, "displaced", Temp(r)>>
KeptName(r) == <<r, "kept", target>>

\* Write a content-addressed archive file (nothing when bytes = Missing), or
\* find its name holding other bytes: "archive has changed".
ArchiveBytes(p, here, name, bytes, there) ==
  \/ /\ At(p, here)
     /\ bytes = Missing \/ name \notin tornArchive
     /\ archive' = IF bytes = Missing THEN archive ELSE archive \cup {name}
     /\ Move(p, here, there)
     /\ UNCHANGED <<articleVars, journalVars, tornArchive, manifests>>
  \/ /\ At(p, here)
     /\ bytes # Missing
     /\ name \in tornArchive
     /\ Fail(p)

\* preserve_displaced: an editor may have kept writing the displaced inode.
Unexpected(r) == Temp(r) \notin {Missing, Before(r), After(r)}
PreserveDisplaced(p, here, there) ==
  ArchiveBytes(p, here, DisplacedName(run[p]),
    IF Unexpected(run[p]) THEN Temp(run[p]) ELSE Missing, there)

RecoverArchive(p) == PreserveDisplaced(p, "recover_archive", "clean_staged")

\* Cleanup can be repeated.  The staged source goes; without a commit marker
\* so do the copy and the backup this run made.  A backup cut short by ENOSPC
\* is a prefix of the before image and goes too.
\* Mutant: committed copies are not retained.
MadeByRun(r) == op[r].owns
Made(r) == op[r].owns /\ ~Committed(r)

CleanStaged(p) == Store(p, "clean_staged", "staged", Missing, "clean_copy")

CleanCopy(p) ==
  \/ /\ At(p, "clean_copy")
     /\ Made(run[p]) => copy \in {Missing, Source}
     /\ copy' = IF Made(run[p]) THEN Missing ELSE copy
     /\ Move(p, "clean_copy", "clean_backup")
     /\ UNCHANGED <<target, own, moved, journalVars, archiveVars>>
  \/ /\ At(p, "clean_copy")
     /\ Made(run[p]) /\ copy \notin {Missing, Source}
     /\ Conflict(p, run[p])

CleanBackup(p) ==
  \/ /\ Look(p, "clean_backup", "clean_temp")
     /\ Committed(run[p])
  \/ /\ Store(p, "clean_backup", "backup", Missing, "clean_temp")
     /\ ~Committed(run[p])

CleanTemp(p) == Store(p, "clean_temp", "temp", Missing, "clean_recovery")
CleanRecovery(p) == Store(p, "clean_recovery", "recov", Missing, "clean_journal")

RemoveJournal(p, here, there) ==
  /\ Move(p, here, there)
  /\ journal' = [journal EXCEPT ![run[p]] = "none"]
  /\ UNCHANGED <<articleVars, pending, op, archiveVars>>

CleanJournal(p) == RemoveJournal(p, "clean_journal", "clean_pending")

CleanPending(p) ==
  /\ Move(p, "clean_pending", IF kind[p] = "keep" THEN "keep" ELSE "recover")
  /\ pending' = pending \ {run[p]}
  /\ UNCHANGED <<articleVars, journal, op, archiveVars>>

RecoverCommit(p) ==
  /\ At(p, "recover")
  /\ list[p] = {}
  /\ Unlock(p)
  /\ IF purge[p] THEN Goto(p, "purge_begin") /\ UNCHANGED localVars
                 ELSE Opened(p)
  /\ UNCHANGED <<projectVars, dbVars, historyVars>>

\* A .pending journal precedes every owned mutation; it is deleted under the
\* write lock, so a live writer cannot lose its own.
Purge(p) ==
  /\ At(p, "purge_begin")
  /\ lock = NoProcess
  /\ pending' = {}
  /\ Opened(p)
  /\ UNCHANGED <<articleVars, journal, op, archiveVars, lock, dbVars,
                 historyVars>>

----------------------------------------------------------------------------
\* Approval and apply: VaultWriter::approve, VaultWriter::apply.

\* The reviewed token binds the article's bytes and its latest file operation.
Token == [before |-> target, last |-> lastOp]
CopyVerified == copy \in {Missing, Source}

\* One SQLite transaction.  Its connection may have been opened before a
\* journal appeared and have waited for the lock while that apply died.
Approve(q) ==
  /\ lock = NoProcess
  /\ status[q] = "pending"
  /\ digest # Missing => target # Missing
  /\ CopyVerified
  /\ status' = [status EXCEPT ![q] = "approved"]
  /\ token' = [token EXCEPT ![q] = Token]
  /\ UNCHANGED <<projectVars, lock, markers, lastOp, digest, pc, localVars,
                 historyVars>>

ApplyBegin(p) == Begin(p, "apply_begin", "validate") /\ UNCHANGED localVars

\* Mutant: an approval that was once given is enough.
ApplicableOnceApproved(q) == token[q] # NoToken /\ CopyVerified

Applicable(q) == status[q] = "approved" /\ token[q] = Token /\ CopyVerified

\* prepare_article under the lock, then the FileOperation constructor.
Validate(p, q, r) ==
  /\ At(p, "validate")
  /\ Applicable(q)
  /\ op[r] = NoOp
  /\ op' = [op EXCEPT ![r] = [proposal |-> q, before |-> target,
                              owns |-> copy = Missing]]
  /\ run' = [run EXCEPT ![p] = r]
  /\ Goto(p, "journal")
  /\ UNCHANGED <<articleVars, journal, pending, archiveVars, lock, dbVars,
                 kind, list, purge, want, historyVars>>

\* Not approved, or the preview changed since approval (or, a bound of the
\* model, every run identifier is used up).
Refuse(p, q) ==
  /\ At(p, "validate")
  /\ ~Applicable(q) \/ \A r \in Run : op[r] # NoOp
  /\ Fail(p)

\* atomic_json: write and sync RUN.json.pending, then rename it.
WritePending(p, here, there) ==
  /\ Move(p, here, there)
  /\ pending' = pending \cup {run[p]}
  /\ UNCHANGED <<articleVars, journal, op, archiveVars>>

PublishJournal(p, here, phase, there) ==
  /\ Move(p, here, there)
  /\ journal' = [journal EXCEPT ![run[p]] = phase]
  /\ pending' = pending \ {run[p]}
  /\ UNCHANGED <<articleVars, op, archiveVars>>

PrepareJournal(p) ==
  \/ WritePending(p, "journal", "journal_publish")
  \/ PublishJournal(p, "journal_publish", "prepared", "backup")

PrepareBackup(p) ==
  Store(p, "backup", "backup", Before(run[p]),
        IF op[run[p]].owns THEN "copy" ELSE "stage")

PrepareCopy(p) == Store(p, "copy", "staged", Source, "copy_publish")

\* rename_exclusive never replaces a file that appeared meanwhile.
PublishCopy(p) ==
  /\ copy = Missing
  /\ Move(p, "copy_publish", "stage")
  /\ copy' = own["staged"][run[p]]
  /\ own' = [own EXCEPT !["staged"][run[p]] = Missing]
  /\ UNCHANGED <<target, moved, journalVars, archiveVars>>

StageArticle(p) == Store(p, "stage", "temp", After(run[p]), "recheck")

\* replace() first compares the article with the approved before image.
Recheck(p) ==
  /\ WritePending(p, "recheck", "replacing")
  /\ target = Before(run[p])

MarkReplacing(p) == PublishJournal(p, "replacing", "replacing", "exchange")

\* Exchange with an existing article, exclusive rename to an absent one.
Replaceable(r) == target = Missing <=> Before(r) = Missing

ReplaceArticle(p) ==
  LET r == run[p] IN
  /\ Move(p, "exchange", "verify")
  /\ Replaceable(r)
  /\ target' = Temp(r)
  /\ own' = [own EXCEPT !["temp"][r] = target]
  /\ moved' = IF target = Missing THEN moved ELSE moved \cup {r}
  /\ UNCHANGED <<copy, journalVars, archiveVars>>

Replaced(r) ==
  /\ Before(r) # Missing => Temp(r) = Before(r)
  /\ target = After(r)

VerifyReplaced(p) ==
  /\ WritePending(p, "verify", "replaced")
  /\ Replaced(run[p])

MarkReplaced(p) == PublishJournal(p, "replaced", "replaced", "final_check")

FinalCheck(p) ==
  /\ Look(p, "final_check", "commit")
  /\ target = After(run[p])

\* The checks and native renames above throw when they do not hold.
ApplyBlocked(p) ==
  LET r == run[p] IN
  /\ \/ At(p, "copy_publish") /\ copy # Missing
     \/ At(p, "recheck") /\ target # Before(r)
     \/ At(p, "exchange") /\ ~Replaceable(r)
     \/ At(p, "verify") /\ ~Replaced(r)
     \/ At(p, "final_check") /\ target # After(r)
  /\ Fail(p)

\* persist_success, the snapshot, the active pointer and the marker become
\* visible together.
Commit(p) ==
  LET r == run[p] IN
  /\ At(p, "commit")
  /\ status' = [status EXCEPT ![After(r)] = "applied"]
  /\ digest' = After(r)
  /\ markers' = markers \cup {r}
  /\ lastOp' = r
  /\ lock' = NoProcess
  /\ due' = IF target = After(r) THEN {After(r)} ELSE due
  /\ Goto(p, "cleanup_begin")
  /\ UNCHANGED <<projectVars, token, localVars, unsaved, faults, owed,
                 conflicted>>

CleanupBegin(p) == Begin(p, "cleanup_begin", "finish") /\ UNCHANGED localVars
\* Mutant: cleanup goes straight to the journal.
FinishForgetsTemp(p) == PreserveDisplaced(p, "finish", "finish_journal")
FinishArchive(p) == PreserveDisplaced(p, "finish", "finish_temp")
FinishTemp(p) == Store(p, "finish_temp", "temp", Missing, "finish_journal")
FinishJournal(p) == RemoveJournal(p, "finish_journal", "finish_commit")

FinishCommit(p) ==
  /\ At(p, "finish_commit")
  /\ Unlock(p)
  /\ Leave(p, "idle")
  /\ UNCHANGED <<projectVars, dbVars, historyVars>>

----------------------------------------------------------------------------
\* kc recover --keep-user-file: keep_recovery_conflicts.

KeepBegin(p) ==
  /\ Begin(p, "keep_begin", "keep")
  /\ list' = [list EXCEPT ![p] = Journals]
  /\ UNCHANGED <<kind, run, purge, want>>

KeepJournal(p, r) ==
  /\ At(p, "keep")
  /\ r \in list[p]
  /\ run' = [run EXCEPT ![p] = r]
  /\ list' = [list EXCEPT ![p] = @ \ {r}]
  /\ Goto(p, IF Committed(r) THEN "recover_archive" ELSE "keep_kept")
  /\ UNCHANGED <<projectVars, lock, dbVars, kind, purge, want, historyVars>>

KeepTarget(p) ==
  ArchiveBytes(p, "keep_kept", KeptName(run[p]), target, "keep_displaced")
KeepDisplaced(p) ==
  ArchiveBytes(p, "keep_displaced", DisplacedName(run[p]), Temp(run[p]),
               "keep_manifest")

KeepManifest(p) ==
  /\ Move(p, "keep_manifest", "keep_temp")
  /\ manifests' = manifests \cup {run[p]}
  /\ UNCHANGED <<articleVars, journalVars, archive, tornArchive>>

KeepTemp(p) == Store(p, "keep_temp", "temp", Missing, "keep_source")

\* The staged source moves into the archive; it has no user bytes to follow.
KeepSource(p) == Store(p, "keep_source", "staged", Missing, "keep_recovery")

\* A .recovery moves to one name per run, exclusively: a second one throws.
RecoveryKept(r) == \E name \in archive : name[1] = r /\ name[2] = "recovery"
KeepRecovery(p) ==
  LET r == run[p] IN
  \/ /\ Move(p, "keep_recovery", "keep_journal")
     /\ Recov(r) # Missing => ~RecoveryKept(r)
     /\ archive' = IF Recov(r) = Missing THEN archive
                   ELSE archive \cup {<<r, "recovery", Recov(r)>>}
     /\ own' = [own EXCEPT !["recov"][r] = Missing]
     /\ UNCHANGED <<target, copy, moved, journalVars, tornArchive, manifests>>
  \/ /\ At(p, "keep_recovery")
     /\ Recov(r) # Missing /\ RecoveryKept(r)
     /\ Fail(p)

\* Mutant: the archived journal stays active.
KeepLeavesJournal(p) == Look(p, "keep_journal", "keep")
KeepRemoveJournal(p) == RemoveJournal(p, "keep_journal", "keep")

KeepCommit(p) ==
  /\ At(p, "keep")
  /\ list[p] = {}
  /\ Unlock(p)
  /\ Leave(p, "idle")
  /\ UNCHANGED <<projectVars, dbVars, historyVars>>

----------------------------------------------------------------------------
\* The external editor.  Bytes it replaces or deletes are its own doing and
\* owed no longer; every action uses up a member of unsaved.

Edit(v) ==
  /\ v \in unsaved
  /\ unsaved' = unsaved \ {v}
  /\ UNCHANGED <<journalVars, archiveVars, lock, dbVars, pc, localVars, faults,
                 conflicted>>

EditorSave(v) ==
  /\ Edit(v)
  /\ target' = v
  /\ due' = {v}
  /\ owed' = (owed \ {target}) \cup {v}
  /\ UNCHANGED <<copy, own, moved>>

EditorDelete(v) ==
  /\ Edit(v)
  /\ target # Missing
  /\ target' = Missing
  /\ due' = {Missing}
  /\ owed' = owed \ {target}
  /\ UNCHANGED <<copy, own, moved>>

\* Between the last read of RUN.tmp and its removal nothing can observe a
\* further write to that inode.
Blind == {"recover_stage", "recover_exchange", "recover_verify",
          "recover_undo", "recover_unstage", "clean_staged", "clean_copy",
          "clean_backup", "clean_temp", "finish_temp", "keep_manifest", "keep_temp"}
Observable(r) == \A p \in Process : run[p] = r => pc[p] \notin Blind

\* An editor that still holds the displaced inode open writes through it.
EditorWriteDisplaced(v, r) ==
  /\ HeldInode
  /\ Edit(v)
  /\ r \in moved
  /\ Temp(r) # Missing
  /\ own' = [own EXCEPT !["temp"][r] = v]
  /\ owed' = (owed \ {Temp(r)}) \cup (IF Observable(r) THEN {v} ELSE {})
  /\ due' = CASE Temp(r) \notin due \/ Committed(r) -> due
              [] OTHER -> IF Observable(r) THEN (due \ {Temp(r)}) \cup {v}
                                           ELSE due \cup {v}
  /\ UNCHANGED <<target, copy, moved>>

\* Somebody puts other bytes where the source copy is or will be.
EditorReplaceCopy(v) ==
  /\ Edit(v)
  /\ copy' = Foreign
  /\ UNCHANGED <<target, own, moved, due, owed>>

----------------------------------------------------------------------------
\* Faults.  A write that is interrupted leaves a prefix of its bytes, or the
\* absence of the file it removed first.

TornFile ==
  [backup |-> "backup", copy |-> "staged", stage |-> "temp",
   recover_stage |-> "recov"]

TornWrite(p) ==
  /\ pc[p] \in DOMAIN TornFile
  /\ At(p, "backup") => Before(run[p]) # Missing
  /\ \E left \in {Torn, Missing} :
       own' = [own EXCEPT ![TornFile[pc[p]]][run[p]] = left]
  /\ UNCHANGED <<target, copy, moved, tornArchive>>

TornArchive(p) ==
  LET r == run[p]
      name == IF At(p, "keep_kept") THEN KeptName(r) ELSE DisplacedName(r) IN
  /\ \/ pc[p] \in {"finish", "recover_archive"} /\ Unexpected(r)
     \/ At(p, "keep_displaced") /\ Temp(r) # Missing
     \/ At(p, "keep_kept") /\ target # Missing
  /\ name \notin archive
  /\ tornArchive' = tornArchive \cup {name}
  /\ UNCHANGED articleVars

Fault(p) ==
  /\ faults < MaxFaults
  /\ faults' = faults + 1
  /\ TornWrite(p) \/ TornArchive(p) \/ UNCHANGED <<articleVars, tornArchive>>
  /\ UNCHANGED <<journalVars, archive, manifests, dbVars, unsaved, due, owed,
                 conflicted>>

\* The process dies at any point.
Crash(p) == ~At(p, "idle") /\ Fault(p) /\ Leave(p, "idle") /\ Unlock(p)

\* A file or SQLite call fails (ENOSPC, EACCES, a rejected COMMIT).
IoFailure(p) == pc[p] \in Locked /\ Fault(p) /\ Throw(p)

----------------------------------------------------------------------------
RecoverStep(p) ==
  \/ RecoverBegin(p)
  \/ \E r \in Run :
       \/ RecoverGone(p, r) \/ RecoverCommitted(p, r) \/ RecoverPrepared(p, r)
       \/ RecoverReplaced(p, r) \/ RecoverRecognized(p, r)
       \/ RecoverConflict(p, r)
  \/ RecoverStage(p) \/ RecoverExchange(p) \/ RecoverVerified(p)
  \/ RecoverRaced(p) \/ RecoverUndo(p) \/ RecoverBlocked(p)
  \/ RecoverUnstage(p) \/ RecoverArchive(p) \/ CleanStaged(p) \/ CleanCopy(p)
  \/ CleanBackup(p) \/ CleanTemp(p) \/ CleanRecovery(p) \/ CleanJournal(p) \/ CleanPending(p)
  \/ RecoverCommit(p) \/ Purge(p)

ApplyStep(p) ==
  \/ ApplyBegin(p)
  \/ \E q \in Proposal : Refuse(p, q) \/ \E r \in Run : Validate(p, q, r)
  \/ PrepareJournal(p) \/ PrepareBackup(p) \/ PrepareCopy(p) \/ PublishCopy(p)
  \/ StageArticle(p) \/ Recheck(p) \/ MarkReplacing(p) \/ ReplaceArticle(p)
  \/ VerifyReplaced(p) \/ MarkReplaced(p) \/ FinalCheck(p) \/ ApplyBlocked(p)
  \/ Commit(p) \/ CleanupBegin(p) \/ FinishArchive(p) \/ FinishTemp(p)
  \/ FinishJournal(p) \/ FinishCommit(p)

KeepStep(p) ==
  \/ KeepBegin(p) \/ \E r \in Run : KeepJournal(p, r)
  \/ KeepTarget(p) \/ KeepDisplaced(p) \/ KeepManifest(p) \/ KeepTemp(p)
  \/ KeepSource(p) \/ KeepRecovery(p) \/ KeepRemoveJournal(p) \/ KeepCommit(p)

Step(p) == RecoverStep(p) \/ ApplyStep(p) \/ KeepStep(p) \/ BusyTimeout(p)

Editor ==
  \E v \in Save :
    \/ EditorSave(v) \/ EditorDelete(v) \/ EditorReplaceCopy(v)
    \/ \E r \in Run : EditorWriteDisplaced(v, r)

Next ==
  \/ \E p \in Process :
       \/ \E k \in Commands : Open(p, k)
       \/ Step(p) \/ Crash(p) \/ IoFailure(p)
  \/ \E q \in Proposal : Approve(q)
  \/ Editor

Spec == Init /\ [][Next]_vars

\* Fairness for liveness: a process that can move does, and somebody keeps
\* running kc while a journal is there, with --keep-user-file once recovery
\* has reported a conflict on it.
Unresolved == conflicted \cap Journals # {}
RunRecover(p) == Journals # {} /\ Open(p, "open")
RunKeep(p) == Unresolved /\ Open(p, "keep")
FairSpec ==
  /\ Spec
  /\ \A p \in Process : WF_vars(Step(p)) /\ SF_vars(RunRecover(p))
                          /\ SF_vars(RunKeep(p))

----------------------------------------------------------------------------
\* Properties.

Places == {"idle", "reopen"} \cup Waiting \cup Locked

ArticleOK ==
  /\ target \in Bytes /\ copy \in Bytes
  /\ own \in [Owned -> [Run -> Bytes]]
  /\ moved \subseteq Run
JournalOK ==
  /\ journal \in [Run -> Phases]
  /\ pending \subseteq Run
  /\ op \in [Run -> Operation \cup {NoOp}]
ArchiveOK ==
  /\ archive \subseteq Run \X {"kept", "displaced", "recovery"} \X Bytes
  /\ tornArchive \subseteq Run \X {"kept", "displaced"} \X Bytes
  /\ manifests \subseteq Run
DbOK ==
  /\ lock \in Process \cup {NoProcess}
  /\ status \in [Proposal -> {"pending", "approved", "applied"}]
  /\ token \in [Proposal -> PreviewToken \cup {NoToken}]
  /\ markers \subseteq Run /\ lastOp \in Run \cup {NoRun}
  /\ digest \in Bytes
LocalsOK ==
  /\ pc \in [Process -> Places]
  /\ kind \in [Process -> Kinds]
  /\ run \in [Process -> Run \cup {NoRun}]
  /\ list \in [Process -> SUBSET Run]
  /\ purge \in [Process -> BOOLEAN]
  /\ want \in [Process -> Bytes]
HistoryOK ==
  /\ unsaved \subseteq Save /\ faults \in 0..MaxFaults
  /\ conflicted \subseteq Run /\ due \subseteq Bytes /\ owed \subseteq Save

\* Types of every variable.
TypeOK ==
  ArticleOK /\ JournalOK /\ ArchiveOK /\ DbOK /\ LocalsOK /\ HistoryOK

\* A process is inside its write transaction exactly while SQLite's lock is
\* its own, across recovery, apply, cleanup and keep.
WriterExclusive == \A p \in Process : pc[p] \in Locked <=> lock = p

\* Bytes an editor saved and did not itself replace are never lost: they are
\* the article, a file of some run, a committed run's backup or archived.
Stored ==
  {target} \cup {own[f][r] : f \in {"temp", "recov"}, r \in Run}
  \cup {own["backup"][r] : r \in markers} \cup {name[3] : name \in archive}
SavesSurvive == owed \subseteq Stored

\* With no journal left and nothing kept by hand, the article is what the last
\* save or the last commit left: no half-published and no half-undone apply.
Settled == Journals = {} /\ manifests = {} => target \in due

\* Once an apply has committed, the source its article cites stays in the vault.
SourcesRetained == markers # {} => copy # Missing

\* A run without a journal left no temporary behind, and a backup only if it
\* committed or its conflict was resolved by keep.
NoOrphans ==
  \A r \in Run : journal[r] = "none" =>
    /\ \A f \in {"temp", "recov", "staged"} : own[f][r] = Missing
    /\ own["backup"][r] # Missing => r \in markers \cup manifests

\* A proposal is applied by at most one run, whatever races or is retried.
OneApply == \A r, s \in markers : After(r) = After(s) => r = s

\* The strengthening that makes OneApply inductive.  Every run that a journal,
\* a marker, a listing or a process names has an operation, and a process that
\* has validated one proposal works on it alone until its commit.
Publishing == Applying \ {"validate"}
Working ==
  (Locked \ {"recover", "validate", "keep"}) \cup {"cleanup_begin"}
KnownRuns ==
  /\ \A r \in Run : journal[r] # "none" \/ r \in markers => op[r] # NoOp
  /\ \A p \in Process : \A r \in list[p] : op[r] # NoOp
  /\ \A p \in Process : pc[p] \in Working =>
       run[p] \in Run /\ op[run[p]] # NoOp
Reviewed ==
  /\ \A r \in markers : status[After(r)] = "applied"
  /\ \A p \in Process : pc[p] \in Publishing =>
       status[After(run[p])] = "approved"
WriterInvariant ==
  TypeOK /\ KnownRuns /\ WriterExclusive /\ Reviewed /\ OneApply

\* The article is one recovery of r would act on without a conflict.
Recoverable(r) == KnownRecovery(r) /\ target \in {After(r), Displaced(r)}

\* No step of the program turns an interrupted apply that recovery can undo
\* into one it reports as a conflict: an interrupted recovery can be repeated
\* (file_operation.cpp:242-275), as long as the bytes put back are the
\* journal's and no write of .recovery was torn.
JournalRecoveryRepeats ==
  [][unsaved' = unsaved => \A r \in Run :
       /\ Interrupted(r) /\ Recoverable(r) /\ Interrupted(r)'
       /\ ~Unexpected(r) /\ Recov(r)' # Torn
       => Recoverable(r)']_vars

\* Without an editor, file and database agree when no journal is left.
DigestMatches ==
  Journals = {} /\ unsaved = Save /\ digest # Missing => target = digest

\* Every journal is eventually dealt with (file_operation.cpp:580-680), with
\* two dead ends only: an interrupted write tore a file of the conflict
\* archive, or a keep died after it had archived .recovery and is repeated
\* when recovery has staged another one.
KeptTwice == \E r \in Journals : RecoveryKept(r) /\ Recov(r) # Missing
RecoveryTerminatesUnblocked ==
  <>[](Journals = {} \/ tornArchive # {} \/ KeptTwice)

=============================================================================
