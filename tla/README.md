# Verification of the knowledge compiler's state and vault protocol

This directory holds TLA+ models of `kc`, a command line program that imports
sources, extracts their pages, has a local language model compile them into
article proposals, lets a person review each proposal, and applies approved ones
to a Markdown vault that the user edits at the same time.  Every `kc` command is
a process of its own.  They share one SQLite database, the project's cache
directory and the vault; no daemon coordinates them, and an external editor
(Obsidian) writes the vault without taking any of their locks.

Sources named below are under `src/libs/`, `src/apps/` and `src/docs/`.

## 1. Inventory

| Component | State it keeps | Operations | Modelled in |
| --- | --- | --- | --- |
| durable file operation (`storage/src/file_operation.cpp`) | journals `cache/transactions/RUN.json[.pending]`, temporaries beside the article, backups, conflict archive | prepare, replace, finish, recover on open, keep conflicts | `FileOperation`, refined to `AtomicApply` |
| vault writer (`vault/src/vault_writer.cpp`) | proposals' status, approvals, `apply_runs`, `file_operations` (the commit marker), snapshots, citations, FTS rows | preview, approve, apply, restore, history, inventory | apply step by step in `FileOperation`; preview, token, apply and restore with their rows in `ProposalReview`; checks of the rendered article in `ArticleContent` |
| rendering (`vault/src/rendering.cpp`) | none | managed region, new and replaced article, validation, diff | `ArticleContent`, by lines |
| state database (`storage/src/database.cpp`) | SQLite in WAL mode, one writer | open with recovery, `BEGIN IMMEDIATE`, busy timeout, rollback | the lock of every module |
| command line (`apps/kc/main.cpp`) | none | one command per process; `kc recover` orders keep and recovery | order of `recover` in `FileOperation`, `init` and `import` in `Project` |
| extraction (`extraction/src/extractor.cpp`) | `extraction_runs`, `source_pages`, page images and staging directories, leases | extract, forced re-extraction, reconcile abandoned runs | `PageEvidence` |
| review service (`review/src/review_service.cpp`) | `source_pages` rows, proposal status | correct and accept pages; inspect, reject, revoke proposals | pages in `PageEvidence`, proposals in `ProposalReview` |
| compiler (`compiler/src/compiler.cpp`) | `proposals`, `proposal_evidence`, `proposal_citations`, update bases | choose the article, select evidence, generate, validate, publish with rechecks, supersede | evidence in `PageEvidence`; article, base, supersession in `ProposalReview`; payload and citation rows in `ArticleContent` |
| updates (`updates/src/article_updates.cpp`) | none | load base, accumulate, review changes, validate base | base in `ProposalReview`, merge and changes in `ArticleContent` |
| model runner (`models/src/*.cpp`) | `model_runs` audit rows | one request per run, validate the response | outcomes and audit rows in `ProposalReview`, the validation in `ArticleContent`; prompts and HTTP are out |
| concept identity (`storage/src/concept_identity.cpp`) | articles, pending creates | resolve a title, check a destination | `ProposalReview` |
| search (`search/src/search_index.cpp`) | FTS5 rows, written by apply and restore | query | `ProposalReview`: the article of a concept before the hits; ranking is SQLite's |
| source import (`import/src/source_importer.cpp`) | `sources`, `source_versions`, retained files | import with deduplication, repair of a missing copy | `SourceImport` |
| initializer and migrations (`storage/src/project_initializer.cpp`, `migration_runner.cpp`) | `kc.json`, directories, `schema_migrations` | init, migrate | `ProjectSetup` |
| domain values (`domain/src/*.cpp`) | none | parse, escape, hash | only what makes a proposal valid, in `ArticleContent` |
| web server (`server/`) | - | - | no code in this commit |

What makes the system hard:

* **Two stores, one publication.**  An apply changes a vault file and SQLite.
  Neither can be rolled back with the other, so the program keeps a journal and
  every open recovers it.
* **An uncooperative editor.**  It may save, delete or hold open the article
  between any two steps.
* **Process death anywhere**, in recovery too; torn writes; I/O errors.
* **Long gaps between reading and writing.**  OCR and the language model run
  with no lock held; a person reviews in between.  Whatever was read has to be
  checked again when it is used.
* **Immutable history beside mutable state.**  Pages are corrected in place
  until a proposal has captured them, and never afterwards; an article goes back
  to an older revision, and no approval given meanwhile may come back with it.
* **One concept, many spellings.**  Titles are folded further than the unique
  key of the schema (`NOCASE`) sees, and compared by commands that run at the
  same time; a proposal that waits to create an article has no key at all.

Correctness, per component, is stated by the properties of sections 3 to 7.  The
hazards they answer are in `PROJECT.json`, each at its line.

## 2. Modules and plan

| Module | Is about | Composes |
| --- | --- | --- |
| `FileOperation` | one durable publication, a step per durable effect, and its recovery | - |
| `AtomicApply`, `AtomicApplyRefinement` | the compare-and-swap it promises, and the mapping | `FileOperation` |
| `PageEvidence` | pages from extraction to the evidence of a proposal | - |
| `ProposalReview` | from a title to a published article: compiles, review, apply, restore, edits | takes an apply in three steps, which `FileOperation` refines |
| `ArticleContent` | what a proposal says and how it gets into the file | takes one compile or publication at a time, which `ProposalReview` interleaves |
| `ProjectSetup`, `SourceImport` | init with migrations; import | - |
| `Project` | both beside each other | instances of the two, which share the migration history, SQLite's writer and the bound on faults |
| `FileDurability_proofs`, `FileSequential_proofs`, `PageEvidence_proofs`, `ProposalReview_proofs`, `ArticleContent_proofs`, `ProjectSetup_proofs`, `SourceImport_proofs`, `Project_proofs` | theorems | `FileSequential_proofs`: `FileDurability_proofs` and `AtomicApplyRefinement`; `Project_proofs`: the lemmas of `ProjectSetup_proofs` and `SourceImport_proofs` |
| `MC*` | values of constants and symmetries for TLC | - |

Every module is written to be proved about: constants with named assumptions, one
action per step, invariants as conjunctions of named parts, no RECURSIVE operator.

What the plan has left:

1. The three-step publication of `ProposalReview` as an abstraction that
   `FileOperation` is shown to implement, beyond `AtomicApply`.
2. The exact conditions under which two commands at a time keep `Settled` and
   `SourcesRetained` (a listing that is repeated under the lock, say), as a
   theorem about the repaired protocol.

Every invariant and every action property that a passing run checks, and the
refinement, is also a theorem (section 8); only liveness is not.

Runs are kept small enough for TLC to finish in one or two minutes each.

## 3. `FileOperation`: one article, its journals, and everybody who touches them

### State and code

| Variable | Code |
| --- | --- |
| `target`, `copy` | the article's path; the vault's copy of the cited source |
| `own["temp"/"recov"/"backup"/"staged"]` | `ARTICLE.kc-RUN.tmp`, its `.recovery`, `cache/backups/transactions/RUN.md`, the source's temporary |
| `moved` | runs whose temporary is now the displaced inode (an editor may still hold it open) |
| `journal`, `pending`, `op` | phase in `RUN.json`; `RUN.json.pending`; the recorded before image, proposal and ownership of the source copy |
| `archive`, `tornArchive`, `manifests` | `cache/recovery-conflicts` |
| `lock` | SQLite's writer: the process between `BEGIN IMMEDIATE` and the end of its transaction |
| `status`, `token`, `markers`, `lastOp`, `digest` | `proposals.status`, `proposal_approvals.preview_sha256`, rows of `file_operations`, the latest one of the article, `articles.content_sha256` |
| `pc`, `kind`, `run`, `list`, `purge`, `want` | where a process stands and its locals |
| `due`, `owed`, `conflicted` | history variables of the properties |

File contents are members of a small set; the bytes a proposal renders to are
named by the proposal.  `Torn` is a strict prefix left by an interrupted
`durable_write`.  A step ends where the code reaches a durable boundary: a synced
write, a rename, an exchange, a removal, a `COMMIT`.  An SQLite transaction
becomes visible with its commit, so its statements are one action (`Commit`).

### Actions and code

* `Open`, `RecoverBegin` .. `Purge`: `Database::Database` and `recover_on_open`
  (file_operation.cpp 565-613).  The journals are listed **before** the lock is
  taken, as in the code.  `Recover*` and `Clean*` are `recover_journal`
  (213-312) in its order: what to restore, stage `.recovery`, exchange, verify,
  trade back, and cleanup.
* `Approve`, `ApplyBegin`, `Validate`, `Refuse`: `VaultWriter::approve` and the
  first half of `apply`, the preview token reduced to what it binds here, the
  article's bytes and the latest file operation.
* `PrepareJournal` .. `MarkReplaced`: `FileOperation::prepare` and `replace`.
* `FinalCheck`, `Commit`, `CleanupBegin`, `Finish*`: the second half of `apply`
  (1178-1198) and `persist_success`.
* `ApplyBlocked`, `RecoverBlocked`, `Conflict`, `Fail`: the throws.  The catch of
  `apply` opens a fresh `Database`, that is, recovery runs at once ("reopen").
* `Keep*`: `keep_recovery_conflicts`.
* `Editor*`: the external editor; `Crash`, `IoFailure`, `TornWrite`,
  `TornArchive`: faults.

### Abstractions

* One article and one cited source; more of either are independent journals.
* The proposal's bytes depend on the article it was reviewed against (user text
  outside the managed region is carried over).  The model names them by the
  proposal alone, because the token admits one article only.
* An approval is one SQLite transaction.  Its connection may have been opened
  before a journal appeared, so no absence of journals is assumed.
* What an editor writes through a held inode between the last read of the
  temporary and its removal is seen by nobody (`Blind`); `owed` does not claim
  those bytes.  src/docs/APPLY_RECOVERY.md:126-131 concedes the same.
* A restore goes through the same file protocol; it is modelled in
  `ProposalReview`, where what it does to the rows matters.
* Left out: Windows paths, path containment and symlinks, the contents of the
  conflict manifest, history.

### Runs

| Run | Instance | Shows |
| --- | --- | --- |
| `editor` | 1 process, 2 runs, 2 proposals, 2 editor actions, 1 fault | `SavesSurvive`: nothing an editor saved and did not itself replace disappears; `Settled`: with no journal left the article is what the last save or commit left; `SourcesRetained` |
| `writers` | 2 processes, 2 runs, 1 proposal, 1 editor action, 1 fault | `WriterInvariant`, the inductive invariant of the proofs, with types and the exclusion of writers in it; `OneApply`: a proposal is applied by one run at most |
| `liveness` | 1 process, 1 run, 1 proposal, 1 editor action, 4 faults | `NoOrphans`: no temporary outlives its journal; `JournalRecoveryRepeats`: no program step turns an undoable interruption into a conflict; `RecoveryTerminatesUnblocked`: every journal is dealt with in the end, unless an archive file is torn or `.recovery` exists both beside the article and in the archive |
| `atomic` | 1 process, 3 runs, 2 proposals, no editor, 3 faults | `AppliesAtomically`: `AtomicApplyRefinement` maps the journal protocol to the compare-and-swap of `AtomicApply` |
| `v_rollback` | 2 processes, 2 runs, 1 proposal, no editor, 1 fault | a violation, see below |

Why these bounds: an editor needs two actions to race two different windows of
one apply (before the exchange, and through the displaced inode); four faults
reach a crash inside the keep that follows a crash inside the recovery of a
crash, and one more; two runs let a journal of one apply meet the
commit of another; two processes are what the single writer lock serialises.
A third process adds only another waiter.

**Fairness** (`FairSpec`, used by `liveness`): weak
fairness of a process's next step (a running process is scheduled), strong
fairness of opening the project while a journal exists (somebody keeps using
`kc`) and of `kc recover --keep-user-file` once recovery has reported a conflict
(the error message tells the user to run it).  Strong, because the one process
alternates between commands.  Editor, crashes, failures and new applies are not fair.

### Where code and documents disagree

`v_rollback` is expected to be violated: `recover_on_open` lists journals before
any lock and apply never lists again.  A second apply that opened early publishes
over the journal of a first one that died; the next open rolls the committed
article back (and, by the same rollback, removes the source copy it cites).
`PROJECT.json` quotes the document.  `Settled`, `SourcesRetained` and
`AppliesAtomically` are therefore claimed for one command at a time, where they
hold.  `JournalRecoveryRepeats` is too: a second apply that opened early replaces
the article under a journal that recovery could still have undone.
`SavesSurvive` and `NoOrphans` are checked with one process and proved for any
number of them (section 8).

Six dead ends have no run of their own.  The model has each of them, and the
properties that pass exclude them by name or do not claim them:

* `kc recover --keep-user-file` never tries ordinary recovery
  (`main.cpp:1223`), so after a crash between exchange and commit it keeps the
  unpublished article as the user's, which `APPLY_RECOVERY.md:116-117` calls an
  acknowledged external edit.
* Recovery that put displaced user bytes back removes the temporary before the
  journal (`file_operation.cpp:305`); a crash between the two makes the next one
  a conflict, although `APPLY_RECOVERY.md:69` has it repeated
  idempotently (`Unexpected(r)` in `JournalRecoveryRepeats`).
* A crash while archiving leaves a prefix under a content-addressed name
  (`file_operation.cpp:209`), and every later attempt throws
  (`APPLY_RECOVERY.md:114`; `tornArchive` in `RecoveryTerminatesUnblocked`).
* If no extraction ever created `cache/extraction-staging`, which only the PDF
  branch does, reconciliation throws when it synchronizes that directory
  (`file_operation.cpp:369`), rolls back, and every open of the project fails
  from then on; `APPLY_RECOVERY.md:161` promises that the abandoned run is marked
  failed.  `RunsEnd` of `PageEvidence` is claimed once the directory exists.
* A crash while recovery writes `.recovery` leaves a prefix that the next
  recovery takes for newer user bytes (`Recov(r)' # Torn` in
  `JournalRecoveryRepeats`).
* A keep that dies after it archived `.recovery` under the one name a run has
  cannot be repeated once a later recovery has staged another one (`KeptTwice`).

## 4. `PageEvidence`: the pages of a source, from extraction to article

### State and code

| Variable | Code |
| --- | --- |
| `latest` | the newest row of `source_versions` for the source |
| `rows`, `born` | `source_pages`, a row per page identity; the identities generated so far, which are also the order of rowids |
| `evidence`, `baseOf` | `proposal_evidence` (with `proposal_citations`, whose pages are among it); `proposal_update_bases` |
| `pending`, `applied` | the proposal that can still be applied; the one the article was last applied from |
| `runs`, `lease` | `extraction_runs.status` ("unusable" is `failed` with its pages published); the `flock` on `cache/extraction-leases/RUN.lock` |
| `images`, `staging`, `stagingRoot` | `cache/pages/VERSION/RUN`, `cache/extraction-staging/RUN`, and whether the parent of the latter exists |
| `lock` | SQLite's writer, while it is more than one step (reconciliation) |
| `pc`, `run`, `version`, `renew`, `seen`, `kept`, `base`, `list` | where a command stands and its locals |
| `overtaken` | history: commands whose pages changed after they had read them |

A row's `rev` is `evidence_revision`, `run` the directory its image is in, and
`supersedes` is `supersedes_page_id`.

### Actions and code

* `Open`, `Reconcile*`: `reconcile_extractions` (file_operation.cpp 336-391),
  which every command runs before anything else: list the running runs without a
  lock, take each free lease, then mark and remove under `BEGIN IMMEDIATE`.  A
  removal is durable at once; the mark becomes visible with the commit.
  `ReconcileUnsynced` is `sync_directory` throwing because
  `cache/extraction-staging` does not exist.
* `Extract*`: `Extractor::extract` (597-788).  `ExtractRead` is its read
  transaction; `ExtractLease` decides on new identities, without a lock, and takes
  the lease; `ExtractStart` inserts the run; `ExtractPublish` is the whole of
  `persist_result`, with the two rechecks, retirement, deletion of surplus pages,
  the upserts and their lineage.  `ExtractAbort` is the unwinding of the two
  `StagingDirectory` objects, `ExtractMark` is `mark_run_failed`, and
  `ExtractRelease` the destructor of the lease, which goes last either way.
* `Correct`, `AcceptRead`, `AcceptWrite`: `correct_page_text`, and
  `accept_page_text`, which reads in one connection and writes in another.
* `Compile*`: the evidence side of `compile`: the base it starts from, the pages
  selected, the pages retained for an additive update, and `persist_proposal`
  with its rechecks.
* `Apply`: `verify_proposal_evidence` within approve and apply; `Import`: a
  revision becomes the latest one.
* `BusyTimeout`, `Crash`: faults.  A command may also give up where it is
  refused (`GiveUp`).

### Abstractions

* One source and one article.  Pages of different sources never meet in a row,
  and each row is rechecked alone.
* A transaction that touches SQLite alone is one action.  The exception is
  reconciliation, which removes directories within its transaction.
* A connection of a command that has passed its first open is not reconciled
  again; another process's open stands for it.
* Adapters return, or fail; a killed adapter is a `Crash`.  Their result is any
  member of `Readings` for each page.  Retained files change only by the program:
  the checks of their digests against tampering are left out, what remains of
  them is that the image directory is there.
* Removal errors that `StagingDirectory`'s destructor ignores are left out.
* Which of the usable pages are relevant is a free choice of `CompileSelect`, of
  which the compiler's scores make one.  What an approval's token binds of the
  evidence is here (`Apply`), its other parts are in `ProposalReview`.
  Proposals that are rejected or superseded are simply no longer `pending`.

### Runs

| Run | Instance | Shows |
| --- | --- | --- |
| `pages` | 2 processes, 2 extractions, 2 proposals, 1 page number, 3 identities, 2 readings, 3 corrections or acceptances | `TypeOK`; `EvidenceFrozen`: what a proposal was generated from stays as it was; `NothingStalePublished`: neither pages nor a proposal are published from pages that changed since they were read, A-B-A included; `AcceptedAsShown`: an acceptance marks only the text it was shown |
| `leases` | 2 processes, 2 extractions of a PDF or a text, pages that may fail, 2 deaths, `FairSpec` | `ImagesPresent`: current and historical pages keep their images; `NoLitter`: an ended run that published nothing left no directory; `LiveRunsIntact`: nobody touches a live extraction; `RunsEnd`: no run stays recorded as running |
| `lineage` | 1 process, 3 extractions of 1 or 2 pages, 6 identities, 2 versions, 1 correction | `CurrentPages`: the current pages are one gapless rendering; `Lineage`: supersession is ordered and linear |

Why these bounds: every race here is between a command that has read and one
that writes, so two processes suffice; a second extraction is needed to replace
pages under a first reader, and to be live while an open reconciles one that
died; a third to extract again after a shorter rendering, with two page numbers
to shrink and to grow one.  Three corrections make x, y, x out of one reviewed
page.

**Fairness** (`FairSpec`): weak fairness of each command's next step (commands
are scheduled, adapters return) and of opening the project while some run is
recorded as running.  New extractions, faults and corrections are not fair.

`RunsEnd` is claimed once `cache/extraction-staging` exists (section 3, dead
ends).  `Lineage` speaks of the pages that do supersede another one.  A page number that
a shorter new revision dropped and a later extraction in place brings back starts
again with revision 0 and no predecessor; no document says what it should do.

## 5. `ProposalReview`: from a title to a published article

### State and code

| Variable | Code |
| --- | --- |
| `articles` | rows of `articles` with the current revision, `content_sha256`, `article_citations` and the FTS row of each |
| `proposals`, `status`, `approval` | `proposals` with `proposal_update_bases`; `proposals.status`; `proposal_approvals` |
| `audit` | `model_runs.status` |
| `snapshot`, `events` | `article_snapshots` of the apply runs; rows of `file_operations` per article |
| `file` | the vault file of a concept: its managed region and the notes around it |
| `journal`, `worker` | the durable operation under way and where the process that runs it is |
| `pc`, `plan` | where a compile is, and the target, base, mode and claims it holds |
| `shown`, `history` | the preview of `kc proposal show` or `kc restore` that somebody read last |
| `restores`, `edits`, `faults` | counters for the bounds |
| `touched` | history: paths edited, or kept as they were, since their last publication |

### Actions and code

* `ChooseTarget`, `LoadBase`, `Generated`, `ModelFailed`, `Validated`,
  `ValidationFailed`, `Persist`, `Abandon`: `compile` with `generate_concept`.
  Between any two of them another command may run; the model answers after
  minutes.  `Persist` is the whole of `persist_proposal`: the rechecks of base
  and identity under the lock, the row, and what it supersedes.
* `Resolvable`, `Target`, `DestinationIsFree`: `resolve_concept` and
  `validate_concept_destination`; `Search`: `search_index.cpp`.
* `Show`, `Approve`, `Reject`, `Revoke`: `prepare_article`, the preview token,
  and the decisions of the review service.
* `ApplyBegin`, `ShowRestore`, `RestoreBegin`, `Replace`, `Commit`, `Finish`: an
  apply or a restore.  `Commit` writes marker, rows and pointers after the last
  look at the file.
* `Interrupted`, `Recover`, `KeepUserFile`: what a failure leaves and what the
  next open, or the user, makes of it.
* `WriteNote`, `EditRegion`, `DeleteFile`: the person at the editor.

### Abstractions

* One durable operation at a time: a second one that would begin while a journal
  is there waits for recovery.  The race in which it does not is `v_rollback`.
* Compile, model run, proposal, apply run and the article it creates have one
  number, since each has at most one of the next.
* The vault path of a concept is its folded key.  Titles map to keys and slugs
  by constants; the assumption is that one key has one slug, as the code
  computes the slug from the key.
* A managed region is the set of its claims, or `Edited`, or `Unmanaged`.
  `ArticleContent` has the lines.
* `Hits` is any articles in any order: words and scores are SQLite's.
* Left out: legacy updates without a base row, the listing of proposals and the
  recovery inventory, which change nothing.

### Runs

| Run | Instance | Shows |
| --- | --- | --- |
| `identity` | 3 compiles of 4 titles (two spellings of one concept, another concept with their slug, one with its own), 1 claim, 1 restore, 1 fault | `OneOpenPerConcept`: a concept never has two proposals that could still be applied; `OneArticlePerConcept`: nor two articles, and a search by any spelling brings its article first; `AuditedGeneration`: no proposal without a completed model run; `OvertakenLater`: an update in review on an older base was overtaken after it was persisted, never before |
| `review` | 2 compiles of one concept, 2 claims, 2 restores, 2 edits, 1 fault | `TypeOK`; `RowsAgree`: digest, citations, index, snapshot and pointer describe one revision; `FileIsCurrent`: the vault holds it; `ReviewedLatest`: no token survives an apply or a restore, not even one that brings the same bytes back; `LossesReviewed`: no note, edit or claim disappears that the reviewer was not shown |

Why these bounds: three compiles are two that race to create a concept, and one
that updates or supersedes what came of it; the titles meet in every way the
resolution tells apart.  Two compiles and two restores make A, B, A out of one
article with a token from each; two edits fall before and after a preview.

## 6. `ArticleContent`: what a proposal says and how it gets into the file

| Variable | Code |
| --- | --- |
| `article`, `managed` | payload of the applied revision; the managed region `managed_sha256` is the digest of |
| `file` | the lines of the article's file |
| `proposal` | `proposals.payload_json`, the mode, and `proposal_citations` |
| `compiles`, `edits` | counters for the bounds |

`Create` and `Update` are a compile's answer, validated, merged
(`Accumulate`, `AddBlock`, `Merge`) and stored with its rows (`InsertRows`);
`Publish` is preview, approval and apply (`Publishable`, `Content`); `Edit`
inserts or deletes one line anywhere, markers and footnote definitions among
them.  `Rendered`, `Replaced`, `WellFormed` and `Diff` are `rendering.cpp`, by
lines.  Of the diff, `CommonPrefix` and `CommonSuffix` are the two loops before
the table, `Lengths` is the table, a row at a time (`RowOf`), and `Walked` the
walk through it, a step at a time (`Walk`); a cell is named by how many
lines of each side are left, where the code names it by how many it is past.
`Fits` is the cap on the table: where the lines that are left (`Cut`) need more
than `MaxCells` cells, four million in the code (`rendering.cpp:391`), `Middle`
is all the removed lines and then all the added ones.

A loop is a recursive function over the positions of a sequence, and the code
of its body an operator of its own, so that proofs can speak of both.

Abstractions: one compile or publication at a time; text stands for its escaped
literal; the kind of a block (fact, inference, ...) is part of its text; the
"Sources" heading line is left out; a page's source line is named by the page.

| Run | Instance | Shows |
| --- | --- | --- |
| `content` | 2 compiles with 8 answers, 2 edits, tables of 30 cells | `Accumulates`: an additive update keeps every claim and citation of both sides, repeats nothing, and is never stopped for discarding approved content; `RowsComplete`: no citation is lost to the key of its table except at a slot clash; `UserLinesKept`: lines outside the markers stay; `PublishedReadable`: the region can be read back and its references resolve; `DiffExact`: the reviewer's diff says what both files are; within the cap on the table it is as short as can be, and beyond it keeps the common start and end |

Two compiles are a create and an update; the eight answers meet in every way a
merge tells apart (`MCArticleContent` lists them).  Two edits can disturb both
markers, or add a line twice.  With 30 cells the changed middles of the run fall
on both sides of the cap and on it (5 lines against 4, or 4 against 5), lines in
common among them, so a replacement is told from a minimal diff.

What a reader should know of the code:

* A claim that cites two spans of a page with one start keeps one row only
  (`INSERT OR IGNORE`), while the check before a preview expects both: such a
  proposal can be compiled and never be previewed (`SlotClash`).  The comment at
  `compiler.cpp:960-963` says no citation is lost to the key.
* An answer with two sections of key `related_concepts` has the list rendered
  in both.
* Above four million table cells the diff is a replacement of the changed middle
  (`rendering.cpp:391-394`), which may show lines as changed that are not, as
  `REVIEW_EXPERIENCE.md:40-43` says.  `DiffExact` and its theorem claim that it is
  exact at any size, and minimal within the cap only.

## 7. `ProjectSetup`, `SourceImport` and their composition `Project`

| Variable | Code |
| --- | --- |
| `config`, `directories` | `kc.json` and the directories it names |
| `effects`, `history`, `draft` | what committed migration scripts did; `schema_migrations`; the open transaction |
| `writer` | SQLite's writer |
| `init`, `mine`, `release`, `applied`, `ready` | where an init stands, its locals; releases whose init reported success |
| `sources`, `versions`, `copy` | `sources`, `source_versions`, the files under `sources/` |
| `document` | the files people import |
| `import`, `request`, `staged`, `digest`, `shared`, `retained` | where an import stands and its locals |
| `altered`, `abandoned` | history: copies changed from outside; copies a death or a failed removal left |

`ProjectSetup` is `initialize_project` and `MigrationRunner::apply_all`: the
applied versions are read before any lock is taken, then each migration is a
transaction of its own (`BeginMigration`, `RunScript`, `CommitMigration`).
`SourceImport` is `import_file`: the private copy and its digest before the lock,
deduplication, repair and rows under it, the removal of its own copy after a
rollback, whose error it ignores (`LeaveCopy`).  `Project` instantiates both; a process is in one command at a time, an
import starts once migration 003 is applied, and what both modules assume of
their constants is assumed by `Project`.

Abstractions: contents are their digests; a script counts how often it was
committed; migrations in `Rebuilds` succeed a second time, as 003 would; every
path a copy is given is new.  The staged file that a death leaves in the cache is
not tracked; unsafe paths and archived sources are left out.

| Run | Instance | Shows |
| --- | --- | --- |
| `project` | 2 processes, 4 migrations, 2 releases, 1 vault, 2 inits, 3 imports of 2 texts and a PDF, 1 change from outside, 1 fault | `TypeOK`; `AppliedOnce`: effects and history of a migration are never apart; `ReadyProject`: what an init reported is there; `OneCopyPerDigest`; `CopiesMatch`: versions have their bytes, failed imports leave no copy; `RevisionsDiffer`; `ImportedIsLatest` |

Two processes are enough for a decision that is stale when the lock comes; three
imports bring a version, another one, and the first bytes again, with the third
document in another format.  A release that ends at the migration which can run
twice is the one whose history row alone protects it.  The run has one vault,
because a second one more than doubles its states; for `--vault` options that
differ, `ReportsAreTrue` proves `ReadyProject` with any number of vaults
(section 8).

Two first inits with different vaults both find no `kc.json`; the later rename
replaces what the earlier one reported (`project_initializer.cpp:106`).  The
comment there calls an existing configuration authoritative; the model has the
race, and `ReadyProject` asks only that the configuration's directories exist.

## 8. Proofs

With TLAPS, for every value of the constants that the assumptions admit, so for
any number of runs, proposals, pages, titles, claims, lines, edits and faults, and, but in
`FileSequential_proofs`, for any number of processes:

| Module | Theorem | States |
| --- | --- | --- |
| `FileDurability_proofs` | `Types`, `Applies` | `Spec => []TypeOK`, `Spec => []WriterInvariant` |
| | `Exclusive` | at most one process is inside a write transaction, and it is the one `lock` names |
| | `AtMostOnce` | `OneApply` |
| | `DurableAlways` | `Spec => []Durable` |
| | `NothingLost` | `SavesSurvive` |
| | `NothingLeft` | `NoOrphans` |
| `FileSequential_proofs` | `ArticleSettles` | `Settled`, of commands that run one after the other (`OneCommand`) |
| | `SourcesStay`, `RecoveryRepeats` | `SourcesRetained`, `JournalRecoveryRepeats`, of the same |
| | `ApplyIsAtomic` | `AppliesAtomically`, the refinement of `AtomicApply`, without an editor and `--keep-user-file` (`Unattended`) |
| | `RowsFollowFile` | `DigestMatches`, under the same condition |
| `ProjectSetup_proofs` | `MigratedOnce` | `AppliedOnce` of inits alone; lemmas for `Project_proofs` |
| `SourceImport_proofs` | - | lemmas for `Project_proofs` |
| `Project_proofs` | `ProjectTyped`, `MigrationsApplyOnce`, `ReportsAreTrue` | `TypeOK`, `AppliedOnce`, `ReadyProject` |
| | `RetainedOnce`, `CopiesAgree`, `VersionsDiffer`, `ImportsAreLatest` | `OneCopyPerDigest`, `CopiesMatch`, `RevisionsDiffer`, `ImportedIsLatest` |
| `PageEvidence_proofs` | `PagesAlways`, `PagesTyped` | `Spec => []PageInvariant`, `Spec => []TypeOK` |
| | `CapturedFrozen`, `OneRendering`, `LineageOrdered` | `EvidenceFrozen`, `CurrentPages`, `Lineage` |
| | `ImagesStay`, `NothingLeftOver`, `LiveRunsLeftAlone` | `ImagesPresent`, `NoLitter`, `LiveRunsIntact` |
| | `NeverPublishedStale`, `AcceptedAsInspected` | `NothingStalePublished`, `AcceptedAsShown` |
| `ProposalReview_proofs` | `ReviewedAlways`, `ReviewTyped` | `Spec => []ReviewInvariant`, `Spec => []TypeOK` |
| | `OneOpen`, `Audited` | `OneOpenPerConcept`, `AuditedGeneration` |
| | `OneArticle`, `ConceptIsOneArticle` | that two articles are of two concepts; `OneArticlePerConcept`, with the search |
| | `RowsAlwaysAgree`, `FilesCurrent`, `Overtaken` | `RowsAgree`, `FileIsCurrent`, `OvertakenLater` |
| | `LatestReviewed`, `LossesAreReviewed` | `ReviewedLatest`, `LossesReviewed` |
| `ArticleContent_proofs` | `ContentIsSound` | `Spec => []Inv` |
| | `UpdatesAccumulate`, `RowsAreComplete` | `Accumulates`, `RowsComplete` |
| | `LinesOfUsersKept`, `PublishedIsReadable` | `UserLinesKept`, `PublishedReadable` |
| | `DiffsAreExact`, `DiffsAreShortest` | `DiffExact`; that within the cap on the table no common subsequence is longer than what the diff shows as unchanged |

### Assumptions

Each is named in the module that declares the constants, and TLC evaluates it.

* `FileOperation`: `DistinctBytes` (contents of different origin differ),
  `DistinctNames` (sentinels are not members of the sets), `Environment` (bounds
  are naturals, flags are Booleans).
* `FileSequential_proofs` puts two conditions on the constants into the statements
  of its theorems, because they are false without: `OneCommand`, that there is
  one process at most, and `Unattended`, that in addition no editor writes and
  nobody runs `kc recover --keep-user-file`.  Runs, proposals, saves, crashes and
  failures stay arbitrary.  `editor` and `liveness` check the first kind, and
  `atomic` the second, on instances that satisfy them.
* `Project`: `SetupConstants` (there is a migration, releases end at one) and
  `ImportConstants` (there is a document to import, bounds are naturals,
  sentinels differ).
* `PageEvidence`: `Readable` (a reading is a text or failed), `Sentinels` and
  `RowSentinels`, `Bounds`.
* `ArticleContent`: `ContentConstants` (answers are payloads, verified citations
  are citations, a person's lines are lines, bounds are naturals).  Payloads,
  files and answers may have any length, and the cap on the table any value.
* `ProposalReview`: `Bounds`, `Names`, `SlugOfKey` (the slug is computed from the
  key), `NoneIsNew` (`None` is no row).

### Arguments

**`FileOperation`, writers.**  `WriterInvariant` is types; `KnownRuns`, that every
run a journal, a marker, a listing or a process names has an operation;
`WriterExclusive`; `Reviewed`, that a committed proposal is recorded as applied
and that a process between validation and commit works on one that is still
approved; and `OneApply`.  `OneApply` alone is not inductive: a state in which two
processes stand in front of `Commit` for one proposal satisfies it, and so does
one in which the proposal was committed after its status was read.  The lock
excludes the first, `Reviewed` the second.

**`FileOperation`, files.**  `SavesSurvive` says that bytes somebody saved are
somewhere.  It is not inductive: the next step may remove that very file.
`Durable` adds, for each place where a process can die, which files of its run
exist (`Files`: what a journal's phase, a marker or a manifest says of temporary,
`.recovery`, backup and staged copy), that a run without a journal left nothing
(`NoOrphans`), and where else the bytes are that the coming steps destroy
(`Saved`, with `Restoring(p)` for a process that restores or cleans up).  A
`.recovery` that holds the journal's before image may be staged again and
therefore does not count as a place.  Two processes may work on journals of
different runs, one after the other; nothing of the argument is about one.

**`FileOperation`, one command after the other.** `v_rollback` depends on a
listing of journals that has become stale. `Sequential` excludes that: there is
one journal at most (`OneJournal`), and what a command has listed and not handled
covers it (`Covered`), so an apply starts without one. `Shape` keeps the sides of
an exchange apart: the bytes of a proposal nobody has approved are nowhere
(`NewBytes`), hence what an apply replaces is never what it publishes, and where a
command is about to exchange, the article is the one it means or was written by an
editor (`Touched`). `Due` says where the bytes of the last save or commit are:
what an interrupted run displaced, if recovery can still act on it, and the
article otherwise. `Settling` is `Durable` with the three, and `Settled` its case
without a journal. Of the three `SourcesRetained` needs `Sequential` only, since
what recovery could take away is the copy of the one journal;
`JournalRecoveryRepeats` is an action property of steps from `Settling`.

For the refinement `Undisturbed` adds that without an editor the article is always
one of the two sides of an interrupted run (`Sides`), that a process finds at each
step what its approval saw (`Quiet`), and that what approvals name as the last
publication has a marker (`Latest`). Then each step but approval and commit is
silent (`CalmStep`): it leaves the article a reader may rely on, tokens, markers
and rows alone, so it is a stutter of the compare-and-swap; an approval is its
`Approve`, and a commit its `Publish`: the reviewed article is still there, and
the replacement becomes the article in the step in which the marker ends the
interruption. `RowsFollowFile` says of the same steps that
`articles.content_sha256` names that article.

**`Project`.**  For init, `AppliedOnce` needs that who is inside a migration's
transaction is the writer (`Writing`) and that its draft differs from what is
committed by its own script only (`Drafted`); without them a commit could publish
the effects of a script that another init has committed meanwhile.  `Prefixes`
and `Configured` say that every list of applied versions, a stale one too, is an
initial segment of the history and that what `kc.json` names is there.  For
import, `Own(p)` says that a path belongs to one command until a row names it,
`Found(p)` that what was read of the rows under the lock is so until the commit,
`Digested(p)` that the private copy and what was made of it have the digest.
`ProjectInvariant` is the two invariants side by side: the proof shows
that a step of one component leaves the other's invariant alone, the shared
history, lock and bound on faults included.

**`PageEvidence`.**  `PageInvariant` is `Leased` (a lease and the process working
on its run name each other, the lock and the process inside its transaction
too); `Outputs` (which directories a run has at each step of who holds its
lease, so that a reconciliation that finds a free lease finds a dead run);
`Rendered` (the current pages of a version are pages 1..n of one run);
`Lineage`; `EvidenceFrozen`; and `Knows(p)`.  The last is what the checks before
publication rest on: each snapshot a command holds was taken of its row and a
change since then raised the row's revision (`Remembered`), so a snapshot that
differs once differs for ever, and a command that was overtaken can be told by
the comparison (`Lost`).  Hence equality of snapshots excludes A-B-A, which
comparing texts would not.  The relation `Advance` summarises what any step may
do to rows; both publication and correction are shown to be instances of it.

**`ProposalReview`.**  `ReviewInvariant` adds to the properties what a compile
holds at each step (`Planned`), what a row says of the article it updates
(`Based`, with the number of its publications when it was written) and of the
snapshot it became (`RowHolds`), and where the durable operation stands
(`Working`): before the marker the file is one of its two sides or was touched by
a person, under the lock everything the token binds is still so (`Admitted`), and
after the marker the file is the revision in force.  `RowsAgree` and
`FileIsCurrent` are not inductive without `Working`, since a commit writes the
rows from what the operation recorded minutes earlier.

`OneArticlePerConcept` also speaks of the search.  `RankedIs` shows that putting
the concept's article in front of any list of distinct hits, one that has it
already too, gives a list of distinct articles that begins with it; cutting the
list at a limit of at least one keeps that.

**`ArticleContent`.**  `Inv` is `TypeOK` and, while a proposal is in review,
`Sound`: its answer was valid, its rows are those of its payload, it creates just
when nothing is applied yet, and if it is additive its payload is what the merge
makes of that answer and the revision that is applied.  The properties then are
facts about the operators:

* `Merge`, `AddBlock` and `Accumulate` keep every claim and citation they started
  with, have those of the answer, and are the identity on an answer they contain.
* The ordinal under which a row is inserted (`Index`) tells any two claims of one
  section and of its related concepts apart, so `INSERT OR IGNORE` drops a row
  only within one claim.
* `Replaced` keeps the lines up to the start marker and from the end marker on,
  and what `WellFormed` lets pass has each marker once, so the same prefix and
  suffix are found again; what `Rendered` writes refers to exactly the pages it
  defines.
* `DiffExact`: `Longest` defines, by positions and without the table, what a
  longest common subsequence is.  `TableIsLongest` shows that each cell is the
  length of one of what is left there, by the two facts the table rests on: equal
  lines are the first of a longest one, and of two lines that differ one is not.
  `LongestWithPrefix` and `LongestWithSuffix` show that setting aside what both
  sides begin and end with costs nothing.  The walk keeps `SoFar`: the lines
  brought out show the parts of both sides that it is past, and those it shows
  as unchanged, with the cell it stands at, are as many as the cell it started
  from.  It ends, since every step is past one more line.  Where the table does
  not fit, `MiddleIsExact` needs no walk: the removed lines are one side and the
  added ones the other.

A recursive function is a `CHOOSE` of a function with an equation, and its value
for every sequence is shown by induction.  The library's theorems for both take
an operator as a parameter, so `Recursion` (a function that iterates given steps
exists) and `Induction` (a set that has 0, and n with n - 1, has every number) are
proved here for sets, from `Least`, that a set of numbers has a least element.

The proofs have one lemma per action or group of actions, one step per conjunct
that the action can disturb, and lemmas for what an action leaves alone.

### Checked by TLC only

`RecoveryTerminatesUnblocked` and `RunsEnd`: liveness under fairness, which is
out of the prover's reach.  The violation of `v_rollback` is a counterexample.

## 9. Not modelled

Parsing, escaping, YAML values, URLs and digests (pure conversions); search
ranking (the work of FTS5) and the relevance scores that order candidate pages;
prompts and the HTTP request to the model; poppler and tesseract; Windows; path
containment and symlinks; argument parsing, printing and exit codes of the
command line; listings, which change nothing; tampering with retained page files,
except that a missing image directory is noticed; the web server, which has no
code in this commit.
