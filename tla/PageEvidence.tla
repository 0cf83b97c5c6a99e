---------------------------- MODULE PageEvidence ----------------------------
(***************************************************************************)
(* The pages of one imported source: how extraction writes them, how a     *)
(* reviewer corrects or accepts them, how the compiler captures them as    *)
(* evidence of a proposal, and how any open cleans up after extractions    *)
(* that died.                                                              *)
(*                                                                         *)
(* OCR and the language model run for minutes without a lock.  What was    *)
(* read before is therefore checked again under SQLite's write lock, and   *)
(* a page that a proposal has captured never changes any more.             *)
(*                                                                         *)
(* A write transaction that touches SQLite only is one action, enabled     *)
(* while nobody holds the lock.  Reconciliation removes directories inside *)
(* its transaction and is taken apart.                                     *)
(***************************************************************************)
EXTENDS Integers, FiniteSets

CONSTANTS
  Process,        \* kc commands that may run at the same time
  Run,            \* extraction runs still to be generated
  Proposal,       \* proposals still to be generated
  Text,           \* texts of a page, as adapters or reviewers supply them
  NoText,         \* the empty text of a failed page
  Readings,       \* <<text, status>> pairs adapters may return for a page
  MaxPage,        \* bound on page identities
  MaxNumber,      \* bound on the pages of a rendering
  MaxVersion,     \* bound on imported versions of the source
  MaxCorrections, \* bound on the corrections and acceptances
  MaxFaults,      \* bound on process deaths
  NoProcess, NoRun, NoProposal, NoRow, Deleted,
  Kinds,          \* the kinds the source may be of: "pdf", "text"
  Commands        \* what a command does after its open, or "open" alone

Page == 1..MaxPage
Version == 1..MaxVersion
Number == 1..MaxNumber
Status == {"native", "ocr_unreviewed", "reviewed", "failed"}
NoPage == 0

ASSUME Readable ==
  /\ NoText \notin Text
  /\ Readings \subseteq (Text \X {"native", "ocr_unreviewed"})
                          \cup {<<NoText, "failed">>}

ASSUME Sentinels ==
  /\ NoProcess \notin Process /\ NoRun \notin Run
  /\ NoProposal \notin Proposal /\ NoRow # Deleted

ASSUME Bounds ==
  /\ {MaxPage, MaxNumber, MaxVersion, MaxCorrections, MaxFaults} \subseteq Nat
  /\ MaxVersion > 0
  /\ Kinds \subseteq {"pdf", "text"}
  /\ Commands \subseteq {"extract", "open", "compile", "accept"}

VARIABLES
  kind,        \* sources.source_kind
  latest,      \* the version imported last
  rows,        \* source_pages: [Page -> its row], in order of rowid
  born,        \* page identities generated so far
  evidence,    \* [Proposal -> proposal_evidence], the pages it captured
  pending,     \* the proposal that waits for review and apply
  baseOf,      \* [Proposal -> the applied proposal it updates]
  applied,     \* the proposal the article was applied from
  runs,        \* extraction_runs.status
  lease,       \* [Run -> the process holding cache/extraction-leases/RUN.lock]
  images,      \* runs whose directory of page images exists
  staging,     \* runs whose cache/extraction-staging directory exists
  stagingRoot, \* whether cache/extraction-staging itself exists
  lock,        \* the process inside reconciliation's write transaction
  pc,          \* [Process -> the step it is about to take]
  run,         \* [Process -> the run it extracts or reconciles]
  version,     \* [Process -> the version it extracts]
  renew,       \* [Process -> --force, then new_revision]
  seen,        \* [Process -> the pages it read or selected]
  kept,        \* [Process -> pages of the base it retains]
  base,        \* [Process -> the article base it compiles against]
  list,        \* [Process -> running extractions it found]
  corrections, \* corrections and acceptances so far
  faults,      \* process deaths so far
  overtaken    \* history: processes whose pages changed after they read them

pageVars == <<kind, latest, rows, born>>
proposalVars == <<evidence, pending, baseOf, applied>>
outputVars == <<images, staging, stagingRoot>>
runVars == <<runs, lease, outputVars>>
localVars == <<run, version, renew, seen, kept, base, list>>
boundVars == <<corrections, faults>>
vars == <<pageVars, proposalVars, runVars, lock, pc, localVars, boundVars,
          overtaken>>

Seen == [page : Page, version : Version, number : Number,
         run : Run \cup {NoRun}, text : Text \cup {NoText},
         status : Status, rev : Nat]
Row == [version : Version, number : Number, run : Run \cup {NoRun},
        text : Text \cup {NoText}, status : Status, rev : Nat,
        current : BOOLEAN, supersedes : Page \cup {NoPage}]

\* No row is none of these.
ASSUME RowSentinels == NoRow \notin Row /\ Deleted \notin Row

Live(g) == rows[g] \notin {NoRow, Deleted}
Stored == {g \in Page : Live(g)}
CurrentOf(v) ==
  {g \in Stored : rows[g].version = v /\ rows[g].current}

\* What page_snapshot and evidence_snapshot capture of a row.
Snapshot(g) ==
  [page |-> g, version |-> rows[g].version, number |-> rows[g].number,
   run |-> rows[g].run, text |-> rows[g].text, status |-> rows[g].status,
   rev |-> rows[g].rev]
PageSnapshot(v) == {Snapshot(g) : g \in CurrentOf(v)}

ImageThere(r) == r = NoRun \/ r \in images

\* A page some proposal cites or was generated from, whatever became of it.
Referenced(g) == \E q \in Proposal : \E e \in evidence[q] : e.page = g
PagesAreCited(v) == \E g \in CurrentOf(v) : Referenced(g)

Init ==
  /\ kind \in Kinds /\ latest = 1
  /\ rows = [g \in Page |-> NoRow] /\ born = 0
  /\ evidence = [q \in Proposal |-> {}]
  /\ pending = NoProposal /\ applied = NoProposal
  /\ baseOf = [q \in Proposal |-> NoProposal]
  /\ runs = [r \in Run |-> "none"] /\ lease = [r \in Run |-> NoProcess]
  /\ images = {} /\ staging = {} /\ stagingRoot = FALSE
  /\ lock = NoProcess
  /\ pc = [p \in Process |-> "idle"]
  /\ run = [p \in Process |-> NoRun] /\ version = [p \in Process |-> 1]
  /\ renew = [p \in Process |-> FALSE]
  /\ seen = [p \in Process |-> {}] /\ kept = [p \in Process |-> {}]
  /\ base = [p \in Process |-> NoProposal] /\ list = [p \in Process |-> {}]
  /\ corrections = 0 /\ faults = 0 /\ overtaken = {}

----------------------------------------------------------------------------
\* How a process moves.

At(p, here) == pc[p] = here
Goto(p, there) == pc' = [pc EXCEPT ![p] = there]
Opened(p, command) == At(p, "opened") /\ command \in Commands
Unlocked == lock = NoProcess

Forget(p) ==
  /\ run' = [run EXCEPT ![p] = NoRun]
  /\ version' = [version EXCEPT ![p] = 1]
  /\ renew' = [renew EXCEPT ![p] = FALSE]
  /\ seen' = [seen EXCEPT ![p] = {}]
  /\ kept' = [kept EXCEPT ![p] = {}]
  /\ base' = [base EXCEPT ![p] = NoProposal]
  /\ list' = [list EXCEPT ![p] = {}]

\* The end of a command, in success or by an exception: its locals, its lease
\* and an open transaction go.
Finish(p) ==
  /\ Goto(p, "idle")
  /\ Forget(p)
  /\ lease' = [r \in Run |-> IF lease[r] = p THEN NoProcess ELSE lease[r]]
  /\ lock' = IF lock = p THEN NoProcess ELSE lock

----------------------------------------------------------------------------
\* Extraction.

\* One read transaction.  Without --force existing pages are returned as they
\* are and nothing changes.
ExtractRead(p, force) ==
  /\ Opened(p, "extract")
  /\ force \/ PageSnapshot(latest) = {}
  /\ version' = [version EXCEPT ![p] = latest]
  /\ seen' = [seen EXCEPT ![p] = PageSnapshot(latest)]
  /\ renew' = [renew EXCEPT ![p] = force]
  /\ Goto(p, "revision")
  /\ UNCHANGED <<pageVars, proposalVars, runVars, lock, run, kept, base, list,
                 boundVars>>

\* Whether new identities are needed is decided outside any transaction.  The
\* lease is taken before the run's row is there.
ExtractLease(p, r) ==
  /\ At(p, "revision")
  /\ runs[r] = "none" /\ lease[r] = NoProcess
  /\ renew' = [renew EXCEPT ![p] = @ /\ PagesAreCited(version[p])]
  /\ run' = [run EXCEPT ![p] = r]
  /\ lease' = [lease EXCEPT ![r] = p]
  /\ Goto(p, "start")
  /\ UNCHANGED <<pageVars, proposalVars, runs, outputVars, lock, version, seen,
                 kept, base, list, boundVars>>

ExtractStart(p) ==
  /\ At(p, "start")
  /\ Unlocked
  /\ runs' = [runs EXCEPT ![run[p]] = "running"]
  /\ Goto(p, "output")
  /\ UNCHANGED <<pageVars, proposalVars, lease, outputVars, lock, localVars,
                 boundVars>>

ExtractOutput(p) ==
  /\ At(p, "output")
  /\ images' = images \cup {run[p]}
  /\ Goto(p, IF kind = "pdf" THEN "stage" ELSE "publish")
  /\ UNCHANGED <<pageVars, proposalVars, runs, lease, staging, stagingRoot,
                 lock, localVars, boundVars>>

\* The adapters work on a private copy.  Nothing else makes the parent of
\* these directories.
ExtractStage(p) ==
  /\ At(p, "stage")
  /\ staging' = staging \cup {run[p]}
  /\ stagingRoot' = TRUE
  /\ Goto(p, "adapters")
  /\ UNCHANGED <<pageVars, proposalVars, runs, lease, images, lock, localVars,
                 boundVars>>

\* The adapters are done; their private staging goes before publication.
ExtractRendered(p) ==
  /\ At(p, "adapters")
  /\ staging' = staging \ {run[p]}
  /\ Goto(p, "publish")
  /\ UNCHANGED <<pageVars, proposalVars, runs, lease, images, stagingRoot, lock,
                 localVars, boundVars>>

Publishable(p) ==
  /\ seen[p] = PageSnapshot(version[p])
  /\ renew[p] \/ ~PagesAreCited(version[p])

\* The current row of a page number, if there is one, and all its identities.
RowOf(v, n) == {g \in CurrentOf(v) : rows[g].number = n}
IdentitiesOf(v, n) ==
  {g \in Stored : rows[g].version = v /\ rows[g].number = n}
\* Mutant: ORDER BY rowid ascending.
Oldest(S) == CHOOSE g \in S : \A h \in S : g <= h
Newest(S) == CHOOSE g \in S : \A h \in S : h <= g

\* Only a rendered page has an image.
ImageRun(p) == IF kind = "pdf" THEN run[p] ELSE NoRun

\* A page number without a current row gets a new identity.  Under a new
\* revision it supersedes the row of that number retired last.
NewRow(p, n, reading) ==
  LET old == IdentitiesOf(version[p], n)
      follows == renew[p] /\ old # {} IN
  [version |-> version[p], number |-> n, run |-> ImageRun(p),
   text |-> reading[1], status |-> reading[2],
   rev |-> IF follows THEN rows[Newest(old)].rev + 1 ELSE 0,
   current |-> TRUE,
   supersedes |-> IF follows THEN Newest(old) ELSE NoPage]

\* ON CONFLICT DO UPDATE keeps identity and lineage and counts the revision.
Upserted(row, p, reading) ==
  [row EXCEPT !.run = ImageRun(p), !.text = reading[1], !.status = reading[2],
              !.rev = @ + 1]

\* Page numbers of the rendering that need a new identity, in order.
Added(p, n) ==
  {i \in 1..n : renew[p] \/ RowOf(version[p], i) = {}}
\* Mutant: identities are counted from zero.
IdentityFromZero(p, n, i) == born + Cardinality({j \in Added(p, n) : j < i})
Identity(p, n, i) == born + Cardinality({j \in Added(p, n) : j <= i})

\* The page number a new identity is for.
NumberOf(p, n, g) == CHOOSE i \in Added(p, n) : g = Identity(p, n, i)

\* Mutant: pages beyond a shorter rendering stay.
NoLongerRendered(p, g, n) == FALSE

Surplus(p, g, n) ==
  g \in CurrentOf(version[p]) /\ ~renew[p] /\ rows[g].number > n

EndRun(p, status) == runs' = [runs EXCEPT ![run[p]] = status]

ExtractPublish(p, n, readings) ==
  LET current == CurrentOf(version[p])
      added == Added(p, n) IN
  /\ At(p, "publish")
  /\ Unlocked
  /\ Publishable(p)
  /\ kind = "text" => n = 1 /\ readings[1][2] = "native"
  /\ born + Cardinality(added) <= MaxPage
  /\ rows' = [g \in Page |->
       IF Surplus(p, g, n) THEN Deleted
       ELSE IF g \in current
            THEN IF renew[p] THEN [rows[g] EXCEPT !.current = FALSE]
                 ELSE IF rows[g].number \in 1..n
                      THEN Upserted(rows[g], p, readings[rows[g].number])
                      ELSE rows[g]
       ELSE IF \E i \in added : g = Identity(p, n, i)
            THEN NewRow(p, NumberOf(p, n, g), readings[NumberOf(p, n, g)])
       ELSE rows[g]]
  /\ born' = born + Cardinality(added)
  /\ EndRun(p, IF \E i \in 1..n : readings[i][2] = "failed"
               THEN "unusable" ELSE "completed")
  /\ Goto(p, "release")
  /\ UNCHANGED <<kind, latest, proposalVars, lease, outputVars, lock, localVars,
                 boundVars>>

\* Mutant: only the staging directory is cleared.
AbortKeepsImages(p) ==
  /\ pc[p] \in {"output", "stage", "adapters", "publish"}
  /\ staging' = staging \ {run[p]}
  /\ Goto(p, "mark")
  /\ UNCHANGED <<pageVars, proposalVars, runs, lease, images, stagingRoot, lock,
                 localVars, boundVars>>

\* An adapter fails, the pages changed or became cited, or the write lock
\* stays busy: unwinding removes what this attempt wrote.
ExtractAbort(p) ==
  /\ pc[p] \in {"output", "stage", "adapters", "publish"}
  /\ images' = images \ {run[p]}
  /\ staging' = staging \ {run[p]}
  /\ Goto(p, "mark")
  /\ UNCHANGED <<pageVars, proposalVars, runs, lease, stagingRoot, lock,
                 localVars, boundVars>>

ExtractMark(p) ==
  /\ At(p, "mark")
  /\ Unlocked
  /\ EndRun(p, "failed")
  /\ Goto(p, "release")
  /\ UNCHANGED <<pageVars, proposalVars, lease, outputVars, lock, localVars,
                 boundVars>>

\* The lease goes last, whether the run was published or marked.
ExtractRelease(p) ==
  /\ At(p, "release")
  /\ Finish(p)
  /\ UNCHANGED <<pageVars, proposalVars, runs, outputVars, boundVars>>

----------------------------------------------------------------------------
\* Reconciliation.  Every command opens the project first.

\* The runs recorded as running are listed without a lock.
Open(p) ==
  /\ At(p, "idle")
  /\ list' = [list EXCEPT ![p] = {r \in Run : runs[r] = "running"}]
  /\ Goto(p, IF list'[p] = {} THEN "opened" ELSE "reconcile")
  /\ UNCHANGED <<pageVars, proposalVars, runVars, lock, run, version, renew,
                 seen, kept, base, boundVars>>

\* A command that only looks at the project.
Close(p) ==
  /\ At(p, "opened")
  /\ Finish(p)
  /\ UNCHANGED <<pageVars, proposalVars, runs, outputVars, boundVars>>

\* Mutant: a run is abandoned when it is old, whoever holds its lease.
Expired(r) == TRUE
\* Mutant: a lock file left behind counts as a live extraction.
LockFileAbsent(r) == FALSE
\* The lease of a live process cannot be had without waiting.
Abandoned(r) == lease[r] = NoProcess

ReconcileSkip(p, r) ==
  /\ At(p, "reconcile")
  /\ r \in list[p]
  /\ ~Abandoned(r)
  /\ list' = [list EXCEPT ![p] = @ \ {r}]
  /\ UNCHANGED <<pageVars, proposalVars, runVars, lock, pc, run, version, renew,
                 seen, kept, base, boundVars>>

ReconcileLease(p, r) ==
  /\ At(p, "reconcile")
  /\ r \in list[p]
  /\ Abandoned(r)
  /\ list' = [list EXCEPT ![p] = @ \ {r}]
  /\ run' = [run EXCEPT ![p] = r]
  /\ lease' = [lease EXCEPT ![r] = p]
  /\ Goto(p, "reconcile_begin")
  /\ UNCHANGED <<pageVars, proposalVars, runs, outputVars, lock, version, renew,
                 seen, kept, base, boundVars>>

ReconcileBegin(p) ==
  /\ At(p, "reconcile_begin")
  /\ Unlocked
  /\ lock' = p
  /\ Goto(p, "reconcile_staging")
  /\ UNCHANGED <<pageVars, proposalVars, runVars, localVars, boundVars>>

ReconcileStaging(p) ==
  /\ At(p, "reconcile_staging")
  /\ stagingRoot
  /\ staging' = staging \ {run[p]}
  /\ Goto(p, "reconcile_images")
  /\ UNCHANGED <<pageVars, proposalVars, runs, lease, images, stagingRoot, lock,
                 localVars, boundVars>>

\* The parent of the staging directories is synchronized whether it exists or
\* not.  If it does not, the transaction is rolled back and the open fails.
ReconcileUnsynced(p) ==
  /\ At(p, "reconcile_staging")
  /\ ~stagingRoot
  /\ Finish(p)
  /\ UNCHANGED <<pageVars, proposalVars, runs, outputVars, boundVars>>

\* Mutant: only current pages keep a directory.
CurrentImage(r) == \E g \in Stored : rows[g].run = r /\ rows[g].current
\* Current or historical, a page keeps the directory its image is in.
ReferencedImage(r) == \E g \in Stored : rows[g].run = r

ReconcileImages(p) ==
  /\ At(p, "reconcile_images")
  /\ images' = IF ReferencedImage(run[p]) THEN images ELSE images \ {run[p]}
  /\ Goto(p, "reconcile_commit")
  /\ UNCHANGED <<pageVars, proposalVars, runs, lease, staging, stagingRoot,
                 lock, localVars, boundVars>>

\* The run's row, marked first, becomes visible with the commit.
ReconcileCommit(p) ==
  /\ At(p, "reconcile_commit")
  /\ runs' = [runs EXCEPT ![run[p]] = IF @ = "running" THEN "failed" ELSE @]
  /\ lease' = [lease EXCEPT ![run[p]] = NoProcess]
  /\ lock' = NoProcess
  /\ run' = [run EXCEPT ![p] = NoRun]
  /\ Goto(p, "reconcile")
  /\ UNCHANGED <<pageVars, proposalVars, outputVars, version, renew, seen, kept,
                 base, list, boundVars>>

ReconcileDone(p) ==
  /\ At(p, "reconcile")
  /\ list[p] = {}
  /\ Goto(p, "opened")
  /\ UNCHANGED <<pageVars, proposalVars, runVars, lock, localVars, boundVars>>

----------------------------------------------------------------------------
\* Page review.

\* Mutant: a correction in place keeps its revision.
CorrectedSilently(row, x) == [row EXCEPT !.text = x, !.status = "reviewed"]

Corrected(row, x) ==
  [row EXCEPT !.text = x, !.status = "reviewed", !.rev = @ + 1]

\* Mutant: only pages of a proposal still under review are frozen.
ReferencedByPending(g) ==
  pending # NoProposal /\ \E e \in evidence[pending] : e.page = g

Frozen(g) == Referenced(g)

\* correct_page_text, after its checks: nothing, in place, or a new identity.
Revise(g, x) ==
  \/ /\ rows[g].status = "reviewed" /\ rows[g].text = x
     /\ UNCHANGED <<rows, born>>
  \/ /\ ~(rows[g].status = "reviewed" /\ rows[g].text = x)
     /\ ~Frozen(g)
     /\ rows' = [rows EXCEPT ![g] = Corrected(@, x)]
     /\ UNCHANGED born
  \/ /\ ~(rows[g].status = "reviewed" /\ rows[g].text = x)
     /\ Frozen(g)
     /\ born < MaxPage
     /\ rows' = [rows EXCEPT
          ![g].current = FALSE,
          ![born + 1] = [Corrected(rows[g], x) EXCEPT !.supersedes = g]]
     /\ born' = born + 1

\* One transaction; the command line passes no expected identity or text.
Correct(g, x) ==
  /\ Unlocked
  /\ corrections < MaxCorrections
  /\ g \in CurrentOf(latest)
  /\ Revise(g, x)
  /\ corrections' = corrections + 1
  /\ UNCHANGED <<kind, latest, proposalVars, runVars, lock, pc, localVars,
                 faults>>

AcceptRead(p, g) ==
  /\ Opened(p, "accept")
  /\ corrections < MaxCorrections
  /\ g \in CurrentOf(latest)
  /\ rows[g].status # "failed"
  /\ \A h \in CurrentOf(latest) : ImageThere(rows[h].run)
  /\ seen' = [seen EXCEPT ![p] = {Snapshot(g)}]
  /\ Goto(p, "accept")
  /\ UNCHANGED <<pageVars, proposalVars, runVars, lock, run, version, renew,
                 kept, base, list, boundVars>>

\* Mutant: whatever the page holds by now is accepted.
AsNumbered(e, g) == rows[g].number = e.number
AsInspected(e, g) == g = e.page /\ rows[g].text = e.text

AcceptWrite(p) ==
  /\ At(p, "accept")
  /\ Unlocked
  /\ corrections < MaxCorrections
  /\ \E e \in seen[p], g \in CurrentOf(latest) :
       rows[g].number = e.number /\ AsInspected(e, g) /\ Revise(g, rows[g].text)
  /\ corrections' = corrections + 1
  /\ Finish(p)
  /\ UNCHANGED <<kind, latest, proposalVars, runs, outputVars, faults>>

----------------------------------------------------------------------------
\* The compiler and the article.

CompileBase(p) ==
  /\ Opened(p, "compile")
  /\ base' = [base EXCEPT ![p] = applied]
  /\ Goto(p, "select")
  /\ UNCHANGED <<pageVars, proposalVars, runVars, lock, run, version, renew,
                 seen, kept, list, boundVars>>

ModelReady(g) == rows[g].status \in {"native", "reviewed"}

\* Relevance picks any of the current, usable pages of the latest version.
CompileSelect(p, S) ==
  /\ At(p, "select")
  /\ S # {}
  /\ S \subseteq {g \in CurrentOf(latest) : ModelReady(g)}
  /\ \A g \in S : ImageThere(rows[g].run)
  /\ seen' = [seen EXCEPT ![p] = {Snapshot(g) : g \in S}]
  /\ Goto(p, "generate")
  /\ UNCHANGED <<pageVars, proposalVars, runVars, lock, run, version, renew,
                 kept, base, list, boundVars>>

\* The model has answered.  An additive update retains the pages its base
\* cites; a regeneration, or a first article, retains none.
CompileRetain(p, cited) ==
  /\ At(p, "generate")
  /\ cited \subseteq IF base[p] = NoProposal THEN {}
                     ELSE {e.page : e \in evidence[base[p]]}
  /\ \A g \in cited : Live(g) /\ ImageThere(rows[g].run)
  /\ kept' = [kept EXCEPT ![p] =
       {Snapshot(g) : g \in cited \ {e.page : e \in seen[p]}}]
  /\ Goto(p, "propose")
  /\ UNCHANGED <<pageVars, proposalVars, runVars, lock, run, version, renew,
                 seen, base, list, boundVars>>

Same(e) == Live(e.page) /\ Snapshot(e.page) = e
Fresh(e) == rows[e.page].current /\ e.version = latest

CompilePublish(p, q) ==
  /\ At(p, "propose")
  /\ Unlocked
  /\ evidence[q] = {}
  /\ base[p] = applied
  /\ \A e \in seen[p] \cup kept[p] : Same(e) /\ ImageThere(e.run)
  /\ \A e \in seen[p] : Fresh(e)
  /\ evidence' = [evidence EXCEPT ![q] = seen[p] \cup kept[p]]
  /\ pending' = q
  /\ baseOf' = [baseOf EXCEPT ![q] = base[p]]
  /\ Finish(p)
  /\ UNCHANGED <<pageVars, applied, runs, outputVars, boundVars>>

\* The model fails, no page is usable, or publication is refused: nothing of
\* the generation remains here.  An acceptance is refused likewise.
GiveUp(p) ==
  /\ pc[p] \in {"select", "generate", "propose", "accept", "revision"}
  /\ Finish(p)
  /\ UNCHANGED <<pageVars, proposalVars, runs, outputVars, boundVars>>

\* Approve and apply, with verify_proposal_evidence.
Apply(q) ==
  /\ Unlocked
  /\ pending = q
  /\ baseOf[q] = applied
  /\ \A e \in evidence[q] :
       /\ Same(e)
       /\ ImageThere(e.run)
       /\ e.status \in {"native", "reviewed"}
  /\ applied' = q
  /\ pending' = NoProposal
  /\ UNCHANGED <<pageVars, evidence, baseOf, runVars, lock, pc, localVars,
                 boundVars>>

\* A revision of the source is imported.
Import ==
  /\ Unlocked
  /\ latest < MaxVersion
  /\ latest' = latest + 1
  /\ UNCHANGED <<kind, rows, born, proposalVars, runVars, lock, pc, localVars,
                 boundVars>>

----------------------------------------------------------------------------
\* Faults.

\* The busy timeout expires in front of a write.  A failed extraction swallows
\* it and stays "running"; other commands end.
BusyTimeout(p) ==
  /\ ~Unlocked
  /\ pc[p] \in {"start", "mark", "reconcile_begin"}
  /\ Finish(p)
  /\ UNCHANGED <<pageVars, proposalVars, runs, outputVars, boundVars>>

\* Process death: the operating system frees its lease, SQLite rolls back.
Crash(p) ==
  /\ ~At(p, "idle")
  /\ faults < MaxFaults
  /\ faults' = faults + 1
  /\ Finish(p)
  /\ UNCHANGED <<pageVars, proposalVars, runs, outputVars, corrections>>

----------------------------------------------------------------------------
\* The pages a command read are not what it would read now.
Stale(p) ==
  \/ /\ pc[p] \in {"revision", "start", "output", "stage", "adapters",
                     "publish"}
     /\ seen[p] # PageSnapshot(version[p])
  \/ /\ pc[p] \in {"generate", "propose"}
     /\ \E e \in seen[p] \cup kept[p] : ~Same(e)

ExtractStep(p) ==
  \/ \E force \in BOOLEAN : ExtractRead(p, force)
  \/ \E r \in Run : ExtractLease(p, r)
  \/ ExtractStart(p) \/ ExtractOutput(p) \/ ExtractStage(p)
  \/ ExtractRendered(p)
  \/ \E n \in Number : \E readings \in [1..n -> Readings] :
       ExtractPublish(p, n, readings)
  \/ ExtractAbort(p) \/ ExtractMark(p) \/ ExtractRelease(p)

ReconcileStep(p) ==
  \/ \E r \in Run : ReconcileSkip(p, r) \/ ReconcileLease(p, r)
  \/ ReconcileBegin(p) \/ ReconcileStaging(p) \/ ReconcileUnsynced(p)
  \/ ReconcileImages(p) \/ ReconcileCommit(p) \/ ReconcileDone(p)

CompileStep(p) ==
  \/ CompileBase(p)
  \/ \E S \in SUBSET CurrentOf(latest) : CompileSelect(p, S)
  \/ \E cited \in SUBSET Stored : CompileRetain(p, cited)
  \/ \E q \in Proposal : CompilePublish(p, q)

Command(p) ==
  \/ ExtractStep(p) \/ ReconcileStep(p) \/ CompileStep(p)
  \/ Open(p) \/ Close(p)
  \/ \E g \in Page : AcceptRead(p, g)
  \/ AcceptWrite(p) \/ GiveUp(p) \/ BusyTimeout(p) \/ Crash(p)

Tracked ==
  overtaken' = {p \in Process : pc'[p] # "idle"
                                   /\ (p \in overtaken \/ Stale(p)')}

Next ==
  /\ \/ \E p \in Process : Command(p)
     \/ \E g \in Page, x \in Text : Correct(g, x)
     \/ \E q \in Proposal : Apply(q)
     \/ Import
  /\ Tracked

Spec == Init /\ [][Next]_vars

\* A command that can move does, and while an extraction is recorded as
\* running somebody opens the project again.
Progress(p) ==
  \/ ExtractStart(p) \/ ExtractOutput(p) \/ ExtractStage(p)
  \/ ExtractRendered(p)
  \/ ExtractAbort(p) \/ ExtractMark(p) \/ ExtractRelease(p)
  \/ ReconcileStep(p) \/ GiveUp(p) \/ AcceptWrite(p) \/ Close(p)
FairSpec ==
  /\ Spec
  /\ \A p \in Process :
       /\ WF_vars(Progress(p) /\ Tracked)
       /\ WF_vars((\E r \in Run : runs[r] = "running") /\ Open(p) /\ Tracked)

----------------------------------------------------------------------------
\* Properties.

Steps == {"idle", "opened", "revision", "start", "output", "stage", "adapters",
          "publish", "mark", "release", "reconcile", "reconcile_begin",
          "reconcile_staging", "reconcile_images", "reconcile_commit", "accept",
          "select", "generate", "propose"}

\* Types of every variable.
TypeOK ==
  /\ kind \in Kinds /\ latest \in Version /\ born \in 0..MaxPage
  /\ rows \in [Page -> Row \cup {NoRow, Deleted}]
  /\ \A g \in Page : rows[g] = NoRow <=> g > born
  /\ evidence \in [Proposal -> SUBSET Seen]
  /\ {pending, applied} \subseteq Proposal \cup {NoProposal}
  /\ baseOf \in [Proposal -> Proposal \cup {NoProposal}]
  /\ runs \in [Run -> {"none", "running", "completed", "unusable", "failed"}]
  /\ lease \in [Run -> Process \cup {NoProcess}]
  /\ images \subseteq Run /\ staging \subseteq Run /\ stagingRoot \in BOOLEAN
  /\ lock \in Process \cup {NoProcess}
  /\ pc \in [Process -> Steps]
  /\ run \in [Process -> Run \cup {NoRun}]
  /\ version \in [Process -> Version]
  /\ renew \in [Process -> BOOLEAN]
  /\ seen \in [Process -> SUBSET Seen] /\ kept \in [Process -> SUBSET Seen]
  /\ base \in [Process -> Proposal \cup {NoProposal}]
  /\ list \in [Process -> SUBSET Run]
  /\ corrections \in 0..MaxCorrections /\ faults \in 0..MaxFaults
  /\ overtaken \subseteq Process

\* Whatever a proposal was generated from stays as it was, text, status,
\* revision and image directory, through every later correction, extraction
\* and reconciliation, and nobody's unreviewed OCR text is among it.
EvidenceFrozen ==
  \A q \in Proposal : \A e \in evidence[q] :
    /\ Same(e)
    /\ ImageThere(e.run)
    /\ e.status \in {"native", "reviewed"}

\* The current pages of a version are one rendering: all of one extraction,
\* numbered from 1 without a gap or a duplicate, however a shorter retry, a
\* new revision and corrections of single pages follow each other.
CurrentPages ==
  \A v \in Version : \E n \in 0..MaxNumber :
    /\ {rows[g].number : g \in CurrentOf(v)} = 1..n
    /\ Cardinality(CurrentOf(v)) = n
    /\ n > 0 => \E r \in Run \cup {NoRun} :
                  \A g \in CurrentOf(v) : rows[g].run = r

\* A page supersedes an older, retired identity of the same page with a
\* smaller revision, and no two pages supersede the same one.
Lineage ==
  \A g \in Stored : LET old == rows[g].supersedes IN old # NoPage =>
    /\ old < g /\ Live(old)
    /\ ~rows[old].current
    /\ rows[old].version = rows[g].version
    /\ rows[old].number = rows[g].number
    /\ rows[old].rev < rows[g].rev
    /\ \A h \in Stored : rows[h].supersedes = old => h = g

\* Every page, historical ones included, has the directory its image is in.
ImagesPresent == \A g \in Stored : ImageThere(rows[g].run)

\* A run that ended without publishing left no directory behind.
NoLitter ==
  \A r \in Run : runs[r] \in {"none", "completed", "unusable", "failed"} =>
    r \notin staging /\ (r \in images => runs[r] \in {"completed", "unusable"})

\* No other process ends a live extraction or takes its files.
Extracting == {"output", "stage", "adapters", "publish", "mark"}
LiveRunsIntact ==
  [][\A p \in Process : pc[p] \in Extracting /\ pc'[p] = pc[p] =>
       LET r == run[p] IN
       /\ runs'[r] = runs[r]
       /\ r \in images => r \in images'
       /\ r \in staging => r \in staging']_vars

\* Nothing is published, pages or proposal, from pages that changed since they
\* were read, not even if they changed back in the meantime.
Publishes(p) ==
  \/ pc[p] = "publish" /\ pc'[p] = "release"
  \/ pc[p] = "propose" /\ pc'[p] = "idle" /\ evidence' # evidence
NothingStalePublished ==
  [][\A p \in Process : Publishes(p) => p \notin overtaken]_vars

\* What a reviewer accepts is the text it was shown: an acceptance that read
\* one text never marks another one reviewed.
AcceptedAsShown ==
  [][\A p \in Process : pc[p] = "accept" /\ pc'[p] = "idle" =>
       \A g \in Page : rows'[g] # rows[g] /\ Live(g)' /\ rows'[g].current =>
         \E e \in seen[p] : rows'[g].text = e.text]_vars

\* No extraction stays recorded as running for ever, however it ended, once
\* some extraction got as far as its staging directory.
RunsEnd ==
  \A r \in Run : (runs[r] = "running" /\ stagingRoot) ~> (runs[r] # "running")

=============================================================================
