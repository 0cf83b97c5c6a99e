--------------------------- MODULE ProposalReview ---------------------------
(***************************************************************************)
(* From a compile request to a published article: which article a title    *)
(* names, the base an update starts from, the model run and its audit row, *)
(* publication of the proposal under the write lock, review (show,         *)
(* approve, revoke, reject), apply and restore, and the person who edits   *)
(* the vault meanwhile.                                                    *)
(*                                                                         *)
(* An SQLite transaction is one action.  The steps in between are those    *)
(* during which a command holds no lock: a compile between its queries and *)
(* while the model answers, a reviewer between reading and deciding.  The  *)
(* two durable operations, apply and restore, take three steps (prepare,   *)
(* replace, commit), so that the editor, an error or a crash may fall      *)
(* between them; FileOperation refines these steps.                        *)
(***************************************************************************)
EXTENDS Integers, FiniteSets, Sequences

CONSTANTS
  MaxCompiles,  \* bound on the compiles, and so on model runs and proposals
  MaxRestores,  \* bound on the restores that begin
  MaxEdits,     \* bound on what the external editor does
  MaxFaults,    \* bound on crashes and failures of a publication
  Title,        \* the titles people ask for
  Key,          \* [Title -> the identity its Unicode folding gives]
  Slug,         \* [Title -> its canonical slug]
  Claim,        \* what a managed region may assert
  Note,         \* what a person writes outside the managed region
  Edited,       \* a managed region that differs from every rendering
  Unmanaged,    \* a file without the program's markers
  None

\* One compile has one model run and at most one proposal, and a proposal has
\* at most one apply run, which names the article when it creates one: the
\* four identifiers are one number.
Id == 1..MaxCompiles
Path == {Key[t] : t \in Title}  \* the vault file of a concept, case folded
Region == (SUBSET Claim) \cup {Edited, Unmanaged}
File == [region : Region, notes : SUBSET Note]

ASSUME Bounds ==
  /\ MaxCompiles \in Nat /\ MaxRestores \in Nat
  /\ MaxEdits \in Nat /\ MaxFaults \in Nat
ASSUME Names == DOMAIN Key = Title /\ DOMAIN Slug = Title
\* Titles with one identity have one slug: the slug is computed from the key.
ASSUME SlugOfKey ==
  \A t, u \in Title : Key[t] = Key[u] => Slug[t] = Slug[u]

VARIABLES
  articles,   \* [Id -> row of articles with its citation and index rows]
  proposals,  \* [Id -> row of proposals with its base row, or None]
  status,     \* [Id -> proposals.status, "absent" without a row]
  approval,   \* [Id -> what the row of proposal_approvals binds, or None]
  audit,      \* [Id -> model_runs.status, "absent" without a row]
  snapshot,   \* [Id -> article_snapshots of the apply run, or None]
  events,     \* [Id -> number of rows of the article in file_operations]
  file,       \* [Path -> the article's file, or None]
  journal,    \* the durable operation that is not finished, or None
  worker,     \* the step of the process that runs it
  pc,         \* [Id -> the next step of a compile]
  plan,       \* [Id -> the locals of a compile]
  shown,      \* [Id -> the proposal preview a reviewer read last, or None]
  history,    \* [Id -> the restore preview somebody read last, or None]
  restores,   \* restores begun so far
  edits,      \* edits so far
  faults,     \* crashes and failures so far
  touched     \* history: paths edited, or kept as the user's, since their
              \* last publication

dbVars == <<articles, proposals, status, approval, audit, snapshot, events>>
compileVars == <<pc, plan>>
reviewVars == <<shown, history>>
fileVars == <<file, touched, edits>>
workVars == <<journal, worker, restores, faults>>
vars == <<dbVars, compileVars, reviewVars, fileVars, workVars>>

Modes == {"create", "additive", "regenerate"}
Operation(q) == IF proposals[q].mode = "create" THEN "create" ELSE "update"
Locked == worker \in {"prepared", "replaced"}

Init ==
  /\ articles = [a \in Id |-> None]
  /\ proposals = [q \in Id |-> None]
  /\ status = [q \in Id |-> "absent"]
  /\ approval = [q \in Id |-> None]
  /\ audit = [r \in Id |-> "absent"]
  /\ snapshot = [r \in Id |-> None]
  /\ events = [a \in Id |-> 0]
  /\ file = [k \in Path |-> None]
  /\ journal = None /\ worker = "idle"
  /\ pc = [r \in Id |-> "new"]
  /\ plan = [r \in Id |-> None]
  /\ shown = [q \in Id |-> None]
  /\ history = [r \in Id |-> None]
  /\ restores = 0 /\ edits = 0 /\ faults = 0
  /\ touched = {}

----------------------------------------------------------------------------
\* Concept identity.

Articles == {a \in Id : articles[a] # None}
IsOpen(q) == status[q] \in {"pending", "approved"}
PendingCreates == {q \in Id : IsOpen(q) /\ Operation(q) = "create"}

SameConcept(t, u) == Key[t] = Key[u]

ArticlesOf(t) == {a \in Articles : SameConcept(articles[a].title, t)}
CreatesOf(t) == {q \in PendingCreates : SameConcept(proposals[q].title, t)}

\* resolve_concept fails when two articles fit, or when the slug already
\* belongs to another concept, applied or pending.
Unambiguous(t) == Cardinality(ArticlesOf(t)) <= 1

\* Mutant: the slugs of the applied articles are not looked at.
SlugNotPending(t, pending) ==
  \A u \in {proposals[q].title : q \in pending} :
    Slug[u] = Slug[t] => SameConcept(u, t)

SlugIsFree(t, pending) ==
  \A u \in {articles[a].title : a \in Articles}
             \cup {proposals[q].title : q \in pending} :
    Slug[u] = Slug[t] => SameConcept(u, t)
Resolvable(t) == Unambiguous(t) /\ SlugIsFree(t, PendingCreates)

ArticleFor(t) == CHOOSE a \in ArticlesOf(t) : TRUE
Oldest(creates) == CHOOSE q \in creates : \A x \in creates : q <= x

\* An article keeps the spelling of its first proposal, and so does the
\* oldest pending create of a concept that has no article.
Target(t) ==
  IF ArticlesOf(t) # {}
  THEN [article |-> ArticleFor(t), title |-> articles[ArticleFor(t)].title]
  ELSE IF CreatesOf(t) # {}
  THEN [article |-> None, title |-> proposals[Oldest(CreatesOf(t))].title]
  ELSE [article |-> None, title |-> t]

\* validate_concept_destination: no other article has this path.
DestinationIsFree(t, article) ==
  \A a \in Articles : Key[articles[a].title] = Key[t] => a = article

----------------------------------------------------------------------------
\* Search.

\* What the text index may find: its ranking and its idea of a word are its
\* own, so any articles in any order.
Hits(limit) ==
  {hits \in UNION {[1..n -> Articles] : n \in 0..limit} :
     \A i, j \in DOMAIN hits : hits[i] = hits[j] => i = j}

\* An article whose concept is asked for comes first, whatever its rank.
Ranked(exact, hits) ==
  LET at == CHOOSE i \in DOMAIN hits : hits[i] = exact
      others == SubSeq(hits, 1, at - 1) \o SubSeq(hits, at + 1, Len(hits))
  IN <<exact>> \o (IF \E i \in DOMAIN hits : hits[i] = exact THEN others ELSE hits)

\* Two articles that fit are an error, as in resolve_concept.
Search(t, hits, limit) ==
  IF ArticlesOf(t) = {} THEN hits
  ELSE LET found == Ranked(ArticleFor(t), hits)
       IN IF Len(found) > limit THEN SubSeq(found, 1, limit) ELSE found

----------------------------------------------------------------------------
\* The base of an update.

Current(a) == articles[a].current
PathOf(a) == Key[articles[a].title]

\* load_base: the file is there and its managed region is the applied one.
BaseIsReadable(a) ==
  /\ file[PathOf(a)] # None
  /\ file[PathOf(a)].region = snapshot[Current(a)].region

\* Mutant: any readable base will do.
BaseUnchecked(a, base) == BaseIsReadable(a)

\* The revision the caller started from is still the active one.
BaseIsCurrent(a, base) == BaseIsReadable(a) /\ Current(a) = base

ClaimsOf(run) == IF run = None THEN {} ELSE proposals[run].claims

----------------------------------------------------------------------------
\* Compile: four reads and one publication, the model running in between.

At(r, here) == pc[r] = here
Goto(r, there) == pc' = [pc EXCEPT ![r] = there]

\* find_article_target; compiles are numbered in the order they start.
ChooseTarget(r, t) ==
  /\ At(r, "new")
  /\ \A x \in 1..(r - 1) : pc[x] # "new"
  /\ Resolvable(t)
  /\ LET target == Target(t) IN
       /\ DestinationIsFree(target.title, target.article)
       /\ plan' = [plan EXCEPT ![r] = [article |-> target.article,
                                       title |-> target.title, base |-> None,
                                       mode |-> "create", claims |-> {}]]
       /\ Goto(r, IF target.article = None THEN "generate" ELSE "base")
  /\ UNCHANGED <<dbVars, reviewVars, fileVars, workVars>>

\* load_base on a connection of its own.
LoadBase(r) ==
  /\ At(r, "base")
  /\ BaseIsReadable(plan[r].article)
  /\ \E mode \in {"additive", "regenerate"} :
       plan' = [plan EXCEPT ![r].base = Current(plan[r].article),
                            ![r].mode = mode]
  /\ Goto(r, "generate")
  /\ UNCHANGED <<dbVars, reviewVars, fileVars, workVars>>

Audit(r, outcome) == audit' = [audit EXCEPT ![r] = outcome]
MarkInvalid(r) == Audit(r, "invalid_response")

\* generate_concept: whatever the model answers leaves one audit row.
Generated(r) ==
  /\ At(r, "generate")
  /\ \E additions \in (SUBSET Claim) \ {{}} :
       plan' = [plan EXCEPT ![r].claims = additions]
  /\ Audit(r, "completed")
  /\ Goto(r, "validate")
  /\ UNCHANGED <<articles, proposals, status, approval, snapshot, events,
                 reviewVars, fileVars, workVars>>

\* Mutant: the status of the model run is not looked at.
InvalidAnswerUsed(r) ==
  /\ At(r, "generate")
  /\ plan' = [plan EXCEPT ![r].claims = Claim]
  /\ Audit(r, "invalid_response")
  /\ Goto(r, "validate")
  /\ UNCHANGED <<articles, proposals, status, approval, snapshot, events,
                 reviewVars, fileVars, workVars>>

\* No answer, or one that is not JSON, not a proposal or not supported by the
\* pages that were sent: the compile ends.
ModelFailed(r) ==
  /\ At(r, "generate")
  /\ \E outcome \in {"failed", "invalid_response"} : Audit(r, outcome)
  /\ Goto(r, "done")
  /\ plan' = [plan EXCEPT ![r] = None]
  /\ UNCHANGED <<articles, proposals, status, approval, snapshot, events,
                 reviewVars, fileVars, workVars>>

\* accumulate keeps every claim of the base.
Validated(r) ==
  /\ At(r, "validate")
  /\ plan' = [plan EXCEPT ![r].claims =
       IF plan[r].mode = "additive" THEN @ \cup ClaimsOf(plan[r].base) ELSE @]
  /\ Goto(r, "persist")
  /\ UNCHANGED <<dbVars, reviewVars, fileVars, workVars>>

\* The run is marked when the normalized answer fails again.  When the merged
\* proposal fails, because retained evidence no longer verifies, the
\* audit row stays as it is.
ValidationFailed(r) ==
  /\ At(r, "validate")
  /\ \/ MarkInvalid(r)
     \/ plan[r].mode = "additive" /\ UNCHANGED audit
  /\ Goto(r, "done")
  /\ plan' = [plan EXCEPT ![r] = None]
  /\ UNCHANGED <<articles, proposals, status, approval, snapshot, events,
                 reviewVars, fileVars, workVars>>

\* Mutant: a superseded proposal must still be pending.
SupersedesPending(r) ==
  {q \in Id : status[q] = "pending" /\
     IF plan[r].article # None THEN proposals[q].article = plan[r].article
     ELSE q \in CreatesOf(plan[r].title)}

\* What the new proposal takes the place of: every open proposal of the
\* article, and every pending create of the concept.
Supersedes(r) ==
  {q \in Id : /\ IsOpen(q)
              /\ \/ plan[r].article # None
                    /\ proposals[q].article = plan[r].article
                 \/ q \in CreatesOf(plan[r].title)}

\* persist_proposal rechecks base and identity under the write lock.
Publishable(r) ==
  LET p == plan[r] IN
  /\ p.article # None => BaseIsCurrent(p.article, p.base)
  /\ Resolvable(p.title)
  /\ Target(p.title) = [article |-> p.article, title |-> p.title]
  /\ DestinationIsFree(p.title, p.article)

\* The row remembers, for the properties, when it was written.
Row(p) == [article |-> p.article, title |-> p.title, base |-> p.base,
           mode |-> p.mode, claims |-> p.claims,
           born |-> IF p.article = None THEN 0 ELSE events[p.article]]

Persist(r) ==
  /\ At(r, "persist")
  /\ ~Locked
  /\ Publishable(r)
  /\ proposals' = [proposals EXCEPT ![r] = Row(plan[r])]
  /\ status' = [q \in Id |-> IF q = r THEN "pending"
                             ELSE IF q \in Supersedes(r) THEN "superseded"
                             ELSE status[q]]
  /\ shown' = [q \in Id |-> IF q \in Supersedes(r) THEN None ELSE shown[q]]
  /\ Goto(r, "done")
  /\ plan' = [plan EXCEPT ![r] = None]
  /\ UNCHANGED <<articles, approval, audit, snapshot, events, history,
                 fileVars, workVars>>

\* A recheck failed, the process died, or the user gave up: nothing is written.
Abandon(r) ==
  /\ pc[r] \in {"base", "generate", "validate", "persist"}
  /\ Goto(r, "done")
  /\ plan' = [plan EXCEPT ![r] = None]
  /\ UNCHANGED <<dbVars, reviewVars, fileVars, workVars>>

----------------------------------------------------------------------------
\* Preview: what an apply would do, computed without doing it.

ArticleOf(q) == IF Operation(q) = "create" THEN q ELSE proposals[q].article
Destination(q) == Key[proposals[q].title]
Tracked(q) == Operation(q) = "update"
Collision(q) == ~Tracked(q) /\ file[Destination(q)] # None

\* resolve_proposal_identity: a create must still be the first of its
\* concept, an update must still name the article of its concept.
NamesItsConcept(q) ==
  ArticlesOf(proposals[q].title) =
    IF Tracked(q) THEN {proposals[q].article} ELSE {}

\* resolve_identity resolves the concept with the pending creates first, as a
\* compile does (vault_writer.cpp:626); that resolve_proposal_identity then does
\* so without them adds nothing.
IdentityHolds(q) ==
  /\ Resolvable(proposals[q].title)
  /\ NamesItsConcept(q)
  /\ DestinationIsFree(proposals[q].title, ArticleOf(q))

\* prepare_article without issues.
Previewable(q, allow) ==
  /\ IsOpen(q)
  /\ IdentityHolds(q)
  /\ Tracked(q) => BaseIsCurrent(proposals[q].article, proposals[q].base)
  /\ Collision(q) => allow

\* An update replaces the managed region only; a create writes a new file.
Rendered(q) ==
  [region |-> proposals[q].claims,
   notes  |-> IF Tracked(q) THEN file[Destination(q)].notes ELSE {}]

\* latest_file_operation, as the number of operations before and with it.
LatestEvent(a) == events[a]

\* What the review of an update lists as removed.
Removed(q) == ClaimsOf(proposals[q].base) \ proposals[q].claims

\* What `kc proposal show` puts before the reviewer.
Preview(q, allow) ==
  [before  |-> file[Destination(q)],
   after   |-> Rendered(q),
   last    |-> LatestEvent(ArticleOf(q)),
   allow   |-> allow,
   removed |-> Removed(q)]

\* Mutant: the token does not cover the latest file operation.
BoundByBytes(view) == [before |-> view.before, after |-> view.after,
                       last |-> 0, allow |-> view.allow]
\* Mutant: the token does not cover the file that is replaced.
BoundByEvent(view) == [before |-> None, after |-> view.after,
                       last |-> view.last, allow |-> view.allow]

\* What the preview token is a digest of.
Bound(view) == [before |-> view.before, after |-> view.after,
                last |-> view.last, allow |-> view.allow]

\* (An approved proposal can be shown too; its token is of use only once the
\* approval is revoked, when it is shown again.)
Show(q) ==
  /\ status[q] = "pending"
  /\ \E allow \in BOOLEAN :
       /\ allow => Collision(q)
       /\ Previewable(q, allow)
       /\ shown' = [shown EXCEPT ![q] = Preview(q, allow)]
  /\ shown' # shown
  /\ UNCHANGED <<dbVars, compileVars, history, fileVars, workVars>>

\* The token a reviewer presents must be the one computed under the lock.
Approve(q) ==
  /\ ~Locked
  /\ status[q] = "pending"
  /\ shown[q] # None
  /\ Previewable(q, shown[q].allow)
  /\ Bound(shown[q]) = Bound(Preview(q, shown[q].allow))
  /\ status' = [status EXCEPT ![q] = "approved"]
  /\ approval' = [approval EXCEPT ![q] = shown[q]]
  /\ UNCHANGED <<articles, proposals, audit, snapshot, events, compileVars,
                 reviewVars, fileVars, workVars>>

Decide(q, outcome) ==
  /\ ~Locked
  /\ status' = [status EXCEPT ![q] = outcome]
  /\ approval' = [approval EXCEPT ![q] = None]
  /\ shown' = [shown EXCEPT ![q] = IF outcome = "pending" THEN @ ELSE None]
  /\ UNCHANGED <<articles, proposals, audit, snapshot, events, compileVars,
                 history, fileVars, workVars>>

Reject(q) == IsOpen(q) /\ Decide(q, "rejected")
Revoke(q) == status[q] = "approved" /\ Decide(q, "pending")

----------------------------------------------------------------------------
\* Apply and restore, one durable operation at a time.

\* BEGIN IMMEDIATE, the preview again, the journal.
Prepare(op) ==
  /\ worker = "idle"
  /\ journal = None
  /\ journal' = op
  /\ worker' = "prepared"

ApplyBegin(q) ==
  /\ status[q] = "approved"
  /\ approval[q] # None
  /\ Previewable(q, approval[q].allow)
  /\ Bound(approval[q]) = Bound(Preview(q, approval[q].allow))
  /\ Prepare([kind |-> "apply", id |-> q, article |-> ArticleOf(q),
              path |-> Destination(q), before |-> file[Destination(q)],
              after |-> Rendered(q), last |-> LatestEvent(ArticleOf(q)),
              replacing |-> FALSE, reviewed |-> approval[q]])
  /\ UNCHANGED <<dbVars, compileVars, reviewVars, fileVars, restores, faults>>

\* The applied revisions `kc history` lists with a snapshot.
Restorable(r) == snapshot[r] # None
Applied(r) == IF Operation(r) = "create" THEN r ELSE proposals[r].article

\* restore_preview: exact bytes of a revision against the present file.
RestorePreview(r) ==
  LET a == Applied(r) IN
  [before |-> file[PathOf(a)], after |-> snapshot[r], last |-> LatestEvent(a),
   current |-> Current(a)]

ShowRestore(r) ==
  /\ Restorable(r)
  /\ restores < MaxRestores
  /\ history' = [history EXCEPT ![r] = RestorePreview(r)]
  /\ history' # history
  /\ UNCHANGED <<dbVars, compileVars, shown, fileVars, workVars>>

RestoreBegin(r) ==
  /\ Restorable(r)
  /\ restores < MaxRestores
  /\ history[r] # None
  /\ history[r] = RestorePreview(r)
  /\ LET a == Applied(r) IN
       Prepare([kind |-> "restore", id |-> r, article |-> a,
                path |-> PathOf(a), before |-> file[PathOf(a)],
                after |-> snapshot[r], last |-> LatestEvent(a),
                replacing |-> FALSE, reviewed |-> history[r]])
  /\ restores' = restores + 1
  /\ UNCHANGED <<dbVars, compileVars, reviewVars, fileVars, faults>>

\* The exchange succeeds against the bytes that were reviewed.
Replace ==
  /\ worker = "prepared"
  /\ file[journal.path] = journal.before
  /\ file' = [file EXCEPT ![journal.path] = journal.after]
  /\ worker' = "replaced"
  /\ journal' = [journal EXCEPT !.replacing = TRUE]
  /\ UNCHANGED <<dbVars, compileVars, reviewVars, touched, edits, restores,
                 faults>>

\* The rows that follow the file: digest, citations, index, active revision.
Publication(op) ==
  [title   |-> IF op.kind = "apply" /\ Operation(op.id) = "create"
               THEN proposals[op.id].title ELSE articles[op.article].title,
   current |-> op.id, digest |-> op.after, cites |-> op.id,
   index   |-> op.after]

\* Mutant: the active revision is not set.
PointerUnset(op) == [Publication(op) EXCEPT !.current = None]
\* Mutant: a restore leaves the citations of the revision it replaces.
CitationsKept(op) ==
  [Publication(op) EXCEPT
     !.cites = IF op.kind = "restore" THEN articles[op.article].cites ELSE @]
Published(op) == Publication(op)

\* persist_success or the statements of restore, the marker, and the last
\* look at the file before COMMIT.
Commit ==
  /\ worker = "replaced"
  /\ file[journal.path] = journal.after
  /\ articles' = [articles EXCEPT ![journal.article] = Published(journal)]
  /\ events' = [events EXCEPT ![journal.article] = @ + 1]
  /\ IF journal.kind = "apply"
     THEN /\ status' = [status EXCEPT ![journal.id] = "applied"]
          /\ snapshot' = [snapshot EXCEPT ![journal.id] = journal.after]
          /\ shown' = [shown EXCEPT ![journal.id] = None]
     ELSE UNCHANGED <<status, snapshot, shown>>
  /\ touched' = touched \ {journal.path}
  /\ worker' = "committed"
  /\ UNCHANGED <<proposals, approval, audit, compileVars, history, file,
                 edits, journal, restores, faults>>

Finish ==
  /\ worker = "committed"
  /\ worker' = "idle"
  /\ journal' = None
  /\ UNCHANGED <<dbVars, compileVars, reviewVars, fileVars, restores, faults>>

\* A file that is not what it should be, an I/O error or a crash: SQLite
\* rolls back, the journal stays.
FileChanged ==
  \/ worker = "prepared" /\ file[journal.path] # journal.before
  \/ worker = "replaced" /\ file[journal.path] # journal.after

\* The journal says "replacing" shortly before the exchange.
Interrupted ==
  /\ worker # "idle"
  /\ \/ FileChanged /\ UNCHANGED <<journal, faults>>
     \/ /\ faults < MaxFaults
        /\ faults' = faults + 1
        /\ \E replacing \in BOOLEAN :
             /\ worker # "prepared" => replacing
             /\ journal' = [journal EXCEPT !.replacing = replacing]
  /\ worker' = "idle"
  /\ UNCHANGED <<dbVars, compileVars, reviewVars, fileVars, restores>>

\* Mutant: recovery cleans up and leaves the file.
NothingUndone(op) == file

\* What recovery makes of the file of an operation without a marker.
Undone(op) ==
  IF op.replacing /\ file[op.path] = op.after
  THEN [file EXCEPT ![op.path] = op.before] ELSE file

\* Bytes of neither side stop recovery.
Conflict(op) ==
  op.replacing /\ file[op.path] \notin {op.before, op.after}

Marked(op) == events[op.article] > op.last

\* The next open of the database, or the catch block of the command.
Recover ==
  /\ worker = "idle"
  /\ journal # None
  /\ Marked(journal) \/ ~Conflict(journal)
  /\ file' = IF Marked(journal) THEN file ELSE Undone(journal)
  /\ journal' = None
  /\ UNCHANGED <<dbVars, compileVars, reviewVars, touched, edits, worker,
                 restores, faults>>

\* `kc recover --keep-user-file` takes the file as it is for the user's, also
\* where recovery would have undone the operation.
KeepUserFile ==
  /\ worker = "idle"
  /\ journal # None
  /\ ~Marked(journal)
  /\ journal' = None
  /\ touched' = touched \cup {journal.path}
  /\ UNCHANGED <<dbVars, compileVars, reviewVars, file, edits, worker, restores,
                 faults>>

----------------------------------------------------------------------------
\* The person at the editor, who takes no lock.

Edit(k, bytes) ==
  /\ edits < MaxEdits
  /\ file' = [file EXCEPT ![k] = bytes]
  /\ touched' = touched \cup {k}
  /\ edits' = edits + 1
  /\ UNCHANGED <<dbVars, compileVars, reviewVars, workVars>>

WriteNote(k, n) ==
  IF file[k] = None THEN Edit(k, [region |-> Unmanaged, notes |-> {n}])
  ELSE n \notin file[k].notes /\ Edit(k, [file[k] EXCEPT !.notes = @ \cup {n}])

EditRegion(k) ==
  /\ file[k] # None
  /\ file[k].region \notin {Edited, Unmanaged}
  /\ Edit(k, [file[k] EXCEPT !.region = Edited])

DeleteFile(k) == file[k] # None /\ Edit(k, None)

----------------------------------------------------------------------------
Compile(r) ==
  \/ \E t \in Title : ChooseTarget(r, t)
  \/ LoadBase(r) \/ Generated(r) \/ ModelFailed(r)
  \/ Validated(r) \/ ValidationFailed(r) \/ Persist(r) \/ Abandon(r)
Review(q) == Show(q) \/ Approve(q) \/ Reject(q) \/ Revoke(q)
Operate ==
  \/ \E q \in Id : ApplyBegin(q) \/ ShowRestore(q) \/ RestoreBegin(q)
  \/ Replace \/ Commit \/ Finish \/ Interrupted \/ Recover \/ KeepUserFile
Editor ==
  \E k \in Path : EditRegion(k) \/ DeleteFile(k)
                  \/ \E n \in Note : WriteNote(k, n)

Next == (\E r \in Id : Compile(r) \/ Review(r)) \/ Operate \/ Editor

Spec == Init /\ [][Next]_vars

----------------------------------------------------------------------------
\* Properties.

Plan == [article : Id \cup {None}, title : Title, base : Id \cup {None},
         mode : Modes, claims : SUBSET Claim]
Proposal == [article : Id \cup {None}, title : Title, base : Id \cup {None},
             mode : Modes, claims : SUBSET Claim, born : Nat]
Article == [title : Title, current : Id, digest : File, cites : Id,
            index : File]
View == [before : File \cup {None}, after : File, last : Nat,
         allow : BOOLEAN, removed : SUBSET Claim]
RestoreView == [before : File \cup {None}, after : File, last : Nat,
                current : Id]
FileOp == [kind : {"apply", "restore"}, id : Id, article : Id, path : Path,
           before : File \cup {None}, after : File, last : Nat,
           replacing : BOOLEAN, reviewed : View \cup RestoreView]

\* A missing row, file or identifier is none of these.
ASSUME NoneIsNew ==
  None \notin Id \cup Plan \cup Proposal \cup Article \cup View
             \cup RestoreView \cup File \cup FileOp

\* Every variable has its type.
TypeOK ==
  /\ articles \in [Id -> Article \cup {None}]
  /\ proposals \in [Id -> Proposal \cup {None}]
  /\ status \in [Id -> {"absent", "pending", "approved", "rejected",
                        "superseded", "applied"}]
  /\ approval \in [Id -> View \cup {None}]
  /\ audit \in [Id -> {"absent", "failed", "invalid_response", "completed"}]
  /\ snapshot \in [Id -> File \cup {None}]
  /\ events \in [Id -> Nat]
  /\ file \in [Path -> File \cup {None}]
  /\ journal \in FileOp \cup {None}
  /\ worker \in {"idle", "prepared", "replaced", "committed"}
  /\ pc \in [Id -> {"new", "base", "generate", "validate", "persist", "done"}]
  /\ plan \in [Id -> Plan \cup {None}]
  /\ shown \in [Id -> View \cup {None}]
  /\ history \in [Id -> RestoreView \cup {None}]
  /\ restores \in 0..MaxRestores
  /\ edits \in 0..MaxEdits
  /\ faults \in 0..MaxFaults
  /\ touched \subseteq Path

\* Whatever compiles, approvals and applies overlap, a concept never has two
\* proposals that could still be applied: a compile supersedes the approved
\* ones too, and notices a concept that appeared while the model was running
\* (compiler.cpp:887-914).
OneOpenPerConcept ==
  \A p, q \in Id :
    IsOpen(p) /\ IsOpen(q) /\ SameConcept(proposals[p].title, proposals[q].title)
    => p = q

\* Two spellings of one concept never become two articles, and two concepts
\* never share a slug (concept_identity.cpp:62-106, repeated by persist,
\* approve and apply).
DistinctConcepts ==
  \A a, b \in Articles :
    \/ a = b
    \/ /\ ~SameConcept(articles[a].title, articles[b].title)
       /\ Slug[articles[a].title] # Slug[articles[b].title]

\* Whatever the text index finds and however few results are wanted, a search
\* for a concept by any of its spellings is not ambiguous, and brings its
\* article first and every other one at most once (search_index.cpp:230-282).
ConceptFound ==
  \A t \in Title : ArticlesOf(t) # {} =>
    /\ Unambiguous(t)
    /\ \A limit \in 1..Cardinality(Articles) : \A hits \in Hits(limit) :
         LET found == Search(t, hits, limit) IN
         /\ Len(found) \in 1..limit
         /\ SameConcept(articles[found[1]].title, t)
         /\ \A i, j \in DOMAIN found : found[i] = found[j] => i = j

\* A concept is one article, in the rows and for who looks for it.
OneArticlePerConcept == DistinctConcepts /\ ConceptFound

\* A proposal comes from a model run whose audit row says completed: a failed
\* or invalid answer leaves a row that says so and nothing to review
\* (compiler.cpp:594-633).
AuditedGeneration ==
  \A q \in Id : proposals[q] # None => audit[q] = "completed"

\* The rows of an article describe one revision, the active one, after any
\* number of applies, restores, failures and recoveries: digest, citations,
\* index and snapshot agree (vault_writer.cpp:1281-1308).
RowsAgree ==
  \A a \in Articles :
    LET run == Current(a) IN
    /\ status[run] = "applied" /\ Applied(run) = a
    /\ articles[a].cites = run
    /\ articles[a].digest = snapshot[run]
    /\ articles[a].index = snapshot[run]

\* The vault holds the active revision of an article unless somebody edited
\* the file since it was published, or kept it as it was, or an operation on
\* it is not finished.
\* A restore or apply that fails or dies half way leaves what was there.
FileIsCurrent ==
  \A a \in Articles :
    \/ file[PathOf(a)] = snapshot[Current(a)]
    \/ PathOf(a) \in touched
    \/ journal # None /\ journal.path = PathOf(a)

\* An update in review that starts from an older revision was overtaken by a
\* publication after it was persisted: a compile whose base changed while the
\* model ran publishes nothing and supersedes nothing (compiler.cpp:845-855).
OvertakenLater ==
  \A q \in Id :
    IsOpen(q) /\ Tracked(q) =>
      \/ proposals[q].base = Current(proposals[q].article)
      \/ events[proposals[q].article] > proposals[q].born

Committing == worker = "replaced" /\ worker' = "committed"

\* What is published was reviewed against the latest publication of that
\* article: no token survives an apply or a restore in between, not even one
\* that brings the same bytes back (vault_writer.cpp:729-735).
ReviewedLatest ==
  [][Committing => journal.reviewed.last = events[journal.article]]_vars

\* Nothing disappears from an article that its reviewer did not see: not a
\* note, not an edit of the managed region, and no claim of the active
\* revision that the review did not list as removed; an additive update drops
\* none (article_updates.cpp:203-256).
LossesReviewed ==
  [][Committing =>
       LET before == journal.before
           view == journal.reviewed
       IN /\ before # None =>
               /\ view.before # None
               /\ before.notes \ journal.after.notes \subseteq view.before.notes
               /\ before.region = Edited => view.before.region = Edited
          /\ journal.kind = "apply" /\ Tracked(journal.id) =>
               LET lost == ClaimsOf(Current(journal.article))
                             \ journal.after.region
               IN /\ lost \subseteq view.removed
                  /\ proposals[journal.id].mode = "additive" => lost = {}
    ]_vars
=============================================================================
