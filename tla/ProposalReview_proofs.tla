----------------------- MODULE ProposalReview_proofs -----------------------
(***************************************************************************)
(* That the properties of ProposalReview hold for any number of compiles,  *)
(* decisions, restores, edits and faults, and any titles.                  *)
(***************************************************************************)
EXTENDS ProposalReview, FiniteSetTheorems, SequenceTheorems,
        WellFoundedInduction, TLAPS

----------------------------------------------------------------------------
\* The inductive invariant.

\* A plan or a row creates a concept, or updates an article that is there
\* from a base that has a row.
Aimed(p) ==
  /\ p.mode = "create" <=> p.article = None
  /\ p.article = None => p.base = None
  /\ p.article # None => /\ p.article \in Articles
                         /\ p.base \in Id /\ proposals[p.base] # None
\* An additive update has every claim of its base.
Keeps(p) == p.mode = "additive" => ClaimsOf(p.base) \subseteq p.claims

\* The locals of a compile: nothing is written before it publishes.
Planned(r) ==
  /\ pc[r] # "done" => proposals[r] = None
  /\ pc[r] \in {"base", "generate", "validate", "persist"} => plan[r] # None
  /\ pc[r] = "base" => plan[r].article \in Articles
  /\ pc[r] \in {"generate", "validate", "persist"} => Aimed(plan[r])
  /\ pc[r] \in {"validate", "persist"} => audit[r] = "completed"
  /\ pc[r] = "persist" => Keeps(plan[r])
Compiling == \A r \in Id : Planned(r)

\* The row of a proposal: its article has its path, and was published at
\* least as often as when the row was written.
Based(q) ==
  LET p == proposals[q] IN
  /\ Aimed(p) /\ Keeps(p)
  /\ Tracked(q) => /\ Key[p.title] = PathOf(p.article)
                   /\ p.born <= events[p.article]
\* A proposal, its status, and the article and the snapshot it became.
RowHolds(q) ==
  /\ status[q] = "absent" <=> proposals[q] = None
  /\ proposals[q] # None => Based(q)
  /\ articles[q] # None => status[q] = "applied"
  /\ snapshot[q] # None => /\ status[q] = "applied"
                           /\ Applied(q) \in Articles
                           /\ PathOf(Applied(q)) = Destination(q)
\* A preview that somebody read lists what this proposal removes.
Lists(q, view) == view # None => proposals[q] # None /\ view.removed = Removed(q)
Rows == \A q \in Id : RowHolds(q) /\ Lists(q, shown[q]) /\ Lists(q, approval[q])

\* The operation is about this proposal or revision, its article and its path.
Concerns ==
  IF journal.kind = "apply"
  THEN /\ proposals[journal.id] # None
       /\ journal.article = ArticleOf(journal.id)
       /\ journal.path = Destination(journal.id)
       /\ journal.after.region = proposals[journal.id].claims
  ELSE /\ journal.after = snapshot[journal.id]
       /\ journal.article = Applied(journal.id)
       /\ journal.path = PathOf(journal.article)
\* Before the marker: the operation would put back the active revision, and
\* the file is one of the two sides, unless a person changed it.
Unpublished ==
  /\ \A a \in Articles : PathOf(a) = journal.path =>
       journal.before = snapshot[Current(a)] \/ journal.path \in touched
  /\ \/ file[journal.path] = journal.before
     \/ journal.replacing /\ file[journal.path] = journal.after
     \/ journal.path \in touched
\* After the marker the file is the active revision.
InPlace ==
  /\ journal.article \in Articles /\ PathOf(journal.article) = journal.path
  /\ \/ file[journal.path] = snapshot[Current(journal.article)]
     \/ journal.path \in touched
\* Under the lock what was reviewed is still so.
Admitted ==
  LET q == journal.id IN
  /\ events[journal.article] = journal.last
  /\ journal.reviewed.last = journal.last
  /\ journal.reviewed.before = journal.before
  /\ journal.kind = "apply" =>
       /\ status[q] = "approved"
       /\ NamesItsConcept(q) /\ SlugIsFree(proposals[q].title, {})
       /\ Tracked(q) => proposals[q].base = Current(journal.article)
       /\ journal.reviewed.removed = Removed(q)
\* Where the one durable operation stands.
Working ==
  /\ worker # "idle" => journal # None
  /\ journal # None => Concerns /\ IF Marked(journal) THEN InPlace ELSE Unpublished
  /\ Locked => Admitted
  /\ Locked => (journal.replacing <=> worker = "replaced")
  /\ worker = "committed" => Marked(journal)
\* The properties alone are not inductive: a commit keeps them because of what
\* the lock and the journal hold since the preview was computed again.
ReviewInvariant ==
  /\ TypeOK /\ Compiling /\ Rows /\ Working
  /\ OneOpenPerConcept /\ DistinctConcepts /\ AuditedGeneration /\ RowsAgree
  /\ FileIsCurrent /\ OvertakenLater
----------------------------------------------------------------------------
\* It holds at first.
LEMMA Start == Init => ReviewInvariant
<1> SUFFICES ASSUME Init PROVE ReviewInvariant
  OBVIOUS
<1>1. TypeOK
  BY Bounds DEF Init, TypeOK
<1>2. Compiling
  BY DEF Init, Compiling, Planned
<1>3. Rows
  BY DEF Init, Rows, RowHolds, Lists
<1>4. Working
  BY DEF Init, Working, Locked
<1>5. OneOpenPerConcept /\ AuditedGeneration /\ OvertakenLater
  BY DEF Init, OneOpenPerConcept, AuditedGeneration, OvertakenLater, IsOpen
<1>6. DistinctConcepts /\ RowsAgree /\ FileIsCurrent
  BY DEF Init, DistinctConcepts, RowsAgree, FileIsCurrent, Articles
<1> QED BY <1>1, <1>2, <1>3, <1>4, <1>5, <1>6 DEF ReviewInvariant

----------------------------------------------------------------------------
\* A compile that has not published changes its own locals and its audit row.
LEMMA CompilingOnly ==
  ASSUME ReviewInvariant, TypeOK', Compiling', AuditedGeneration',
         UNCHANGED <<articles, proposals, status, approval, snapshot, events>>,
         UNCHANGED <<reviewVars, fileVars, workVars>>
  PROVE  ReviewInvariant'
<1> USE DEF ReviewInvariant, reviewVars, fileVars, workVars
<1> USE DEF Articles, PathOf, Current, ArticleOf, Destination, Tracked, Operation,
            Applied, Removed, ClaimsOf
<1>1. Rows'
  BY DEF Rows, RowHolds, Lists, Based, Aimed, Keeps
<1>2. Working'
  BY DEF Working, Concerns, Unpublished, InPlace, Admitted, Marked, Locked,
         NamesItsConcept, ArticlesOf, SameConcept, SlugIsFree
<1>3. OneOpenPerConcept' /\ OvertakenLater'
  BY DEF OneOpenPerConcept, OvertakenLater, IsOpen, SameConcept
<1>4. DistinctConcepts' /\ RowsAgree' /\ FileIsCurrent'
  BY DEF DistinctConcepts, RowsAgree, FileIsCurrent, SameConcept
<1> QED BY <1>1, <1>2, <1>3, <1>4

----------------------------------------------------------------------------
\* The first of some compiles.
LEMMA OldestIs ==
  ASSUME NEW creates \in SUBSET Id, creates # {}
  PROVE  /\ Oldest(creates) \in creates
         /\ \A x \in creates : Oldest(creates) <= x
<1> DEFINE Below(i) == {k \in creates : k < i}
           belows == {Below(i) : i \in creates}
           less == StrictSubsetOrdering(creates)
<1>1. IsFiniteSet(Id) /\ Id \subseteq Int
  BY FS_Interval, Bounds DEF Id
<1>2. \A S \in SUBSET creates : IsFiniteSet(S)
  BY <1>1, FS_Subset
<1>3. belows \subseteq FiniteSubsetsOf(creates) /\ belows # {}
  BY <1>2 DEF FiniteSubsetsOf
<1>4. PICK least \in belows : \A b \in belows : <<b, least>> \notin less
  <2> HIDE DEF belows, less
  <2>1. IsWellFoundedOn(less, FiniteSubsetsOf(creates))
    BY FS_StrictSubsetOrderingWellFounded DEF less
  <2> QED BY <1>3, <2>1, WFMin
<1>5. PICK i \in creates : least = Below(i)
  OBVIOUS
<1>6. ASSUME NEW j \in creates, j < i PROVE FALSE
  <2>1. i \in Int /\ j \in Int /\ \A k \in creates : k \in Int
    BY <1>1
  <2>2. \A k \in Below(j) : k \in Below(i)
    BY <1>6, <2>1
  <2>3. j \in Below(i) /\ j \notin Below(j)
    BY <1>6, <2>1
  <2>4. <<Below(j), Below(i)>> \in less
    BY <2>2, <2>3 DEF StrictSubsetOrdering
  <2> QED BY <1>4, <1>5, <2>4
<1>7. \A j \in creates : i <= j
  BY <1>1, <1>6
<1> QED BY <1>7 DEF Oldest

\* A compile's choice names an article that is there, or none.
LEMMA TargetIs ==
  ASSUME ReviewInvariant, NEW t \in Title
  PROVE  /\ Target(t).article \in Articles \cup {None}
         /\ Target(t).article = None <=> ArticlesOf(t) = {}
         /\ Target(t).article # None =>
              /\ Target(t).article \in ArticlesOf(t)
              /\ Target(t).title = articles[Target(t).article].title
         /\ Target(t).title \in Title
         /\ Key[Target(t).title] = Key[t]
<1>1. CASE ArticlesOf(t) # {}
  <2>1. ArticleFor(t) \in ArticlesOf(t)
    BY <1>1 DEF ArticleFor
  <2>2. ArticleFor(t) # None /\ articles[ArticleFor(t)] \in Article
    BY <2>1, NoneIsNew DEF ArticlesOf, Articles, TypeOK, ReviewInvariant
  <2> QED
    BY <1>1, <2>1, <2>2 DEF Target, ArticlesOf, SameConcept, Article
<1>2. CASE ArticlesOf(t) = {} /\ CreatesOf(t) # {}
  <2>1. Oldest(CreatesOf(t)) \in CreatesOf(t)
    BY <1>2, OldestIs DEF CreatesOf, PendingCreates, Id
  <2> DEFINE q == Oldest(CreatesOf(t))
  <2>2. q \in Id /\ IsOpen(q) /\ Key[proposals[q].title] = Key[t]
    BY <2>1 DEF CreatesOf, PendingCreates, SameConcept
  <2>3. proposals[q] \in Proposal
    BY <2>2 DEF ReviewInvariant, Rows, RowHolds, IsOpen, TypeOK
  <2>4. Target(t) = [article |-> None, title |-> proposals[q].title]
    BY <1>2 DEF Target
  <2> QED
    BY <1>2, <2>2, <2>3, <2>4 DEF Proposal
<1>3. CASE ArticlesOf(t) = {} /\ CreatesOf(t) = {}
  BY <1>3 DEF Target
<1> QED BY <1>1, <1>2, <1>3

\* A compile disturbs no other one.
LEMMA OthersCompile ==
  ASSUME ReviewInvariant, NEW r \in Id, Planned(r)', UNCHANGED <<articles, proposals>>,
         \A x \in Id \ {r} :
           pc'[x] = pc[x] /\ plan'[x] = plan[x] /\ audit'[x] = audit[x]
  PROVE  Compiling'
BY DEF ReviewInvariant, Compiling, Planned, Aimed, Keeps, ClaimsOf, Articles

\* Choosing what to compile.
LEMMA ChooseTargetKeeps ==
  ASSUME ReviewInvariant, NEW r \in Id, NEW t \in Title, ChooseTarget(r, t)
  PROVE  ReviewInvariant'
<1> DEFINE target == Target(t)
<1>1. /\ target.article \in Articles \cup {None}
      /\ target.title \in Title
  BY TargetIs DEF ReviewInvariant
<1> HIDE DEF target
<1>2. target.article \in Id \cup {None}
  BY <1>1 DEF Articles
<1>3. /\ pc[r] = "new"
      /\ plan' = [plan EXCEPT ![r] = [article |-> target.article,
                                      title |-> target.title, base |-> None,
                                      mode |-> "create", claims |-> {}]]
      /\ pc' = [pc EXCEPT ![r] = IF target.article = None THEN "generate"
                                 ELSE "base"]
      /\ UNCHANGED <<dbVars, reviewVars, fileVars, workVars>>
  BY DEF ChooseTarget, At, Goto, target
<1>4. TypeOK'
  BY <1>1, <1>2, <1>3
     DEF ReviewInvariant, TypeOK, Plan, Modes, dbVars, reviewVars, fileVars, workVars
<1>5. Compiling'
  <2>1. /\ plan'[r] = [article |-> target.article, title |-> target.title,
                       base |-> None, mode |-> "create", claims |-> {}]
        /\ pc'[r] = IF target.article = None THEN "generate" ELSE "base"
        /\ proposals'[r] = None /\ Articles' = Articles
    BY <1>3 DEF ReviewInvariant, TypeOK, Compiling, Planned, dbVars, Articles
  <2>2. plan'[r] # None
    BY <1>1, <1>2, <2>1, NoneIsNew DEF Plan, Modes
  <2>3. Planned(r)'
    BY <1>1, <2>1, <2>2 DEF Planned, Aimed
  <2> QED
    BY <1>3, <2>3, OthersCompile DEF ReviewInvariant, TypeOK, dbVars
<1> QED
  BY <1>3, <1>4, <1>5, CompilingOnly
     DEF dbVars, ReviewInvariant, AuditedGeneration

\* Reading the base of an update.
LEMMA LoadBaseKeeps ==
  ASSUME ReviewInvariant, NEW r \in Id, LoadBase(r)
  PROVE  ReviewInvariant'
<1> DEFINE a == plan[r].article
<1>1. a \in Articles /\ plan[r] \in Plan
  BY DEF LoadBase, At, ReviewInvariant, Compiling, Planned, TypeOK
<1>2. /\ a \in Id /\ a # None /\ Current(a) \in Id
      /\ proposals[Current(a)] # None
  BY <1>1, NoneIsNew DEF ReviewInvariant, RowsAgree, Rows, RowHolds, TypeOK,
     Articles, Article, Current
<1> PICK mode \in {"additive", "regenerate"} :
       plan' = [plan EXCEPT ![r].base = Current(a), ![r].mode = mode]
  BY DEF LoadBase
<1> DEFINE p == [plan[r] EXCEPT !.base = Current(a), !.mode = mode]
<1>3. p \in Plan /\ p.article = a /\ p.base = Current(a) /\ p.mode = mode
  BY <1>1, <1>2 DEF Plan, Modes
<1>4. plan' = [plan EXCEPT ![r] = p]
  BY DEF ReviewInvariant, TypeOK
<1> HIDE DEF p
<1>5. TypeOK'
  <2>1. /\ pc' = [pc EXCEPT ![r] = "generate"]
        /\ UNCHANGED <<dbVars, reviewVars, fileVars, workVars>>
    BY DEF LoadBase, Goto
  <2>2. plan' \in [Id -> Plan \cup {None}]
    BY <1>3, <1>4 DEF ReviewInvariant, TypeOK
  <2>3. pc' \in [Id -> {"new", "base", "generate", "validate", "persist", "done"}]
    BY <2>1 DEF ReviewInvariant, TypeOK
  <2> QED
    BY <2>1, <2>2, <2>3
       DEF ReviewInvariant, TypeOK, dbVars, reviewVars, fileVars, workVars
<1>6. Compiling'
  <2>1. /\ plan'[r] = p /\ pc'[r] = "generate" /\ proposals'[r] = None
        /\ Articles' = Articles /\ proposals' = proposals
    BY <1>4 DEF ReviewInvariant, TypeOK, Compiling, Planned, dbVars, Articles,
       LoadBase, At, Goto
  <2>2. Planned(r)'
    BY <1>1, <1>2, <1>3, <2>1, NoneIsNew DEF Planned, Aimed
  <2> QED
    BY <1>4, <2>2, OthersCompile DEF ReviewInvariant, TypeOK, dbVars, LoadBase, Goto
<1> QED
  BY <1>5, <1>6, CompilingOnly DEF LoadBase, dbVars, ReviewInvariant, AuditedGeneration

\* An answer that was accepted.
LEMMA GeneratedKeeps ==
  ASSUME ReviewInvariant, NEW r \in Id, Generated(r)
  PROVE  ReviewInvariant'
<1>1. plan[r] \in Plan
  BY DEF Generated, At, ReviewInvariant, Compiling, Planned, TypeOK
<1>2. TypeOK'
  BY <1>1 DEF Generated, Goto, Audit, ReviewInvariant, TypeOK, Plan,
     reviewVars, fileVars, workVars
<1>3. Compiling'
  <2> PICK additions \in SUBSET Claim : plan' = [plan EXCEPT ![r].claims = additions]
    BY DEF Generated
  <2>1. /\ plan'[r] = [plan[r] EXCEPT !.claims = additions]
        /\ pc'[r] = "validate" /\ proposals'[r] = None /\ audit'[r] = "completed"
        /\ Articles' = Articles /\ proposals' = proposals /\ Aimed(plan[r])
    BY DEF ReviewInvariant, TypeOK, Compiling, Planned, Articles, Generated, At, Goto,
       Audit
  <2>2. /\ plan'[r] \in Plan /\ plan'[r].article = plan[r].article
        /\ plan'[r].base = plan[r].base /\ plan'[r].mode = plan[r].mode
    BY <1>1, <2>1 DEF Plan
  <2>3. Planned(r)'
    BY <2>1, <2>2, NoneIsNew DEF Planned, Aimed
  <2> QED
    BY <2>3, OthersCompile DEF ReviewInvariant, TypeOK, Generated, Goto, Audit
<1>4. AuditedGeneration'
  BY DEF Generated, Audit, ReviewInvariant, AuditedGeneration, TypeOK
<1> QED
  BY <1>2, <1>3, <1>4, CompilingOnly DEF Generated

\* The answer with what the base retains.
LEMMA ValidatedKeeps ==
  ASSUME ReviewInvariant, NEW r \in Id, Validated(r)
  PROVE  ReviewInvariant'
<1> DEFINE kept == ClaimsOf(plan[r].base)
           claims == IF plan[r].mode = "additive" THEN plan[r].claims \cup kept
                     ELSE plan[r].claims
<1>1. plan[r] \in Plan /\ Aimed(plan[r])
  BY DEF Validated, At, ReviewInvariant, Compiling, Planned, TypeOK
<1>2. kept \subseteq Claim
  BY <1>1 DEF ClaimsOf, Aimed, ReviewInvariant, TypeOK, Proposal, Plan
<1>3. claims \subseteq Claim /\ (plan[r].mode = "additive" => kept \subseteq claims)
  BY <1>1, <1>2 DEF Plan
<1>4. plan' = [plan EXCEPT ![r].claims = claims]
  BY DEF Validated
<1> HIDE DEF claims
<1>5. TypeOK'
  BY <1>1, <1>3, <1>4 DEF Validated, Goto, ReviewInvariant, TypeOK, Plan,
     dbVars, reviewVars, fileVars, workVars
<1>6. plan'[r] # None /\ Keeps(plan[r])' /\ plan'[r].article = plan[r].article
  BY <1>1, <1>3, <1>4, NoneIsNew DEF Validated, Keeps, ClaimsOf, Plan, dbVars, TypeOK,
     ReviewInvariant
<1>7. Compiling'
  BY <1>1, <1>4, <1>6 DEF Validated, At, Goto, ReviewInvariant, TypeOK, Compiling,
     Planned, Aimed, Articles, Plan, dbVars, Keeps, ClaimsOf
<1> QED
  BY <1>5, <1>7, CompilingOnly
     DEF Validated, dbVars, ReviewInvariant, AuditedGeneration

\* A compile that ends without a proposal.
LEMMA EndsKeeps ==
  ASSUME ReviewInvariant, NEW r \in Id,
         ModelFailed(r) \/ ValidationFailed(r) \/ Abandon(r)
  PROVE  ReviewInvariant'
<1>1. /\ pc[r] \in {"base", "generate", "validate", "persist"}
      /\ pc' = [pc EXCEPT ![r] = "done"] /\ plan' = [plan EXCEPT ![r] = None]
      /\ UNCHANGED <<articles, proposals, status, approval, snapshot, events>>
      /\ UNCHANGED <<reviewVars, fileVars, workVars>>
  BY DEF ModelFailed, ValidationFailed, Abandon, At, Goto, dbVars
<1>2. \/ UNCHANGED audit
      \/ \E outcome \in {"failed", "invalid_response"} :
           audit' = [audit EXCEPT ![r] = outcome]
  BY DEF ModelFailed, ValidationFailed, Abandon, Audit, MarkInvalid, dbVars
<1>3. proposals[r] = None
  BY <1>1 DEF ReviewInvariant, Compiling, Planned
<1>4. TypeOK'
  BY <1>1, <1>2 DEF ReviewInvariant, TypeOK, reviewVars, fileVars, workVars
<1>5. Compiling'
  BY <1>1, <1>2 DEF ReviewInvariant, TypeOK, Compiling, Planned, Aimed, Articles,
     Keeps, ClaimsOf
<1>6. AuditedGeneration'
  BY <1>1, <1>2, <1>3 DEF ReviewInvariant, AuditedGeneration, TypeOK
<1> QED
  BY <1>1, <1>4, <1>5, <1>6, CompilingOnly

----------------------------------------------------------------------------
\* Publication of a proposal.

\* A row, once written, keeps its meaning when another one is added.
LEMMA RowsStay ==
  ASSUME ReviewInvariant, NEW r \in Id, proposals[r] = None,
         UNCHANGED <<articles, events>>,
         \A q \in Id \ {r} : proposals'[q] = proposals[q],
         NEW q \in Id, proposals[q] # None
  PROVE  /\ proposals'[q] = proposals[q]
         /\ Tracked(q)' = Tracked(q) /\ Destination(q)' = Destination(q)
         /\ ArticleOf(q)' = ArticleOf(q) /\ Applied(q)' = Applied(q)
         /\ Removed(q)' = Removed(q)
         /\ Based(q)'
<1>1. proposals'[q] = proposals[q] /\ Based(q)
  BY DEF ReviewInvariant, Rows, RowHolds
<1>2. ClaimsOf(proposals[q].base)' = ClaimsOf(proposals[q].base)
  BY <1>1 DEF ClaimsOf, Based, Aimed
<1>3. /\ Tracked(q)' = Tracked(q) /\ Destination(q)' = Destination(q)
      /\ ArticleOf(q)' = ArticleOf(q) /\ Applied(q)' = Applied(q)
      /\ Removed(q)' = Removed(q)
  BY <1>1, <1>2 DEF Tracked, Operation, Destination, ArticleOf, Applied, Removed
<1>4. Based(q)'
  BY <1>1, <1>2, <1>3 DEF Based, Aimed, Keeps, Articles, PathOf
<1> QED BY <1>1, <1>3, <1>4

\* What the compile may publish, and what stands open for its concept.
LEMMA PublishableIs ==
  ASSUME ReviewInvariant, NEW r \in Id, At(r, "persist"), Publishable(r),
         NEW p, p = plan[r]
  PROVE  /\ p \in Plan /\ Aimed(p) /\ Keeps(p)
         /\ proposals[r] = None /\ status[r] = "absent" /\ audit[r] = "completed"
         /\ p.article # None => /\ Key[p.title] = PathOf(p.article)
                                /\ p.base = Current(p.article)
         /\ \A q \in Id : IsOpen(q) /\ SameConcept(proposals[q].title, p.title)
              => q \in Supersedes(r)
<1>1. /\ p \in Plan /\ Aimed(p) /\ Keeps(p)
      /\ proposals[r] = None /\ status[r] = "absent" /\ audit[r] = "completed"
  BY DEF ReviewInvariant, At, Compiling, Planned, TypeOK, Rows, RowHolds
<1>2. /\ Target(p.title).article = p.article /\ Target(p.title).title = p.title
      /\ p.article # None => BaseIsCurrent(p.article, p.base)
  BY DEF Publishable
<1>3. /\ p.article = None <=> ArticlesOf(p.title) = {}
      /\ p.article # None => /\ p.article \in ArticlesOf(p.title)
                             /\ p.title = articles[p.article].title
  BY <1>1, <1>2, TargetIs DEF Plan
<1>4. ASSUME NEW q \in Id, IsOpen(q), SameConcept(proposals[q].title, p.title)
      PROVE  q \in Supersedes(r)
  <2>1. proposals[q] # None /\ Based(q)
    BY <1>4 DEF ReviewInvariant, Rows, RowHolds, IsOpen
  <2>2. CASE Operation(q) = "create"
    BY <1>4, <2>2 DEF Supersedes, CreatesOf, PendingCreates
  <2>3. CASE Operation(q) # "create"
    <3> DEFINE a == proposals[q].article
    <3>1. a \in Articles /\ SameConcept(articles[a].title, p.title)
      BY <1>4, <2>1, <2>3 DEF Based, Aimed, Operation, Tracked, PathOf, SameConcept
    <3>2. a \in ArticlesOf(p.title)
      BY <3>1 DEF ArticlesOf
    <3>3. p.article \in Articles /\ SameConcept(articles[p.article].title, p.title)
      BY <1>3, <3>2 DEF ArticlesOf
    <3>4. p.article = a
      BY <3>1, <3>3 DEF ReviewInvariant, DistinctConcepts, SameConcept
    <3>5. p.article # None
      BY <1>3, <3>2
    <3> QED
      BY <1>4, <3>4, <3>5 DEF Supersedes
  <2> QED BY <2>2, <2>3
<1> QED
  BY <1>1, <1>2, <1>3, <1>4 DEF PathOf, BaseIsCurrent

\* A proposal supersedes every open one of its concept.
LEMMA PersistKeeps ==
  ASSUME ReviewInvariant, NEW r \in Id, Persist(r)
  PROVE  ReviewInvariant'
<1> PICK p : p = plan[r]
  OBVIOUS
<1> PICK row : row = Row(p)
  OBVIOUS
<1>1. At(r, "persist") /\ Publishable(r) /\ ~Locked
  BY DEF Persist
<1>2. /\ p \in Plan /\ Aimed(p) /\ Keeps(p)
      /\ proposals[r] = None /\ status[r] = "absent" /\ audit[r] = "completed"
      /\ p.article # None => /\ Key[p.title] = PathOf(p.article)
                             /\ p.base = Current(p.article)
      /\ \A q \in Id : IsOpen(q) /\ SameConcept(proposals[q].title, p.title)
           => q \in Supersedes(r)
  BY <1>1, PublishableIs
<1>3. /\ row \in Proposal
      /\ row.article = p.article /\ row.title = p.title /\ row.base = p.base
      /\ row.mode = p.mode /\ row.claims = p.claims
      /\ row.article # None => row.born = events[row.article]
  BY <1>2 DEF Row, Plan, Proposal, ReviewInvariant, TypeOK
<1>4. row # None
  BY <1>3, NoneIsNew
<1>5. /\ proposals' = [proposals EXCEPT ![r] = row]
      /\ status' = [q \in Id |-> IF q = r THEN "pending"
                                 ELSE IF q \in Supersedes(r) THEN "superseded"
                                 ELSE status[q]]
      /\ shown' = [q \in Id |-> IF q \in Supersedes(r) THEN None ELSE shown[q]]
      /\ pc' = [pc EXCEPT ![r] = "done"] /\ plan' = [plan EXCEPT ![r] = None]
      /\ UNCHANGED <<articles, approval, audit, snapshot, events, history,
                     fileVars, workVars>>
  BY DEF Persist, Goto
<1>6. TypeOK'
  BY <1>3, <1>5 DEF ReviewInvariant, TypeOK, fileVars, workVars
<1>7. /\ proposals'[r] = row /\ status'[r] = "pending"
      /\ \A q \in Id \ {r} : proposals'[q] = proposals[q]
      /\ Articles' = Articles /\ (\A a \in Articles : PathOf(a)' = PathOf(a))
      /\ (\A a \in Articles : Current(a)' = Current(a))
  BY <1>5 DEF ReviewInvariant, TypeOK, Articles, PathOf, Current
<1>8. \A q \in Id : proposals[q] # None =>
        /\ q # r /\ proposals'[q] = proposals[q]
        /\ Tracked(q)' = Tracked(q) /\ Destination(q)' = Destination(q)
        /\ ArticleOf(q)' = ArticleOf(q) /\ Applied(q)' = Applied(q)
        /\ Removed(q)' = Removed(q) /\ Based(q)'
  BY <1>2, <1>5, <1>7, RowsStay
<1>9. Compiling'
  <2>1. ASSUME NEW x \in Id \ {r} PROVE Planned(x)'
    <3>1. Planned(x)
      BY DEF ReviewInvariant, Compiling
    <3>2. pc'[x] = pc[x] /\ plan'[x] = plan[x] /\ audit'[x] = audit[x]
      BY <1>5 DEF ReviewInvariant, TypeOK
    <3>3. Aimed(plan[x]) =>
            /\ Aimed(plan[x])'
            /\ ClaimsOf(plan[x].base)' = ClaimsOf(plan[x].base)
      BY <1>2, <1>7, <1>8, <3>2 DEF Aimed, ClaimsOf
    <3> QED
      BY <1>7, <3>1, <3>2, <3>3 DEF Planned, Keeps
  <2>2. Planned(r)'
    BY <1>5 DEF Planned, ReviewInvariant, TypeOK
  <2> QED BY <2>1, <2>2 DEF Compiling
<1>10. Based(r)'
  <2>1. p.base # None => p.base # r /\ ClaimsOf(p.base)' = ClaimsOf(p.base)
    BY <1>2, <1>8 DEF Aimed, ClaimsOf
  <2>2. Aimed(row)' /\ Keeps(row)'
    BY <1>2, <1>3, <1>7, <1>8, <2>1 DEF Aimed, Keeps, ClaimsOf
  <2>3. row.article # None => /\ Key[row.title] = PathOf(row.article)'
                              /\ row.born <= events'[row.article]
    <3>1. row.article # None => row.article \in Articles
      BY <1>2, <1>3 DEF Aimed
    <3>2. row.article # None => events[row.article] \in Nat
      BY <3>1 DEF Articles, ReviewInvariant, TypeOK
    <3> QED
      BY <1>2, <1>3, <1>5, <1>7, <3>1, <3>2
  <2> QED
    BY <1>2, <1>3, <1>7, <2>2, <2>3 DEF Based, Tracked, Operation, Aimed
<1>11. Rows'
  <2>1. ASSUME NEW q \in Id
        PROVE  RowHolds(q)' /\ Lists(q, shown[q])' /\ Lists(q, approval[q])'
    <3>1. CASE q = r
      <4>1. /\ snapshot[r] = None /\ shown[r] = None /\ approval[r] = None
            /\ articles[r] = None
        BY <1>2 DEF ReviewInvariant, Rows, RowHolds, Lists
      <4>2. /\ snapshot'[r] = None /\ shown'[r] = None /\ approval'[r] = None
            /\ articles'[r] = None
        BY <1>5, <4>1
      <4> QED
        BY <1>4, <1>7, <1>10, <3>1, <4>2 DEF RowHolds, Lists
    <3>2. CASE q # r
      <4>1. RowHolds(q) /\ Lists(q, shown[q]) /\ Lists(q, approval[q])
        BY DEF ReviewInvariant, Rows
      <4>2. /\ shown'[q] \in {shown[q], None} /\ approval'[q] = approval[q]
            /\ snapshot'[q] = snapshot[q]
            /\ \/ status'[q] = status[q]
               \/ IsOpen(q) /\ status'[q] = "superseded"
        BY <1>5, <3>2 DEF Supersedes
      <4>3. proposals[q] # None =>
              Tracked(q)' = Tracked(q) /\ Applied(q)' = Applied(q)
              /\ Removed(q)' = Removed(q) /\ Destination(q)' = Destination(q)
              /\ Based(q)'
        BY <1>8
      <4>4. /\ proposals'[q] = proposals[q]
            /\ proposals[q] # None /\ Applied(q) \in Articles =>
                 PathOf(Applied(q))' = PathOf(Applied(q))
        BY <1>5, <1>7, <3>2, <4>3 DEF PathOf
      <4>5. RowHolds(q)'
        BY <1>5, <1>7, <4>1, <4>2, <4>3, <4>4 DEF RowHolds, IsOpen, PathOf
      <4> QED
        BY <4>1, <4>2, <4>3, <4>4, <4>5 DEF Lists
    <3> QED BY <3>1, <3>2
  <2> QED BY <2>1 DEF Rows
<1>12. Working'
  <2>1. UNCHANGED <<file, touched, journal, worker, snapshot, events, articles>>
    BY <1>5 DEF fileVars, workVars
  <2>2. journal # None => journal.id \in Id /\ Concerns
    BY DEF ReviewInvariant, Working, TypeOK, FileOp
  <2>3. journal # None => proposals[journal.id] # None
    <3>1. journal # None /\ journal.kind # "apply" => snapshot[journal.id] # None
      BY <2>2, NoneIsNew DEF Concerns, ReviewInvariant, TypeOK, FileOp
    <3> QED
      BY <2>2, <3>1 DEF Concerns, ReviewInvariant, Rows, RowHolds
  <2>4. journal # None => Concerns'
    BY <1>7, <1>8, <2>1, <2>2, <2>3 DEF Concerns, PathOf
  <2>5. Unpublished' = Unpublished /\ InPlace' = InPlace
        /\ Marked(journal)' = Marked(journal)
    BY <2>1 DEF Unpublished, InPlace, Marked, Articles, PathOf, Current
  <2> QED
    BY <1>1, <2>1, <2>4, <2>5 DEF ReviewInvariant, Working, Locked
<1>13. OneOpenPerConcept'
  <2>1. \A q \in Id \ {r} : IsOpen(q)' =>
          IsOpen(q) /\ q \notin Supersedes(r) /\ proposals'[q] = proposals[q]
    BY <1>5, <1>7 DEF IsOpen
  <2>2. \A q \in Id \ {r} : IsOpen(q)' =>
          ~SameConcept(proposals'[q].title, proposals'[r].title)
    BY <1>2, <1>3, <1>7, <2>1
  <2> QED
    BY <2>1, <2>2 DEF ReviewInvariant, OneOpenPerConcept, SameConcept
<1>14. DistinctConcepts' /\ FileIsCurrent'
  BY <1>5 DEF ReviewInvariant, DistinctConcepts, FileIsCurrent, Articles, PathOf,
     Current, SameConcept, fileVars, workVars
<1>15. AuditedGeneration'
  BY <1>2, <1>5, <1>7 DEF ReviewInvariant, AuditedGeneration
<1>16. RowsAgree'
  <2>1. ASSUME NEW a \in Articles, NEW run, run = Current(a)
        PROVE  /\ run \in Id /\ status'[run] = "applied" /\ Applied(run)' = a
    <3>1. run \in Id /\ status[run] = "applied" /\ Applied(run) = a
      BY <2>1 DEF ReviewInvariant, RowsAgree, TypeOK, Articles, Article, Current
    <3>2. proposals[run] # None
      BY <3>1 DEF ReviewInvariant, Rows, RowHolds
    <3> QED
      BY <1>5, <1>8, <3>1, <3>2 DEF Supersedes, IsOpen
  <2> QED
    BY <1>5, <1>7, <2>1 DEF ReviewInvariant, RowsAgree
<1>17. OvertakenLater'
  <2>1. ASSUME NEW q \in Id, IsOpen(q)', Tracked(q)', NEW a, a = proposals'[q].article
        PROVE  proposals'[q].base = Current(a)' \/ events'[a] > proposals'[q].born
    <3>1. CASE q = r
      <4>1. p.article # None /\ a = p.article
        BY <1>2, <1>3, <1>7, <2>1, <3>1 DEF Tracked, Operation, Aimed
      <4> QED
        BY <1>2, <1>3, <1>5, <1>7, <3>1, <4>1 DEF Current
    <3>2. CASE q # r
      <4>1. IsOpen(q) /\ proposals[q] # None
        BY <1>5, <2>1, <3>2 DEF IsOpen, ReviewInvariant, Rows, RowHolds
      <4>2. Tracked(q) /\ a = proposals[q].article /\ proposals'[q] = proposals[q]
        BY <1>8, <2>1, <4>1
      <4> QED
        BY <1>5, <4>1, <4>2 DEF ReviewInvariant, OvertakenLater, Current
    <3> QED BY <3>1, <3>2
  <2> QED BY <2>1 DEF OvertakenLater
<1> QED
  BY <1>6, <1>9, <1>11, <1>12, <1>13, <1>14, <1>15, <1>16, <1>17 DEF ReviewInvariant

----------------------------------------------------------------------------
\* Review.

\* Reading and deciding changes what stands open, nothing else.
LEMMA ReviewOnly ==
  ASSUME ReviewInvariant, TypeOK',
         UNCHANGED <<articles, proposals, audit, snapshot, events>>,
         UNCHANGED <<compileVars, fileVars, workVars>>,
         \A q \in Id : \/ status'[q] = status[q]
                       \/ IsOpen(q) /\ status'[q] \in {"pending", "approved", "rejected"},
         \A q \in Id : Lists(q, shown[q])' /\ Lists(q, approval[q])',
         Locked => UNCHANGED status
  PROVE  ReviewInvariant'
<1> USE DEF ReviewInvariant, compileVars, fileVars, workVars
<1> USE DEF Articles, PathOf, Current, ArticleOf, Destination, Tracked, Operation,
            Applied, Removed, ClaimsOf
<1>1. Compiling'
  BY DEF Compiling, Planned, Aimed, Keeps
<1>2. Rows'
  <2>1. ASSUME NEW q \in Id PROVE RowHolds(q)'
    <3>1. RowHolds(q) /\ (Based(q) => Based(q)')
      BY DEF Rows, Based, Aimed, Keeps
    <3>2. \/ status'[q] = status[q]
          \/ status[q] # "absent" /\ status'[q] # "absent" /\ status[q] # "applied"
      BY DEF IsOpen
    <3> QED BY <3>1, <3>2 DEF RowHolds
  <2> QED BY <2>1 DEF Rows
<1>3. Working'
  BY DEF Working, Concerns, Unpublished, InPlace, Admitted, Marked, Locked,
         NamesItsConcept, ArticlesOf, SameConcept, SlugIsFree
<1>4. OneOpenPerConcept' /\ OvertakenLater'
  BY DEF OneOpenPerConcept, OvertakenLater, IsOpen, SameConcept
<1>5. DistinctConcepts' /\ FileIsCurrent' /\ AuditedGeneration'
  BY DEF DistinctConcepts, FileIsCurrent, SameConcept, AuditedGeneration
<1>6. RowsAgree'
  <2>1. \A a \in Articles : Current(a) \in Id /\ status'[Current(a)] = "applied"
    BY DEF RowsAgree, TypeOK, Article, IsOpen
  <2> QED BY <2>1 DEF RowsAgree
<1> QED BY <1>1, <1>2, <1>3, <1>4, <1>5, <1>6

\* What a preview says, and what it was computed from.
LEMMA PreviewIs ==
  ASSUME ReviewInvariant, NEW q \in Id, NEW allow \in BOOLEAN, Previewable(q, allow)
  PROVE  /\ proposals[q] \in Proposal /\ proposals[q] # None /\ Based(q)
         /\ ArticleOf(q) \in Id /\ Destination(q) \in Path
         /\ Tracked(q) => /\ ArticleOf(q) \in Articles
                          /\ ArticleOf(q) = proposals[q].article
                          /\ proposals[q].base = Current(ArticleOf(q))
         /\ Rendered(q) \in File /\ Rendered(q).region = proposals[q].claims
         /\ Preview(q, allow) \in View
         /\ Preview(q, allow).removed = Removed(q)
<1>1. proposals[q] \in Proposal /\ proposals[q] # None /\ Based(q)
  BY DEF Previewable, IsOpen, ReviewInvariant, Rows, RowHolds, TypeOK
<1>2. Destination(q) \in Path
  BY <1>1 DEF Destination, Path, Proposal
<1>3. Tracked(q) => /\ ArticleOf(q) \in Articles
                    /\ ArticleOf(q) = proposals[q].article
                    /\ proposals[q].base = Current(ArticleOf(q))
                    /\ file[Destination(q)] # None
  BY <1>1 DEF Previewable, BaseIsCurrent, BaseIsReadable, Tracked, Operation, ArticleOf,
     Based, Aimed, Destination
<1>4. ArticleOf(q) \in Id
  BY <1>3 DEF ArticleOf, Tracked, Operation, Articles
<1>5. Tracked(q) => file[Destination(q)] \in File
  BY <1>2, <1>3 DEF ReviewInvariant, TypeOK
<1>6. Rendered(q) \in File /\ Rendered(q).region = proposals[q].claims
  BY <1>1, <1>5 DEF Rendered, File, Region, Proposal
<1>7. Removed(q) \in SUBSET Claim
  BY <1>1 DEF Removed, ClaimsOf, Based, Aimed, ReviewInvariant, TypeOK, Proposal
<1>8. events[ArticleOf(q)] \in Nat /\ file[Destination(q)] \in File \cup {None}
  BY <1>2, <1>4 DEF ReviewInvariant, TypeOK
<1>9. Preview(q, allow) \in View /\ Preview(q, allow).removed = Removed(q)
  BY <1>6, <1>7, <1>8 DEF Preview, View, LatestEvent
<1> QED BY <1>1, <1>2, <1>3, <1>4, <1>6, <1>9

\* Reading a preview.
LEMMA ShowKeeps ==
  ASSUME ReviewInvariant, NEW q \in Id, Show(q)
  PROVE  ReviewInvariant'
<1>1. PICK allow \in BOOLEAN : /\ Previewable(q, allow)
                               /\ shown' = [shown EXCEPT ![q] = Preview(q, allow)]
  BY DEF Show
<1>2. UNCHANGED <<dbVars, compileVars, history, fileVars, workVars>>
  BY DEF Show
<1> PICK view : view = Preview(q, allow)
  OBVIOUS
<1>3. view \in View /\ proposals[q] # None /\ view.removed = Removed(q)
  BY <1>1, PreviewIs
<1>4. shown' = [shown EXCEPT ![q] = view]
  BY <1>1
<1>5. shown' \in [Id -> View \cup {None}]
  BY <1>3, <1>4 DEF ReviewInvariant, TypeOK
<1>6. TypeOK'
  BY <1>2, <1>5
     DEF ReviewInvariant, TypeOK, dbVars, compileVars, fileVars, workVars
<1>7. \A x \in Id : Lists(x, shown[x])' /\ Lists(x, approval[x])'
  BY <1>2, <1>3, <1>4 DEF ReviewInvariant, TypeOK, Rows, Lists, Removed, ClaimsOf, dbVars
<1> QED
  BY <1>2, <1>6, <1>7, ReviewOnly DEF dbVars

\* A decision.
LEMMA DecisionKeeps ==
  ASSUME ReviewInvariant, NEW q \in Id, Approve(q) \/ Reject(q) \/ Revoke(q)
  PROVE  ReviewInvariant'
<1>1. /\ UNCHANGED <<articles, proposals, audit, snapshot, events, compileVars,
                     history, fileVars, workVars>>
      /\ ~Locked /\ IsOpen(q)
      /\ \E outcome \in {"pending", "approved", "rejected"} :
           status' = [status EXCEPT ![q] = outcome]
  BY DEF Approve, Reject, Revoke, Decide, IsOpen, reviewVars
<1>2. /\ \/ approval' = [approval EXCEPT ![q] = shown[q]]
         \/ approval' = [approval EXCEPT ![q] = None]
      /\ shown' = shown \/ shown' = [shown EXCEPT ![q] = None]
  BY DEF Approve, Reject, Revoke, Decide, reviewVars, ReviewInvariant, TypeOK
<1>3. TypeOK'
  BY <1>1, <1>2 DEF ReviewInvariant, TypeOK, compileVars, fileVars, workVars
<1>4. \A x \in Id : Lists(x, shown[x])' /\ Lists(x, approval[x])'
  BY <1>1, <1>2 DEF ReviewInvariant, TypeOK, Rows, Lists, Removed, ClaimsOf
<1> QED
  BY <1>1, <1>3, <1>4, ReviewOnly DEF IsOpen, ReviewInvariant, TypeOK

\* What a restore would do.
LEMMA RestorePreviewIs ==
  ASSUME ReviewInvariant, NEW r \in Id, Restorable(r)
  PROVE  /\ Applied(r) \in Articles /\ PathOf(Applied(r)) \in Path
         /\ snapshot[r] \in File /\ status[r] = "applied" /\ proposals[r] # None
         /\ RestorePreview(r) \in RestoreView
<1>1. /\ Applied(r) \in Articles /\ snapshot[r] \in File
      /\ status[r] = "applied" /\ proposals[r] # None
  BY DEF Restorable, ReviewInvariant, Rows, RowHolds, TypeOK
<1>2. /\ PathOf(Applied(r)) \in Path /\ Current(Applied(r)) \in Id
      /\ events[Applied(r)] \in Nat
  BY <1>1 DEF PathOf, Path, Current, Articles, Article, ReviewInvariant, TypeOK
<1>3. file[PathOf(Applied(r))] \in File \cup {None}
  BY <1>2 DEF ReviewInvariant, TypeOK
<1>4. RestorePreview(r) \in RestoreView
  BY <1>1, <1>2, <1>3 DEF RestorePreview, RestoreView, LatestEvent
<1> QED BY <1>1, <1>2, <1>4

\* Reading what a restore would do.
LEMMA ShowRestoreKeeps ==
  ASSUME ReviewInvariant, NEW r \in Id, ShowRestore(r)
  PROVE  ReviewInvariant'
<1> PICK view : view = RestorePreview(r)
  OBVIOUS
<1>1. view \in RestoreView
  BY RestorePreviewIs DEF ShowRestore
<1>2. /\ history' = [history EXCEPT ![r] = view]
      /\ UNCHANGED <<dbVars, compileVars, shown, fileVars, workVars>>
  BY DEF ShowRestore
<1>3. history' \in [Id -> RestoreView \cup {None}]
  BY <1>1, <1>2 DEF ReviewInvariant, TypeOK
<1>4. TypeOK'
  BY <1>2, <1>3
     DEF ReviewInvariant, TypeOK, dbVars, compileVars, fileVars, workVars
<1>5. \A x \in Id : Lists(x, shown[x])' /\ Lists(x, approval[x])'
  BY <1>2 DEF ReviewInvariant, Rows, Lists, Removed, ClaimsOf, dbVars
<1> QED
  BY <1>2, <1>4, <1>5, ReviewOnly DEF dbVars

----------------------------------------------------------------------------
\* Apply and restore.

\* Until it commits, a durable operation changes its journal and the file.
LEMMA WorkOnly ==
  ASSUME ReviewInvariant, TypeOK', Working', FileIsCurrent',
         UNCHANGED <<dbVars, compileVars, reviewVars>>
  PROVE  ReviewInvariant'
<1> USE DEF ReviewInvariant, dbVars, compileVars, reviewVars
<1> USE DEF Articles, PathOf, Current, ArticleOf, Destination, Tracked, Operation,
            Applied, Removed, ClaimsOf
<1>1. Compiling'
  BY DEF Compiling, Planned, Aimed, Keeps
<1>2. Rows'
  BY DEF Rows, RowHolds, Lists, Based, Aimed, Keeps
<1>3. OneOpenPerConcept' /\ OvertakenLater'
  BY DEF OneOpenPerConcept, OvertakenLater, IsOpen, SameConcept
<1>4. DistinctConcepts' /\ AuditedGeneration' /\ RowsAgree'
  BY DEF DistinctConcepts, SameConcept, AuditedGeneration, RowsAgree
<1> QED BY <1>1, <1>2, <1>3, <1>4

\* What an operation does not change.
LEMMA Unmoved ==
  ASSUME UNCHANGED dbVars
  PROVE  /\ Articles' = Articles
         /\ \A a : PathOf(a)' = PathOf(a) /\ Current(a)' = Current(a)
         /\ \A q : /\ ArticleOf(q)' = ArticleOf(q) /\ Destination(q)' = Destination(q)
                   /\ Tracked(q)' = Tracked(q) /\ Applied(q)' = Applied(q)
                   /\ Removed(q)' = Removed(q)
                   /\ NamesItsConcept(q)' = NamesItsConcept(q)
         /\ \A t : SlugIsFree(t, {})' = SlugIsFree(t, {})
BY DEF dbVars, Articles, PathOf, Current, ArticleOf, Destination, Tracked, Operation,
       Applied, Removed, ClaimsOf, NamesItsConcept, ArticlesOf, SameConcept, SlugIsFree

\* The beginning of an operation, in general.
LEMMA BeginKeeps ==
  ASSUME ReviewInvariant, TypeOK', NEW op \in FileOp, Prepare(op),
         UNCHANGED <<dbVars, compileVars, reviewVars, fileVars>>,
         op.article \in Id, op.path \in Path,
         op.before = file[op.path], op.last = events[op.article],
         op.reviewed.last = op.last, op.reviewed.before = op.before,
         op.replacing = FALSE,
         IF op.kind = "apply"
         THEN /\ proposals[op.id] # None /\ status[op.id] = "approved"
              /\ op.article = ArticleOf(op.id) /\ op.path = Destination(op.id)
              /\ op.after.region = proposals[op.id].claims
              /\ NamesItsConcept(op.id) /\ SlugIsFree(proposals[op.id].title, {})
              /\ Tracked(op.id) => proposals[op.id].base = Current(op.article)
              /\ op.reviewed.removed = Removed(op.id)
         ELSE /\ op.after = snapshot[op.id]
              /\ op.article = Applied(op.id) /\ op.path = PathOf(op.article)
  PROVE  ReviewInvariant'
<1>1. /\ journal = None /\ journal' = op /\ worker' = "prepared"
      /\ op # None
  BY NoneIsNew DEF Prepare
<1>2. UNCHANGED <<file, touched, snapshot, events, proposals, status, articles>>
  BY DEF dbVars, fileVars
<1>3. Concerns'
  BY <1>1, <1>2, Unmoved DEF Concerns
<1>4. ~Marked(op)
  <2>1. events[op.article] \in Nat
    BY DEF ReviewInvariant, TypeOK
  <2> QED BY <2>1 DEF Marked
<1>5. Unpublished'
  <2>1. \A a \in Articles : PathOf(a) = op.path =>
          op.before = snapshot[Current(a)] \/ op.path \in touched
    BY <1>1 DEF ReviewInvariant, FileIsCurrent
  <2> QED
    BY <1>1, <1>2, <2>1, Unmoved DEF Unpublished
<1>6. Admitted'
  BY <1>1, <1>2, Unmoved DEF Admitted
<1>7. Marked(journal)' = Marked(op)
  BY <1>1, <1>2 DEF Marked
<1>8. Working'
  BY <1>1, <1>3, <1>4, <1>5, <1>6, <1>7 DEF Working, Locked
<1>9. FileIsCurrent'
  BY <1>1, <1>2, Unmoved DEF ReviewInvariant, FileIsCurrent
<1> QED
  BY <1>8, <1>9, WorkOnly

\* An approved proposal, previewed again under the lock.
LEMMA ApplyBeginKeeps ==
  ASSUME ReviewInvariant, NEW q \in Id, ApplyBegin(q)
  PROVE  ReviewInvariant'
<1> PICK view : view = approval[q]
  OBVIOUS
<1> PICK now : now = Preview(q, view.allow)
  OBVIOUS
<1> PICK op : op = [kind |-> "apply", id |-> q, article |-> ArticleOf(q),
                    path |-> Destination(q), before |-> file[Destination(q)],
                    after |-> Rendered(q), last |-> LatestEvent(ArticleOf(q)),
                    replacing |-> FALSE, reviewed |-> view]
  OBVIOUS
<1>1. /\ status[q] = "approved" /\ view \in View /\ view.removed = Removed(q)
      /\ Previewable(q, view.allow)
      /\ Bound(view) = Bound(now)
      /\ Prepare(op)
      /\ UNCHANGED <<dbVars, compileVars, reviewVars, fileVars, restores, faults>>
  BY DEF ApplyBegin, ReviewInvariant, TypeOK, Rows, Lists
<1>2. view.allow \in BOOLEAN
  BY <1>1 DEF View
<1>3. /\ proposals[q] \in Proposal /\ proposals[q] # None
      /\ ArticleOf(q) \in Id /\ Destination(q) \in Path
      /\ Tracked(q) => proposals[q].base = Current(ArticleOf(q))
      /\ Rendered(q) \in File /\ Rendered(q).region = proposals[q].claims
  BY <1>1, <1>2, PreviewIs
<1>4. now.last = LatestEvent(ArticleOf(q)) /\ now.before = file[Destination(q)]
  BY DEF Preview
<1>5. view.last = now.last /\ view.before = now.before
  BY <1>1 DEF Bound
<1>6. /\ file[Destination(q)] \in File \cup {None}
      /\ LatestEvent(ArticleOf(q)) \in Nat
  BY <1>3 DEF ReviewInvariant, TypeOK, LatestEvent
<1>7. op \in FileOp
  BY <1>1, <1>3, <1>6 DEF FileOp
<1>8. TypeOK'
  BY <1>1, <1>7 DEF Prepare, ReviewInvariant, TypeOK, dbVars, compileVars, reviewVars,
     fileVars
<1>9. NamesItsConcept(q) /\ SlugIsFree(proposals[q].title, {})
  BY <1>1 DEF Previewable, IdentityHolds, Resolvable, SlugIsFree
<1> QED
  BY <1>1, <1>3, <1>4, <1>5, <1>7, <1>8, <1>9, BeginKeeps DEF LatestEvent

\* A restore that is still what was previewed.
LEMMA RestoreBeginKeeps ==
  ASSUME ReviewInvariant, NEW r \in Id, RestoreBegin(r)
  PROVE  ReviewInvariant'
<1> PICK a : a = Applied(r)
  OBVIOUS
<1> PICK op : op = [kind |-> "restore", id |-> r, article |-> a,
                    path |-> PathOf(a), before |-> file[PathOf(a)],
                    after |-> snapshot[r], last |-> LatestEvent(a),
                    replacing |-> FALSE, reviewed |-> RestorePreview(r)]
  OBVIOUS
<1>1. /\ Restorable(r) /\ Prepare(op)
      /\ restores < MaxRestores /\ restores' = restores + 1
      /\ UNCHANGED <<dbVars, compileVars, reviewVars, fileVars, faults>>
  BY DEF RestoreBegin
<1>2. /\ a \in Articles /\ PathOf(a) \in Path /\ snapshot[r] \in File
      /\ RestorePreview(r) \in RestoreView
  BY <1>1, RestorePreviewIs
<1>3. a \in Id /\ events[a] \in Nat /\ file[PathOf(a)] \in File \cup {None}
  BY <1>2 DEF Articles, ReviewInvariant, TypeOK
<1>4. op \in FileOp
  BY <1>2, <1>3 DEF FileOp, LatestEvent
<1>5. restores' \in 0..MaxRestores
  BY <1>1, Bounds DEF ReviewInvariant, TypeOK
<1>6. TypeOK'
  BY <1>1, <1>4, <1>5 DEF Prepare, ReviewInvariant, TypeOK, dbVars, compileVars,
     reviewVars, fileVars
<1>7. op.reviewed.last = op.last /\ op.reviewed.before = op.before
  BY DEF RestorePreview
<1> QED
  BY <1>1, <1>2, <1>3, <1>4, <1>6, <1>7, BeginKeeps DEF LatestEvent

\* What an operation is about while it is not finished.
LEMMA OperationIs ==
  ASSUME ReviewInvariant, journal # None
  PROVE  /\ journal \in FileOp /\ journal.id \in Id /\ journal.article \in Id
         /\ journal.path \in Path /\ journal.after \in File
         /\ journal.before \in File \cup {None}
         /\ Concerns
         /\ ~Marked(journal) => Unpublished
         /\ Marked(journal) => InPlace
BY DEF ReviewInvariant, TypeOK, Working, FileOp

\* The journal of an operation that goes on.
LEMMA JournalGoesOn ==
  ASSUME ReviewInvariant, journal # None, NEW replacing \in BOOLEAN,
         journal' = [journal EXCEPT !.replacing = replacing],
         UNCHANGED dbVars
  PROVE  /\ journal' \in FileOp /\ journal' # None
         /\ journal'.kind = journal.kind /\ journal'.id = journal.id
         /\ journal'.article = journal.article /\ journal'.path = journal.path
         /\ journal'.before = journal.before /\ journal'.after = journal.after
         /\ journal'.last = journal.last /\ journal'.replacing = replacing
         /\ journal'.reviewed = journal.reviewed
         /\ Concerns' /\ Marked(journal)' = Marked(journal)
         /\ Admitted => Admitted'
<1>1. journal \in FileOp /\ Concerns
  BY OperationIs
<1>2. /\ journal' \in FileOp /\ journal' # None
      /\ journal'.kind = journal.kind /\ journal'.id = journal.id
      /\ journal'.article = journal.article /\ journal'.path = journal.path
      /\ journal'.before = journal.before /\ journal'.after = journal.after
      /\ journal'.last = journal.last /\ journal'.replacing = replacing
      /\ journal'.reviewed = journal.reviewed
  BY <1>1, NoneIsNew DEF FileOp
<1>3. Concerns'
  BY <1>1, <1>2, Unmoved DEF Concerns, dbVars
<1>4. Marked(journal)' = Marked(journal)
  BY <1>2 DEF Marked, dbVars
<1>5. Admitted => Admitted'
  BY <1>2, Unmoved DEF Admitted, dbVars
<1> QED BY <1>2, <1>3, <1>4, <1>5

\* The exchange.
LEMMA ReplaceKeeps ==
  ASSUME ReviewInvariant, Replace
  PROVE  ReviewInvariant'
<1>1. /\ worker = "prepared" /\ file[journal.path] = journal.before
      /\ file' = [file EXCEPT ![journal.path] = journal.after]
      /\ worker' = "replaced" /\ journal' = [journal EXCEPT !.replacing = TRUE]
      /\ UNCHANGED <<dbVars, compileVars, reviewVars, touched, edits, restores, faults>>
  BY DEF Replace
<1>2. journal # None /\ Admitted
  BY <1>1 DEF ReviewInvariant, Working, Locked
<1>3. /\ journal.path \in Path /\ journal.after \in File /\ Unpublished
      /\ ~Marked(journal)
  BY <1>2, OperationIs DEF Marked, Admitted, FileOp
<1>4. /\ journal' \in FileOp /\ journal' # None
      /\ journal'.path = journal.path /\ journal'.after = journal.after
      /\ journal'.before = journal.before /\ journal'.replacing
      /\ Concerns' /\ Marked(journal)' = Marked(journal) /\ Admitted'
  BY <1>1, <1>2, JournalGoesOn
<1>5. file'[journal.path] = journal.after
  BY <1>1, <1>3 DEF ReviewInvariant, TypeOK
<1>6. TypeOK'
  BY <1>1, <1>3, <1>4 DEF ReviewInvariant, TypeOK, dbVars, compileVars, reviewVars
<1>7. Unpublished'
  BY <1>1, <1>3, <1>4, <1>5, Unmoved DEF Unpublished, dbVars
<1>8. Working'
  BY <1>1, <1>3, <1>4, <1>7 DEF Working, Locked
<1>9. FileIsCurrent'
  <2>1. \A a \in Articles : PathOf(a) # journal.path => file'[PathOf(a)] = file[PathOf(a)]
    BY <1>1, <1>3 DEF PathOf, Path, Articles, ReviewInvariant, TypeOK, Article
  <2> QED
    BY <1>1, <1>2, <1>4, <2>1, Unmoved DEF ReviewInvariant, FileIsCurrent, dbVars
<1> QED BY <1>1, <1>6, <1>8, <1>9, WorkOnly

\* The operation is over.
LEMMA FinishKeeps ==
  ASSUME ReviewInvariant, Finish
  PROVE  ReviewInvariant'
<1>1. /\ worker = "committed" /\ worker' = "idle" /\ journal' = None
      /\ UNCHANGED <<dbVars, compileVars, reviewVars, fileVars, restores, faults>>
  BY DEF Finish
<1>2. InPlace /\ journal # None
  BY <1>1, OperationIs DEF ReviewInvariant, Working
<1>3. TypeOK'
  BY <1>1 DEF ReviewInvariant, TypeOK, dbVars, compileVars, reviewVars, fileVars
<1>4. Working'
  BY <1>1 DEF Working, Locked
<1>5. FileIsCurrent'
  <2>1. \A a \in Articles : PathOf(a) = journal.path => a = journal.article
    BY <1>2 DEF ReviewInvariant, DistinctConcepts, InPlace, PathOf, SameConcept
  <2> QED
    BY <1>1, <1>2, <2>1, Unmoved
       DEF ReviewInvariant, FileIsCurrent, InPlace, dbVars, fileVars
<1> QED BY <1>1, <1>3, <1>4, <1>5, WorkOnly

\* An error or a crash: the journal stays.
LEMMA InterruptedKeeps ==
  ASSUME ReviewInvariant, Interrupted
  PROVE  ReviewInvariant'
<1>1. /\ worker # "idle" /\ worker' = "idle"
      /\ UNCHANGED <<dbVars, compileVars, reviewVars, fileVars, restores>>
  BY DEF Interrupted
<1>2. journal # None
  BY <1>1 DEF ReviewInvariant, Working
<1>3. faults' \in 0..MaxFaults
  BY Bounds DEF Interrupted, ReviewInvariant, TypeOK
<1>4. \E replacing \in BOOLEAN :
        /\ journal' = [journal EXCEPT !.replacing = replacing]
        /\ worker = "prepared" \/ (journal.replacing => replacing)
  <2>1. CASE journal' = journal
    BY <1>2, <2>1, OperationIs DEF FileOp
  <2>2. CASE journal' # journal
    BY <2>2, <1>1 DEF Interrupted, ReviewInvariant, TypeOK
  <2> QED BY <2>1, <2>2
<1> PICK replacing \in BOOLEAN :
        /\ journal' = [journal EXCEPT !.replacing = replacing]
        /\ worker = "prepared" \/ (journal.replacing => replacing)
  BY <1>4
<1>5. /\ journal' \in FileOp /\ journal' # None
      /\ journal'.article = journal.article /\ journal'.path = journal.path
      /\ journal'.before = journal.before /\ journal'.after = journal.after
      /\ journal'.replacing = replacing
      /\ Concerns' /\ Marked(journal)' = Marked(journal)
  BY <1>1, <1>2, JournalGoesOn
<1>6. TypeOK'
  BY <1>1, <1>3, <1>5 DEF ReviewInvariant, TypeOK, dbVars, compileVars, reviewVars,
     fileVars
<1>7. Unpublished => Unpublished'
  <2>1. journal.replacing => replacing
    BY <1>4 DEF ReviewInvariant, Working, Locked
  <2> QED
    BY <1>1, <1>5, <2>1, Unmoved DEF Unpublished, dbVars, fileVars
<1>8. InPlace => InPlace'
  BY <1>1, <1>5, Unmoved DEF InPlace, dbVars, fileVars
<1>9. Working'
  BY <1>1, <1>2, <1>5, <1>7, <1>8 DEF ReviewInvariant, Working, Locked
<1>10. FileIsCurrent'
  BY <1>1, <1>2, <1>5, Unmoved DEF ReviewInvariant, FileIsCurrent, dbVars, fileVars
<1> QED BY <1>1, <1>6, <1>9, <1>10, WorkOnly

\* What is about to be published.
LEMMA CommitIs ==
  ASSUME ReviewInvariant, worker = "replaced",
         NEW a, a = journal.article, NEW q, q = journal.id,
         NEW row, row = Published(journal)
  PROVE  /\ journal \in FileOp /\ journal # None /\ a \in Id /\ q \in Id
         /\ Admitted /\ Concerns
         /\ row \in Article /\ row.current = q /\ row.cites = q
         /\ row.digest = journal.after /\ row.index = journal.after
         /\ Key[row.title] = journal.path /\ Applied(q) = a
         /\ proposals[q] # None
         /\ journal.kind # "apply" =>
              status[q] = "applied" /\ snapshot[q] = journal.after
         /\ a \in Articles => row.title = articles[a].title
         /\ a \notin Articles =>
              \A b \in Articles :
                /\ ~SameConcept(articles[b].title, row.title)
                /\ Slug[articles[b].title] # Slug[row.title]
         /\ a \notin Articles => journal.kind = "apply" /\ a = q
<1>1. /\ journal # None /\ journal \in FileOp /\ a \in Id /\ q \in Id
      /\ Admitted /\ Concerns
  BY OperationIs DEF ReviewInvariant, Working, Locked
<1>2. /\ row.current = q /\ row.cites = q /\ row.digest = journal.after
      /\ row.index = journal.after /\ journal.after \in File /\ journal.after # None
  BY <1>1, NoneIsNew DEF Published, Publication, FileOp
<1>3. CASE journal.kind = "apply" /\ Operation(q) = "create"
  <2>1. /\ proposals[q] \in Proposal /\ proposals[q] # None /\ ~Tracked(q)
        /\ a = q /\ Applied(q) = a /\ journal.path = Key[proposals[q].title]
        /\ row.title = proposals[q].title
    BY <1>1, <1>3 DEF Concerns, Tracked, Operation, ArticleOf, Applied, Destination,
       Published, Publication, ReviewInvariant, TypeOK
  <2>2. a \notin Articles
    BY <1>1, <1>3, <2>1 DEF Admitted, ReviewInvariant, Rows, RowHolds, Articles
  <2>3. \A b \in Articles : /\ ~SameConcept(articles[b].title, row.title)
                            /\ Slug[articles[b].title] # Slug[row.title]
    BY <1>1, <1>3, <2>1 DEF Admitted, NamesItsConcept, ArticlesOf, SlugIsFree
  <2>4. row \in Article
    BY <1>1, <1>2, <2>1 DEF Article, Proposal, Published, Publication
  <2> QED BY <1>1, <1>2, <1>3, <2>1, <2>2, <2>3, <2>4
<1>4. CASE journal.kind = "apply" /\ Operation(q) # "create"
  <2>1. /\ proposals[q] # None /\ Based(q) /\ Tracked(q)
        /\ a = proposals[q].article /\ Applied(q) = a
        /\ journal.path = Key[proposals[q].title]
        /\ row.title = articles[a].title
    BY <1>1, <1>4 DEF Concerns, Tracked, Operation, ArticleOf, Applied, Destination,
       Published, Publication, ReviewInvariant, Rows, RowHolds
  <2>2. a \in Articles /\ Key[row.title] = journal.path
    BY <2>1 DEF Based, Aimed, Tracked, Operation, PathOf
  <2>3. row \in Article
    BY <1>1, <1>2, <2>1, <2>2
       DEF Article, Articles, Published, Publication, ReviewInvariant, TypeOK
  <2> QED BY <1>1, <1>2, <1>4, <2>1, <2>2, <2>3
<1>5. CASE journal.kind # "apply"
  <2>1. /\ snapshot[q] = journal.after /\ a = Applied(q) /\ journal.path = PathOf(a)
        /\ row.title = articles[a].title
    BY <1>1, <1>5 DEF Concerns, Published, Publication
  <2>2. status[q] = "applied" /\ a \in Articles /\ proposals[q] # None
    BY <1>1, <1>2, <2>1 DEF ReviewInvariant, Rows, RowHolds
  <2>3. row \in Article
    BY <1>1, <1>2, <2>1, <2>2
       DEF Article, Articles, Published, Publication, ReviewInvariant, TypeOK
  <2> QED BY <1>1, <1>2, <1>5, <2>1, <2>2, <2>3 DEF PathOf
<1> QED BY <1>3, <1>4, <1>5

\* Publication: the rows follow the file.
LEMMA CommitKeeps ==
  ASSUME ReviewInvariant, Commit
  PROVE  ReviewInvariant'
<1> PICK a : a = journal.article
  OBVIOUS
<1> PICK q : q = journal.id
  OBVIOUS
<1> PICK row : row = Published(journal)
  OBVIOUS
<1>1. /\ worker = "replaced" /\ worker' = "committed"
      /\ file[journal.path] = journal.after
      /\ articles' = [articles EXCEPT ![a] = row]
      /\ events' = [events EXCEPT ![a] = @ + 1]
      /\ touched' = touched \ {journal.path}
      /\ UNCHANGED <<proposals, approval, audit, compileVars, history, file, edits,
                     journal, restores, faults>>
      /\ IF journal.kind = "apply"
         THEN /\ status' = [status EXCEPT ![q] = "applied"]
              /\ snapshot' = [snapshot EXCEPT ![q] = journal.after]
              /\ shown' = [shown EXCEPT ![q] = None]
         ELSE UNCHANGED <<status, snapshot, shown>>
  BY DEF Commit
<1>2. /\ journal \in FileOp /\ journal # None /\ a \in Id /\ q \in Id
      /\ Admitted /\ Concerns
      /\ row \in Article /\ row.current = q /\ row.cites = q
      /\ row.digest = journal.after /\ row.index = journal.after
      /\ Key[row.title] = journal.path /\ Applied(q) = a
      /\ proposals[q] # None
      /\ journal.kind # "apply" =>
           status[q] = "applied" /\ snapshot[q] = journal.after
      /\ a \in Articles => row.title = articles[a].title
      /\ a \notin Articles =>
           \A b \in Articles : /\ ~SameConcept(articles[b].title, row.title)
                               /\ Slug[articles[b].title] # Slug[row.title]
      /\ a \notin Articles => journal.kind = "apply" /\ a = q
  BY <1>1, CommitIs
<1>3. row # None /\ journal.after \in File /\ journal.after # None
  BY <1>2, NoneIsNew DEF FileOp
<1>4. /\ articles'[a] = row /\ \A b \in Id \ {a} : articles'[b] = articles[b]
      /\ Articles' = Articles \cup {a}
  BY <1>1, <1>2, <1>3 DEF ReviewInvariant, TypeOK, Articles
<1>5. /\ \A b \in Articles : PathOf(b)' = PathOf(b)
      /\ PathOf(a)' = journal.path
  BY <1>2, <1>4 DEF PathOf, Articles
<1>6. /\ \A b \in Articles \ {a} : Current(b)' = Current(b)
      /\ Current(a)' = q
  BY <1>2, <1>4 DEF Current, Articles
<1>7. /\ events'[a] = events[a] + 1 /\ events[a] \in Nat
      /\ \A b \in Id \ {a} : events'[b] = events[b]
  BY <1>1, <1>2 DEF ReviewInvariant, TypeOK
<1>8. /\ snapshot'[q] = journal.after /\ status'[q] = "applied"
      /\ \A x \in Id \ {q} : snapshot'[x] = snapshot[x] /\ status'[x] = status[x]
      /\ \A x \in Id : shown'[x] \in {shown[x], None}
  BY <1>1, <1>2 DEF ReviewInvariant, TypeOK
<1>9. \A x : /\ Tracked(x)' = Tracked(x) /\ Applied(x)' = Applied(x)
             /\ ArticleOf(x)' = ArticleOf(x) /\ Destination(x)' = Destination(x)
             /\ Removed(x)' = Removed(x) /\ ClaimsOf(x)' = ClaimsOf(x)
  BY <1>1 DEF Tracked, Operation, Applied, ArticleOf, Destination, Removed, ClaimsOf
<1>10. TypeOK'
  <2>1. articles' \in [Id -> Article \cup {None}] /\ events' \in [Id -> Nat]
    BY <1>1, <1>2 DEF ReviewInvariant, TypeOK
  <2>2. /\ status' \in [Id -> {"absent", "pending", "approved", "rejected",
                               "superseded", "applied"}]
        /\ snapshot' \in [Id -> File \cup {None}]
        /\ shown' \in [Id -> View \cup {None}]
    BY <1>1, <1>3 DEF ReviewInvariant, TypeOK
  <2> QED
    BY <1>1, <2>1, <2>2 DEF ReviewInvariant, TypeOK, compileVars
<1>11. Compiling'
  <2>1. \A p : Aimed(p) => Aimed(p)'
    BY <1>1, <1>4 DEF Aimed
  <2>2. \A p : Keeps(p) => Keeps(p)'
    BY <1>1 DEF Keeps, ClaimsOf
  <2>3. ASSUME NEW r \in Id PROVE Planned(r)'
    <3>1. Planned(r) /\ pc' = pc /\ plan' = plan /\ audit' = audit
      BY <1>1 DEF ReviewInvariant, Compiling, compileVars
    <3>2. /\ Aimed(plan[r]) => Aimed(plan[r])'
          /\ Keeps(plan[r]) => Keeps(plan[r])'
      BY <1>1, <1>4, <3>1 DEF Aimed, Keeps, ClaimsOf
    <3> QED BY <1>1, <1>4, <3>1, <3>2 DEF Planned
  <2> QED BY <2>3 DEF Compiling
<1>12. Rows'
  <2>1. ASSUME NEW x \in Id
        PROVE  RowHolds(x)' /\ Lists(x, shown[x])' /\ Lists(x, approval[x])'
    <3>1. RowHolds(x) /\ Lists(x, shown[x]) /\ Lists(x, approval[x])
      BY DEF ReviewInvariant, Rows
    <3>2. Lists(x, shown[x])' /\ Lists(x, approval[x])'
      BY <1>1, <1>8, <1>9, <3>1 DEF Lists
    <3>3. proposals[x] # None => Based(x)'
      <4> SUFFICES ASSUME proposals[x] # None PROVE Based(x)'
        OBVIOUS
      <4>1. Based(x) /\ proposals[x] \in Proposal /\ proposals'[x] = proposals[x]
        BY <1>1, <3>1 DEF RowHolds, ReviewInvariant, TypeOK
      <4>2. Aimed(proposals[x])' /\ Keeps(proposals[x])'
        BY <1>1, <1>4, <4>1 DEF Based, Aimed, Keeps, ClaimsOf
      <4>3. Tracked(x) =>
              /\ proposals[x].article \in Articles /\ proposals[x].article \in Id
              /\ PathOf(proposals[x].article)' = PathOf(proposals[x].article)
        BY <1>1, <1>5, <4>1 DEF Based, Aimed, Tracked, Operation, Articles, PathOf
      <4>4. Tracked(x) => proposals[x].born <= events'[proposals[x].article]
        BY <1>7, <4>1, <4>3 DEF Based, Proposal
      <4> QED
        BY <1>1, <1>9, <4>1, <4>2, <4>3, <4>4 DEF Based
    <3>4. status[x] # "absent" <=> status'[x] # "absent"
      BY <1>2, <1>8, <3>1 DEF RowHolds
    <3>5. articles'[x] # None => status'[x] = "applied"
      <4>1. a \notin Articles => a = q
        BY <1>2
      <4>2. a \in Articles => status[a] = "applied"
        BY <1>2 DEF Articles, ReviewInvariant, Rows, RowHolds
      <4> QED
        BY <1>4, <1>8, <3>1, <4>1, <4>2 DEF RowHolds
    <3>6. snapshot'[x] # None => /\ status'[x] = "applied"
                                 /\ Applied(x)' \in Articles'
                                 /\ PathOf(Applied(x))' = Destination(x)'
      <4>1. CASE x = q
        <5>1. journal.path = Destination(q)
          BY <1>2, <3>1, <4>1, <1>3 DEF Concerns, RowHolds
        <5>2. PathOf(Applied(q))' = PathOf(a)'
          BY <1>1, <1>2, <1>9 DEF PathOf
        <5> QED BY <1>2, <1>4, <1>5, <1>8, <1>9, <4>1, <5>1, <5>2
      <4>2. CASE x # q
        <5>1. Applied(x) \in Articles => PathOf(Applied(x))' = PathOf(Applied(x))
          BY <1>4, <1>5, <1>9 DEF PathOf
        <5> QED BY <1>4, <1>8, <1>9, <3>1, <4>2, <5>1 DEF RowHolds
      <4> QED BY <4>1, <4>2
    <3> QED BY <1>1, <3>1, <3>2, <3>3, <3>4, <3>5, <3>6 DEF RowHolds
  <2> QED BY <2>1 DEF Rows
<1>13. Working'
  <2>1. Concerns'
    BY <1>1, <1>2, <1>5, <1>8, <1>9 DEF Concerns
  <2>2. Marked(journal)'
    BY <1>1, <1>2, <1>7 DEF Marked, Admitted
  <2>3. InPlace'
    BY <1>1, <1>2, <1>4, <1>5, <1>6, <1>8 DEF InPlace
  <2> QED BY <1>1, <1>2, <2>1, <2>2, <2>3 DEF Working, Locked
<1>14. OneOpenPerConcept'
  BY <1>1, <1>8 DEF ReviewInvariant, OneOpenPerConcept, IsOpen
<1>15. DistinctConcepts'
  <2>1. ASSUME NEW b \in Articles, b # a
        PROVE  /\ ~SameConcept(articles[b].title, row.title)
               /\ Slug[articles[b].title] # Slug[row.title]
    BY <1>2, <2>1 DEF ReviewInvariant, DistinctConcepts, SameConcept
  <2>2. \A b \in Articles : b \in Id
    BY DEF Articles
  <2> QED
    BY <1>4, <2>1, <2>2 DEF ReviewInvariant, DistinctConcepts, SameConcept
<1>16. AuditedGeneration'
  BY <1>1 DEF ReviewInvariant, AuditedGeneration
<1>17. \A b \in Articles \ {a} : /\ b \in Id /\ Current(b) \in Id /\ Current(b) # q
                                 /\ PathOf(b) # journal.path
  <2>1. ASSUME NEW b \in Articles \ {a}
        PROVE  /\ b \in Id /\ Current(b) \in Id /\ Current(b) # q
               /\ PathOf(b) # journal.path
    <3>1. b \in Id /\ Current(b) \in Id
      BY DEF Articles, Current, ReviewInvariant, TypeOK, Article
    <3>2. Current(b) # q
      BY <1>2 DEF ReviewInvariant, RowsAgree
    <3>3. PathOf(b) # journal.path
      BY <1>2 DEF ReviewInvariant, DistinctConcepts, SameConcept, PathOf
    <3> QED BY <3>1, <3>2, <3>3
  <2> QED BY <2>1
<1>18. RowsAgree'
  <2>1. ASSUME NEW b \in Articles', NEW run, run = Current(b)'
        PROVE  /\ status'[run] = "applied" /\ Applied(run)' = b
               /\ articles'[b].cites = run
               /\ articles'[b].digest = snapshot'[run]
               /\ articles'[b].index = snapshot'[run]
    <3>1. CASE b = a
      BY <1>2, <1>4, <1>6, <1>8, <1>9, <2>1, <3>1
    <3>2. CASE b # a
      <4>1. b \in Articles \ {a} /\ run = Current(b) /\ articles'[b] = articles[b]
        BY <1>4, <1>6, <1>17, <2>1, <3>2
      <4> QED
        BY <1>8, <1>9, <1>17, <4>1 DEF ReviewInvariant, RowsAgree
    <3> QED BY <3>1, <3>2
  <2> QED BY <2>1 DEF RowsAgree
<1>19. FileIsCurrent'
  <2>1. ASSUME NEW b \in Articles \ {a}
        PROVE  \/ file'[PathOf(b)'] = snapshot'[Current(b)']
               \/ PathOf(b)' \in touched'
               \/ journal' # None /\ journal'.path = PathOf(b)'
    BY <1>1, <1>5, <1>6, <1>8, <1>17 DEF ReviewInvariant, FileIsCurrent
  <2> QED
    BY <1>1, <1>2, <1>4, <1>5, <2>1 DEF FileIsCurrent
<1>20. OvertakenLater'
  <2>1. ASSUME NEW x \in Id, IsOpen(x)', Tracked(x)', NEW b, b = proposals[x].article
        PROVE  proposals[x].base = Current(b)' \/ events'[b] > proposals[x].born
    <3>1. IsOpen(x) /\ Tracked(x) /\ proposals[x] # None /\ Based(x)
      BY <1>1, <1>8, <1>9, <2>1 DEF IsOpen, ReviewInvariant, Rows, RowHolds
    <3>2. b \in Articles /\ b \in Id /\ proposals[x].born \in Nat
          /\ proposals[x].born <= events[b]
      BY <2>1, <3>1 DEF Based, Aimed, Tracked, Operation, Articles, ReviewInvariant,
         TypeOK, Proposal
    <3>3. CASE b = a
      BY <1>7, <3>2, <3>3
    <3>4. CASE b # a
      BY <1>6, <1>7, <2>1, <3>1, <3>2, <3>4 DEF ReviewInvariant, OvertakenLater
    <3> QED BY <3>3, <3>4
  <2> QED BY <1>1, <2>1 DEF OvertakenLater
<1> QED
  BY <1>10, <1>11, <1>12, <1>13, <1>14, <1>15, <1>16, <1>18, <1>19, <1>20
     DEF ReviewInvariant

\* Recovery of an operation without a marker puts the file back.
LEMMA RecoverKeeps ==
  ASSUME ReviewInvariant, Recover
  PROVE  ReviewInvariant'
<1>1. /\ worker = "idle" /\ journal # None /\ journal' = None
      /\ Marked(journal) \/ ~Conflict(journal)
      /\ file' = IF Marked(journal) THEN file ELSE Undone(journal)
      /\ UNCHANGED <<dbVars, compileVars, reviewVars, touched, edits, worker,
                     restores, faults>>
  BY DEF Recover
<1>2. /\ journal.path \in Path /\ journal.before \in File \cup {None}
      /\ ~Marked(journal) => Unpublished
      /\ Marked(journal) => InPlace
  BY <1>1, OperationIs
<1>3. file' \in [Path -> File \cup {None}]
  BY <1>1, <1>2 DEF Undone, ReviewInvariant, TypeOK
<1>4. TypeOK'
  BY <1>1, <1>3 DEF ReviewInvariant, TypeOK, dbVars, compileVars, reviewVars
<1>5. Working'
  BY <1>1 DEF Working, Locked
<1>6. ASSUME NEW a \in Articles
      PROVE  file'[PathOf(a)] = snapshot[Current(a)] \/ PathOf(a) \in touched
  <2>1. PathOf(a) \in Path
    BY DEF PathOf, Path, Articles, ReviewInvariant, TypeOK, Article
  <2>2. CASE PathOf(a) # journal.path
    <3>1. file'[PathOf(a)] = file[PathOf(a)]
      BY <1>1, <1>2, <2>1, <2>2 DEF Undone, ReviewInvariant, TypeOK
    <3> QED BY <2>2, <3>1 DEF ReviewInvariant, FileIsCurrent
  <2>3. CASE PathOf(a) = journal.path /\ Marked(journal)
    <3>1. a = journal.article
      BY <1>2, <2>3 DEF ReviewInvariant, DistinctConcepts, InPlace, PathOf, SameConcept
    <3> QED BY <1>1, <1>2, <2>3, <3>1 DEF InPlace
  <2>4. CASE PathOf(a) = journal.path /\ ~Marked(journal)
    <3>1. \/ file[journal.path] = journal.before
          \/ journal.replacing /\ file[journal.path] = journal.after
          \/ journal.path \in touched
      BY <1>2, <2>4 DEF Unpublished
    <3>2. file'[journal.path] = journal.before \/ journal.path \in touched
      BY <1>1, <1>2, <2>4, <3>1 DEF Undone, ReviewInvariant, TypeOK
    <3> QED BY <1>2, <2>4, <3>2 DEF Unpublished
  <2> QED BY <2>2, <2>3, <2>4
<1>7. FileIsCurrent'
  BY <1>1, <1>6, Unmoved DEF FileIsCurrent, dbVars
<1> QED BY <1>1, <1>4, <1>5, <1>7, WorkOnly

\* Taking the file for the user's.
LEMMA KeepUserFileKeeps ==
  ASSUME ReviewInvariant, KeepUserFile
  PROVE  ReviewInvariant'
<1>1. /\ worker = "idle" /\ journal # None /\ journal' = None
      /\ touched' = touched \cup {journal.path}
      /\ UNCHANGED <<dbVars, compileVars, reviewVars, file, edits, worker, restores,
                     faults>>
  BY DEF KeepUserFile
<1>2. journal.path \in Path
  BY <1>1, OperationIs
<1>3. TypeOK'
  BY <1>1, <1>2 DEF ReviewInvariant, TypeOK, dbVars, compileVars, reviewVars
<1>4. Working'
  BY <1>1 DEF Working, Locked
<1>5. FileIsCurrent'
  BY <1>1, Unmoved DEF ReviewInvariant, FileIsCurrent, dbVars
<1> QED BY <1>1, <1>3, <1>4, <1>5, WorkOnly

----------------------------------------------------------------------------
\* The editor.

\* Whatever a person does to a file.
LEMMA EditKeeps ==
  ASSUME ReviewInvariant, NEW k \in Path, NEW bytes \in File \cup {None},
         Edit(k, bytes)
  PROVE  ReviewInvariant'
<1>1. /\ edits < MaxEdits /\ edits' = edits + 1
      /\ file' = [file EXCEPT ![k] = bytes]
      /\ touched' = touched \cup {k}
      /\ UNCHANGED <<dbVars, compileVars, reviewVars, workVars>>
  BY DEF Edit
<1>2. edits' \in 0..MaxEdits
  BY <1>1, Bounds DEF ReviewInvariant, TypeOK
<1>3. TypeOK'
  BY <1>1, <1>2 DEF ReviewInvariant, TypeOK, dbVars, compileVars, reviewVars, workVars
<1>4. \A x \in Path : file'[x] = file[x] \/ x \in touched'
  BY <1>1 DEF ReviewInvariant, TypeOK
<1>5. Working'
  <2>1. CASE journal = None
    BY <1>1, <2>1 DEF ReviewInvariant, Working, Locked, workVars
  <2>2. CASE journal # None
    <3>1. /\ journal.path \in Path /\ Concerns
          /\ ~Marked(journal) => Unpublished
          /\ Marked(journal) => InPlace
      BY <2>2, OperationIs
    <3>2. Concerns' /\ Marked(journal)' = Marked(journal) /\ (Admitted => Admitted')
      BY <1>1, <3>1, Unmoved DEF Concerns, Marked, Admitted, dbVars, workVars
    <3>3. file'[journal.path] = file[journal.path] \/ journal.path \in touched'
      BY <1>4, <3>1
    <3>4. Unpublished => Unpublished'
      BY <1>1, <3>3, Unmoved DEF Unpublished, dbVars, workVars
    <3>5. InPlace => InPlace'
      BY <1>1, <3>3, Unmoved DEF InPlace, dbVars, workVars
    <3> QED
      BY <1>1, <2>2, <3>1, <3>2, <3>4, <3>5
         DEF ReviewInvariant, Working, Locked, workVars
  <2> QED BY <2>1, <2>2
<1>6. FileIsCurrent'
  <2>1. \A a \in Articles : PathOf(a) \in Path
    BY DEF PathOf, Path, Articles, ReviewInvariant, TypeOK, Article
  <2> QED
    BY <1>1, <1>4, <2>1, Unmoved DEF ReviewInvariant, FileIsCurrent, dbVars, workVars
<1> QED BY <1>1, <1>3, <1>5, <1>6, WorkOnly DEF workVars

\* What a person does to a file.
LEMMA EditorKeeps ==
  ASSUME ReviewInvariant, NEW k \in Path,
         EditRegion(k) \/ DeleteFile(k) \/ \E n \in Note : WriteNote(k, n)
  PROVE  ReviewInvariant'
<1>1. file[k] \in File \cup {None}
  BY DEF ReviewInvariant, TypeOK
<1>2. CASE EditRegion(k)
  <2>1. [file[k] EXCEPT !.region = Edited] \in File
    BY <1>1, <1>2 DEF EditRegion, File, Region
  <2> QED BY <1>2, <2>1, EditKeeps DEF EditRegion
<1>3. CASE DeleteFile(k)
  BY <1>3, EditKeeps DEF DeleteFile
<1>4. ASSUME NEW n \in Note, WriteNote(k, n) PROVE ReviewInvariant'
  <2>1. CASE file[k] = None
    <3>1. [region |-> Unmanaged, notes |-> {n}] \in File
      BY DEF File, Region
    <3> QED BY <1>4, <2>1, <3>1, EditKeeps DEF WriteNote
  <2>2. CASE file[k] # None
    <3>1. [file[k] EXCEPT !.notes = @ \cup {n}] \in File
      BY <1>1, <2>2 DEF File
    <3> QED BY <1>4, <2>2, <3>1, EditKeeps DEF WriteNote
  <2> QED BY <2>1, <2>2
<1> QED BY <1>2, <1>3, <1>4

----------------------------------------------------------------------------
\* Every step keeps the invariant.
LEMMA Steps == ReviewInvariant /\ [Next]_vars => ReviewInvariant'
<1> SUFFICES ASSUME ReviewInvariant, [Next]_vars PROVE ReviewInvariant'
  OBVIOUS
<1>1. ASSUME NEW r \in Id, Compile(r) PROVE ReviewInvariant'
  BY <1>1, ChooseTargetKeeps, LoadBaseKeeps, GeneratedKeeps, ValidatedKeeps, EndsKeeps,
     PersistKeeps DEF Compile
<1>2. ASSUME NEW q \in Id, Review(q) PROVE ReviewInvariant'
  BY <1>2, ShowKeeps, DecisionKeeps DEF Review
<1>3. ASSUME NEW q \in Id, ApplyBegin(q) \/ ShowRestore(q) \/ RestoreBegin(q)
      PROVE  ReviewInvariant'
  BY <1>3, ApplyBeginKeeps, ShowRestoreKeeps, RestoreBeginKeeps
<1>4. CASE Operate
  BY <1>3, <1>4, ReplaceKeeps, CommitKeeps, FinishKeeps, InterruptedKeeps, RecoverKeeps,
     KeepUserFileKeeps DEF Operate
<1>5. CASE Editor
  BY <1>5, EditorKeeps DEF Editor
<1>6. CASE UNCHANGED vars
  <2>1. TypeOK'
    BY <1>6 DEF ReviewInvariant, TypeOK, vars, dbVars, compileVars, reviewVars, fileVars,
       workVars
  <2>2. Working' /\ FileIsCurrent'
    BY <1>6 DEF ReviewInvariant, vars, dbVars, fileVars, workVars, Working, Concerns,
       Unpublished, InPlace, Admitted, Marked, Locked, NamesItsConcept, ArticlesOf,
       SameConcept, SlugIsFree, FileIsCurrent, Articles, PathOf, Current, ArticleOf,
       Destination, Tracked, Operation, Applied, Removed, ClaimsOf
  <2> QED BY <1>6, <2>1, <2>2, WorkOnly DEF vars
<1> QED BY <1>1, <1>2, <1>4, <1>5, <1>6 DEF Next

\* The inductive invariant holds in every reachable state.
THEOREM ReviewedAlways == Spec => []ReviewInvariant
BY Start, Steps, PTL DEF Spec

\* Every variable has its type: what is published is a rendering with rows, a
\* durable operation always names a path and an article of the vault.
THEOREM ReviewTyped == Spec => []TypeOK
<1>1. ReviewInvariant => TypeOK
  BY DEF ReviewInvariant
<1> QED BY <1>1, ReviewedAlways, PTL

\* A concept never has two proposals that could still be applied, whatever
\* compiles, approvals and applies overlap (compiler.cpp:887-914).
THEOREM OneOpen == Spec => []OneOpenPerConcept
<1>1. ReviewInvariant => OneOpenPerConcept
  BY DEF ReviewInvariant
<1> QED BY <1>1, ReviewedAlways, PTL

\* Two spellings of one concept never become two articles, and two concepts
\* never share a slug (concept_identity.cpp:62-106).
THEOREM OneArticle == Spec => []DistinctConcepts
<1>1. ReviewInvariant => DistinctConcepts
  BY DEF ReviewInvariant
<1> QED BY <1>1, ReviewedAlways, PTL

\* Nothing is up for review that did not come from a model run recorded as
\* completed (compiler.cpp:594-633).
THEOREM Audited == Spec => []AuditedGeneration
<1>1. ReviewInvariant => AuditedGeneration
  BY DEF ReviewInvariant
<1> QED BY <1>1, ReviewedAlways, PTL

\* Digest, citations, index and snapshot of an article are those of its
\* active revision (vault_writer.cpp:1281-1308).
THEOREM RowsAlwaysAgree == Spec => []RowsAgree
<1>1. ReviewInvariant => RowsAgree
  BY DEF ReviewInvariant
<1> QED BY <1>1, ReviewedAlways, PTL

\* The vault holds the active revision of an article unless somebody edited
\* or kept its file, or an operation on it is not finished.
THEOREM FilesCurrent == Spec => []FileIsCurrent
<1>1. ReviewInvariant => FileIsCurrent
  BY DEF ReviewInvariant
<1> QED BY <1>1, ReviewedAlways, PTL

\* An update in review whose base is not the active revision was overtaken
\* after it was persisted (compiler.cpp:845-855).
THEOREM Overtaken == Spec => []OvertakenLater
<1>1. ReviewInvariant => OvertakenLater
  BY DEF ReviewInvariant
<1> QED BY <1>1, ReviewedAlways, PTL

\* What is published was reviewed against the latest publication of its
\* article (vault_writer.cpp:729-735).
THEOREM LatestReviewed == Spec => ReviewedLatest
<1>1. ReviewInvariant /\ Committing => journal.reviewed.last = events[journal.article]
  BY DEF ReviewInvariant, Working, Locked, Admitted, Committing
<1> QED BY <1>1, ReviewedAlways, PTL DEF ReviewedLatest

\* Nothing disappears from an article that its reviewer did not see: no note,
\* no edit of the managed region, no claim the review did not list as removed
\* (article_updates.cpp:203-256).
THEOREM LossesAreReviewed == Spec => LossesReviewed
<1> DEFINE Reviewed ==
      LET before == journal.before
          view == journal.reviewed
      IN /\ before # None =>
              /\ view.before # None
              /\ before.notes \ journal.after.notes \subseteq view.before.notes
              /\ before.region = Edited => view.before.region = Edited
         /\ journal.kind = "apply" /\ Tracked(journal.id) =>
              LET lost == ClaimsOf(Current(journal.article)) \ journal.after.region
              IN /\ lost \subseteq view.removed
                 /\ proposals[journal.id].mode = "additive" => lost = {}
<1>1. ReviewInvariant /\ Committing => Reviewed
  <2> SUFFICES ASSUME ReviewInvariant, Committing PROVE Reviewed
    OBVIOUS
  <2>1. Admitted /\ Concerns /\ journal.id \in Id
    BY OperationIs DEF ReviewInvariant, Working, Locked, Committing
  <2>2. journal.reviewed.before = journal.before
    BY <2>1 DEF Admitted
  <2>3. ASSUME journal.kind = "apply", Tracked(journal.id)
        PROVE  LET lost == ClaimsOf(Current(journal.article)) \ journal.after.region
               IN /\ lost \subseteq journal.reviewed.removed
                  /\ proposals[journal.id].mode = "additive" => lost = {}
    <3>1. /\ proposals[journal.id].base = Current(journal.article)
          /\ journal.reviewed.removed = Removed(journal.id)
          /\ journal.after.region = proposals[journal.id].claims
          /\ proposals[journal.id] # None
      BY <2>1, <2>3 DEF Admitted, Concerns
    <3>2. Keeps(proposals[journal.id])
      BY <2>1, <3>1 DEF ReviewInvariant, Rows, RowHolds, Based
    <3> QED BY <3>1, <3>2 DEF Removed, Keeps
  <2> QED BY <2>2, <2>3
<1> QED BY <1>1, ReviewedAlways, PTL DEF LossesReviewed

----------------------------------------------------------------------------
\* Search.

\* An element taken out of a sequence leaves the others, in their order.
LEMMA WithoutIs ==
  ASSUME NEW S, NEW s \in Seq(S), NEW at \in 1..Len(s)
  PROVE  LET rest == SubSeq(s, 1, at - 1) \o SubSeq(s, at + 1, Len(s)) IN
         /\ rest \in Seq(S) /\ Len(rest) = Len(s) - 1
         /\ \A i \in 1..(Len(s) - 1) :
              rest[i] = s[IF i < at THEN i ELSE i + 1]
<1> DEFINE head == SubSeq(s, 1, at - 1)
           tail == SubSeq(s, at + 1, Len(s))
           rest == head \o tail
<1>0. Len(s) \in Nat
  OBVIOUS
<1>1. /\ head \in Seq(S) /\ Len(head) = at - 1
      /\ \A i \in 1..(at - 1) : head[i] = s[i]
  BY <1>0
<1>2. /\ tail \in Seq(S) /\ Len(tail) = Len(s) - at
      /\ \A i \in 1..(Len(s) - at) : tail[i] = s[at + i]
  BY <1>0
<1> HIDE DEF head, tail
<1>3. /\ rest \in Seq(S) /\ Len(rest) = Len(head) + Len(tail)
      /\ \A i \in 1..(Len(head) + Len(tail)) :
           rest[i] = IF i <= Len(head) THEN head[i] ELSE tail[i - Len(head)]
  BY <1>1, <1>2, ConcatProperties
<1> HIDE DEF rest
<1>4. /\ rest \in Seq(S) /\ Len(rest) = Len(s) - 1
      /\ \A i \in 1..(Len(s) - 1) :
           rest[i] = IF i <= at - 1 THEN head[i] ELSE tail[i - (at - 1)]
  <2>1. Len(head) + Len(tail) = Len(s) - 1
    BY <1>0, <1>1, <1>2
  <2> QED BY <1>1, <1>3, <2>1
<1>5. ASSUME NEW i \in 1..(Len(s) - 1)
      PROVE  rest[i] = s[IF i < at THEN i ELSE i + 1]
  <2>1. CASE i < at
    <3>1. i \in 1..(at - 1) /\ i <= at - 1
      BY <1>0, <2>1
    <3> QED BY <3>1, <1>1, <1>4, <2>1
  <2>2. CASE ~ (i < at)
    <3>1. /\ i - (at - 1) \in 1..(Len(s) - at) /\ at + (i - (at - 1)) = i + 1
          /\ ~ (i <= at - 1)
      BY <1>0, <2>2
    <3>2. rest[i] = tail[i - (at - 1)]
      BY <3>1, <1>4
    <3> QED BY <3>1, <3>2, <2>2, <1>2
  <2> QED BY <2>1, <2>2
<1> QED BY <1>4, <1>5 DEF rest, head, tail

\* What search puts first is the exact article, and nothing comes twice.
LEMMA RankedIs ==
  ASSUME NEW S, NEW exact \in S, NEW hits \in Seq(S),
         \A i, j \in DOMAIN hits : hits[i] = hits[j] => i = j
  PROVE  LET found == Ranked(exact, hits) IN
         /\ found \in Seq(S) /\ Len(found) >= 1 /\ found[1] = exact
         /\ \A i, j \in DOMAIN found : found[i] = found[j] => i = j
<1> DEFINE at == CHOOSE i \in DOMAIN hits : hits[i] = exact
           others == SubSeq(hits, 1, at - 1) \o SubSeq(hits, at + 1, Len(hits))
           Apart(s) == \A i, j \in 1..Len(s) : s[i] = s[j] => i = j
           Free(s) == s \in Seq(S) /\ Apart(s) /\ \A i \in 1..Len(s) : s[i] # exact
<1>1. Len(hits) \in Nat /\ DOMAIN hits = 1..Len(hits) /\ Apart(hits)
  OBVIOUS
<1>2. ASSUME \E i \in DOMAIN hits : hits[i] = exact PROVE Free(others)
  <2>1. at \in 1..Len(hits) /\ hits[at] = exact
    BY <1>2, <1>1
  <2> HIDE DEF at
  <2>2. /\ others \in Seq(S) /\ Len(others) = Len(hits) - 1
        /\ \A i \in 1..(Len(hits) - 1) :
             others[i] = hits[IF i < at THEN i ELSE i + 1]
    BY <2>1, WithoutIs
  <2> HIDE DEF others
  <2>3. \A i \in 1..Len(others) : others[i] # exact
    BY <1>1, <2>1, <2>2
  <2>4. Apart(others)
    BY <1>1, <2>1, <2>2
  <2> QED BY <2>2, <2>3, <2>4
<1>3. ASSUME ~ \E i \in DOMAIN hits : hits[i] = exact PROVE Free(hits)
  BY <1>1, <1>3
<1>4. PICK rest : Free(rest) /\ Ranked(exact, hits) = <<exact>> \o rest
  <2>1. CASE \E i \in DOMAIN hits : hits[i] = exact
    BY <2>1, <1>2 DEF Ranked
  <2>2. CASE ~ \E i \in DOMAIN hits : hits[i] = exact
    BY <2>2, <1>3 DEF Ranked
  <2> QED BY <2>1, <2>2
<1> DEFINE found == <<exact>> \o rest
<1>5. /\ found \in Seq(S) /\ Len(found) = 1 + Len(rest)
      /\ \A i \in 1..(1 + Len(rest)) :
           found[i] = IF i = 1 THEN exact ELSE rest[i - 1]
  BY <1>4
<1> HIDE DEF found
<1>6. Apart(found)
  <2>1. Len(rest) \in Nat
    BY <1>4
  <2> SUFFICES ASSUME NEW i \in 1..(1 + Len(rest)), NEW j \in 1..(1 + Len(rest)),
                      found[i] = found[j]
               PROVE  i = j
    BY <1>5
  <2>2. CASE i = 1 \/ j = 1
    BY <1>4, <1>5, <2>1, <2>2
  <2>3. CASE i # 1 /\ j # 1
    <3>1. i - 1 \in 1..Len(rest) /\ j - 1 \in 1..Len(rest) /\ rest[i-1] = rest[j-1]
      BY <2>3, <2>1, <1>5
    <3> QED BY <3>1, <2>1, <1>4
  <2> QED BY <2>2, <2>3
<1>7. Len(rest) \in Nat /\ DOMAIN found = 1..Len(found)
  BY <1>4, <1>5
<1> QED BY <1>4, <1>5, <1>6, <1>7 DEF found

\* One article per concept: a search by any of its spellings brings it first.
LEMMA ConceptIsFound ==
  ASSUME Articles \in SUBSET Id, DistinctConcepts
  PROVE  ConceptFound
<1> SUFFICES ASSUME NEW t \in Title, ArticlesOf(t) # {}
             PROVE  /\ Unambiguous(t)
                    /\ \A limit \in 1..Cardinality(Articles) :
                       \A hits \in Hits(limit) :
                         LET found == Search(t, hits, limit) IN
                         /\ Len(found) \in 1..limit
                         /\ SameConcept(articles[found[1]].title, t)
                         /\ \A i, j \in DOMAIN found : found[i] = found[j] => i = j
  BY DEF ConceptFound
<1>1. ArticleFor(t) \in ArticlesOf(t)
  BY DEF ArticleFor
<1>2. ArticlesOf(t) = {ArticleFor(t)}
  BY <1>1 DEF DistinctConcepts, ArticlesOf, SameConcept
<1>3. Unambiguous(t)
  <2>1. \A x : Cardinality({x}) = 1
    BY FS_Singleton
  <2>2. Cardinality(ArticlesOf(t)) = 1
    BY <1>2, <2>1
  <2> QED BY <2>2 DEF Unambiguous
<1>4. ArticleFor(t) \in Articles /\ SameConcept(articles[ArticleFor(t)].title, t)
  BY <1>1 DEF ArticlesOf
<1>5. ASSUME NEW limit \in 1..Cardinality(Articles), NEW hits \in Hits(limit)
      PROVE  LET found == Search(t, hits, limit) IN
             /\ Len(found) \in 1..limit
             /\ SameConcept(articles[found[1]].title, t)
             /\ \A i, j \in DOMAIN found : found[i] = found[j] => i = j
  <2> DEFINE S == Articles
             ranked == Ranked(ArticleFor(t), hits)
             found == Search(t, hits, limit)
  <2>1. hits \in Seq(S) /\ \A i, j \in DOMAIN hits : hits[i] = hits[j] => i = j
    <3>1. PICK n \in 0..limit : hits \in [1..n -> S]
      BY DEF Hits
    <3>2. n \in Nat
      BY <3>1
    <3> QED BY <3>1, <3>2 DEF Hits
  <2> HIDE DEF S
  <2>2. /\ ranked \in Seq(S) /\ Len(ranked) >= 1 /\ ranked[1] = ArticleFor(t)
        /\ \A i, j \in DOMAIN ranked : ranked[i] = ranked[j] => i = j
    BY <1>4, <2>1, RankedIs DEF S
  <2>3. found = IF Len(ranked) > limit THEN SubSeq(ranked, 1, limit) ELSE ranked
    BY DEF Search
  <2> HIDE DEF ranked, found
  <2>4. limit \in Int /\ limit >= 1
    OBVIOUS
  <2>5. CASE Len(ranked) > limit
    <3>0. Len(ranked) \in Nat
      BY <2>2
    <3>1. /\ Len(found) = limit /\ DOMAIN found = 1..limit
          /\ \A i \in 1..limit : found[i] = ranked[i] /\ i \in DOMAIN ranked
      BY <2>2, <2>3, <2>4, <2>5, <3>0
    <3>2. found[1] = ArticleFor(t)
      BY <2>2, <2>4, <3>1
    <3>3. SameConcept(articles[found[1]].title, t)
      BY <1>4, <3>2
    <3>4. Len(found) \in 1..limit
      BY <2>4, <3>1
    <3>5. \A i, j \in DOMAIN found : found[i] = found[j] => i = j
      BY <2>2, <3>1
    <3> QED BY <3>3, <3>4, <3>5 DEF found
  <2>6. CASE ~ (Len(ranked) > limit)
    <3>1. found = ranked /\ Len(ranked) \in Nat
      BY <2>2, <2>3, <2>6
    <3>2. SameConcept(articles[found[1]].title, t)
      BY <1>4, <2>2, <3>1
    <3>3. Len(found) \in 1..limit
      BY <2>2, <2>4, <2>6, <3>1
    <3>4. \A i, j \in DOMAIN found : found[i] = found[j] => i = j
      BY <2>2, <3>1
    <3> QED BY <3>2, <3>3, <3>4 DEF found
  <2> QED BY <2>5, <2>6
<1> QED BY <1>3, <1>5

\* A concept is one article, in the rows and for who looks for it: whatever the
\* text index finds, a search by any spelling brings its article first and
\* every other one at most once (concept_identity.cpp:62-106,
\* search_index.cpp:230-282).
THEOREM ConceptIsOneArticle == Spec => []OneArticlePerConcept
<1>1. ReviewInvariant => OneArticlePerConcept
  <2> SUFFICES ASSUME ReviewInvariant PROVE OneArticlePerConcept
    OBVIOUS
  <2>1. Articles \in SUBSET Id /\ DistinctConcepts
    BY DEF ReviewInvariant, Articles
  <2> QED BY <2>1, ConceptIsFound DEF OneArticlePerConcept
<1> QED BY <1>1, ReviewedAlways, PTL
=============================================================================
