------------------------ MODULE PageEvidence_proofs ------------------------
(***************************************************************************)
(* That the properties of PageEvidence hold for any number of processes,   *)
(* extractions, proposals, pages, corrections and faults.  Liveness        *)
(* (RunsEnd) is not among them.                                            *)
(***************************************************************************)
EXTENDS PageEvidence, FiniteSetTheorems, WellFoundedInduction, TLAPS

----------------------------------------------------------------------------
\* The inductive invariant.

\* Steps at which a command holds the lease of the run it works on.
Holding == {"start", "output", "stage", "adapters", "publish", "mark", "release",
            "reconcile_begin", "reconcile_staging", "reconcile_images",
            "reconcile_commit"}
Reconciling == {"reconcile_begin", "reconcile_staging", "reconcile_images",
                "reconcile_commit"}
\* Steps inside the write transaction of a reconciliation.
Cleaning == {"reconcile_staging", "reconcile_images", "reconcile_commit"}
\* Steps between what an extraction read and what it publishes.
Reading == {"revision", "start", "output", "stage", "adapters", "publish"}
Ended == {"completed", "unusable"}

\* A lease and the process that works on its run name each other, and so do
\* the write lock and the process inside its transaction.
Leased ==
  /\ \A p \in Process :
       /\ pc[p] \in Holding <=> run[p] # NoRun
       /\ run[p] # NoRun => lease[run[p]] = p
  /\ \A r \in Run : lease[r] # NoProcess => run[lease[r]] = r
  /\ \A p \in Process : pc[p] \in Cleaning <=> lock = p

\* What is there of a run at each step of who holds its lease.
Standing(p) ==
  LET r == run[p] IN
  /\ pc[p] = "start" => runs[r] = "none"
  /\ pc[p] \in Extracting => runs[r] = "running"
  /\ pc[p] \in {"stage", "adapters", "publish"} => r \in images
  /\ pc[p] \in {"output", "publish", "mark", "reconcile_images", "reconcile_commit"} =>
       r \notin staging
  /\ pc[p] = "mark" => r \notin images
  /\ pc[p] \in Reconciling => runs[r] # "none"
  /\ pc[p] = "reconcile_commit" => (r \in images => ReferencedImage(r))
  /\ \A o \in list[p] : runs[o] # "none"

\* Pages come from runs that ended by publishing them.
FromEnded ==
  \A g \in Stored : rows[g].run # NoRun => runs[rows[g].run] \in Ended

Outputs == FromEnded /\ NoLitter /\ ImagesPresent /\ \A p \in Process : Standing(p)

\* The current pages of a version are one rendering of n pages.
Rendering(v, n) ==
  /\ {rows[g].number : g \in CurrentOf(v)} = 1..n
  /\ \A g, h \in CurrentOf(v) : rows[g].number = rows[h].number => g = h
  /\ \A g, h \in CurrentOf(v) : rows[g].run = rows[h].run
Rendered == \A v \in Version : \E n \in 0..MaxNumber : Rendering(v, n)

\* A snapshot was taken of this row, and a change since then counted.
Remembered(e) ==
  /\ e.page <= born
  /\ Live(e.page) => Snapshot(e.page) = e \/ e.rev < rows[e.page].rev
Usable(e) == e.status \in {"native", "reviewed"}
Outdated(e) == ~(Same(e) /\ rows[e.page].current)

\* What an extraction read has been replaced, and for ever.
Lost(p) ==
  \/ seen[p] = {} /\ CurrentOf(version[p]) # {}
  \/ \E e \in seen[p] : Outdated(e)

\* What a command read, and whether it is still so.
Knows(p) ==
  /\ \A e \in seen[p] \cup kept[p] : Remembered(e)
  /\ pc[p] # "propose" => kept[p] = {}
  /\ pc[p] \in {"generate", "propose"} => \A e \in seen[p] \cup kept[p] : Usable(e)
  /\ pc[p] \in Reading => seen[p] = PageSnapshot(version[p]) \/ Lost(p)
  /\ p \in overtaken =>
       /\ pc[p] \in Reading \cup {"mark", "release", "generate", "propose"}
       /\ pc[p] \in Reading => Lost(p)
       /\ pc[p] \in {"generate", "propose"} =>
            \E e \in seen[p] \cup kept[p] : ~Same(e)

PageInvariant ==
  /\ TypeOK /\ Leased /\ Outputs
  /\ Rendered /\ Lineage
  /\ EvidenceFrozen
  /\ \A p \in Process : Knows(p)

----------------------------------------------------------------------------
\* Identities and their order.

\* The last of some identities.
LEMMA NewestIs ==
  ASSUME NEW n \in Nat, NEW S \in SUBSET (1..n), S # {}
  PROVE  Newest(S) \in S /\ \A h \in S : h <= Newest(S)
<1> DEFINE Above(i) == {k \in S : i < k}
           aboves == {Above(i) : i \in S}
           less == StrictSubsetOrdering(S)
<1>1. IsFiniteSet(1..n)
  BY FS_Interval
<1>2. \A T \in SUBSET S : IsFiniteSet(T)
  BY <1>1, FS_Subset
<1>3. aboves \subseteq FiniteSubsetsOf(S) /\ aboves # {}
  BY <1>2 DEF FiniteSubsetsOf
<1>4. PICK least \in aboves : \A a \in aboves : <<a, least>> \notin less
  <2> HIDE DEF aboves, less
  <2>1. IsWellFoundedOn(less, FiniteSubsetsOf(S))
    BY FS_StrictSubsetOrderingWellFounded DEF less
  <2> QED BY <1>3, <2>1, WFMin
<1>5. PICK i \in S : least = Above(i)
  OBVIOUS
<1>6. ASSUME NEW j \in S, i < j PROVE FALSE
  <2>1. i \in Int /\ j \in Int /\ \A k \in S : k \in Int
    OBVIOUS
  <2>2. \A k \in Above(j) : k \in Above(i)
    BY <1>6, <2>1
  <2>3. j \in Above(i) /\ j \notin Above(j)
    BY <1>6, <2>1
  <2>4. <<Above(j), Above(i)>> \in less
    BY <2>2, <2>3 DEF StrictSubsetOrdering
  <2> QED BY <1>4, <1>5, <2>4
<1>7. \A j \in S : j <= i
  BY <1>6
<1> QED BY <1>7 DEF Newest

\* How many members of a set there are up to each of them.
UpTo(A, i) == {j \in A : j <= i}
Count(A) == [i \in A |-> Cardinality(UpTo(A, i))]
Numbers(A) ==
  /\ Cardinality(A) \in Nat
  /\ \A i \in A : Count(A)[i] \in 1..Cardinality(A)
  /\ \A i, k \in A : Count(A)[i] = Count(A)[k] => i = k
  /\ \A c \in 1..Cardinality(A) : \E i \in A : Count(A)[i] = c

\* Counting the members of a set up to each of them numbers them all.
LEMMA Numbering ==
  ASSUME NEW n \in Nat, NEW A \in SUBSET (1..n)
  PROVE  Numbers(A)
<1>1. IsFiniteSet(A) /\ Cardinality(A) \in Nat
  <2>1. IsFiniteSet(1..n)
    BY FS_Interval
  <2>2. IsFiniteSet(A)
    BY <2>1, FS_Subset
  <2> QED BY <2>2, FS_CardinalityType
<1>2. ASSUME NEW i \in A
      PROVE  /\ IsFiniteSet(UpTo(A, i)) /\ Cardinality(UpTo(A, i)) \in Nat
             /\ Cardinality(UpTo(A, i)) <= Cardinality(A)
             /\ Cardinality(UpTo(A, i)) # 0
  <2>1. UpTo(A, i) \in SUBSET A /\ i \in UpTo(A, i)
    BY DEF UpTo
  <2>2. IsFiniteSet(UpTo(A, i)) /\ Cardinality(UpTo(A, i)) <= Cardinality(A)
    BY <1>1, <2>1, FS_Subset
  <2>3. Cardinality(UpTo(A, i)) \in Nat
    BY <2>2, FS_CardinalityType
  <2>4. Cardinality(UpTo(A, i)) # 0
    BY <2>1, <2>2, FS_EmptySet
  <2> QED BY <2>2, <2>3, <2>4
<1>3. \A i \in A : Count(A)[i] = Cardinality(UpTo(A, i))
  BY DEF Count
<1>4. ASSUME NEW i \in A, NEW k \in A, i < k PROVE Count(A)[i] # Count(A)[k]
  <2>1. UpTo(A, i) \in SUBSET UpTo(A, k) /\ UpTo(A, i) # UpTo(A, k)
    <3>1. k \in UpTo(A, k) /\ k \notin UpTo(A, i)
      BY <1>4 DEF UpTo
    <3>2. \A j \in UpTo(A, i) : j \in UpTo(A, k)
      BY <1>4 DEF UpTo
    <3> QED BY <3>1, <3>2
  <2>2. Cardinality(UpTo(A, i)) # Cardinality(UpTo(A, k))
    BY <1>2, <2>1, FS_Subset
  <2> QED BY <1>3, <2>2
<1>5. \A i \in A : Count(A)[i] \in 1..Cardinality(A)
  BY <1>1, <1>2, <1>3
<1>6. \A i, k \in A : Count(A)[i] = Count(A)[k] => i = k
  BY <1>4
<1>7. Count(A) \in [A -> 1..Cardinality(A)]
  BY <1>5 DEF Count
<1>8. Count(A) \in Injection(A, 1..Cardinality(A))
  BY <1>6, <1>7 DEF Injection, IsInjective
<1>9. Cardinality(1..Cardinality(A)) = Cardinality(A) /\ IsFiniteSet(1..Cardinality(A))
  BY <1>1, FS_Interval
<1>10. Count(A) \in Surjection(A, 1..Cardinality(A))
  BY <1>8, <1>9, FS_Injection
<1> QED BY <1>1, <1>5, <1>6, <1>10 DEF Surjection, Numbers

\* The identities a rendering adds are the next ones, one for each number.
LEMMA IdentityIs ==
  ASSUME TypeOK, NEW p \in Process, NEW n \in Number
  PROVE  /\ Added(p, n) \in SUBSET (1..n)
         /\ Cardinality(Added(p, n)) \in Nat /\ born \in Nat
         /\ \A i \in Added(p, n) :
              Identity(p, n, i) \in (born + 1)..(born + Cardinality(Added(p, n)))
         /\ \A i, k \in Added(p, n) : Identity(p, n, i) = Identity(p, n, k) => i = k
         /\ \A g \in (born + 1)..(born + Cardinality(Added(p, n))) :
              /\ NumberOf(p, n, g) \in Added(p, n)
              /\ g = Identity(p, n, NumberOf(p, n, g))
<1> PICK A : A = Added(p, n)
  OBVIOUS
<1> PICK total : total = Cardinality(A)
  OBVIOUS
<1>1. A \in SUBSET (1..n) /\ n \in Nat
  BY DEF Added, Number
<1>2. /\ total \in Nat
      /\ \A i \in A : Count(A)[i] \in 1..total
      /\ \A i, k \in A : Count(A)[i] = Count(A)[k] => i = k
      /\ \A c \in 1..total : \E i \in A : Count(A)[i] = c
  <2>1. Numbers(A)
    BY <1>1, Numbering
  <2> QED BY <2>1 DEF Numbers
<1>3. \A i \in A : Identity(p, n, i) = born + Count(A)[i]
  BY DEF Identity, Count, UpTo
<1>4. born \in Nat
  BY DEF TypeOK
<1>5. \A i \in A : Identity(p, n, i) \in (born + 1)..(born + total)
  BY <1>2, <1>3, <1>4
<1>6. \A i, k \in A : Identity(p, n, i) = Identity(p, n, k) => i = k
  <2>1. \A i \in A : Count(A)[i] \in Nat
    BY <1>2
  <2> QED BY <1>2, <1>3, <1>4, <2>1
<1>7. ASSUME NEW g \in (born + 1)..(born + total)
      PROVE  NumberOf(p, n, g) \in A /\ g = Identity(p, n, NumberOf(p, n, g))
  <2>1. g - born \in 1..total
    BY <1>2, <1>4
  <2>2. PICK i \in A : Count(A)[i] = g - born
    BY <1>2, <2>1
  <2>3. g = Identity(p, n, i)
    BY <1>3, <1>4, <2>2
  <2> QED BY <2>3 DEF NumberOf
<1> QED BY <1>1, <1>2, <1>4, <1>5, <1>6, <1>7


----------------------------------------------------------------------------
\* How rows change.

Retired(g) == rows'[g] = [rows[g] EXCEPT !.current = FALSE]
\* Text, status, run and revision are written over, identity and place stay.
Reworked(g) ==
  /\ rows'[g] \in Row
  /\ rows'[g].version = rows[g].version
  /\ rows'[g].number = rows[g].number
  /\ rows'[g].supersedes = rows[g].supersedes
  /\ rows'[g].rev = rows[g].rev + 1
  /\ rows'[g].current

\* What a step may do to a page it found, and whether it may.
Changes(g) ==
  /\ g \in Stored /\ rows[g].current
  /\ Retired(g) \/ (~Referenced(g) /\ (rows'[g] = Deleted \/ Reworked(g)))

\* Whoever read the pages of a version finds one of them changed, or the first
\* one written, when they are not the same any more.
Noticed(v) ==
  \/ PageSnapshot(v)' = PageSnapshot(v)
  \/ /\ CurrentOf(v)' # {}
     /\ CurrentOf(v) # {} => \E g \in CurrentOf(v) : Changes(g)

Advance ==
  /\ born' \in Nat /\ born <= born'
  /\ \A g \in Page : g <= born => (rows'[g] = rows[g] \/ Changes(g))
  /\ \A v \in Version : Noticed(v)

\* Rows by their type.
LEMMA RowTypes ==
  ASSUME TypeOK
  PROVE  /\ \A g \in Page : g \in Stored <=> Live(g)
         /\ \A g \in Page : Live(g) => rows[g] \in Row /\ g <= born
         /\ \A g \in Page : ~Live(g) => rows[g] = Deleted \/ g > born
         /\ \A g \in Page : rows[g] = Deleted => ~Live(g) /\ g <= born
         /\ born \in Nat
<1>1. born \in Nat /\ Page \subseteq Nat
  BY Bounds DEF TypeOK, Page
<1> QED BY <1>1, RowSentinels, Sentinels DEF TypeOK, Live, Stored

\* What is captured of a row, field by field.
LEMMA SnapshotFields ==
  ASSUME NEW g \in Page
  PROVE  /\ Snapshot(g).page = g
         /\ Snapshot(g).version = rows[g].version
         /\ Snapshot(g).number = rows[g].number
         /\ Snapshot(g).run = rows[g].run
         /\ Snapshot(g).text = rows[g].text
         /\ Snapshot(g).status = rows[g].status
         /\ Snapshot(g).rev = rows[g].rev
BY DEF Snapshot

\* A snapshot of a stored page is one of the type of snapshots.
LEMMA SnapshotIs ==
  ASSUME TypeOK, NEW g \in Page, Live(g)
  PROVE  Snapshot(g) \in Seen
<1>1. rows[g] \in Row
  BY RowTypes
<1> QED BY <1>1 DEF Snapshot, Seen, Row

\* A page that was changed has another revision, is not current or is gone.
LEMMA ChangeShows ==
  ASSUME TypeOK, NEW g \in Page, Changes(g)
  PROVE  /\ Live(g) /\ rows[g] \in Row
         /\ \/ /\ Live(g)' /\ Snapshot(g)' = Snapshot(g) /\ ~rows'[g].current
            \/ ~Live(g)' /\ ~Referenced(g)
            \/ /\ Live(g)' /\ ~Referenced(g) /\ rows'[g].rev = rows[g].rev + 1
<1>1. Live(g) /\ rows[g] \in Row
  BY RowTypes DEF Changes
<1>2. CASE Retired(g)
  <2>1. /\ rows'[g] \in Row /\ ~rows'[g].current
        /\ rows'[g].version = rows[g].version /\ rows'[g].number = rows[g].number
        /\ rows'[g].run = rows[g].run /\ rows'[g].text = rows[g].text
        /\ rows'[g].status = rows[g].status /\ rows'[g].rev = rows[g].rev
    BY <1>1, <1>2 DEF Retired, Row
  <2>2. Live(g)'
    BY <2>1, RowSentinels DEF Live
  <2>3. Snapshot(g)' = Snapshot(g)
    BY <2>1 DEF Snapshot
  <2> QED BY <1>1, <2>1, <2>2, <2>3
<1>3. CASE ~Referenced(g) /\ rows'[g] = Deleted
  BY <1>1, <1>3 DEF Live
<1>4. CASE ~Referenced(g) /\ Reworked(g)
  BY <1>1, <1>4, RowSentinels DEF Reworked, Live
<1> QED BY <1>2, <1>3, <1>4 DEF Changes

\* What was taken as a snapshot stays remembered, and once it is not the same
\* page any more, or not a current one, it never is again.
LEMMA SnapshotsAge ==
  ASSUME TypeOK, Advance, NEW e \in Seen, Remembered(e)
  PROVE  /\ Remembered(e)'
         /\ ~Same(e) => ~Same(e)'
         /\ Outdated(e) => Outdated(e)'
<1> PICK g : g = e.page
  OBVIOUS
<1>1. g \in Page /\ g <= born /\ e.rev \in Nat
  BY DEF Remembered, Seen
<1>2. g \in Nat /\ born \in Nat /\ born' \in Nat /\ born <= born' /\ g <= born'
  BY <1>1, RowTypes, Bounds DEF Advance, Page
<1>3. rows'[g] = rows[g] \/ Changes(g)
  BY <1>1 DEF Advance
<1>4. CASE rows'[g] = rows[g]
  <2>1. (Live(g)' <=> Live(g)) /\ Snapshot(g)' = Snapshot(g)
    BY <1>4 DEF Live, Snapshot
  <2> QED BY <1>2, <1>4, <2>1 DEF Remembered, Same, Outdated
<1>5. CASE Changes(g)
  <2>1. Live(g) /\ rows[g] \in Row /\ rows[g].rev \in Nat
    BY <1>1, <1>5, ChangeShows DEF Row
  <2>2. Snapshot(g).rev = rows[g].rev /\ Snapshot(g)'.rev = rows'[g].rev
    BY DEF Snapshot
  <2>3. CASE Live(g)' /\ Snapshot(g)' = Snapshot(g) /\ ~rows'[g].current
    <3>1. rows'[g].rev = rows[g].rev
      BY <2>2, <2>3
    <3> QED BY <1>2, <2>1, <2>3, <3>1 DEF Remembered, Same, Outdated
  <2>4. CASE ~Live(g)'
    BY <1>2, <2>4 DEF Remembered, Same, Outdated
  <2>5. CASE Live(g)' /\ rows'[g].rev = rows[g].rev + 1
    <3>1. e.rev < rows'[g].rev
      BY <1>1, <2>1, <2>2, <2>5 DEF Remembered
    <3>2. Snapshot(g)' # e
      BY <1>1, <2>1, <2>2, <2>5, <3>1
    <3> QED BY <1>2, <3>1, <3>2 DEF Remembered, Same, Outdated
  <2> QED BY <1>1, <1>5, <2>3, <2>4, <2>5, ChangeShows
<1> QED BY <1>3, <1>4, <1>5

\* Nothing changes when no row does.
LEMMA NothingAdvances ==
  ASSUME TypeOK, UNCHANGED <<rows, born>>
  PROVE  Advance
<1>1. born \in Nat
  BY RowTypes
<1>2. \A v \in Version : PageSnapshot(v)' = PageSnapshot(v)
  BY DEF PageSnapshot, Snapshot, CurrentOf, Stored, Live
<1> QED BY <1>1, <1>2 DEF Advance, Noticed

\* Pages of a version are found again, or one of them is found changed.
LEMMA ReadingAges ==
  ASSUME TypeOK, Advance, NEW p \in Process,
         UNCHANGED <<seen[p], version[p]>>,
         \A e \in seen[p] : Remembered(e),
         seen[p] = PageSnapshot(version[p]) \/ Lost(p)
  PROVE  /\ Lost(p) => Lost(p)'
         /\ (seen[p] = PageSnapshot(version[p]))' \/ Lost(p)'
<1> PICK v \in Version : v = version[p]
  BY DEF TypeOK
<1> PICK read \in SUBSET Seen : read = seen[p]
  BY DEF TypeOK
<1>1. Noticed(v)
  BY DEF Advance
<1>2. (CurrentOf(v) = {}) <=> (PageSnapshot(v) = {})
  BY DEF PageSnapshot
<1>3. (CurrentOf(v) = {})' <=> (PageSnapshot(v) = {})'
  BY DEF PageSnapshot
<1>4. CurrentOf(v) # {} => CurrentOf(v)' # {}
  BY <1>1, <1>2, <1>3 DEF Noticed
<1>5. Lost(p) <=> \/ read = {} /\ CurrentOf(v) # {}
                  \/ \E e \in read : Outdated(e)
  BY DEF Lost
<1>6. Lost(p)' <=> \/ read = {} /\ CurrentOf(v)' # {}
                   \/ \E e \in read : Outdated(e)'
  BY DEF Lost
<1>7. Lost(p) => Lost(p)'
  <2>1. \A e \in read : Outdated(e) => Outdated(e)'
    BY SnapshotsAge
  <2> QED BY <1>4, <1>5, <1>6, <2>1
<1>8. CASE read = PageSnapshot(v) /\ PageSnapshot(v)' # PageSnapshot(v)
  <2>1. /\ CurrentOf(v)' # {}
        /\ CurrentOf(v) # {} => \E g \in CurrentOf(v) : Changes(g)
    BY <1>1, <1>8 DEF Noticed
  <2>2. CASE CurrentOf(v) = {}
    BY <1>2, <1>6, <1>8, <2>1, <2>2
  <2>3. CASE CurrentOf(v) # {}
    <3>1. PICK g \in CurrentOf(v) : Changes(g)
      BY <2>1, <2>3
    <3>2. g \in Page
      BY DEF CurrentOf, Stored
    <3>3. PICK e \in read : e = Snapshot(g)
      BY <1>8 DEF PageSnapshot
    <3>4. e.page = g /\ e.rev = rows[g].rev /\ rows[g].rev \in Nat
      BY <3>1, <3>2, <3>3, ChangeShows, SnapshotFields DEF Row
    <3>5. Snapshot(g)'.rev = rows'[g].rev
      BY DEF Snapshot
    <3>6. Outdated(e)'
      <4>1. CASE ~rows'[g].current
        BY <3>4, <4>1 DEF Outdated
      <4>2. CASE ~Live(g)'
        BY <3>4, <4>2 DEF Outdated, Same
      <4>3. CASE rows'[g].rev = rows[g].rev + 1
        <5>1. Snapshot(g)' # e
          BY <3>4, <3>5, <4>3
        <5> QED BY <3>4, <5>1 DEF Outdated, Same
      <4> QED BY <3>1, <3>2, <4>1, <4>2, <4>3, ChangeShows
    <3> QED BY <1>6, <3>6
  <2> QED BY <2>2, <2>3
<1>9. CASE read = PageSnapshot(v) /\ PageSnapshot(v)' = PageSnapshot(v)
  <2>1. (seen[p] = PageSnapshot(version[p]))'
    BY <1>9
  <2> QED BY <1>7, <2>1
<1> QED BY <1>5, <1>7, <1>8, <1>9

\* What a process read stays known to it while it works on.
Staying(p) ==
  /\ UNCHANGED <<seen[p], kept[p], version[p]>>
  /\ pc'[p] \in Reading => pc[p] \in Reading
  /\ pc'[p] \in {"generate", "propose"} => pc'[p] = pc[p]
  /\ pc[p] = "propose" => pc'[p] = pc[p]
  /\ pc[p] \in {"generate"} => pc'[p] = pc[p]
  /\ pc[p] \in Reading => pc'[p] \in Reading \cup {"mark", "release"}
  /\ pc[p] = "mark" => pc'[p] \in {"mark", "release"}
  /\ pc[p] = "release" => pc'[p] = "release"

\* A process that works on with what it read knows of every change since.
LEMMA KnowsStays ==
  ASSUME TypeOK, Advance, Tracked, NEW p \in Process, Knows(p), Staying(p)
  PROVE  Knows(p)'
<1> USE DEF Staying
<1>1. /\ seen[p] \in SUBSET Seen /\ kept[p] \in SUBSET Seen
      /\ seen'[p] = seen[p] /\ kept'[p] = kept[p]
  BY DEF TypeOK
<1>2. \A e \in seen[p] \cup kept[p] :
        Remembered(e)' /\ (~Same(e) => ~Same(e)')
  BY <1>1, SnapshotsAge DEF Knows
<1>3. pc'[p] # "propose" => kept'[p] = {}
  BY DEF Knows
<1>4. pc'[p] \in {"generate", "propose"} =>
        \A e \in seen'[p] \cup kept'[p] : Usable(e)
  BY DEF Knows
<1>5. pc'[p] \in Reading =>
        /\ (seen[p] = PageSnapshot(version[p]))' \/ Lost(p)'
        /\ Lost(p) => Lost(p)'
  <2> SUFFICES ASSUME pc'[p] \in Reading
               PROVE  /\ (seen[p] = PageSnapshot(version[p]))' \/ Lost(p)'
                      /\ Lost(p) => Lost(p)'
    OBVIOUS
  <2>1. seen[p] = PageSnapshot(version[p]) \/ Lost(p)
    BY DEF Knows
  <2>2. \A e \in seen[p] : Remembered(e)
    BY DEF Knows
  <2> QED BY <2>1, <2>2, ReadingAges
<1>6. p \in overtaken' => pc'[p] # "idle" /\ (p \in overtaken \/ Stale(p)')
  BY DEF Tracked
<1>7. ASSUME p \in overtaken'
      PROVE  /\ pc'[p] \in Reading \cup {"mark", "release", "generate", "propose"}
             /\ pc'[p] \in Reading => Lost(p)'
             /\ pc'[p] \in {"generate", "propose"} =>
                  \E e \in seen'[p] \cup kept'[p] : ~Same(e)'
  <2>1. CASE p \in overtaken
    <3>1. pc'[p] \in Reading \cup {"mark", "release", "generate", "propose"}
      BY <2>1 DEF Knows
    <3>2. pc'[p] \in Reading => Lost(p)'
      BY <1>5, <2>1 DEF Knows
    <3>3. pc'[p] \in {"generate", "propose"} =>
            \E e \in seen[p] \cup kept[p] : ~Same(e)'
      BY <1>2, <2>1 DEF Knows
    <3> QED BY <1>1, <3>1, <3>2, <3>3
  <2>2. CASE Stale(p)'
    BY <1>5, <2>2 DEF Stale, Reading
  <2> QED BY <1>6, <1>7, <2>1, <2>2
<1> QED
  <2>1. \A e \in seen'[p] \cup kept'[p] : Remembered(e)'
    BY <1>1, <1>2
  <2> QED BY <1>3, <1>4, <1>5, <1>7, <2>1 DEF Knows

----------------------------------------------------------------------------
\* An extraction publishes.

\* The identities a rendering of n pages adds.
NewPages(p, n) == (born + 1)..(born + Cardinality(Added(p, n)))

\* A page of its own for a number, and what it supersedes.
Begun(p, n, g) ==
  LET i == NumberOf(p, n, g)
      old == IdentitiesOf(version[p], i) IN
  /\ rows'[g] \in Row
  /\ rows'[g].version = version[p]
  /\ rows'[g].number = i
  /\ rows'[g].run = ImageRun(p)
  /\ rows'[g].current
  /\ rows'[g].supersedes # NoPage =>
       /\ renew[p] /\ old # {}
       /\ rows'[g].supersedes = Newest(old)
       /\ rows'[g].rev = rows[Newest(old)].rev + 1

\* What a reading may be.
LEMMA ReadingIs ==
  ASSUME NEW reading \in Readings
  PROVE  reading[1] \in Text \cup {NoText} /\ reading[2] \in Status
BY Readable DEF Status

\* The last identity of a page.
LEMMA NewestIdentity ==
  ASSUME TypeOK, NEW v \in Version, NEW i \in Number, IdentitiesOf(v, i) # {}
  PROVE  LET last == Newest(IdentitiesOf(v, i)) IN
         /\ last \in Page /\ last <= born /\ Live(last) /\ rows[last] \in Row
         /\ rows[last].version = v /\ rows[last].number = i
         /\ \A h \in IdentitiesOf(v, i) : h <= last
<1>1. MaxPage \in Nat /\ IdentitiesOf(v, i) \in SUBSET (1..MaxPage)
  BY Bounds DEF IdentitiesOf, Stored, Page
<1>2. /\ Newest(IdentitiesOf(v, i)) \in IdentitiesOf(v, i)
      /\ \A h \in IdentitiesOf(v, i) : h <= Newest(IdentitiesOf(v, i))
  <2> PICK S : S = IdentitiesOf(v, i)
    OBVIOUS
  <2>1. Newest(S) \in S /\ \A h \in S : h <= Newest(S)
    BY <1>1, NewestIs
  <2> QED BY <2>1
<1> QED BY <1>2, RowTypes DEF IdentitiesOf, Stored

\* The new row of a page number.
LEMMA NewRowIs ==
  ASSUME TypeOK, NEW p \in Process, NEW i \in Number, NEW reading \in Readings
  PROVE  LET row == NewRow(p, i, reading)
             old == IdentitiesOf(version[p], i) IN
         /\ row \in Row
         /\ row.version = version[p] /\ row.number = i
         /\ row.run = ImageRun(p) /\ row.current
         /\ row.supersedes # NoPage =>
              /\ renew[p] /\ old # {}
              /\ row.supersedes = Newest(old)
              /\ row.rev = rows[Newest(old)].rev + 1
<1> PICK old : old = IdentitiesOf(version[p], i)
  OBVIOUS
<1> PICK last : last = Newest(old)
  OBVIOUS
<1> PICK follows \in BOOLEAN : follows <=> renew[p] /\ old # {}
  OBVIOUS
<1>1. version[p] \in Version /\ ImageRun(p) \in Run \cup {NoRun}
  BY DEF TypeOK, ImageRun
<1>2. follows => last \in Page /\ rows[last] \in Row
  BY <1>1, NewestIdentity
<1>3. reading[1] \in Text \cup {NoText} /\ reading[2] \in Status
  BY ReadingIs
<1> PICK rev : rev = IF follows THEN rows[last].rev + 1 ELSE 0
  OBVIOUS
<1> PICK supersedes : supersedes = IF follows THEN last ELSE NoPage
  OBVIOUS
<1>4. rev \in Nat /\ supersedes \in Page \cup {NoPage}
  BY <1>2 DEF Row
<1>5. NewRow(p, i, reading) =
        [version |-> version[p], number |-> i, run |-> ImageRun(p),
         text |-> reading[1], status |-> reading[2], rev |-> rev,
         current |-> TRUE, supersedes |-> supersedes]
  BY DEF NewRow
<1>6. NewRow(p, i, reading) \in Row
  BY <1>1, <1>3, <1>4, <1>5 DEF Row
<1> QED BY <1>5, <1>6

\* What becomes of every row.
LEMMA PublishRows ==
  ASSUME TypeOK, NEW p \in Process, NEW n \in Number,
         NEW readings \in [1..n -> Readings], ExtractPublish(p, n, readings)
  PROVE  /\ born' \in 0..MaxPage /\ born <= born'
         /\ NewPages(p, n) = (born + 1)..born' /\ NewPages(p, n) \subseteq Page
         /\ \A g \in CurrentOf(version[p]) :
              /\ g \in Page /\ g <= born /\ rows[g] \in Row /\ rows[g].current
              /\ renew[p] => Retired(g)
              /\ ~renew[p] /\ rows[g].number > n => rows'[g] = Deleted
              /\ ~renew[p] /\ rows[g].number <= n =>
                   Reworked(g) /\ rows'[g].run = ImageRun(p)
         /\ \A g \in NewPages(p, n) :
              NumberOf(p, n, g) \in Added(p, n) /\ Begun(p, n, g)
         /\ \A g \in Page :
              g \notin CurrentOf(version[p]) /\ g \notin NewPages(p, n) =>
                rows'[g] = rows[g]
<1> PICK v \in Version : v = version[p]
  BY DEF TypeOK
<1>1. /\ n \in Nat /\ MaxPage \in Nat /\ Number \subseteq Nat
      /\ 1..n \subseteq Number /\ Page \subseteq Nat /\ NoPage \notin Page
  BY Bounds DEF Number, Page, NoPage
<1>2. /\ Added(p, n) \in SUBSET (1..n)
      /\ Cardinality(Added(p, n)) \in Nat /\ born \in Nat
      /\ \A i \in Added(p, n) : Identity(p, n, i) \in NewPages(p, n)
      /\ \A g \in NewPages(p, n) :
           /\ NumberOf(p, n, g) \in Added(p, n)
           /\ g = Identity(p, n, NumberOf(p, n, g))
  BY IdentityIs DEF NewPages
<1>3. /\ born' = born + Cardinality(Added(p, n)) /\ born' <= MaxPage
      /\ rows' = [g \in Page |->
           IF Surplus(p, g, n) THEN Deleted
           ELSE IF g \in CurrentOf(v)
                THEN IF renew[p] THEN [rows[g] EXCEPT !.current = FALSE]
                     ELSE IF rows[g].number \in 1..n
                          THEN Upserted(rows[g], p, readings[rows[g].number])
                          ELSE rows[g]
           ELSE IF \E i \in Added(p, n) : g = Identity(p, n, i)
                THEN NewRow(p, NumberOf(p, n, g), readings[NumberOf(p, n, g)])
           ELSE rows[g]]
  BY DEF ExtractPublish
<1>4. /\ born' \in 0..MaxPage /\ born <= born'
      /\ NewPages(p, n) = (born + 1)..born' /\ NewPages(p, n) \subseteq Page
  BY <1>1, <1>2, <1>3 DEF NewPages, Page
<1>5. ASSUME NEW g \in CurrentOf(v)
      PROVE  /\ g \in Page /\ g <= born /\ rows[g] \in Row /\ rows[g].current
             /\ renew[p] => Retired(g)
             /\ ~renew[p] /\ rows[g].number > n => rows'[g] = Deleted
             /\ ~renew[p] /\ rows[g].number <= n =>
                  Reworked(g) /\ rows'[g].run = ImageRun(p)
  <2>1. g \in Page /\ g <= born /\ rows[g] \in Row /\ rows[g].current
    BY RowTypes DEF CurrentOf, Stored
  <2>2. renew[p] => Retired(g)
    BY <1>3, <2>1 DEF Surplus, Retired
  <2>3. ~renew[p] /\ rows[g].number > n => rows'[g] = Deleted
    BY <1>3, <2>1 DEF Surplus
  <2>4. ASSUME ~renew[p], rows[g].number <= n
        PROVE  Reworked(g) /\ rows'[g].run = ImageRun(p)
    <3>1. rows[g].number \in Number /\ rows[g].number \in 1..n
      BY <1>1, <2>1, <2>4 DEF Row, Number
    <3> PICK reading \in Readings : reading = readings[rows[g].number]
      BY <3>1
    <3>2. ~Surplus(p, g, n)
      BY <1>1, <2>4, <3>1 DEF Surplus
    <3>3. rows'[g] = Upserted(rows[g], p, reading)
      BY <1>3, <2>1, <2>4, <3>1, <3>2
    <3>4. reading[1] \in Text \cup {NoText} /\ reading[2] \in Status
      BY ReadingIs
    <3>5. ImageRun(p) \in Run \cup {NoRun}
      BY DEF TypeOK, ImageRun
    <3> PICK row \in Row : row = rows[g]
      BY <2>1
    <3> PICK rev \in Nat : rev = row.rev + 1
      BY DEF Row
    <3> PICK new : new = [row EXCEPT !.run = ImageRun(p), !.text = reading[1],
                                     !.status = reading[2], !.rev = rev]
      OBVIOUS
    <3>6. rows'[g] = new
      BY <3>3 DEF Upserted
    <3>7. /\ new.version = row.version /\ new.number = row.number
          /\ new.supersedes = row.supersedes /\ new.current = row.current
          /\ new.run = ImageRun(p) /\ new.rev = rev
      BY DEF Row
    <3>8. new \in Row
      <4> PICK text \in Text \cup {NoText}, status \in Status :
            text = reading[1] /\ status = reading[2]
        BY <3>4
      <4> PICK from \in Run \cup {NoRun} : from = ImageRun(p)
        BY <3>5
      <4> QED BY DEF Row
    <3> QED BY <2>1, <3>6, <3>7, <3>8 DEF Reworked
  <2> QED BY <2>1, <2>2, <2>3, <2>4
<1>6. ASSUME NEW g \in NewPages(p, n)
      PROVE  NumberOf(p, n, g) \in Added(p, n) /\ Begun(p, n, g)
  <2> PICK i \in Added(p, n) : i = NumberOf(p, n, g) /\ g = Identity(p, n, i)
    BY <1>2
  <2>1. i \in 1..n /\ i \in Number /\ g \in Page /\ g > born
    <3>1. i \in 1..n /\ i \in Number
      BY <1>1, <1>2
    <3>2. g \in Page /\ g > born
      BY <1>1, <1>2, <1>4
    <3> QED BY <3>1, <3>2
  <2>2. g \notin CurrentOf(v)
    <3>1. g \in Nat /\ born \in Nat
      BY <1>1, <1>2, <2>1
    <3> QED BY <1>5, <2>1, <3>1
  <2> PICK reading \in Readings : reading = readings[i]
    BY <2>1
  <2>3. rows'[g] = NewRow(p, i, reading)
    BY <1>3, <2>1, <2>2 DEF Surplus
  <2>4. LET row == NewRow(p, i, reading)
            old == IdentitiesOf(version[p], i) IN
        /\ row \in Row
        /\ row.version = version[p] /\ row.number = i
        /\ row.run = ImageRun(p) /\ row.current
        /\ row.supersedes # NoPage =>
             /\ renew[p] /\ old # {}
             /\ row.supersedes = Newest(old)
             /\ row.rev = rows[Newest(old)].rev + 1
    BY <2>1, NewRowIs
  <2> QED BY <2>3, <2>4 DEF Begun
<1>7. ASSUME NEW g \in Page, g \notin CurrentOf(v), g \notin NewPages(p, n)
      PROVE  rows'[g] = rows[g]
  <2>1. ~ \E i \in Added(p, n) : g = Identity(p, n, i)
    BY <1>2, <1>7
  <2>2. ~Surplus(p, g, n)
    BY <1>7 DEF Surplus
  <2> QED BY <1>3, <1>7, <2>1, <2>2
<1> QED BY <1>4, <1>5, <1>6, <1>7

\* The current pages of a version stay, row by row.
SameVersion(v) ==
  /\ CurrentOf(v)' = CurrentOf(v)
  /\ \A g \in CurrentOf(v) : rows'[g] = rows[g]

\* Such a version reads and renders as before.
LEMMA VersionStays ==
  ASSUME NEW v \in Version, SameVersion(v)
  PROVE  /\ PageSnapshot(v)' = PageSnapshot(v)
         /\ \A n \in 0..MaxNumber : Rendering(v, n) => Rendering(v, n)'
<1> PICK S : S = CurrentOf(v)
  OBVIOUS
<1>1. S = CurrentOf(v)' /\ \A g \in S : rows'[g] = rows[g]
  BY DEF SameVersion
<1>2. \A g \in S : Snapshot(g)' = Snapshot(g)
  BY <1>1 DEF Snapshot
<1>3. PageSnapshot(v) = {Snapshot(g) : g \in S}
  BY DEF PageSnapshot
<1>4. PageSnapshot(v)' = {Snapshot(g)' : g \in S}
  BY <1>1 DEF PageSnapshot
<1>5. \A n \in 0..MaxNumber : Rendering(v, n) => Rendering(v, n)'
  <2>1. {rows[g].number : g \in S} = {rows'[g].number : g \in S}
    BY <1>1
  <2> QED BY <1>1, <2>1 DEF Rendering
<1> QED BY <1>2, <1>3, <1>4, <1>5

\* Which pages are current after a publication.
LEMMA PublishCurrent ==
  ASSUME TypeOK, NEW p \in Process, NEW n \in Number,
         NEW readings \in [1..n -> Readings], ExtractPublish(p, n, readings),
         NEW v \in Version, v = version[p]
  PROVE  /\ \A g \in Page :
              g \in CurrentOf(v)' <=>
                \/ g \in NewPages(p, n)
                \/ g \in CurrentOf(v) /\ ~renew[p] /\ rows[g].number <= n
         /\ \A w \in Version \ {v} : SameVersion(w)
<1> PICK S \in SUBSET Page : S = CurrentOf(v)
  BY DEF CurrentOf, Stored
<1> PICK N \in SUBSET Page : N = NewPages(p, n)
  BY PublishRows
<1>1. /\ \A g \in S :
           /\ rows[g] \in Row /\ Live(g) /\ rows[g].current
           /\ rows[g].version = v
           /\ renew[p] => Retired(g)
           /\ ~renew[p] /\ rows[g].number > n => rows'[g] = Deleted
           /\ ~renew[p] /\ rows[g].number <= n => Reworked(g)
           /\ rows[g].number \in Nat /\ n \in Nat
  <2>1. n \in Nat /\ Number \subseteq Nat
    BY Bounds DEF Number
  <2>2. \A g \in S : Live(g) /\ rows[g].current /\ rows[g].version = v
    BY DEF CurrentOf, Stored
  <2>3. \A g \in S :
          /\ rows[g] \in Row
          /\ renew[p] => Retired(g)
          /\ ~renew[p] /\ rows[g].number > n => rows'[g] = Deleted
          /\ ~renew[p] /\ rows[g].number <= n => Reworked(g)
    BY PublishRows
  <2>4. \A g \in S : rows[g].number \in Nat
    BY <2>1, <2>3 DEF Row
  <2> QED BY <2>1, <2>2, <2>3, <2>4
<1>2. \A g \in N : Begun(p, n, g)
  BY PublishRows
<1>3. \A g \in Page : g \notin S /\ g \notin N => rows'[g] = rows[g]
  BY PublishRows
<1>4. ASSUME NEW w \in Version, NEW g \in Page
      PROVE  g \in CurrentOf(w)' <=>
               \/ w = v /\ g \in N
               \/ w = v /\ g \in S /\ ~renew[p] /\ rows[g].number <= n
               \/ w # v /\ g \in CurrentOf(w)
  <2>1. g \in CurrentOf(w)' <=> Live(g)' /\ rows'[g].version = w /\ rows'[g].current
    BY DEF CurrentOf, Stored
  <2>2. g \in CurrentOf(w) <=> Live(g) /\ rows[g].version = w /\ rows[g].current
    BY DEF CurrentOf, Stored
  <2>3. g \in S <=> Live(g) /\ rows[g].version = v /\ rows[g].current
    BY DEF CurrentOf, Stored
  <2>4. rows'[g] \in Row => Live(g)'
    BY RowSentinels DEF Live
  <2>5. CASE g \in N
    <3>1. rows'[g] \in Row /\ rows'[g].version = v /\ rows'[g].current
      BY <1>2, <2>5 DEF Begun
    <3>2. ~Live(g)
      <4>1. g > born /\ g \in Nat /\ born \in Nat
        BY <2>5, RowTypes, PublishRows, Bounds DEF NewPages, Page
      <4> QED BY <4>1, RowTypes
    <3> QED BY <2>1, <2>2, <2>3, <2>4, <2>5, <3>1, <3>2
  <2>6. CASE g \in S /\ renew[p]
    <3>1. rows'[g] = [rows[g] EXCEPT !.current = FALSE] /\ rows[g] \in Row
      BY <1>1, <2>6 DEF Retired
    <3>2. ~rows'[g].current
      BY <3>1 DEF Row
    <3> QED BY <2>1, <2>2, <2>3, <2>6, <3>2, PublishRows, <2>5
  <2>7. CASE g \in S /\ ~renew[p] /\ rows[g].number > n
    <3>1. ~Live(g)'
      BY <1>1, <2>7 DEF Live
    <3> QED BY <1>1, <2>1, <2>2, <2>3, <2>5, <2>7, <3>1
  <2>8. CASE g \in S /\ ~renew[p] /\ rows[g].number <= n
    <3>1. rows'[g] \in Row /\ rows'[g].version = v /\ rows'[g].current
      BY <1>1, <2>8 DEF Reworked
    <3> QED BY <2>1, <2>2, <2>3, <2>4, <2>5, <2>8, <3>1
  <2>9. CASE g \notin S /\ g \notin N
    <3>1. rows'[g] = rows[g]
      BY <1>3, <2>9
    <3>2. Live(g)' <=> Live(g)
      BY <3>1 DEF Live
    <3> QED BY <2>1, <2>2, <2>3, <2>9, <3>1, <3>2
  <2> QED BY <1>1, <2>5, <2>6, <2>7, <2>8, <2>9
<1>5. ASSUME NEW w \in Version, w # v
      PROVE  SameVersion(w)
  <2>1. CurrentOf(w) \subseteq Page /\ CurrentOf(w)' \subseteq Page
    BY DEF CurrentOf, Stored
  <2>2. CurrentOf(w)' = CurrentOf(w)
    BY <1>4, <1>5, <2>1
  <2>3. \A g \in CurrentOf(w) : g \notin S /\ g \notin N
    <3>1. \A g \in CurrentOf(w) : g \in Page /\ Live(g) /\ rows[g].version = w
      BY DEF CurrentOf, Stored
    <3>2. \A g \in N : g > born /\ g \in Nat /\ born \in Nat
      BY RowTypes, PublishRows, Bounds DEF NewPages, Page
    <3> QED BY <1>1, <1>5, <3>1, <3>2, RowTypes
  <2> QED BY <1>3, <2>1, <2>2, <2>3 DEF SameVersion
<1>6. \A g \in Page :
        g \in CurrentOf(v)' <=>
          \/ g \in N
          \/ g \in S /\ ~renew[p] /\ rows[g].number <= n
  BY <1>4
<1> QED BY <1>5, <1>6

\* A publication is a rendering of n pages.
LEMMA PublishRenders ==
  ASSUME TypeOK, Rendered, NEW p \in Process, NEW n \in Number,
         NEW readings \in [1..n -> Readings], ExtractPublish(p, n, readings),
         NEW v \in Version, v = version[p]
  PROVE  Rendered' /\ CurrentOf(v)' # {}
<1> PICK S \in SUBSET Page : S = CurrentOf(v)
  BY DEF CurrentOf, Stored
<1> PICK N \in SUBSET Page : N = NewPages(p, n)
  BY PublishRows
<1> PICK T \in SUBSET Page : T = CurrentOf(v)'
  BY DEF CurrentOf, Stored
<1> PICK A : A = Added(p, n)
  OBVIOUS
<1>1. /\ A \subseteq 1..n
      /\ \A i \in A : Identity(p, n, i) \in N
      /\ \A i, k \in A : Identity(p, n, i) = Identity(p, n, k) => i = k
      /\ \A g \in N : NumberOf(p, n, g) \in A /\ g = Identity(p, n, NumberOf(p, n, g))
  BY IdentityIs DEF NewPages
<1>2. \A g \in Page :
        g \in T <=> g \in N \/ (g \in S /\ ~renew[p] /\ rows[g].number <= n)
  BY PublishCurrent
<1>3. \A g \in N : rows'[g].number = NumberOf(p, n, g) /\ rows'[g].run = ImageRun(p)
  BY PublishRows DEF Begun
<1>4. \A g \in S : ~renew[p] /\ rows[g].number <= n =>
        rows'[g].number = rows[g].number /\ rows'[g].run = ImageRun(p)
  BY PublishRows DEF Reworked
<1>5. n \in 1..MaxNumber /\ n \in Nat /\ MaxNumber \in Nat
  BY Bounds DEF Number
<1>6. \A g \in S : rows[g].number \in 1..MaxNumber
  <2>1. \A g \in S : rows[g] \in Row
    BY PublishRows
  <2> QED BY <2>1 DEF Row, Number
<1>7. \A g, h \in S : rows[g].number = rows[h].number => g = h
  BY DEF Rendered, Rendering
<1>8. \A i \in 1..n : i \in A <=> renew[p] \/ ~ \E g \in S : rows[g].number = i
  BY DEF Added, RowOf
<1>9. \A g \in T : rows'[g].number \in 1..n /\ rows'[g].run = ImageRun(p)
  BY <1>1, <1>2, <1>3, <1>4, <1>5, <1>6
<1>10. ASSUME NEW i \in 1..n PROVE \E g \in T : rows'[g].number = i
  <2>1. CASE i \in A
    <3>1. Identity(p, n, i) \in N /\ Identity(p, n, i) \in T
      BY <1>1, <1>2, <2>1
    <3>2. NumberOf(p, n, Identity(p, n, i)) = i
      BY <1>1, <2>1, <3>1
    <3> QED BY <1>3, <3>1, <3>2
  <2>2. CASE i \notin A
    <3>1. PICK g \in S : rows[g].number = i
      BY <1>8, <2>2
    <3>2. ~renew[p] /\ rows[g].number <= n
      BY <1>5, <1>8, <2>2, <3>1
    <3> QED BY <1>2, <1>4, <3>1, <3>2
  <2> QED BY <2>1, <2>2
<1>11. ASSUME NEW g \in T, NEW h \in T, rows'[g].number = rows'[h].number
       PROVE  g = h
  <2>1. CASE g \in N /\ h \in N
    BY <1>1, <1>3, <1>11, <2>1
  <2>2. CASE g \notin N /\ h \notin N
    BY <1>2, <1>4, <1>7, <1>11, <2>2
  <2>3. ASSUME NEW k \in N, NEW l \in T, l \notin N, rows'[k].number = rows'[l].number
        PROVE  FALSE
    <3>1. l \in S /\ ~renew[p] /\ rows[l].number = rows'[l].number
      BY <1>2, <1>4, <2>3
    <3>2. rows[l].number \in A
      BY <1>1, <1>3, <2>3, <3>1
    <3> QED BY <1>1, <1>8, <3>1, <3>2
  <2> QED BY <1>11, <2>1, <2>2, <2>3
<1>12. Rendering(v, n)'
  <2>1. {rows'[g].number : g \in T} = 1..n
    BY <1>9, <1>10
  <2> QED BY <1>9, <1>11, <2>1 DEF Rendering
<1>13. \A w \in Version \ {v} : \E m \in 0..MaxNumber : Rendering(w, m)'
  BY PublishCurrent, VersionStays DEF Rendered
<1>14. CurrentOf(v)' # {}
  BY <1>5, <1>10
<1> QED BY <1>5, <1>12, <1>13, <1>14 DEF Rendered

\* A publication changes the pages of its version and no captured one.
LEMMA PublishAdvances ==
  ASSUME TypeOK, Rendered, NEW p \in Process, NEW n \in Number,
         NEW readings \in [1..n -> Readings], ExtractPublish(p, n, readings)
  PROVE  Advance
<1> PICK v \in Version : v = version[p]
  BY DEF TypeOK
<1>1. ASSUME NEW g \in CurrentOf(v) PROVE Changes(g)
  <2>1. g \in Stored /\ rows[g].current
    BY DEF CurrentOf
  <2>2. CASE renew[p]
    BY <2>1, <2>2, PublishRows DEF Changes
  <2>3. CASE ~renew[p]
    <3>1. ~Referenced(g)
      BY <2>3 DEF ExtractPublish, Publishable, PagesAreCited
    <3>2. rows[g].number \in Nat /\ n \in Nat
      <4>1. rows[g] \in Row /\ Number \subseteq Nat
        BY PublishRows, Bounds DEF Number
      <4> QED BY <4>1 DEF Row
    <3>3. rows'[g] = Deleted \/ Reworked(g)
      BY <2>3, <3>2, PublishRows
    <3> QED BY <2>1, <3>1, <3>3 DEF Changes
  <2> QED BY <2>2, <2>3
<1>2. born' \in Nat /\ born <= born' /\ born \in Nat
  BY PublishRows, RowTypes, Bounds
<1>3. ASSUME NEW g \in Page, g <= born PROVE rows'[g] = rows[g] \/ Changes(g)
  <2>1. g \notin NewPages(p, n)
    BY <1>2, <1>3, PublishRows, Bounds DEF Page
  <2> QED BY <1>1, <2>1, PublishRows
<1>4. ASSUME NEW w \in Version PROVE Noticed(w)
  <2>1. CASE w = v
    <3>1. CurrentOf(v)' # {}
      BY PublishRenders
    <3> QED BY <1>1, <2>1, <3>1 DEF Noticed
  <2>2. CASE w # v
    BY <2>2, PublishCurrent, VersionStays DEF Noticed
  <2> QED BY <2>1, <2>2
<1> QED BY <1>2, <1>3, <1>4 DEF Advance

\* A new identity supersedes the newest one of its page, which nothing
\* superseded yet.
LEMMA PublishLineage ==
  ASSUME TypeOK, Lineage, NEW p \in Process, NEW n \in Number,
         NEW readings \in [1..n -> Readings], ExtractPublish(p, n, readings)
  PROVE  Lineage'
<1> PICK v \in Version : v = version[p]
  BY DEF TypeOK
<1> PICK S \in SUBSET Page : S = CurrentOf(v)
  BY DEF CurrentOf, Stored
<1> PICK N \in SUBSET Page : N = NewPages(p, n)
  BY PublishRows
<1>1. /\ born \in Nat /\ Page \subseteq Nat /\ NoPage \notin Page
      /\ \A g \in N : g > born
  BY RowTypes, PublishRows, Bounds DEF NewPages, Page, NoPage
<1>2. \A g \in Page : Live(g) <=> g \in Stored
  BY RowTypes
<1>3. \A g \in Page : g \in S <=> Live(g) /\ rows[g].version = v /\ rows[g].current
  BY DEF CurrentOf, Stored
<1>4. \A i \in Number : \A g \in Page :
        g \in IdentitiesOf(v, i) <=>
          Live(g) /\ rows[g].version = v /\ rows[g].number = i
  BY DEF IdentitiesOf, Stored
\* What stays of an old page.
<1>5. ASSUME NEW g \in Page, g <= born, Live(g)'
      PROVE  /\ Live(g) /\ rows[g] \in Row
             /\ rows'[g].version = rows[g].version
             /\ rows'[g].number = rows[g].number
             /\ rows'[g].supersedes = rows[g].supersedes
             /\ rows[g].rev <= rows'[g].rev /\ rows'[g].rev \in Nat
             /\ ~rows[g].current => rows'[g] = rows[g]
             /\ renew[p] /\ rows[g].version = v => ~rows'[g].current
  <2>1. CASE g \in S
    <3>1. rows[g] \in Row /\ Live(g) /\ rows[g].current
      BY <1>3, <2>1, RowTypes
    <3>2. CASE renew[p]
      <4>1. rows'[g] = [rows[g] EXCEPT !.current = FALSE]
        BY <2>1, <3>2, PublishRows DEF Retired
      <4> QED BY <3>1, <4>1 DEF Row
    <3>3. CASE ~renew[p]
      <4>1. rows'[g] = Deleted \/ Reworked(g)
        <5>1. rows[g].number \in Nat /\ n \in Nat
          <6>1. Number \subseteq Nat
            BY Bounds DEF Number
          <6> QED BY <3>1, <6>1 DEF Row
        <5> QED BY <2>1, <3>3, <5>1, PublishRows
      <4>2. rows'[g] # Deleted
        BY <1>5 DEF Live
      <4> QED BY <3>1, <3>3, <4>1, <4>2 DEF Reworked, Row
    <3> QED BY <3>2, <3>3
  <2>2. CASE g \notin S
    <3>1. rows'[g] = rows[g]
      BY <1>1, <1>5, <2>2, PublishRows
    <3>2. Live(g) /\ rows[g] \in Row
      BY <1>5, <3>1, RowTypes DEF Live
    <3>3. rows[g].rev \in Nat
      BY <3>2 DEF Row
    <3> QED BY <1>3, <2>2, <3>1, <3>2, <3>3
  <2> QED BY <2>1, <2>2
<1>6. ASSUME NEW g \in Page, g <= born, Live(g), ~rows[g].current
      PROVE  rows'[g] = rows[g] /\ Live(g)'
  <2>1. rows'[g] = rows[g]
    BY <1>1, <1>3, <1>6, PublishRows
  <2> QED BY <1>6, <2>1 DEF Live
<1>7. ASSUME NEW g \in Page, ~(g <= born), Live(g)' PROVE g \in N
  <2>1. CASE g \notin N /\ g \notin S
    <3>1. rows'[g] = rows[g]
      BY <2>1, PublishRows
    <3>2. Live(g)
      BY <1>7, <3>1 DEF Live
    <3> QED BY <1>7, <3>2, RowTypes
  <2> QED BY <1>3, <1>7, <2>1, RowTypes
\* What a new page supersedes.
<1>8. ASSUME NEW g \in N, rows'[g].supersedes # NoPage
      PROVE  LET old == rows'[g].supersedes
                 i == NumberOf(p, n, g) IN
             /\ i \in Number /\ renew[p]
             /\ old \in Page /\ old <= born /\ Live(old) /\ rows[old] \in Row
             /\ rows[old].version = v /\ rows[old].number = i
             /\ \A h \in IdentitiesOf(v, i) : h <= old
             /\ rows'[g].version = v /\ rows'[g].number = i
             /\ rows'[g].rev = rows[old].rev + 1
             /\ old = Newest(IdentitiesOf(v, i))
  <2> PICK i : i = NumberOf(p, n, g)
    OBVIOUS
  <2>1. i \in Number
    <3>1. i \in Added(p, n) /\ MaxNumber \in Nat
      BY PublishRows, Bounds
    <3> QED BY <3>1 DEF Added, Number
  <2>2. Begun(p, n, g)
    BY PublishRows
  <2>3. /\ renew[p] /\ IdentitiesOf(v, i) # {}
        /\ rows'[g].supersedes = Newest(IdentitiesOf(v, i))
        /\ rows'[g].rev = rows[Newest(IdentitiesOf(v, i))].rev + 1
        /\ rows'[g].version = v /\ rows'[g].number = i
    BY <1>8, <2>2 DEF Begun
  <2> PICK old : old = Newest(IdentitiesOf(v, i))
    OBVIOUS
  <2>4. /\ old \in Page /\ old <= born /\ Live(old) /\ rows[old] \in Row
        /\ rows[old].version = v /\ rows[old].number = i
        /\ \A h \in IdentitiesOf(v, i) : h <= old
    BY <2>1, <2>3, NewestIdentity
  <2> QED BY <2>1, <2>3, <2>4
\* Nothing else supersedes it.
<1>9. ASSUME NEW g \in Page, g <= born, Live(g)', NEW h \in N,
             rows'[h].supersedes # NoPage,
             rows'[h].supersedes = rows'[g].supersedes
      PROVE  FALSE
  <2> PICK old \in Page : old = rows'[h].supersedes
    BY <1>8, <1>9
  <2>1. /\ Live(g) /\ rows[g].supersedes = old /\ old # NoPage
    BY <1>5, <1>9
  <2>2. /\ old < g /\ rows[old].version = rows[g].version
        /\ rows[old].number = rows[g].number
    BY <1>2, <2>1 DEF Lineage
  <2> PICK i \in Number : i = NumberOf(p, n, h)
    BY <1>8, <1>9
  <2>3. rows[g].version = v /\ rows[g].number = i
    BY <1>8, <1>9, <2>2
  <2>4. g \in IdentitiesOf(v, i)
    BY <1>4, <2>1, <2>3
  <2>5. g <= old
    BY <1>8, <1>9, <2>4
  <2> QED BY <1>1, <2>2, <2>5
<1>10. ASSUME NEW g \in N, NEW h \in N, rows'[g].supersedes # NoPage,
              rows'[h].supersedes = rows'[g].supersedes
       PROVE  h = g
  <2>1. NumberOf(p, n, g) = NumberOf(p, n, h)
    BY <1>8, <1>10
  <2>2. g = Identity(p, n, NumberOf(p, n, g)) /\ h = Identity(p, n, NumberOf(p, n, h))
    BY IdentityIs DEF NewPages
  <2> QED BY <2>1, <2>2
<1> SUFFICES ASSUME NEW g \in Page, Live(g)', NEW old, old = rows'[g].supersedes,
                    old # NoPage
             PROVE  /\ old < g /\ Live(old)'
                    /\ ~rows'[old].current
                    /\ rows'[old].version = rows'[g].version
                    /\ rows'[old].number = rows'[g].number
                    /\ rows'[old].rev < rows'[g].rev
                    /\ \A h \in Page : Live(h)' /\ rows'[h].supersedes = old => h = g
  BY DEF Lineage, Stored
<1>11. CASE g <= born
  <2>1. /\ Live(g) /\ rows[g] \in Row /\ rows[g].supersedes = old
        /\ rows[g].rev <= rows'[g].rev /\ rows'[g].rev \in Nat
        /\ rows'[g].version = rows[g].version /\ rows'[g].number = rows[g].number
    BY <1>5, <1>11
  <2>2. /\ old < g /\ Live(old) /\ ~rows[old].current
        /\ rows[old].version = rows[g].version
        /\ rows[old].number = rows[g].number
        /\ rows[old].rev < rows[g].rev
        /\ \A h \in Page : Live(h) /\ rows[h].supersedes = old => h = g
    BY <1>2, <2>1 DEF Lineage
  <2>3. old \in Page /\ old <= born /\ rows[old] \in Row
    <3>1. old \in Page
      BY <2>1 DEF Row
    <3> QED BY <2>2, <3>1, RowTypes
  <2>4. rows'[old] = rows[old] /\ Live(old)'
    BY <1>6, <2>2, <2>3
  <2>5. rows[old].rev < rows'[g].rev
    <3>1. rows[old].rev \in Nat /\ rows[g].rev \in Nat
      BY <2>1, <2>3 DEF Row
    <3> QED BY <2>1, <2>2, <3>1
  <2>6. ASSUME NEW h \in Page, Live(h)', rows'[h].supersedes = old PROVE h = g
    <3>1. CASE h <= born
      BY <1>5, <2>2, <2>6, <3>1
    <3>2. CASE ~(h <= born)
      BY <1>7, <1>9, <1>11, <2>6, <3>2
    <3> QED BY <3>1, <3>2
  <2> QED BY <2>1, <2>2, <2>4, <2>5, <2>6
<1>12. CASE ~(g <= born)
  <2>1. g \in N
    BY <1>7, <1>12
  <2>2. /\ renew[p] /\ old \in Page /\ old <= born /\ Live(old) /\ rows[old] \in Row
        /\ rows[old].version = v
        /\ rows'[g].version = v /\ rows'[g].number = rows[old].number
        /\ rows'[g].rev = rows[old].rev + 1
    BY <1>8, <2>1
  <2>3. old < g
    BY <1>1, <1>12, <2>2
  <2>4. Live(old)' /\ rows[old].rev = rows'[old].rev
    <3>1. CASE old \in S
      <4>1. rows'[old] = [rows[old] EXCEPT !.current = FALSE]
        BY <2>2, <3>1, PublishRows DEF Retired
      <4>2. rows'[old] \in Row /\ rows[old].rev = rows'[old].rev
        BY <2>2, <4>1 DEF Row
      <4> QED BY <4>2, RowSentinels DEF Live
    <3>2. CASE old \notin S
      <4>1. rows'[old] = rows[old]
        BY <1>3, <1>6, <2>2, <3>2
      <4> QED BY <2>2, <4>1 DEF Live
    <3> QED BY <3>1, <3>2
  <2>5. /\ ~rows'[old].current
        /\ rows'[old].version = rows'[g].version
        /\ rows'[old].number = rows'[g].number
    BY <1>5, <2>2, <2>4
  <2>6. rows'[old].rev < rows'[g].rev
    <3>1. rows[old].rev \in Nat
      BY <2>2 DEF Row
    <3> QED BY <2>2, <2>4, <3>1
  <2>7. ASSUME NEW h \in Page, Live(h)', rows'[h].supersedes = old PROVE h = g
    <3>1. CASE h <= born
      BY <1>9, <2>1, <2>7, <3>1
    <3>2. CASE ~(h <= born)
      BY <1>7, <1>10, <2>1, <2>7, <3>2
    <3> QED BY <3>1, <3>2
  <2> QED BY <2>3, <2>4, <2>5, <2>6, <2>7
<1> QED BY <1>11, <1>12

----------------------------------------------------------------------------
\* A page is corrected or accepted.

\* A page in place, or a retired one and its successor.
ReworkedAlone(g, x) ==
  /\ ~Referenced(g) /\ Reworked(g)
  /\ rows'[g].run = rows[g].run /\ rows'[g].text = x
  /\ born' = born
  /\ \A h \in Page \ {g} : rows'[h] = rows[h]
Succeeded(g, x) ==
  LET k == born + 1 IN
  /\ k \in Page /\ born' = k
  /\ Retired(g)
  /\ rows'[k] \in Row
  /\ rows'[k].version = rows[g].version /\ rows'[k].number = rows[g].number
  /\ rows'[k].run = rows[g].run /\ rows'[k].text = x
  /\ rows'[k].supersedes = g /\ rows'[k].rev = rows[g].rev + 1
  /\ rows'[k].current
  /\ \A h \in Page \ {g, k} : rows'[h] = rows[h]
Revised(g, x) ==
  \/ UNCHANGED <<rows, born>>
  \/ ReworkedAlone(g, x)
  \/ Succeeded(g, x)

\* What becomes of the rows.
LEMMA ReviseRows ==
  ASSUME TypeOK, NEW v \in Version, NEW g \in CurrentOf(v),
         NEW x \in Text \cup {NoText}, Revise(g, x)
  PROVE  Revised(g, x)
<1>1. /\ g \in Page /\ Live(g) /\ rows[g] \in Row /\ rows[g].current
      /\ g <= born /\ born \in Nat /\ g \in Nat /\ MaxPage \in Nat
  BY RowTypes, Bounds DEF CurrentOf, Stored, Page
<1> PICK row \in Row : row = rows[g]
  BY <1>1
<1> PICK rev \in Nat : rev = row.rev + 1
  BY DEF Row
<1> PICK new : new = [row EXCEPT !.text = x, !.status = "reviewed", !.rev = rev]
  OBVIOUS
<1>2. Corrected(row, x) = new
  BY DEF Corrected
<1>3. /\ new \in Row
      /\ new.version = row.version /\ new.number = row.number
      /\ new.run = row.run /\ new.text = x /\ new.rev = rev
      /\ new.current = row.current /\ new.supersedes = row.supersedes
  BY DEF Row, Status
<1>4. rows \in [Page -> Row \cup {NoRow, Deleted}]
  BY DEF TypeOK
<1>5. CASE UNCHANGED <<rows, born>>
  BY <1>5 DEF Revised
<1>6. CASE /\ ~Frozen(g)
           /\ rows' = [rows EXCEPT ![g] = Corrected(@, x)]
           /\ UNCHANGED born
  <2>1. rows' = [rows EXCEPT ![g] = new]
    BY <1>2, <1>6
  <2>2. rows'[g] = new /\ \A h \in Page \ {g} : rows'[h] = rows[h]
    BY <1>1, <1>4, <2>1
  <2>3. ReworkedAlone(g, x)
    BY <1>1, <1>3, <1>6, <2>2 DEF ReworkedAlone, Reworked, Frozen
  <2> QED BY <2>3 DEF Revised
<1>7. CASE /\ born < MaxPage
           /\ rows' = [rows EXCEPT
                ![g].current = FALSE,
                ![born + 1] = [Corrected(rows[g], x) EXCEPT !.supersedes = g]]
           /\ born' = born + 1
  <2> PICK k \in Page : k = born + 1
    BY <1>1, <1>7 DEF Page
  <2> PICK next : next = [new EXCEPT !.supersedes = g]
    OBVIOUS
  <2> PICK old : old = [row EXCEPT !.current = FALSE]
    OBVIOUS
  <2>1. rows' = [rows EXCEPT ![g] = old, ![k] = next]
    BY <1>1, <1>2, <1>7
  <2>2. k # g
    BY <1>1
  <2>3. /\ rows'[g] = old /\ rows'[k] = next
        /\ \A h \in Page \ {g, k} : rows'[h] = rows[h]
    BY <1>1, <1>4, <2>1, <2>2
  <2>4. /\ next \in Row
        /\ next.version = new.version /\ next.number = new.number
        /\ next.run = new.run /\ next.text = new.text /\ next.rev = new.rev
        /\ next.current = new.current /\ next.supersedes = g
    BY <1>1, <1>3 DEF Row
  <2>5. /\ rows'[k] \in Row
        /\ rows'[k].version = rows[g].version /\ rows'[k].number = rows[g].number
        /\ rows'[k].run = rows[g].run /\ rows'[k].text = x
        /\ rows'[k].supersedes = g /\ rows'[k].rev = rows[g].rev + 1
        /\ rows'[k].current
    BY <1>1, <1>3, <2>3, <2>4
  <2>6. Retired(g) /\ born' = k
    BY <1>7, <2>3 DEF Retired
  <2>7. Succeeded(g, x)
    BY <2>3, <2>5, <2>6 DEF Succeeded
  <2> QED BY <2>7 DEF Revised
<1> QED BY <1>5, <1>6, <1>7 DEF Revise

\* Only the page changes, and its version has a current page afterwards.
LEMMA ReviseAdvances ==
  ASSUME TypeOK, NEW v \in Version, NEW g \in CurrentOf(v),
         NEW x \in Text \cup {NoText}, Revised(g, x)
  PROVE  /\ Advance
         /\ \A w \in Version \ {v} : SameVersion(w)
<1>1. /\ g \in Page /\ g \in Stored /\ rows[g] \in Row /\ rows[g].current
      /\ rows[g].version = v
      /\ g <= born /\ born \in Nat /\ g \in Nat
  BY RowTypes, Bounds DEF CurrentOf, Stored, Page
<1>2. CASE UNCHANGED <<rows, born>>
  <2>1. \A w \in Version : SameVersion(w)
    BY <1>2 DEF SameVersion, CurrentOf, Stored, Live
  <2> QED BY <1>2, <2>1, NothingAdvances
<1>3. ASSUME NEW k \in Page \cup {NoPage}, k # g,
             born' \in Nat, born <= born', k > born \/ k = NoPage,
             Changes(g),
             \A h \in Page \ {g, k} : rows'[h] = rows[h],
             k \in Page => /\ rows'[k] \in Row /\ rows'[k].version = v
                           /\ rows'[k].current,
             g \in CurrentOf(v)' \/ k \in CurrentOf(v)',
             Live(g)' => rows'[g].version = v
      PROVE  Advance /\ \A w \in Version \ {v} : SameVersion(w)
  <2>1. k \in Page => ~Live(k)
    BY <1>1, <1>3, RowTypes, Bounds DEF NoPage, Page
  <2>2. ASSUME NEW w \in Version, w # v PROVE SameVersion(w)
    <3>1. \A h \in Page :
            /\ h \in CurrentOf(w)' <=>
                 Live(h)' /\ rows'[h].version = w /\ rows'[h].current
            /\ h \in CurrentOf(w) <=> Live(h) /\ rows[h].version = w /\ rows[h].current
      BY DEF CurrentOf, Stored
    <3>2. \A h \in Page \ {g, k} : Live(h)' <=> Live(h)
      BY <1>3 DEF Live
    <3>3. \A h \in Page : h \in CurrentOf(w)' <=> h \in CurrentOf(w)
      BY <1>1, <1>3, <2>1, <2>2, <3>1, <3>2
    <3>4. CurrentOf(w) \subseteq Page /\ CurrentOf(w)' \subseteq Page
      BY DEF CurrentOf, Stored
    <3>5. g \notin CurrentOf(w) /\ k \notin CurrentOf(w)
      BY <1>1, <2>1, <2>2, <3>1, <3>4
    <3> QED BY <1>3, <3>3, <3>4, <3>5 DEF SameVersion
  <2>3. Noticed(v)
    BY <1>3 DEF Noticed
  <2>4. \A w \in Version : Noticed(w)
    BY <2>2, <2>3, VersionStays DEF Noticed
  <2>5. \A h \in Page : h <= born => h # k
    BY <1>1, <1>3, Bounds DEF NoPage, Page
  <2>6. \A h \in Page : h <= born => (rows'[h] = rows[h] \/ Changes(h))
    BY <1>3, <2>5
  <2> QED BY <1>3, <2>2, <2>4, <2>6 DEF Advance
<1>4. CASE ReworkedAlone(g, x)
  <2>1. Changes(g)
    BY <1>1, <1>4 DEF ReworkedAlone, Changes
  <2>2. rows'[g] \in Row /\ rows'[g].version = v /\ rows'[g].current
    BY <1>1, <1>4 DEF ReworkedAlone, Reworked
  <2>3. g \in CurrentOf(v)'
    BY <1>1, <2>2, RowSentinels DEF CurrentOf, Stored, Live
  <2> PICK k \in Page \cup {NoPage} : k = NoPage
    OBVIOUS
  <2>4. k # g /\ k \notin Page
    BY <1>1, Bounds DEF NoPage, Page
  <2>5. born' \in Nat /\ born <= born'
    BY <1>1, <1>4 DEF ReworkedAlone
  <2>6. \A h \in Page \ {g, k} : rows'[h] = rows[h]
    BY <1>4 DEF ReworkedAlone
  <2> QED BY <1>3, <2>1, <2>2, <2>3, <2>4, <2>5, <2>6
<1>5. CASE Succeeded(g, x)
  <2> PICK k \in Page : k = born + 1
    BY <1>5 DEF Succeeded
  <2>1. Changes(g)
    BY <1>1, <1>5 DEF Succeeded, Changes
  <2>2. rows'[k] \in Row /\ rows'[k].version = v /\ rows'[k].current
    BY <1>1, <1>5 DEF Succeeded
  <2>3. k \in CurrentOf(v)'
    BY <2>2, RowSentinels DEF CurrentOf, Stored, Live
  <2>4. rows'[g].version = v
    BY <1>1, <1>5 DEF Succeeded, Retired, Row
  <2>5. k # g /\ born' \in Nat /\ born <= born' /\ k > born
    BY <1>1, <1>5 DEF Succeeded
  <2>6. \A h \in Page \ {g, k} : rows'[h] = rows[h]
    BY <1>5 DEF Succeeded
  <2> QED BY <1>3, <2>1, <2>2, <2>3, <2>4, <2>5, <2>6
<1> QED BY <1>2, <1>4, <1>5 DEF Revised

\* The corrected page takes the place of the one it corrects.
LEMMA ReviseRenders ==
  ASSUME TypeOK, Rendered, NEW v \in Version, NEW g \in CurrentOf(v),
         NEW x \in Text \cup {NoText}, Revised(g, x)
  PROVE  Rendered'
<1> PICK S \in SUBSET Page : S = CurrentOf(v)
  BY DEF CurrentOf, Stored
<1> PICK T \in SUBSET Page : T = CurrentOf(v)'
  BY DEF CurrentOf, Stored
<1> PICK n \in 0..MaxNumber : Rendering(v, n)
  BY DEF Rendered
<1>1. /\ {rows[h].number : h \in S} = 1..n
      /\ \A h, k \in S : rows[h].number = rows[k].number => h = k
      /\ \A h, k \in S : rows[h].run = rows[k].run
  BY DEF Rendering
<1>2. \A h \in Page : h \in S <=> Live(h) /\ rows[h].version = v /\ rows[h].current
  BY DEF CurrentOf, Stored
<1>3. \A h \in Page : h \in T <=> Live(h)' /\ rows'[h].version = v /\ rows'[h].current
  BY DEF CurrentOf, Stored
<1>4. /\ g \in S /\ g <= born /\ rows[g] \in Row /\ born \in Nat /\ g \in Nat
  BY <1>2, RowTypes, Bounds DEF Page
<1>5. ASSUME NEW k \in Page, k = g \/ ~Live(k),
             k # g => g \notin T,
             k \in T /\ rows'[k].number = rows[g].number /\ rows'[k].run = rows[g].run,
             \A h \in Page \ {g, k} : rows'[h] = rows[h]
      PROVE  Rendering(v, n)'
  <2>1. \A h \in Page : h \in T <=> h = k \/ (h \in S /\ h # g)
    <3>1. \A h \in Page \ {g, k} : Live(h)' <=> Live(h)
      BY <1>5 DEF Live
    <3> QED BY <1>2, <1>3, <1>4, <1>5, <3>1
  <2>2. \A h \in S : h # g => h # k /\ rows'[h] = rows[h]
    BY <1>2, <1>5
  <2>3. {rows'[h].number : h \in T} = 1..n
    <3>1. \A h \in T : rows'[h].number \in 1..n
      BY <1>1, <1>4, <1>5, <2>1, <2>2
    <3>2. \A i \in 1..n : \E h \in T : rows'[h].number = i
      <4>1. \A i \in 1..n : \E h \in S : rows[h].number = i
        BY <1>1
      <4> QED BY <1>4, <1>5, <2>1, <2>2, <4>1
    <3> QED BY <3>1, <3>2
  <2>4. \A h, l \in T : rows'[h].number = rows'[l].number => h = l
    BY <1>1, <1>4, <1>5, <2>1, <2>2
  <2>5. \A h, l \in T : rows'[h].run = rows'[l].run
    BY <1>1, <1>4, <1>5, <2>1, <2>2
  <2> QED BY <2>3, <2>4, <2>5 DEF Rendering
<1>6. Rendering(v, n)' \/ UNCHANGED rows
  <2>1. CASE ReworkedAlone(g, x)
    <3>1. /\ rows'[g] \in Row /\ rows'[g].version = v /\ rows'[g].current
          /\ rows'[g].number = rows[g].number /\ rows'[g].run = rows[g].run
      BY <1>2, <1>4, <2>1 DEF ReworkedAlone, Reworked
    <3>2. g \in T
      BY <1>3, <1>4, <3>1, RowSentinels DEF Live
    <3> QED BY <1>4, <1>5, <2>1, <3>1, <3>2 DEF ReworkedAlone
  <2>2. CASE Succeeded(g, x)
    <3> PICK k \in Page : k = born + 1
      BY <2>2 DEF Succeeded
    <3>1. /\ rows'[k] \in Row /\ rows'[k].version = v /\ rows'[k].current
          /\ rows'[k].number = rows[g].number /\ rows'[k].run = rows[g].run
      BY <1>2, <1>4, <2>2 DEF Succeeded
    <3>2. k \in T
      BY <1>3, <3>1, RowSentinels DEF Live
    <3>3. g \notin T
      BY <1>3, <1>4, <2>2 DEF Succeeded, Retired, Row
    <3>4. ~Live(k)
      BY <1>4, RowTypes
    <3>5. \A h \in Page \ {g, k} : rows'[h] = rows[h]
      BY <2>2 DEF Succeeded
    <3> QED BY <1>5, <3>1, <3>2, <3>3, <3>4, <3>5
  <2> QED BY <2>1, <2>2 DEF Revised
<1>7. CASE UNCHANGED rows
  <2>1. SameVersion(v)
    BY <1>7 DEF SameVersion, CurrentOf, Stored, Live
  <2> QED BY <2>1, VersionStays, ReviseAdvances DEF Rendered
<1>8. CASE Rendering(v, n)'
  <2>1. \A w \in Version \ {v} : \E m \in 0..MaxNumber : Rendering(w, m)'
    BY ReviseAdvances, VersionStays DEF Rendered
  <2> QED BY <1>8, <2>1 DEF Rendered
<1> QED BY <1>6, <1>7, <1>8

\* A successor supersedes the page it corrects, which was still current.
LEMMA ReviseLineage ==
  ASSUME TypeOK, Lineage, NEW v \in Version, NEW g \in CurrentOf(v),
         NEW x \in Text \cup {NoText}, Revised(g, x)
  PROVE  Lineage'
<1>1. /\ g \in Page /\ Live(g) /\ rows[g] \in Row /\ rows[g].current
      /\ g <= born /\ born \in Nat /\ g \in Nat /\ Page \subseteq Nat
  BY RowTypes, Bounds DEF CurrentOf, Stored, Page
<1>2. \A h \in Stored : rows[h].supersedes # NoPage =>
        rows[h].supersedes # g /\ rows[h].supersedes \in Page
  <2>1. \A h \in Stored : rows[h] \in Row
    BY RowTypes DEF Stored
  <2> QED BY <1>1, <2>1 DEF Lineage, Row
<1>3. CASE UNCHANGED <<rows, born>>
  BY <1>3 DEF Lineage, Stored, Live
<1>4. CASE ReworkedAlone(g, x)
  <2>1. /\ rows'[g] \in Row /\ Live(g)'
        /\ rows'[g].version = rows[g].version /\ rows'[g].number = rows[g].number
        /\ rows'[g].supersedes = rows[g].supersedes
        /\ rows'[g].rev = rows[g].rev + 1 /\ rows'[g].current
    BY <1>4, RowSentinels DEF ReworkedAlone, Reworked, Live
  <2>2. \A h \in Page \ {g} : rows'[h] = rows[h] /\ (Live(h)' <=> Live(h))
    BY <1>4 DEF ReworkedAlone, Live
  <2>3. Stored' = Stored
    BY <1>1, <2>1, <2>2 DEF Stored
  <2>4. \A h \in Stored : rows'[h].supersedes = rows[h].supersedes
    BY <2>1, <2>2 DEF Stored
  <2>5. \A h \in Stored : rows[h] \in Row /\ rows[h].rev \in Nat /\ h \in Page
    BY RowTypes DEF Stored, Row
  <2>6. \A h \in Stored : rows[h].rev <= rows'[h].rev /\ rows'[h].rev \in Nat
    BY <2>1, <2>2, <2>5
  <2>7. ASSUME NEW h \in Stored, NEW old, old = rows[h].supersedes, old # NoPage
        PROVE  /\ old < h /\ Live(old)' /\ ~rows'[old].current
               /\ rows'[old].version = rows'[h].version
               /\ rows'[old].number = rows'[h].number
               /\ rows'[old].rev < rows'[h].rev
               /\ \A k \in Stored : rows[k].supersedes = old => k = h
    <3>1. /\ old < h /\ Live(old) /\ ~rows[old].current
          /\ rows[old].version = rows[h].version
          /\ rows[old].number = rows[h].number
          /\ rows[old].rev < rows[h].rev
          /\ \A k \in Stored : rows[k].supersedes = old => k = h
      BY <2>7 DEF Lineage
    <3>2. old \in Page /\ old # g /\ old \in Stored
      BY <1>2, <2>7, <3>1, RowTypes
    <3>3. rows'[old] = rows[old] /\ Live(old)'
      BY <2>2, <3>1, <3>2
    <3>4. rows'[old].rev < rows'[h].rev
      BY <2>5, <2>6, <3>1, <3>2, <3>3
    <3>5. rows'[h].version = rows[h].version /\ rows'[h].number = rows[h].number
      BY <2>1, <2>2, <2>5
    <3> QED BY <3>1, <3>3, <3>4, <3>5
  <2> QED BY <2>3, <2>4, <2>7 DEF Lineage
<1>5. CASE Succeeded(g, x)
  <2> PICK k \in Page : k = born + 1
    BY <1>5 DEF Succeeded
  <2>1. /\ rows'[k] \in Row /\ Live(k)'
        /\ rows'[k].version = rows[g].version /\ rows'[k].number = rows[g].number
        /\ rows'[k].supersedes = g /\ rows'[k].rev = rows[g].rev + 1
    BY <1>5, RowSentinels DEF Succeeded, Live
  <2>2. rows'[g] = [rows[g] EXCEPT !.current = FALSE]
    BY <1>5 DEF Succeeded, Retired
  <2>3. /\ rows'[g] \in Row /\ ~rows'[g].current
        /\ rows'[g].version = rows[g].version /\ rows'[g].number = rows[g].number
        /\ rows'[g].supersedes = rows[g].supersedes /\ rows'[g].rev = rows[g].rev
    BY <1>1, <2>2 DEF Row
  <2>4. Live(g)'
    BY <2>3, RowSentinels DEF Live
  <2>5. \A h \in Page \ {g, k} : rows'[h] = rows[h] /\ (Live(h)' <=> Live(h))
    BY <1>5 DEF Succeeded, Live
  <2>6. k # g /\ k > g /\ ~Live(k)
    BY <1>1, RowTypes
  <2>7. \A h \in Page : h \in Stored' <=> h = k \/ h \in Stored
    BY <1>1, <2>1, <2>4, <2>5, <2>6 DEF Stored
  <2>8. \A h \in Stored :
          /\ h \in Page /\ h # k /\ rows[h] \in Row
          /\ rows'[h].supersedes = rows[h].supersedes
          /\ rows'[h].version = rows[h].version /\ rows'[h].number = rows[h].number
          /\ rows'[h].rev = rows[h].rev
    BY <2>3, <2>5, <2>6, RowTypes DEF Stored
  <2>9. ASSUME NEW h \in Stored, NEW old, old = rows[h].supersedes, old # NoPage
        PROVE  /\ old < h /\ Live(old)' /\ ~rows'[old].current
               /\ rows'[old].version = rows'[h].version
               /\ rows'[old].number = rows'[h].number
               /\ rows'[old].rev < rows'[h].rev
               /\ old # g
               /\ \A l \in Stored : rows[l].supersedes = old => l = h
    <3>1. /\ old < h /\ Live(old) /\ ~rows[old].current
          /\ rows[old].version = rows[h].version
          /\ rows[old].number = rows[h].number
          /\ rows[old].rev < rows[h].rev
          /\ \A l \in Stored : rows[l].supersedes = old => l = h
      BY <2>9 DEF Lineage
    <3>2. old \in Page /\ old # g /\ old \in Stored /\ old # k
      BY <1>2, <2>6, <2>9, <3>1, RowTypes
    <3> QED BY <2>5, <2>8, <3>1, <3>2
  <2>10. /\ g < k /\ Live(g)' /\ ~rows'[g].current
         /\ rows'[g].version = rows'[k].version
         /\ rows'[g].number = rows'[k].number
         /\ rows'[g].rev < rows'[k].rev
         /\ \A l \in Stored : rows[l].supersedes # g
    <3>1. rows[g].rev \in Nat
      BY <1>1 DEF Row
    <3>2. g # NoPage
      BY <1>1, Bounds DEF Page, NoPage
    <3>3. \A l \in Stored : rows[l].supersedes # g
      BY <1>2, <3>2
    <3> QED BY <1>1, <2>1, <2>3, <2>4, <2>6, <3>1, <3>3
  <2> SUFFICES ASSUME NEW h \in Stored', NEW old, old = rows'[h].supersedes,
                      old # NoPage
               PROVE  /\ old < h /\ Live(old)' /\ ~rows'[old].current
                      /\ rows'[old].version = rows'[h].version
                      /\ rows'[old].number = rows'[h].number
                      /\ rows'[old].rev < rows'[h].rev
                      /\ \A l \in Stored' : rows'[l].supersedes = old => l = h
    BY DEF Lineage
  <2>11. h \in Page
    BY DEF Stored
  <2>12. CASE h = k
    BY <2>1, <2>7, <2>8, <2>10, <2>11, <2>12 DEF Stored
  <2>13. CASE h \in Stored
    <3>1. old = rows[h].supersedes
      BY <2>8, <2>13
    <3>2. \A l \in Stored' : rows'[l].supersedes = old => l = h
      <4>1. \A l \in Stored' : l = k \/ l \in Stored
        BY <2>7 DEF Stored
      <4> QED BY <2>1, <2>8, <2>9, <2>13, <3>1, <4>1
    <3> QED BY <2>9, <2>13, <3>1, <3>2
  <2> QED BY <2>7, <2>11, <2>12, <2>13
<1> QED BY <1>3, <1>4, <1>5 DEF Revised

\* No run gains or loses its last page.
LEMMA ReviseRuns ==
  ASSUME TypeOK, NEW v \in Version, NEW g \in CurrentOf(v),
         NEW x \in Text \cup {NoText}, Revised(g, x)
  PROVE  \A h \in Stored' : \E f \in Stored : rows'[h].run = rows[f].run
<1>1. g \in Page /\ g \in Stored /\ rows[g] \in Row
  BY RowTypes DEF CurrentOf, Stored
<1>2. CASE UNCHANGED <<rows, born>>
  BY <1>2 DEF Stored, Live
<1>3. CASE ReworkedAlone(g, x)
  BY <1>1, <1>3 DEF ReworkedAlone, Stored, Live
<1>4. CASE Succeeded(g, x)
  <2>1. rows'[g].run = rows[g].run
    BY <1>1, <1>4 DEF Succeeded, Retired, Row
  <2>2. rows'[born + 1].run = rows[g].run
    BY <1>4 DEF Succeeded
  <2>3. \A h \in Page \ {g, born + 1} : rows'[h] = rows[h]
    BY <1>4 DEF Succeeded
  <2> QED BY <1>1, <2>1, <2>2, <2>3 DEF Stored, Live
<1> QED BY <1>2, <1>3, <1>4 DEF Revised

----------------------------------------------------------------------------
\* Steps of a process.

\* Nothing a process remembers changes.
Still(q) ==
  UNCHANGED <<pc[q], run[q], version[q], renew[q], seen[q], kept[q], base[q],
              list[q]>>

\* The end of a command leaves nothing of it.
LEMMA FinishIs ==
  ASSUME TypeOK, NEW p \in Process, Finish(p)
  PROVE  /\ pc' \in [Process -> Steps] /\ run' \in [Process -> Run \cup {NoRun}]
         /\ version' \in [Process -> Version] /\ renew' \in [Process -> BOOLEAN]
         /\ seen' \in [Process -> SUBSET Seen] /\ kept' \in [Process -> SUBSET Seen]
         /\ base' \in [Process -> Proposal \cup {NoProposal}]
         /\ list' \in [Process -> SUBSET Run]
         /\ lease' \in [Run -> Process \cup {NoProcess}]
         /\ lock' \in Process \cup {NoProcess}
         /\ pc'[p] = "idle" /\ run'[p] = NoRun
         /\ seen'[p] = {} /\ kept'[p] = {} /\ list'[p] = {}
         /\ \A q \in Process \ {p} : Still(q)
         /\ \A r \in Run : lease'[r] = IF lease[r] = p THEN NoProcess ELSE lease[r]
         /\ lock' = IF lock = p THEN NoProcess ELSE lock
<1>1. 1 \in Version
  BY Bounds DEF Version
<1>2. "idle" \in Steps
  BY DEF Steps
<1>3. /\ pc' \in [Process -> Steps] /\ run' \in [Process -> Run \cup {NoRun}]
      /\ version' \in [Process -> Version] /\ renew' \in [Process -> BOOLEAN]
  BY <1>1, <1>2 DEF TypeOK, Finish, Forget, Goto
<1>4. /\ seen' \in [Process -> SUBSET Seen] /\ kept' \in [Process -> SUBSET Seen]
      /\ base' \in [Process -> Proposal \cup {NoProposal}]
      /\ list' \in [Process -> SUBSET Run]
  BY DEF TypeOK, Finish, Forget
<1>5. /\ lease' \in [Run -> Process \cup {NoProcess}]
      /\ lock' \in Process \cup {NoProcess}
      /\ \A r \in Run : lease'[r] = IF lease[r] = p THEN NoProcess ELSE lease[r]
      /\ lock' = IF lock = p THEN NoProcess ELSE lock
  BY DEF TypeOK, Finish
<1>6. /\ pc'[p] = "idle" /\ run'[p] = NoRun
      /\ seen'[p] = {} /\ kept'[p] = {} /\ list'[p] = {}
  BY DEF TypeOK, Finish, Forget, Goto
<1>7. \A q \in Process \ {p} : Still(q)
  BY DEF TypeOK, Finish, Forget, Goto, Still
<1> QED BY <1>3, <1>4, <1>5, <1>6, <1>7

\* Steps that end the command and change neither pages nor proposals.
Ending(p) ==
  \/ ExtractRelease(p) \/ Close(p) \/ ReconcileUnsynced(p)
  \/ GiveUp(p) \/ BusyTimeout(p) \/ Crash(p)
\* Steps of an extraction before it publishes, and of its end.
Extraction(p) ==
  \/ \E force \in BOOLEAN : ExtractRead(p, force)
  \/ \E r \in Run : ExtractLease(p, r)
  \/ ExtractStart(p) \/ ExtractOutput(p) \/ ExtractStage(p)
  \/ ExtractRendered(p) \/ ExtractAbort(p) \/ ExtractMark(p)
\* Steps of a reconciliation.
Reconciliation(p) ==
  \/ Open(p)
  \/ \E r \in Run : ReconcileSkip(p, r) \/ ReconcileLease(p, r)
  \/ ReconcileBegin(p) \/ ReconcileStaging(p)
  \/ ReconcileImages(p) \/ ReconcileCommit(p) \/ ReconcileDone(p)
\* Steps of a reader.
Selection(p) ==
  \/ CompileBase(p)
  \/ \E S \in SUBSET CurrentOf(latest) : CompileSelect(p, S)
  \/ \E cited \in SUBSET Stored : CompileRetain(p, cited)
  \/ \E g \in Page : AcceptRead(p, g)

\* A step of a process is one of these, or writes pages or a proposal.
LEMMA CommandIs ==
  ASSUME NEW p \in Process, Command(p)
  PROVE  \/ Ending(p) \/ Extraction(p) \/ Reconciliation(p) \/ Selection(p)
         \/ \E n \in Number : \E readings \in [1..n -> Readings] :
              ExtractPublish(p, n, readings)
         \/ \E q \in Proposal : CompilePublish(p, q)
         \/ AcceptWrite(p)
BY DEF Command, ExtractStep, ReconcileStep, CompileStep, Ending, Extraction,
       Reconciliation, Selection

\* Rows change when pages are published or accepted.
LEMMA RowsStay ==
  ASSUME NEW p \in Process,
         \/ Ending(p) \/ Extraction(p) \/ Reconciliation(p) \/ Selection(p)
         \/ \E q \in Proposal : CompilePublish(p, q)
  PROVE  UNCHANGED <<kind, latest, rows, born>>
<1> USE DEF pageVars
<1>1. CASE Ending(p)
  BY <1>1 DEF Ending, ExtractRelease, Close, ReconcileUnsynced,
              GiveUp, BusyTimeout, Crash
<1>2. CASE Extraction(p)
  BY <1>2 DEF Extraction, ExtractRead, ExtractLease, ExtractStart, ExtractOutput,
              ExtractStage, ExtractRendered, ExtractAbort, ExtractMark
<1>3. CASE Reconciliation(p)
  BY <1>3 DEF Reconciliation, Open, ReconcileSkip, ReconcileLease, ReconcileBegin,
              ReconcileStaging, ReconcileImages, ReconcileCommit, ReconcileDone
<1>4. CASE Selection(p)
  BY <1>4 DEF Selection, CompileBase, CompileSelect, CompileRetain, AcceptRead
<1>5. CASE \E q \in Proposal : CompilePublish(p, q)
  BY <1>5 DEF CompilePublish
<1> QED BY <1>1, <1>2, <1>3, <1>4, <1>5

\* One process at a time moves.
LEMMA OthersStay ==
  ASSUME TypeOK, NEW p \in Process, Command(p), NEW q \in Process \ {p}
  PROVE  Still(q)
<1> USE DEF localVars, Goto
<1>1. CASE Ending(p)
  <2>1. Finish(p)
    BY <1>1 DEF Ending, ExtractRelease, Close, ReconcileUnsynced,
                GiveUp, BusyTimeout, Crash
  <2> QED BY <2>1, FinishIs
<1>2. CASE Extraction(p)
  BY <1>2 DEF Extraction, ExtractRead, ExtractLease, ExtractStart, ExtractOutput,
              ExtractStage, ExtractRendered, ExtractAbort, ExtractMark, TypeOK, Still
<1>3. CASE Reconciliation(p)
  BY <1>3 DEF Reconciliation, Open, ReconcileSkip, ReconcileLease, ReconcileBegin,
              ReconcileStaging, ReconcileImages, ReconcileCommit, ReconcileDone,
              TypeOK, Still
<1>4. CASE Selection(p)
  BY <1>4 DEF Selection, CompileBase, CompileSelect, CompileRetain, AcceptRead,
              TypeOK, Still
<1>5. CASE \E n \in Number : \E readings \in [1..n -> Readings] :
             ExtractPublish(p, n, readings)
  <2> PICK n \in Number : \E readings \in [1..n -> Readings] :
             ExtractPublish(p, n, readings)
    BY <1>5
  <2>1. PICK readings \in [1..n -> Readings] : ExtractPublish(p, n, readings)
    OBVIOUS
  <2>2. Goto(p, "release") /\ UNCHANGED localVars
    BY <2>1 DEF ExtractPublish
  <2> QED BY <2>2 DEF TypeOK, Still
<1>6. CASE \E o \in Proposal : CompilePublish(p, o)
  BY <1>6, FinishIs DEF CompilePublish
<1>7. CASE AcceptWrite(p)
  BY <1>7, FinishIs DEF AcceptWrite
<1> QED BY <1>1, <1>2, <1>3, <1>4, <1>5, <1>6, <1>7, CommandIs

\* Neither the record of a run nor its directories change.
SameRun(r) ==
  /\ runs'[r] = runs[r]
  /\ r \in images' <=> r \in images
  /\ r \in staging' <=> r \in staging

\* A process touches the run it works on and no other.
LEMMA OtherRunsStay ==
  ASSUME TypeOK, NEW p \in Process, Command(p), NEW r \in Run \ {run[p]}
  PROVE  SameRun(r)
<1> USE DEF runVars, outputVars, EndRun
<1>1. CASE Ending(p)
  BY <1>1 DEF Ending, ExtractRelease, Close, ReconcileUnsynced,
              GiveUp, BusyTimeout, Crash, TypeOK, SameRun
<1>2. CASE Extraction(p)
  BY <1>2 DEF Extraction, ExtractRead, ExtractLease, ExtractStart, ExtractOutput,
              ExtractStage, ExtractRendered, ExtractAbort, ExtractMark, TypeOK, SameRun
<1>3. CASE Reconciliation(p)
  BY <1>3 DEF Reconciliation, Open, ReconcileSkip, ReconcileLease, ReconcileBegin,
              ReconcileStaging, ReconcileImages, ReconcileCommit, ReconcileDone,
              TypeOK, SameRun
<1>4. CASE Selection(p)
  BY <1>4 DEF Selection, CompileBase, CompileSelect, CompileRetain, AcceptRead,
              SameRun
<1>5. CASE \E n \in Number : \E readings \in [1..n -> Readings] :
             ExtractPublish(p, n, readings)
  <2> PICK n \in Number : \E readings \in [1..n -> Readings] :
             ExtractPublish(p, n, readings)
    BY <1>5
  <2>1. PICK readings \in [1..n -> Readings] : ExtractPublish(p, n, readings)
    OBVIOUS
  <2>2. /\ UNCHANGED outputVars
        /\ \E status : runs' = [runs EXCEPT ![run[p]] = status]
    BY <2>1 DEF ExtractPublish
  <2> QED BY <2>2 DEF TypeOK, SameRun
<1>6. CASE \E q \in Proposal : CompilePublish(p, q)
  BY <1>6 DEF CompilePublish, SameRun
<1>7. CASE AcceptWrite(p)
  BY <1>7 DEF AcceptWrite, SameRun
<1> QED BY <1>1, <1>2, <1>3, <1>4, <1>5, <1>6, <1>7, CommandIs

\* The rows written by a publication have their type.
LEMMA PublishTyped ==
  ASSUME TypeOK, NEW p \in Process, NEW n \in Number,
         NEW readings \in [1..n -> Readings], ExtractPublish(p, n, readings)
  PROVE  /\ rows' \in [Page -> Row \cup {NoRow, Deleted}]
         /\ \A g \in Page : rows'[g] = NoRow <=> g > born'
<1> PICK v \in Version : v = version[p]
  BY DEF TypeOK
<1>1. rows' = [g \in Page |-> rows'[g]]
  BY DEF ExtractPublish
<1>2. /\ born \in Nat /\ born' \in Nat /\ born <= born' /\ Page \subseteq Nat
      /\ NewPages(p, n) = (born + 1)..born'
  BY RowTypes, PublishRows, Bounds DEF Page
<1>3. ASSUME NEW g \in Page
      PROVE  /\ rows'[g] \in Row \cup {NoRow, Deleted}
             /\ rows'[g] = NoRow <=> g > born'
  <2>1. CASE g \in CurrentOf(v)
    <3>1. rows[g] \in Row /\ g <= born
      BY <2>1, PublishRows
    <3>2. rows'[g] \in Row \cup {Deleted}
      <4>1. rows[g].number \in Nat /\ n \in Nat
        <5>1. Number \subseteq Nat
          BY Bounds DEF Number
        <5> QED BY <3>1, <5>1 DEF Row
      <4>2. CASE Retired(g)
        BY <3>1, <4>2 DEF Retired, Row
      <4>3. CASE ~Retired(g)
        BY <2>1, <4>1, <4>3, PublishRows DEF Reworked
      <4> QED BY <4>2, <4>3
    <3> QED BY <1>2, <3>1, <3>2, RowSentinels, Sentinels
  <2>2. CASE g \in NewPages(p, n)
    <3>1. rows'[g] \in Row
      BY <2>2, PublishRows DEF Begun
    <3> QED BY <1>2, <2>2, <3>1, RowSentinels
  <2>3. CASE g \notin CurrentOf(v) /\ g \notin NewPages(p, n)
    <3>1. rows'[g] = rows[g]
      BY <2>3, PublishRows
    <3>2. g <= born \/ g > born'
      BY <1>2, <2>3
    <3> QED BY <1>2, <3>1, <3>2 DEF TypeOK
  <2> QED BY <2>1, <2>2, <2>3
<1>4. rows' \in [Page -> Row \cup {NoRow, Deleted}]
  BY <1>1, <1>3
<1> QED BY <1>3, <1>4

\* The rows written by a correction or an acceptance have their type.
LEMMA ReviseTyped ==
  ASSUME TypeOK, NEW v \in Version, NEW g \in CurrentOf(v),
         NEW x \in Text \cup {NoText}, Revise(g, x)
  PROVE  /\ rows' \in [Page -> Row \cup {NoRow, Deleted}]
         /\ \A h \in Page : rows'[h] = NoRow <=> h > born'
         /\ born' \in 0..MaxPage
<1>1. /\ g \in Page /\ Live(g) /\ rows[g] \in Row /\ g <= born
      /\ born \in Nat /\ Page \subseteq Nat /\ MaxPage \in Nat /\ born <= MaxPage
  BY RowTypes, Bounds DEF CurrentOf, Stored, Page, TypeOK
<1>2. rows' = [h \in Page |-> rows'[h]]
  BY DEF Revise, TypeOK
<1>3. /\ \A h \in Page : rows'[h] \in Row \cup {NoRow, Deleted}
      /\ \A h \in Page : rows'[h] = NoRow <=> h > born'
      /\ born' \in 0..MaxPage
  <2>1. CASE UNCHANGED <<rows, born>>
    BY <2>1 DEF TypeOK
  <2>2. CASE ReworkedAlone(g, x)
    BY <1>1, <2>2, RowSentinels DEF ReworkedAlone, Reworked, TypeOK
  <2>3. CASE Succeeded(g, x)
    <3> PICK k \in Page : k = born + 1
      BY <2>3 DEF Succeeded
    <3>1. rows'[g] \in Row
      BY <1>1, <2>3 DEF Succeeded, Retired, Row
    <3>2. /\ rows'[k] \in Row /\ born' = k
          /\ \A h \in Page \ {g, k} : rows'[h] = rows[h]
      BY <2>3 DEF Succeeded
    <3>3. k \in 0..MaxPage
      BY <1>1 DEF Page
    <3>4. \A h \in Page : rows'[h] = NoRow <=> h > k
      BY <1>1, <3>1, <3>2, RowSentinels DEF TypeOK
    <3>5. \A h \in Page : rows'[h] \in Row \cup {NoRow, Deleted}
      BY <3>1, <3>2 DEF TypeOK
    <3> QED BY <3>2, <3>3, <3>4, <3>5
  <2> QED BY <2>1, <2>2, <2>3, ReviseRows DEF Revised
<1> QED BY <1>2, <1>3

\* An acceptance revises a current page of the latest version.
LEMMA AcceptWriteIs ==
  ASSUME TypeOK, NEW p \in Process, AcceptWrite(p)
  PROVE  \E e \in seen[p], g \in CurrentOf(latest) :
           /\ rows[g].text \in Text \cup {NoText} /\ AsInspected(e, g)
           /\ Revise(g, rows[g].text) /\ Revised(g, rows[g].text)
<1>1. PICK e \in seen[p], g \in CurrentOf(latest) :
        AsInspected(e, g) /\ Revise(g, rows[g].text)
  BY DEF AcceptWrite
<1>2. rows[g].text \in Text \cup {NoText}
  <2>1. rows[g] \in Row
    BY RowTypes DEF CurrentOf, Stored
  <2> QED BY <2>1 DEF Row
<1>3. latest \in Version
  BY DEF TypeOK
<1>4. Revised(g, rows[g].text)
  BY <1>1, <1>2, <1>3, ReviseRows
<1> QED BY <1>1, <1>2, <1>4

\* Who works on a run has one.
LEMMA HoldsRun ==
  ASSUME TypeOK, Leased, NEW p \in Process, pc[p] \in Holding
  PROVE  run[p] \in Run /\ lease[run[p]] = p
BY DEF TypeOK, Leased

\* Every step of a process keeps the types.
LEMMA CommandTyped ==
  ASSUME TypeOK, Leased, NEW p \in Process, Command(p), Tracked
  PROVE  TypeOK'
<1> USE DEF pageVars, proposalVars, outputVars, runVars, localVars, boundVars, Goto
<1>1. overtaken' \subseteq Process
  BY DEF Tracked
<1>2. {"idle", "opened", "revision", "start", "output", "stage", "adapters",
       "publish", "mark", "release", "reconcile", "reconcile_begin",
       "reconcile_staging", "reconcile_images", "reconcile_commit", "accept",
       "select", "generate", "propose"} \subseteq Steps
  BY DEF Steps
<1>3. /\ \A v \in Version : PageSnapshot(v) \in SUBSET Seen
      /\ \A g \in Stored : Snapshot(g) \in Seen /\ g \in Page
  <2>1. \A g \in Stored : g \in Page /\ Live(g)
    BY DEF Stored
  <2>2. \A g \in Stored : Snapshot(g) \in Seen
    BY <2>1, SnapshotIs
  <2> QED BY <2>1, <2>2 DEF PageSnapshot, CurrentOf
<1>4. CASE Ending(p)
  <2>1. Finish(p)
    BY <1>4 DEF Ending, ExtractRelease, Close, ReconcileUnsynced,
                GiveUp, BusyTimeout, Crash
  <2>2. /\ runs' \in [Run -> {"none", "running", "completed", "unusable", "failed"}]
        /\ UNCHANGED <<kind, latest, rows, born, evidence, pending, applied, baseOf,
                       images, staging, stagingRoot, corrections>>
    BY <1>4 DEF Ending, ExtractRelease, Close, ReconcileUnsynced,
                GiveUp, BusyTimeout, Crash, TypeOK, EndRun
  <2>3. faults' \in 0..MaxFaults
    BY <1>4, Bounds DEF Ending, ExtractRelease, Close,
                ReconcileUnsynced, GiveUp, BusyTimeout, Crash, TypeOK
  <2> QED BY <1>1, <2>1, <2>2, <2>3, FinishIs DEF TypeOK
<1>5. CASE \E force \in BOOLEAN : ExtractRead(p, force)
  BY <1>1, <1>2, <1>3, <1>5 DEF ExtractRead, TypeOK
<1>6. CASE \E r \in Run : ExtractLease(p, r)
  <2> PICK r \in Run : ExtractLease(p, r)
    BY <1>6
  <2>1. renew' \in [Process -> BOOLEAN]
    BY DEF ExtractLease, TypeOK
  <2> QED BY <1>1, <1>2, <2>1 DEF ExtractLease, TypeOK
<1>7. CASE ExtractStart(p)
  BY <1>1, <1>2, <1>7 DEF ExtractStart, TypeOK
<1>8. CASE ExtractOutput(p) \/ ExtractStage(p) \/ ExtractRendered(p) \/ ExtractAbort(p)
  <2>1. run[p] \in Run
    BY <1>8, HoldsRun DEF ExtractOutput, ExtractStage, ExtractRendered,
       ExtractAbort, Holding, At
  <2>2. /\ images' \subseteq Run /\ staging' \subseteq Run /\ stagingRoot' \in BOOLEAN
        /\ \E here \in {"stage", "publish", "adapters", "mark"} : Goto(p, here)
        /\ UNCHANGED <<pageVars, proposalVars, runs, lease, lock, localVars, boundVars>>
    BY <1>8, <2>1 DEF ExtractOutput, ExtractStage, ExtractRendered, ExtractAbort, TypeOK
  <2>3. pc' \in [Process -> Steps]
    BY <1>2, <2>2 DEF TypeOK
  <2> QED BY <1>1, <2>2, <2>3 DEF TypeOK
<1>9. CASE Reconciliation(p)
  BY <1>1, <1>2, <1>9 DEF Reconciliation, Open, ReconcileSkip, ReconcileLease,
     ReconcileBegin, ReconcileStaging, ReconcileImages, ReconcileCommit,
     ReconcileDone, TypeOK
<1>10. CASE CompileBase(p)
  BY <1>1, <1>2, <1>10 DEF CompileBase, TypeOK
<1>11. CASE \E S \in SUBSET CurrentOf(latest) : CompileSelect(p, S)
  <2> PICK S \in SUBSET CurrentOf(latest) : CompileSelect(p, S)
    BY <1>11
  <2>1. {Snapshot(g) : g \in S} \in SUBSET Seen
    BY <1>3 DEF CurrentOf
  <2> QED BY <1>1, <1>2, <2>1 DEF CompileSelect, TypeOK
<1>12. CASE \E cited \in SUBSET Stored : CompileRetain(p, cited)
  <2> PICK cited \in SUBSET Stored : CompileRetain(p, cited)
    BY <1>12
  <2>1. {Snapshot(g) : g \in cited \ {e.page : e \in seen[p]}} \in SUBSET Seen
    BY <1>3
  <2> QED BY <1>1, <1>2, <2>1 DEF CompileRetain, TypeOK
<1>13. CASE \E g \in Page : AcceptRead(p, g)
  BY <1>1, <1>2, <1>3, <1>13 DEF AcceptRead, CurrentOf, TypeOK
<1>14. CASE \E q \in Proposal : CompilePublish(p, q)
  <2> PICK q \in Proposal : CompilePublish(p, q)
    BY <1>14
  <2>1. seen[p] \cup kept[p] \in SUBSET Seen /\ base[p] \in Proposal \cup {NoProposal}
    BY DEF TypeOK
  <2>2. /\ evidence' \in [Proposal -> SUBSET Seen]
        /\ pending' \in Proposal /\ applied' = applied
        /\ baseOf' \in [Proposal -> Proposal \cup {NoProposal}]
        /\ UNCHANGED <<pageVars, runs, outputVars, boundVars>>
    BY <2>1 DEF CompilePublish, TypeOK
  <2>3. Finish(p)
    BY DEF CompilePublish
  <2> QED BY <1>1, <2>2, <2>3, FinishIs DEF TypeOK
<1>15. CASE AcceptWrite(p)
  <2>1. /\ rows' \in [Page -> Row \cup {NoRow, Deleted}]
        /\ \A h \in Page : rows'[h] = NoRow <=> h > born'
        /\ born' \in 0..MaxPage
    <3>1. latest \in Version
      BY DEF TypeOK
    <3> QED BY <1>15, <3>1, AcceptWriteIs, ReviseTyped
  <2>2. /\ Finish(p) /\ corrections' \in 0..MaxCorrections
        /\ UNCHANGED <<kind, latest, proposalVars, runs, outputVars, faults>>
    BY <1>15, Bounds DEF AcceptWrite, TypeOK
  <2> QED BY <1>1, <2>1, <2>2, FinishIs DEF TypeOK
<1>16. CASE \E n \in Number : \E readings \in [1..n -> Readings] :
              ExtractPublish(p, n, readings)
  <2> PICK n \in Number : \E readings \in [1..n -> Readings] :
             ExtractPublish(p, n, readings)
    BY <1>16
  <2>1. PICK readings \in [1..n -> Readings] : ExtractPublish(p, n, readings)
    OBVIOUS
  <2>2. /\ rows' \in [Page -> Row \cup {NoRow, Deleted}]
        /\ \A g \in Page : rows'[g] = NoRow <=> g > born'
        /\ born' \in 0..MaxPage
    BY <2>1, PublishTyped, PublishRows
  <2>3. /\ UNCHANGED <<kind, latest, proposalVars, lease, outputVars, lock,
                       localVars, boundVars>>
        /\ pc' \in [Process -> Steps]
        /\ \E status \in {"completed", "unusable"} :
             runs' = [runs EXCEPT ![run[p]] = status]
    BY <1>2, <2>1 DEF ExtractPublish, EndRun, TypeOK
  <2> QED BY <1>1, <2>2, <2>3 DEF TypeOK
<1>17. CASE ExtractMark(p)
  <2>1. pc' \in [Process -> Steps]
    BY <1>2, <1>17 DEF ExtractMark, TypeOK
  <2>2. runs' = [runs EXCEPT ![run[p]] = "failed"]
    BY <1>17 DEF ExtractMark, EndRun
  <2> QED BY <1>1, <1>17, <2>1, <2>2 DEF ExtractMark, TypeOK
<1> QED BY <1>4, <1>5, <1>6, <1>7, <1>8, <1>9, <1>10, <1>11, <1>12, <1>13, <1>14,
           <1>15, <1>16, <1>17, CommandIs DEF Extraction, Selection

----------------------------------------------------------------------------
\* Leases and the write lock.

\* A process works on with the lease and the lock it has.
LEMMA LeaseKept ==
  ASSUME TypeOK, Leased, NEW p \in Process,
         \A q \in Process \ {p} : Still(q),
         UNCHANGED <<run, lease, lock>>,
         pc'[p] \in Holding <=> pc[p] \in Holding,
         pc'[p] \in Cleaning <=> pc[p] \in Cleaning
  PROVE  Leased'
<1>1. \A q \in Process : /\ pc'[q] \in Holding <=> pc[q] \in Holding
                         /\ pc'[q] \in Cleaning <=> pc[q] \in Cleaning
  BY DEF Still
<1> QED BY <1>1 DEF Leased

\* A process that had no lease takes a free one.
LEMMA LeaseTaken ==
  ASSUME TypeOK, Leased, NEW p \in Process, NEW r \in Run,
         \A q \in Process \ {p} : Still(q),
         lease[r] = NoProcess, pc[p] \notin Holding,
         run' = [run EXCEPT ![p] = r], lease' = [lease EXCEPT ![r] = p],
         UNCHANGED lock, pc'[p] \in Holding \ Cleaning
  PROVE  Leased'
<1>1. run'[p] = r /\ lease'[r] = p /\ r # NoRun /\ p # NoProcess
  BY Sentinels DEF TypeOK
<1>2. \A q \in Process \ {p} : run'[q] = run[q] /\ pc'[q] = pc[q] /\ q # NoProcess
  BY Sentinels DEF Still
<1>3. \A o \in Run \ {r} : lease'[o] = lease[o]
  BY DEF TypeOK
<1>4. pc[p] \notin Cleaning
  BY DEF Cleaning, Holding
<1>5. \A q \in Process \ {p} : run[q] # r
  BY <1>1, <1>2 DEF Leased
<1>6. \A q \in Process : /\ pc'[q] \in Holding <=> run'[q] # NoRun
                         /\ run'[q] # NoRun => lease'[run'[q]] = q
                         /\ pc'[q] \in Cleaning <=> lock' = q
  <2>1. \A q \in Process : run[q] \in Run \cup {NoRun}
    BY DEF TypeOK
  <2> QED BY <1>1, <1>2, <1>3, <1>4, <1>5, <2>1 DEF Leased
<1>7. \A o \in Run : lease'[o] # NoProcess => run'[lease'[o]] = o
  <2>1. \A o \in Run : lease[o] \in Process \cup {NoProcess}
    BY DEF TypeOK
  <2>2. run[p] = NoRun
    BY DEF Leased
  <2>3. ASSUME NEW o \in Run \ {r}, lease[o] # NoProcess PROVE run'[lease[o]] = o
    <3>1. lease[o] \in Process /\ run[lease[o]] = o
      BY <2>1, <2>3 DEF Leased
    <3>2. lease[o] # p
      BY <2>2, <3>1, Sentinels
    <3> QED BY <1>2, <3>1, <3>2
  <2> QED BY <1>1, <1>3, <2>3
<1> QED BY <1>6, <1>7 DEF Leased

\* A command that ends leaves neither a lease nor the lock.
LEMMA LeaseGone ==
  ASSUME TypeOK, Leased, NEW p \in Process, Finish(p)
  PROVE  Leased'
<1>1. /\ pc'[p] = "idle" /\ run'[p] = NoRun
      /\ \A q \in Process \ {p} : run'[q] = run[q] /\ pc'[q] = pc[q]
      /\ \A r \in Run : lease'[r] = IF lease[r] = p THEN NoProcess ELSE lease[r]
      /\ lock' = IF lock = p THEN NoProcess ELSE lock
  BY FinishIs DEF Still
<1>2. /\ \A q \in Process : q # NoProcess /\ run[q] \in Run \cup {NoRun}
      /\ \A r \in Run : lease[r] \in Process \cup {NoProcess}
      /\ "idle" \notin Holding /\ "idle" \notin Cleaning
  BY Sentinels DEF TypeOK, Holding, Cleaning
<1>3. \A q \in Process : /\ pc'[q] \in Holding <=> run'[q] # NoRun
                         /\ run'[q] # NoRun => lease'[run'[q]] = q
  BY <1>1, <1>2 DEF Leased
<1>4. \A q \in Process : pc'[q] \in Cleaning <=> lock' = q
  BY <1>1, <1>2 DEF Leased
<1>5. \A r \in Run : lease'[r] # NoProcess => run'[lease'[r]] = r
  BY <1>1, <1>2 DEF Leased
<1> QED BY <1>3, <1>4, <1>5 DEF Leased

\* A process ends its command, or not.
LEMMA EndingIs ==
  ASSUME TypeOK, NEW p \in Process, Ending(p)
  PROVE  Finish(p)
BY DEF Ending, ExtractRelease, Close, ReconcileUnsynced, GiveUp,
       BusyTimeout, Crash

\* Every step of a process keeps leases and lock.
LEMMA CommandLeased ==
  ASSUME TypeOK, Leased, NEW p \in Process, Command(p)
  PROVE  Leased'
<1> USE DEF runVars, localVars, Goto, At, Opened
<1>1. \A q \in Process \ {p} : Still(q)
  BY OthersStay
<1>2. pc \in [Process -> Steps]
  BY DEF TypeOK
<1>3. CASE Ending(p) \/ AcceptWrite(p) \/ \E q \in Proposal : CompilePublish(p, q)
  <2>1. Finish(p)
    BY <1>3, EndingIs DEF AcceptWrite, CompilePublish
  <2> QED BY <2>1, LeaseGone
<1>4. CASE \E force \in BOOLEAN : ExtractRead(p, force)
  BY <1>1, <1>2, <1>4, LeaseKept DEF ExtractRead, Holding, Cleaning
<1>5. CASE \E r \in Run : ExtractLease(p, r)
  BY <1>1, <1>2, <1>5, LeaseTaken DEF ExtractLease, Holding, Cleaning
<1>6. CASE ExtractStart(p) \/ ExtractOutput(p) \/ ExtractStage(p) \/ ExtractRendered(p)
             \/ ExtractAbort(p) \/ ExtractMark(p)
  <2>1. /\ UNCHANGED <<run, lease, lock>>
        /\ pc[p] \in Holding \ Cleaning /\ pc'[p] \in Holding \ Cleaning
    BY <1>2, <1>6 DEF ExtractStart, ExtractOutput, ExtractStage, ExtractRendered,
       ExtractAbort, ExtractMark, Holding, Cleaning
  <2> QED BY <1>1, <2>1, LeaseKept
<1>7. CASE \E n \in Number : \E readings \in [1..n -> Readings] :
             ExtractPublish(p, n, readings)
  <2>1. /\ UNCHANGED <<run, lease, lock>>
        /\ pc[p] = "publish" /\ pc' = [pc EXCEPT ![p] = "release"]
    BY <1>7 DEF ExtractPublish
  <2>2. /\ pc[p] \in Holding \ Cleaning /\ pc'[p] \in Holding \ Cleaning
    BY <1>2, <2>1 DEF Holding, Cleaning
  <2> QED BY <1>1, <2>1, <2>2, LeaseKept
<1>8. CASE Open(p) \/ ReconcileDone(p) \/ \E r \in Run : ReconcileSkip(p, r)
  <2>1. /\ UNCHANGED <<run, lease, lock>>
        /\ pc[p] \notin Holding \cup Cleaning /\ pc'[p] \notin Holding \cup Cleaning
    BY <1>2, <1>8 DEF Open, ReconcileDone, ReconcileSkip, Holding, Cleaning
  <2> QED BY <1>1, <2>1, LeaseKept
<1>9. CASE \E r \in Run : ReconcileLease(p, r)
  BY <1>1, <1>2, <1>9, LeaseTaken DEF ReconcileLease, Abandoned, Holding, Cleaning
<1>10. CASE ReconcileStaging(p) \/ ReconcileImages(p)
  <2>1. /\ UNCHANGED <<run, lease, lock>>
        /\ pc[p] \in Holding \cap Cleaning /\ pc'[p] \in Holding \cap Cleaning
    BY <1>2, <1>10 DEF ReconcileStaging, ReconcileImages, Holding, Cleaning
  <2> QED BY <1>1, <2>1, LeaseKept
<1>11. CASE ReconcileBegin(p)
  <2>1. /\ UNCHANGED <<run, lease>> /\ lock = NoProcess /\ lock' = p
        /\ pc[p] \in Holding \ Cleaning /\ pc'[p] \in Holding \cap Cleaning
    BY <1>2, <1>11 DEF ReconcileBegin, Unlocked, Holding, Cleaning
  <2>2. \A q \in Process \ {p} : pc'[q] = pc[q]
    BY <1>1 DEF Still
  <2>3. \A q \in Process : pc'[q] \in Cleaning <=> lock' = q
    BY <2>1, <2>2, Sentinels DEF Leased
  <2>4. \A q \in Process : pc'[q] \in Holding <=> pc[q] \in Holding
    BY <2>1, <2>2
  <2> QED BY <2>1, <2>3, <2>4 DEF Leased
<1>12. CASE ReconcileCommit(p)
  <2>1. /\ run' = [run EXCEPT ![p] = NoRun] /\ lock' = NoProcess
        /\ lease' = [lease EXCEPT ![run[p]] = NoProcess]
        /\ pc[p] \in Holding \cap Cleaning /\ pc'[p] \notin Holding \cup Cleaning
    BY <1>2, <1>12 DEF ReconcileCommit, Holding, Cleaning
  <2>2. run[p] \in Run /\ lease[run[p]] = p /\ lock = p
    BY <2>1, HoldsRun DEF Leased
  <2>3. \A q \in Process \ {p} : /\ pc'[q] = pc[q] /\ run'[q] = run[q]
                                 /\ q # NoProcess /\ run[q] # run[p]
    BY <1>1, <2>2, Sentinels DEF Still, Leased
  <2>4. run'[p] = NoRun
    BY <2>1 DEF TypeOK
  <2>5. \A q \in Process : pc'[q] \in Cleaning <=> lock' = q
    BY <2>1, <2>2, <2>3, Sentinels DEF Leased
  <2>6. \A q \in Process : /\ pc'[q] \in Holding <=> run'[q] # NoRun
                           /\ run'[q] # NoRun => lease'[run'[q]] = q
    <3>1. \A q \in Process : run[q] # NoRun => run[q] \in Run
      BY DEF TypeOK
    <3>2. \A r \in Run \ {run[p]} : lease'[r] = lease[r]
      BY <2>1 DEF TypeOK
    <3> QED BY <2>1, <2>3, <2>4, <3>1, <3>2 DEF Leased
  <2>7. \A r \in Run : lease'[r] # NoProcess => run'[lease'[r]] = r
    <3>1. \A r \in Run \ {run[p]} : lease'[r] = lease[r]
      BY <2>1 DEF TypeOK
    <3>2. lease'[run[p]] = NoProcess
      BY <2>1, <2>2 DEF TypeOK
    <3>3. \A r \in Run : lease[r] \in Process \cup {NoProcess}
      BY DEF TypeOK
    <3> QED BY <2>2, <2>3, <3>1, <3>2, <3>3 DEF Leased
  <2> QED BY <2>5, <2>6, <2>7 DEF Leased
<1>13. CASE Selection(p)
  <2>1. /\ UNCHANGED <<run, lease, lock>>
        /\ pc[p] \notin Holding \cup Cleaning /\ pc'[p] \notin Holding \cup Cleaning
    BY <1>2, <1>13 DEF Selection, CompileBase, CompileSelect, CompileRetain,
       AcceptRead, Holding, Cleaning
  <2> QED BY <1>1, <2>1, LeaseKept
<1> QED BY <1>3, <1>4, <1>5, <1>6, <1>7, <1>8, <1>9, <1>10, <1>11, <1>12, <1>13,
           CommandIs DEF Extraction, Reconciliation

----------------------------------------------------------------------------
\* Runs and their directories.

\* Nothing of a run that ended without publishing.
Tidy(r) ==
  runs[r] \in {"none", "completed", "unusable", "failed"} =>
    r \notin staging /\ (r \in images => runs[r] \in {"completed", "unusable"})

\* What another process finds of its run, and of the runs it listed, stays.
LEMMA OthersStand ==
  ASSUME TypeOK, Leased, NEW p \in Process, Command(p),
         NEW q \in Process \ {p}, Standing(q),
         \A r \in Run : runs[r] # "none" => runs'[r] # "none",
         UNCHANGED rows \/ lock = NoProcess
  PROVE  Standing(q)'
<1>1. Still(q)
  BY OthersStay
<1>2. /\ \A o \in list'[q] : runs'[o] # "none"
      /\ pc'[q] = pc[q] /\ run'[q] = run[q]
  <2>1. list[q] \in SUBSET Run
    BY DEF TypeOK
  <2> QED BY <1>1, <2>1 DEF Still, Standing
<1>3. CASE pc[q] \notin Holding
  <2>1. /\ pc[q] # "start" /\ pc[q] \notin Extracting
        /\ pc[q] \notin {"stage", "adapters", "publish"}
        /\ pc[q] \notin {"output", "publish", "mark", "reconcile_images",
                         "reconcile_commit"}
        /\ pc[q] # "mark" /\ pc[q] \notin Reconciling /\ pc[q] # "reconcile_commit"
    BY <1>3 DEF Holding, Extracting, Reconciling
  <2> QED BY <1>2, <2>1 DEF Standing
<1>4. CASE pc[q] \in Holding
  <2> PICK r \in Run : r = run[q]
    BY <1>4, HoldsRun
  <2>1. run[p] # r
    BY <1>4 DEF Leased
  <2>2. SameRun(r)
    BY <2>1, OtherRunsStay
  <2>3. pc[q] = "reconcile_commit" => ReferencedImage(r)' = ReferencedImage(r)
    <3>1. CASE UNCHANGED rows
      BY <3>1 DEF ReferencedImage, Stored, Live
    <3>2. CASE lock = NoProcess
      BY <3>2, Sentinels DEF Leased, Cleaning
    <3> QED BY <3>1, <3>2
  <2>4. run'[q] = r
    BY <1>2
  <2>5. ReferencedImage(r)' = ReferencedImage(run[q])'
    BY <2>4 DEF ReferencedImage
  <2> QED BY <1>2, <2>2, <2>3, <2>4, <2>5 DEF Standing, SameRun
<1> QED BY <1>3, <1>4

\* Only the run a process works on is to be looked at.
LEMMA TidyKept ==
  ASSUME TypeOK, NoLitter, NEW p \in Process, Command(p),
         \A r \in Run : r = run[p] => Tidy(r)'
  PROVE  NoLitter'
<1>1. \A r \in Run : Tidy(r)
  BY DEF NoLitter, Tidy
<1>2. \A r \in Run : Tidy(r)'
  <2>1. ASSUME NEW r \in Run, r # run[p] PROVE Tidy(r)'
    BY <1>1, <2>1, OtherRunsStay DEF SameRun, Tidy
  <2> QED BY <2>1
<1> QED BY <1>2 DEF NoLitter, Tidy

\* Neither runs nor directories nor rows.
LEMMA NothingPutOut ==
  ASSUME TypeOK, Leased, Outputs, NEW p \in Process, Command(p),
         UNCHANGED <<rows, runs, images, staging>>,
         Standing(p)'
  PROVE  Outputs'
<1>1. \A q \in Process \ {p} : Standing(q)'
  BY OthersStand DEF Outputs
<1>2. FromEnded' /\ NoLitter' /\ ImagesPresent'
  BY DEF Outputs, FromEnded, NoLitter, ImagesPresent, ImageThere, Stored, Live
<1> QED BY <1>1, <1>2 DEF Outputs

\* Steps at which a process has no run.
LEMMA StandsWithout ==
  ASSUME NEW p \in Process, pc'[p] \notin Holding \/ pc'[p] = "release",
         \A o \in list'[p] : runs'[o] # "none"
  PROVE  Standing(p)'
BY DEF Standing, Holding, Extracting, Reconciling

\* What a step does to the run it works on.
LEMMA OutputsMove ==
  ASSUME TypeOK, Leased, Outputs, NEW p \in Process, Command(p),
         NEW r \in Run, r = run[p], UNCHANGED <<rows, born>>,
         Tidy(r)', Standing(p)',
         runs[r] # "none" => runs'[r] # "none",
         runs[r] \in Ended => runs'[r] \in Ended,
         r \in images \ images' => ~ReferencedImage(r)
  PROVE  Outputs'
<1>1. \A o \in Run : /\ runs[o] # "none" => runs'[o] # "none"
                     /\ runs[o] \in Ended => runs'[o] \in Ended
                     /\ o \in images \ images' => ~ReferencedImage(o)
  BY OtherRunsStay DEF SameRun
<1>2. \A q \in Process : Standing(q)'
  BY <1>1, OthersStand DEF Outputs
<1>3. NoLitter'
  BY TidyKept DEF Outputs
<1>4. /\ Stored' = Stored
      /\ \A g \in Stored : rows[g].run \in Run \cup {NoRun} /\ rows'[g] = rows[g]
  <2>1. \A g \in Stored : rows[g] \in Row
    BY RowTypes DEF Stored
  <2> QED BY <2>1 DEF Stored, Live, Row
<1>5. FromEnded'
  BY <1>1, <1>4 DEF FromEnded, Outputs
<1>6. ImagesPresent'
  BY <1>1, <1>4 DEF ImagesPresent, ImageThere, Outputs, ReferencedImage
<1> QED BY <1>2, <1>3, <1>5, <1>6 DEF Outputs

\* Every step of a process but those that write pages keeps the outputs.
LEMMA QuietOutputs ==
  ASSUME TypeOK, Leased, Outputs, NEW p \in Process, Command(p),
         \/ Ending(p) \/ Extraction(p) \/ Reconciliation(p) \/ Selection(p)
         \/ \E q \in Proposal : CompilePublish(p, q)
  PROVE  Outputs'
<1> USE DEF runVars, outputVars, localVars, Goto, At, Opened
<1>1. UNCHANGED <<rows, born>>
  BY RowsStay
<1>2. pc \in [Process -> Steps] /\ list \in [Process -> SUBSET Run]
  BY DEF TypeOK
<1>3. /\ Standing(p) /\ \A o \in list[p] : runs[o] # "none"
  BY DEF Outputs, Standing
<1>4. \A r \in Run : Tidy(r)
  BY DEF Outputs, NoLitter, Tidy
<1>5. CASE Ending(p) \/ \E q \in Proposal : CompilePublish(p, q)
  <2>1. Finish(p) /\ UNCHANGED <<runs, images, staging>>
    BY <1>5 DEF Ending, ExtractRelease, Close, ReconcileUnsynced, GiveUp,
       BusyTimeout, Crash, CompilePublish
  <2>2. Standing(p)'
    BY <2>1, FinishIs, StandsWithout DEF Holding
  <2> QED BY <1>1, <2>1, <2>2, NothingPutOut
<1>6. CASE ExtractMark(p)
  <2>1. /\ pc[p] = "mark" /\ pc'[p] = "release"
        /\ UNCHANGED <<images, staging, list>>
    BY <1>2, <1>6 DEF ExtractMark
  <2> PICK r \in Run : r = run[p]
    BY <2>1, HoldsRun DEF Holding
  <2>3. runs[r] = "running" /\ r \notin staging /\ r \notin images
    BY <1>3, <2>1 DEF Standing, Extracting
  <2>4. runs'[r] = "failed"
    BY <1>6 DEF ExtractMark, EndRun, TypeOK
  <2>5. Tidy(r)'
    BY <2>1, <2>3, <2>4 DEF Tidy
  <2>6. \A o \in list'[p] : runs'[o] # "none"
    BY <1>2, <1>3, <1>6, <2>1, <2>4 DEF ExtractMark, EndRun, TypeOK
  <2>7. Standing(p)'
    BY <2>1, <2>6, StandsWithout
  <2> QED BY <1>1, <2>1, <2>3, <2>4, <2>5, <2>7, OutputsMove DEF Ended
<1>7. CASE \E force \in BOOLEAN : ExtractRead(p, force)
  <2>1. UNCHANGED <<runs, images, staging, list>> /\ pc'[p] = "revision"
    BY <1>2, <1>7 DEF ExtractRead
  <2>2. Standing(p)'
    BY <1>3, <2>1, StandsWithout DEF Holding
  <2> QED BY <1>1, <2>1, <2>2, NothingPutOut
<1>8. CASE \E r \in Run : ExtractLease(p, r)
  <2> PICK r \in Run : ExtractLease(p, r)
    BY <1>8
  <2>1. /\ UNCHANGED <<runs, images, staging, list>>
        /\ pc'[p] = "start" /\ run'[p] = r /\ runs[r] = "none"
    BY <1>2 DEF ExtractLease, TypeOK
  <2>2. Standing(p)'
    BY <1>3, <2>1 DEF Standing, Extracting, Reconciling
  <2> QED BY <1>1, <2>1, <2>2, NothingPutOut
<1>9. CASE Open(p) \/ ReconcileDone(p) \/ \E r \in Run : ReconcileSkip(p, r)
  <2>1. /\ UNCHANGED <<runs, images, staging>>
        /\ pc'[p] \in {"opened", "reconcile"}
        /\ list'[p] \subseteq list[p] \cup {r \in Run : runs[r] = "running"}
    BY <1>2, <1>9 DEF Open, ReconcileDone, ReconcileSkip
  <2>2. Standing(p)'
    BY <1>3, <2>1, StandsWithout DEF Holding
  <2> QED BY <1>1, <2>1, <2>2, NothingPutOut
<1>10. CASE \E r \in Run : ReconcileLease(p, r)
  <2> PICK r \in Run : ReconcileLease(p, r)
    BY <1>10
  <2>1. /\ UNCHANGED <<runs, images, staging>>
        /\ pc'[p] = "reconcile_begin" /\ run'[p] = r /\ r \in list[p]
        /\ list'[p] \subseteq list[p]
    BY <1>2 DEF ReconcileLease, TypeOK
  <2>2. Standing(p)'
    BY <1>3, <2>1 DEF Standing, Extracting, Reconciling
  <2> QED BY <1>1, <2>1, <2>2, NothingPutOut
<1>11. CASE Selection(p)
  <2>1. /\ UNCHANGED <<runs, images, staging, list>>
        /\ pc'[p] \in {"select", "generate", "propose", "accept"}
    BY <1>2, <1>11 DEF Selection, CompileBase, CompileSelect, CompileRetain, AcceptRead
  <2>2. Standing(p)'
    BY <1>3, <2>1, StandsWithout DEF Holding
  <2> QED BY <1>1, <2>1, <2>2, NothingPutOut
<1>12. ASSUME pc[p] \in Holding,
              ExtractStart(p) \/ ExtractOutput(p) \/ ExtractStage(p)
                \/ ExtractRendered(p) \/ ExtractAbort(p) \/ ReconcileBegin(p)
                \/ ReconcileStaging(p) \/ ReconcileImages(p) \/ ReconcileCommit(p)
       PROVE  Outputs'
  <2> PICK r \in Run : r = run[p] /\ lease[r] = p
    BY <1>12, HoldsRun
  <2>1. CASE ExtractStart(p)
    <3>1. /\ runs[r] = "none" /\ runs'[r] = "running" /\ pc'[p] = "output"
          /\ UNCHANGED <<images, staging, list, run>> /\ r \notin staging
      BY <1>2, <1>3, <1>4, <2>1 DEF ExtractStart, Standing, TypeOK, Tidy
    <3>2. Tidy(r)' /\ Standing(p)'
      <4>1. \A o \in Run : runs[o] # "none" => runs'[o] # "none"
        BY <3>1, OtherRunsStay DEF SameRun
      <4> QED BY <1>2, <1>3, <3>1, <4>1 DEF Tidy, Standing, Extracting, Reconciling
    <3> QED BY <1>1, <3>1, <3>2, OutputsMove DEF Ended
  <2>2. CASE ExtractOutput(p)
    <3>1. /\ runs[r] = "running" /\ pc'[p] \in {"stage", "publish"}
          /\ pc'[p] = "publish" => r \notin staging
          /\ images' = images \cup {r} /\ UNCHANGED <<runs, staging, list, run>>
      <4>1. runs[r] = "running" /\ pc[p] = "output"
        BY <1>3, <2>2 DEF ExtractOutput, Standing, Extracting
      <4>2. pc[p] = "output" => r \notin staging
        BY <1>3 DEF Standing
      <4> QED BY <1>2, <2>2, <4>1, <4>2 DEF ExtractOutput
    <3>2. Tidy(r)' /\ Standing(p)'
      BY <1>2, <1>3, <3>1 DEF Tidy, Standing, Extracting, Reconciling
    <3> QED BY <1>1, <3>1, <3>2, OutputsMove DEF Ended
  <2>3. CASE ExtractStage(p)
    <3>1. /\ runs[r] = "running" /\ r \in images /\ pc'[p] = "adapters"
          /\ UNCHANGED <<runs, images, list, run>>
      BY <1>2, <1>3, <2>3 DEF ExtractStage, Standing, Extracting
    <3>2. Tidy(r)' /\ Standing(p)'
      BY <1>2, <1>3, <3>1 DEF Tidy, Standing, Extracting, Reconciling
    <3> QED BY <1>1, <3>1, <3>2, OutputsMove DEF Ended
  <2>4. CASE ExtractRendered(p)
    <3>1. /\ runs[r] = "running" /\ r \in images /\ pc'[p] = "publish"
          /\ staging' = staging \ {r} /\ UNCHANGED <<runs, images, list, run>>
      BY <1>2, <1>3, <2>4 DEF ExtractRendered, Standing, Extracting
    <3>2. Tidy(r)' /\ Standing(p)'
      BY <1>2, <1>3, <3>1 DEF Tidy, Standing, Extracting, Reconciling
    <3> QED BY <1>1, <3>1, <3>2, OutputsMove DEF Ended
  <2>5. CASE ExtractAbort(p)
    <3>1. /\ runs[r] = "running" /\ pc'[p] = "mark"
          /\ images' = images \ {r} /\ staging' = staging \ {r}
          /\ UNCHANGED <<runs, list, run>>
      BY <1>2, <1>3, <2>5 DEF ExtractAbort, Standing, Extracting
    <3>2. Tidy(r)' /\ Standing(p)'
      BY <1>2, <1>3, <3>1 DEF Tidy, Standing, Extracting, Reconciling
    <3>3. ~ReferencedImage(r)
      BY <3>1, Sentinels DEF Outputs, FromEnded, ReferencedImage, Ended
    <3> QED BY <1>1, <3>1, <3>2, <3>3, OutputsMove DEF Ended
  <2>6. CASE ReconcileBegin(p)
    <3>1. /\ runs[r] # "none" /\ pc'[p] = "reconcile_staging"
          /\ UNCHANGED <<runs, images, staging, list, run>>
      BY <1>2, <1>3, <2>6 DEF ReconcileBegin, Standing, Reconciling
    <3>2. Standing(p)'
      BY <1>2, <1>3, <3>1 DEF Standing, Extracting, Reconciling
    <3> QED BY <1>1, <3>1, <3>2, NothingPutOut
  <2>7. CASE ReconcileStaging(p)
    <3>1. /\ runs[r] # "none" /\ pc'[p] = "reconcile_images"
          /\ staging' = staging \ {r} /\ UNCHANGED <<runs, images, list, run>>
      BY <1>2, <1>3, <2>7 DEF ReconcileStaging, Standing, Reconciling
    <3>2. Tidy(r)' /\ Standing(p)'
      BY <1>2, <1>3, <1>4, <3>1 DEF Tidy, Standing, Extracting, Reconciling
    <3> QED BY <1>1, <3>1, <3>2, OutputsMove DEF Ended
  <2>8. CASE ReconcileImages(p)
    <3>1. /\ runs[r] # "none" /\ r \notin staging /\ pc'[p] = "reconcile_commit"
          /\ images' = IF ReferencedImage(r) THEN images ELSE images \ {r}
          /\ UNCHANGED <<runs, staging, list, run>>
      BY <1>2, <1>3, <2>8 DEF ReconcileImages, Standing, Reconciling
    <3>2. ReferencedImage(r)' <=> ReferencedImage(r)
      BY <1>1 DEF ReferencedImage, Stored, Live
    <3>3. Tidy(r)'
      BY <1>4, <3>1 DEF Tidy
    <3>4. Standing(p)'
      <4>1. ReferencedImage(r)' <=> ReferencedImage(run[p])'
        BY <3>1 DEF ReferencedImage
      <4> QED BY <1>2, <1>3, <3>1, <3>2, <4>1 DEF Standing, Extracting, Reconciling
    <3> QED BY <1>1, <3>1, <3>3, <3>4, OutputsMove DEF Ended
  <2>9. CASE ReconcileCommit(p)
    <3>1. /\ runs[r] # "none" /\ r \notin staging
          /\ r \in images => ReferencedImage(r)
          /\ pc'[p] = "reconcile" /\ UNCHANGED <<images, staging, list>>
          /\ runs'[r] = IF runs[r] = "running" THEN "failed" ELSE runs[r]
      BY <1>2, <1>3, <2>9 DEF ReconcileCommit, Standing, Reconciling, TypeOK
    <3>2. runs[r] = "running" => r \notin images
      BY <3>1, Sentinels DEF Outputs, FromEnded, ReferencedImage, Ended
    <3>3. Tidy(r)'
      BY <1>4, <3>1, <3>2 DEF Tidy
    <3>4. \A o \in Run : runs[o] # "none" => runs'[o] # "none"
      BY <3>1, OtherRunsStay DEF SameRun
    <3>5. Standing(p)'
      BY <1>2, <1>3, <3>1, <3>4, StandsWithout DEF Holding
    <3> QED BY <1>1, <3>1, <3>3, <3>4, <3>5, OutputsMove DEF Ended
  <2> QED BY <1>12, <2>1, <2>2, <2>3, <2>4, <2>5, <2>6, <2>7, <2>8, <2>9
<1>13. ASSUME ExtractStart(p) \/ ExtractOutput(p) \/ ExtractStage(p)
                \/ ExtractRendered(p) \/ ExtractAbort(p) \/ ReconcileBegin(p)
                \/ ReconcileStaging(p) \/ ReconcileImages(p) \/ ReconcileCommit(p)
       PROVE  pc[p] \in Holding
  BY <1>13 DEF ExtractStart, ExtractOutput, ExtractStage, ExtractRendered,
     ExtractAbort, ReconcileBegin, ReconcileStaging, ReconcileImages,
     ReconcileCommit, Holding
<1> QED BY <1>5, <1>6, <1>7, <1>8, <1>9, <1>10, <1>11, <1>12, <1>13
           DEF Extraction, Reconciliation

\* Pages come from the run that publishes or from those they came from.
LEMMA PublishRuns ==
  ASSUME TypeOK, NEW p \in Process, NEW n \in Number,
         NEW readings \in [1..n -> Readings], ExtractPublish(p, n, readings),
         NEW g \in Stored'
  PROVE  rows'[g].run = ImageRun(p) \/ (g \in Stored /\ rows'[g].run = rows[g].run)
<1> PICK v \in Version : v = version[p]
  BY DEF TypeOK
<1>1. g \in Page /\ Live(g)'
  BY DEF Stored
<1>2. CASE g \in CurrentOf(v)
  <2>1. g \in Stored /\ rows[g] \in Row
    BY <1>2, PublishRows DEF CurrentOf
  <2>2. CASE renew[p]
    <3>1. rows'[g] = [rows[g] EXCEPT !.current = FALSE]
      BY <1>2, <2>2, PublishRows DEF Retired
    <3> QED BY <2>1, <3>1 DEF Row
  <2>3. CASE ~renew[p]
    <3>1. rows[g].number \in Nat /\ n \in Nat
      <4>1. Number \subseteq Nat
        BY Bounds DEF Number
      <4> QED BY <2>1, <4>1 DEF Row
    <3>2. rows'[g] # Deleted
      BY <1>1 DEF Live
    <3> QED BY <1>2, <2>3, <3>1, <3>2, PublishRows
  <2> QED BY <2>2, <2>3
<1>3. CASE g \in NewPages(p, n)
  BY <1>3, PublishRows DEF Begun
<1>4. CASE g \notin CurrentOf(v) /\ g \notin NewPages(p, n)
  <2>1. rows'[g] = rows[g]
    BY <1>1, <1>4, PublishRows
  <2> QED BY <1>1, <2>1 DEF Stored, Live
<1> QED BY <1>2, <1>3, <1>4

\* A publication ends its run with the directory of images in place.
LEMMA PublishOutputs ==
  ASSUME TypeOK, Leased, Outputs, NEW p \in Process, Command(p), NEW n \in Number,
         NEW readings \in [1..n -> Readings], ExtractPublish(p, n, readings)
  PROVE  Outputs'
<1>1. /\ pc[p] = "publish" /\ pc'[p] = "release" /\ lock = NoProcess
      /\ UNCHANGED <<images, staging, list, run>>
  BY DEF ExtractPublish, At, Goto, Unlocked, outputVars, localVars, TypeOK
<1> PICK r \in Run : r = run[p]
  BY <1>1, HoldsRun DEF Holding
<1>2. /\ runs[r] = "running" /\ r \in images /\ r \notin staging
      /\ \A o \in list[p] : runs[o] # "none"
  BY <1>1 DEF Outputs, Standing, Extracting
<1>3. runs'[r] \in Ended
  BY DEF ExtractPublish, EndRun, TypeOK, Ended
<1>4. \A o \in Run : /\ o # r => runs'[o] = runs[o]
                     /\ runs[o] # "none" => runs'[o] # "none"
                     /\ runs[o] \in Ended => runs'[o] \in Ended
  BY <1>3, OtherRunsStay DEF SameRun, Ended
<1>5. Standing(p)'
  <2>1. list[p] \in SUBSET Run
    BY DEF TypeOK
  <2> QED BY <1>1, <1>2, <1>4, <2>1, StandsWithout
<1>6. \A q \in Process : Standing(q)'
  BY <1>1, <1>4, <1>5, OthersStand DEF Outputs
<1>7. NoLitter'
  <2>1. Tidy(r)'
    BY <1>1, <1>2, <1>3 DEF Tidy, Ended
  <2> QED BY <2>1, TidyKept DEF Outputs
<1>8. ImageRun(p) = r \/ ImageRun(p) = NoRun
  BY DEF ImageRun
<1>9. \A g \in Stored : rows[g].run \in Run \cup {NoRun}
  <2>1. \A g \in Stored : rows[g] \in Row
    BY RowTypes DEF Stored
  <2> QED BY <2>1 DEF Row
<1>10. FromEnded'
  <2>1. \A g \in Stored' : rows'[g].run # NoRun => runs'[rows'[g].run] \in Ended
    BY <1>3, <1>4, <1>8, <1>9, PublishRuns DEF Outputs, FromEnded
  <2> QED BY <2>1 DEF FromEnded
<1>11. ImagesPresent'
  <2>1. \A g \in Stored' : rows'[g].run = NoRun \/ rows'[g].run \in images
    BY <1>2, <1>8, PublishRuns DEF Outputs, ImagesPresent, ImageThere
  <2> QED BY <1>1, <2>1 DEF ImagesPresent, ImageThere
<1> QED BY <1>6, <1>7, <1>10, <1>11 DEF Outputs

\* Pages that are revised stay in the directories they are in.
LEMMA ReviseOutputs ==
  ASSUME TypeOK, Outputs, NEW v \in Version, NEW g \in CurrentOf(v),
         NEW x \in Text \cup {NoText}, Revised(g, x),
         UNCHANGED <<runs, images, staging>>
  PROVE  FromEnded' /\ NoLitter' /\ ImagesPresent'
<1>1. \A h \in Stored' : \E f \in Stored : rows'[h].run = rows[f].run
  BY ReviseRuns
<1>2. FromEnded'
  BY <1>1 DEF FromEnded, Outputs
<1>3. ImagesPresent'
  BY <1>1 DEF ImagesPresent, ImageThere, Outputs
<1>4. NoLitter'
  BY DEF NoLitter, Outputs
<1> QED BY <1>2, <1>3, <1>4

\* Every step of a process keeps the outputs.
LEMMA CommandOutputs ==
  ASSUME TypeOK, Leased, Outputs, NEW p \in Process, Command(p)
  PROVE  Outputs'
<1>1. CASE \E n \in Number : \E readings \in [1..n -> Readings] :
             ExtractPublish(p, n, readings)
  BY <1>1, PublishOutputs
<1>2. CASE AcceptWrite(p)
  <2>1. /\ UNCHANGED <<runs, images, staging>> /\ Finish(p) /\ lock = NoProcess
    BY <1>2 DEF AcceptWrite, outputVars, Unlocked
  <2>2. latest \in Version
    BY DEF TypeOK
  <2>3. FromEnded' /\ NoLitter' /\ ImagesPresent'
    BY <1>2, <2>1, <2>2, AcceptWriteIs, ReviseOutputs
  <2>4. Standing(p)'
    BY <2>1, FinishIs, StandsWithout DEF Holding
  <2>5. \A q \in Process : Standing(q)'
    BY <2>1, <2>4, OthersStand DEF Outputs
  <2> QED BY <2>3, <2>5 DEF Outputs
<1> QED BY <1>1, <1>2, CommandIs, QuietOutputs

----------------------------------------------------------------------------
\* Pages and evidence.

\* What a proposal has captured stays.
LEMMA EvidenceStays ==
  ASSUME TypeOK, EvidenceFrozen, Advance, ImagesPresent', UNCHANGED evidence
  PROVE  EvidenceFrozen'
<1> SUFFICES ASSUME NEW q \in Proposal, NEW e \in evidence[q]
             PROVE  Same(e)' /\ ImageThere(e.run)' /\ Usable(e)
  BY DEF EvidenceFrozen, Usable
<1>1. e \in Seen /\ Same(e) /\ Usable(e)
  BY DEF EvidenceFrozen, Usable, TypeOK
<1> PICK g \in Page : g = e.page
  BY <1>1 DEF Seen
<1>2. Live(g) /\ Snapshot(g) = e /\ g <= born /\ Referenced(g)
  BY <1>1, RowTypes DEF Same, Referenced
<1>3. Live(g)' /\ Snapshot(g)' = e
  <2>1. CASE rows'[g] = rows[g]
    BY <1>2, <2>1 DEF Live, Snapshot
  <2>2. CASE Changes(g)
    BY <1>2, <2>2, ChangeShows
  <2> QED BY <1>2, <2>1, <2>2 DEF Advance
<1>4. rows'[g].run = e.run
  BY <1>3 DEF Snapshot
<1>5. ImageThere(e.run)'
  BY <1>3, <1>4 DEF ImagesPresent, ImageThere, Stored
<1> QED BY <1>1, <1>3, <1>5 DEF Same

\* What every step of a process makes of the pages.
LEMMA CommandPages ==
  ASSUME TypeOK, Rendered, Lineage, NEW p \in Process, Command(p)
  PROVE  Advance /\ Rendered' /\ Lineage'
<1>1. CASE \E n \in Number : \E readings \in [1..n -> Readings] :
             ExtractPublish(p, n, readings)
  <2>1. version[p] \in Version
    BY DEF TypeOK
  <2> QED BY <1>1, <2>1, PublishAdvances, PublishRenders, PublishLineage
<1>2. CASE AcceptWrite(p)
  <2>1. latest \in Version
    BY DEF TypeOK
  <2> QED BY <1>2, <2>1, AcceptWriteIs, ReviseAdvances, ReviseRenders, ReviseLineage
<1>3. CASE UNCHANGED <<rows, born>>
  BY <1>3, NothingAdvances DEF Rendered, Rendering, Lineage, CurrentOf, Stored, Live
<1> QED BY <1>1, <1>2, <1>3, CommandIs, RowsStay

\* Only a publication of a proposal captures anything.
LEMMA EvidenceUntouched ==
  ASSUME NEW p \in Process, Command(p), ~ \E q \in Proposal : CompilePublish(p, q)
  PROVE  UNCHANGED evidence
<1> USE DEF proposalVars
<1>1. CASE Ending(p)
  BY <1>1 DEF Ending, ExtractRelease, Close, ReconcileUnsynced,
              GiveUp, BusyTimeout, Crash
<1>2. CASE Extraction(p)
  BY <1>2 DEF Extraction, ExtractRead, ExtractLease, ExtractStart,
              ExtractOutput, ExtractStage, ExtractRendered, ExtractAbort, ExtractMark
<1>3. CASE Reconciliation(p)
  BY <1>3 DEF Reconciliation, Open, ReconcileSkip, ReconcileLease,
              ReconcileBegin, ReconcileStaging, ReconcileImages,
              ReconcileCommit, ReconcileDone
<1>4. CASE Selection(p)
  BY <1>4 DEF Selection, CompileBase, CompileSelect, CompileRetain, AcceptRead
<1>5. CASE \E n \in Number : \E readings \in [1..n -> Readings] :
             ExtractPublish(p, n, readings)
  BY <1>5 DEF ExtractPublish
<1>6. CASE AcceptWrite(p)
  BY <1>6 DEF AcceptWrite
<1> QED BY <1>1, <1>2, <1>3, <1>4, <1>5, <1>6, CommandIs

\* Every step of a process keeps what was captured.
LEMMA CommandEvidence ==
  ASSUME TypeOK, EvidenceFrozen, NEW p \in Process, Knows(p), Command(p), Advance,
         ImagesPresent'
  PROVE  EvidenceFrozen'
<1> USE DEF proposalVars
<1>1. CASE \E q \in Proposal : CompilePublish(p, q)
  <2> PICK q \in Proposal : CompilePublish(p, q)
    BY <1>1
  <2>1. /\ pc[p] = "propose"
        /\ \A e \in seen[p] \cup kept[p] : Same(e) /\ ImageThere(e.run)
        /\ evidence' = [evidence EXCEPT ![q] = seen[p] \cup kept[p]]
        /\ UNCHANGED <<rows, images>>
    BY DEF CompilePublish, At, pageVars, outputVars
  <2>2. \A e \in seen[p] \cup kept[p] : Usable(e)
    BY <2>1 DEF Knows
  <2>3. \A o \in Proposal : \A e \in evidence'[o] :
          Same(e) /\ ImageThere(e.run) /\ Usable(e)
    BY <2>1, <2>2 DEF EvidenceFrozen, Usable, TypeOK
  <2>4. \A e : (Same(e) <=> Same(e)') /\ (ImageThere(e.run) <=> ImageThere(e.run)')
    BY <2>1 DEF Same, Live, Snapshot, ImageThere
  <2> QED BY <2>3, <2>4 DEF EvidenceFrozen, Usable
<1>2. CASE ~ \E q \in Proposal : CompilePublish(p, q)
  <2>1. UNCHANGED evidence
    BY <1>2, EvidenceUntouched
  <2> QED BY <2>1, EvidenceStays
<1> QED BY <1>1, <1>2

----------------------------------------------------------------------------
\* What commands know.

\* A command that ended knows nothing.
LEMMA KnowsNothing ==
  ASSUME Tracked, NEW p \in Process,
         pc'[p] = "idle", seen'[p] = {}, kept'[p] = {}
  PROVE  Knows(p)'
BY DEF Knows, Tracked, Reading

\* What was just read is known.
LEMMA KnowsFresh ==
  ASSUME TypeOK, UNCHANGED <<rows, born>>, NEW g \in Stored,
         NEW e, e = Snapshot(g)
  PROVE  Remembered(e)' /\ Same(e)'
<1>1. g \in Page /\ Live(g) /\ g <= born
  BY RowTypes DEF Stored
<1>2. Live(g)' /\ Snapshot(g)' = Snapshot(g) /\ e.page = g
  BY <1>1 DEF Live, Snapshot
<1> QED BY <1>1, <1>2 DEF Remembered, Same

\* Every step of a process keeps what it knows.
LEMMA OwnKnows ==
  ASSUME TypeOK, EvidenceFrozen, NEW p \in Process, Knows(p), Command(p), Tracked,
         Advance
  PROVE  Knows(p)'
<1> USE DEF localVars, Goto, At, Opened
<1>1. /\ pc \in [Process -> Steps] /\ seen \in [Process -> SUBSET Seen]
      /\ kept \in [Process -> SUBSET Seen] /\ version \in [Process -> Version]
      /\ latest \in Version
  BY DEF TypeOK
<1>2. p \in overtaken' => p \in overtaken \/ Stale(p)'
  BY DEF Tracked
<1>3. CASE Ending(p) \/ AcceptWrite(p) \/ \E q \in Proposal : CompilePublish(p, q)
  <2>1. Finish(p)
    BY <1>3, EndingIs DEF AcceptWrite, CompilePublish
  <2> QED BY <2>1, FinishIs, KnowsNothing
<1>4. CASE \E force \in BOOLEAN : ExtractRead(p, force)
  <2>1. /\ pc[p] = "opened" /\ pc'[p] = "revision" /\ version'[p] = latest
        /\ seen'[p] = PageSnapshot(latest) /\ kept'[p] = kept[p]
        /\ UNCHANGED <<rows, born, latest>>
    BY <1>1, <1>4 DEF ExtractRead, pageVars
  <2>2. kept'[p] = {} /\ p \notin overtaken
    BY <2>1 DEF Knows, Reading
  <2>3. PageSnapshot(latest)' = PageSnapshot(latest)
    BY <2>1 DEF PageSnapshot, Snapshot, CurrentOf, Stored, Live
  <2>4. (seen[p] = PageSnapshot(version[p]))'
    <3>1. PageSnapshot(version[p])' = PageSnapshot(latest)'
      BY <2>1 DEF PageSnapshot, CurrentOf
    <3> QED BY <2>1, <2>3, <3>1
  <2>5. p \notin overtaken'
    BY <1>2, <2>1, <2>2, <2>4 DEF Stale
  <2>6. \A e \in seen'[p] \cup kept'[p] : Remembered(e)'
    BY <2>1, <2>2, KnowsFresh DEF PageSnapshot, CurrentOf
  <2> QED BY <2>1, <2>2, <2>4, <2>5, <2>6 DEF Knows, Reading
<1>5. CASE \/ \E r \in Run : ExtractLease(p, r)
           \/ ExtractStart(p) \/ ExtractOutput(p) \/ ExtractStage(p)
           \/ ExtractRendered(p) \/ ExtractAbort(p) \/ ExtractMark(p)
  <2>1. /\ UNCHANGED <<seen[p], kept[p], version[p]>>
        /\ \/ pc[p] \in Reading /\ pc'[p] \in Reading \cup {"mark"}
           \/ pc[p] = "mark" /\ pc'[p] = "release"
    BY <1>1, <1>5 DEF ExtractLease, ExtractStart, ExtractOutput, ExtractStage,
       ExtractRendered, ExtractAbort, ExtractMark, Reading
  <2>2. Staying(p)
    BY <2>1 DEF Staying, Reading
  <2> QED BY <2>2, KnowsStays
<1>6. CASE \E n \in Number : \E readings \in [1..n -> Readings] :
             ExtractPublish(p, n, readings)
  <2>1. /\ UNCHANGED <<seen[p], kept[p], version[p]>>
        /\ pc[p] = "publish" /\ pc'[p] = "release"
    BY <1>1, <1>6 DEF ExtractPublish
  <2>2. Staying(p)
    BY <2>1 DEF Staying, Reading
  <2> QED BY <2>2, KnowsStays
<1>7. CASE Reconciliation(p) \/ CompileBase(p)
  <2>1. /\ UNCHANGED <<seen[p], kept[p], version[p]>>
        /\ pc[p] \notin Reading \cup {"mark", "release", "generate", "propose"}
        /\ pc'[p] \notin Reading \cup {"mark", "release", "generate", "propose"}
    <3>1. CASE CompileBase(p)
      BY <1>1, <3>1 DEF CompileBase, Reading
    <3>2. CASE Open(p)
      BY <1>1, <3>2 DEF Open, Reading
    <3>3. CASE \E r \in Run : ReconcileSkip(p, r) \/ ReconcileLease(p, r)
      BY <1>1, <3>3 DEF ReconcileSkip, ReconcileLease, Reading
    <3>4. CASE ReconcileBegin(p) \/ ReconcileStaging(p) \/ ReconcileImages(p)
                 \/ ReconcileCommit(p) \/ ReconcileDone(p)
      BY <1>1, <3>4 DEF ReconcileBegin, ReconcileStaging, ReconcileImages,
         ReconcileCommit, ReconcileDone, Reading
    <3> QED BY <1>7, <3>1, <3>2, <3>3, <3>4 DEF Reconciliation
  <2>2. Staying(p)
    BY <2>1 DEF Staying, Reading
  <2> QED BY <2>2, KnowsStays
<1>8. CASE \E S \in SUBSET CurrentOf(latest) : CompileSelect(p, S)
  <2> PICK S \in SUBSET CurrentOf(latest) : CompileSelect(p, S)
    BY <1>8
  <2>1. /\ pc[p] = "select" /\ pc'[p] = "generate"
        /\ seen'[p] = {Snapshot(g) : g \in S} /\ kept'[p] = kept[p]
        /\ S \subseteq Stored /\ \A g \in S : ModelReady(g)
        /\ UNCHANGED <<rows, born>>
    BY <1>1 DEF CompileSelect, pageVars, CurrentOf
  <2>2. kept'[p] = {} /\ p \notin overtaken
    BY <2>1 DEF Knows, Reading
  <2>3. \A e \in seen'[p] \cup kept'[p] : Remembered(e)' /\ Same(e)'
    BY <2>1, <2>2, KnowsFresh
  <2>4. \A e \in seen'[p] \cup kept'[p] : Usable(e)
    BY <2>1, <2>2 DEF Usable, ModelReady, Snapshot
  <2>5. p \notin overtaken'
    BY <1>2, <2>1, <2>2, <2>3 DEF Stale
  <2> QED BY <2>1, <2>2, <2>3, <2>4, <2>5 DEF Knows, Reading
<1>9. CASE \E cited \in SUBSET Stored : CompileRetain(p, cited)
  <2> PICK cited \in SUBSET Stored : CompileRetain(p, cited)
    BY <1>9
  <2>1. /\ pc[p] = "generate" /\ pc'[p] = "propose" /\ UNCHANGED <<seen[p], version[p]>>
        /\ kept'[p] = {Snapshot(g) : g \in cited \ {e.page : e \in seen[p]}}
        /\ UNCHANGED <<rows, born>>
    BY <1>1 DEF CompileRetain, pageVars
  <2>2. \A g \in cited : Usable(Snapshot(g))
    <3>1. \A g \in cited : \E e \in evidence[base[p]] :
            e.page = g /\ base[p] # NoProposal
      BY DEF CompileRetain
    <3>2. \A g \in cited : \E e \in evidence[base[p]] :
            e.page = g /\ base[p] \in Proposal
      BY <3>1 DEF TypeOK
    <3> QED BY <3>2 DEF EvidenceFrozen, Same, Usable
  <2>3. \A e \in seen[p] : Remembered(e)' /\ (~Same(e) => ~Same(e)')
    <3>1. \A e \in seen[p] : e \in Seen /\ Remembered(e)
      BY <1>1 DEF Knows
    <3> QED BY <3>1, SnapshotsAge
  <2>4. \A e \in kept'[p] : Remembered(e)' /\ Same(e)'
    BY <2>1, KnowsFresh
  <2>5. \A e \in seen'[p] \cup kept'[p] : Usable(e)
    BY <2>1, <2>2 DEF Knows
  <2>6. p \in overtaken' => \E e \in seen'[p] \cup kept'[p] : ~Same(e)'
    <3>1. CASE p \in overtaken
      <4>1. \E e \in seen[p] \cup kept[p] : ~Same(e)
        BY <2>1, <3>1 DEF Knows
      <4>2. kept[p] = {}
        BY <2>1 DEF Knows
      <4> QED BY <2>1, <2>3, <4>1, <4>2
    <3>2. CASE Stale(p)'
      BY <2>1, <3>2 DEF Stale
    <3> QED BY <1>2, <3>1, <3>2
  <2>7. \A e \in seen'[p] \cup kept'[p] : Remembered(e)'
    BY <2>1, <2>3, <2>4
  <2> QED BY <2>1, <2>5, <2>6, <2>7 DEF Knows, Reading
<1>10. CASE \E g \in Page : AcceptRead(p, g)
  <2> PICK g \in Page : AcceptRead(p, g)
    BY <1>10
  <2>1. /\ pc[p] = "opened" /\ pc'[p] = "accept" /\ g \in Stored
        /\ seen'[p] = {Snapshot(g)} /\ kept'[p] = kept[p]
        /\ UNCHANGED <<rows, born>>
    BY <1>1 DEF AcceptRead, pageVars, CurrentOf
  <2>2. kept'[p] = {} /\ p \notin overtaken
    BY <2>1 DEF Knows, Reading
  <2>3. \A e \in seen'[p] \cup kept'[p] : Remembered(e)'
    BY <2>1, <2>2, KnowsFresh
  <2>4. p \notin overtaken'
    BY <1>2, <2>1, <2>2 DEF Stale
  <2> QED BY <2>1, <2>2, <2>3, <2>4 DEF Knows, Reading
<1> QED BY <1>3, <1>4, <1>5, <1>6, <1>7, <1>8, <1>9, <1>10, CommandIs
           DEF Extraction, Selection

\* A step of another process, or of none, lets a process know what it knew.
LEMMA StillKnows ==
  ASSUME TypeOK, Advance, Tracked, NEW p \in Process, Knows(p), Still(p)
  PROVE  Knows(p)'
<1>1. Staying(p)
  BY DEF Still, Staying
<1> QED BY <1>1, KnowsStays

----------------------------------------------------------------------------
\* The invariant.

\* A source that was just imported.
LEMMA InitiallyIn ==
  ASSUME Init
  PROVE  PageInvariant
<1>1. TypeOK
  <2>1. {kind} \subseteq Kinds /\ latest \in Version /\ born \in 0..MaxPage
    BY Bounds DEF Init, Version
  <2>2. /\ rows \in [Page -> Row \cup {NoRow, Deleted}]
        /\ \A g \in Page : rows[g] = NoRow <=> g > born
    BY Bounds DEF Init, Page
  <2>3. /\ pc \in [Process -> Steps] /\ version \in [Process -> Version]
    BY Bounds DEF Init, Steps, Version
  <2>4. corrections \in 0..MaxCorrections /\ faults \in 0..MaxFaults
    BY Bounds DEF Init
  <2> QED BY <2>1, <2>2, <2>3, <2>4 DEF TypeOK, Init
<1>2. Stored = {}
  BY DEF Init, Stored, Live
<1>3. Leased
  BY Sentinels DEF Init, Leased, Holding, Cleaning
<1>4. Outputs
  <2>1. \A p \in Process : Standing(p)
    BY DEF Init, Standing, Extracting, Reconciling
  <2> QED BY <1>2, <2>1 DEF Init, Outputs, FromEnded, NoLitter, ImagesPresent
<1>5. Rendered
  <2>1. \A v \in Version : CurrentOf(v) = {}
    BY <1>2 DEF CurrentOf
  <2>2. 0 \in 0..MaxNumber /\ 1..0 = {}
    BY Bounds
  <2> QED BY <2>1, <2>2 DEF Rendered, Rendering
<1>6. Lineage /\ EvidenceFrozen
  BY <1>2 DEF Init, Lineage, EvidenceFrozen
<1>7. \A p \in Process : Knows(p)
  BY DEF Init, Knows, Reading
<1> QED BY <1>1, <1>3, <1>4, <1>5, <1>6, <1>7 DEF PageInvariant

\* A step of a command.
LEMMA CommandKeeps ==
  ASSUME PageInvariant, NEW p \in Process, Command(p), Tracked
  PROVE  PageInvariant'
<1> USE DEF PageInvariant
<1>1. TypeOK' /\ Leased' /\ Outputs'
  BY CommandTyped, CommandLeased, CommandOutputs
<1>2. Advance /\ Rendered' /\ Lineage'
  BY CommandPages
<1>3. EvidenceFrozen'
  BY <1>1, <1>2, CommandEvidence DEF Outputs
<1>4. \A q \in Process : Knows(q)'
  BY <1>2, OwnKnows, OthersStay, StillKnows
<1> QED BY <1>1, <1>2, <1>3, <1>4

\* A correction.
LEMMA CorrectKeeps ==
  ASSUME PageInvariant, NEW g \in Page, NEW x \in Text, Correct(g, x), Tracked
  PROVE  PageInvariant'
<1> USE DEF PageInvariant
<1> PICK v \in Version : v = latest
  BY DEF TypeOK
<1>1. /\ g \in CurrentOf(v) /\ Revise(g, x) /\ lock = NoProcess
      /\ corrections' \in 0..MaxCorrections
      /\ UNCHANGED <<kind, latest, proposalVars, runVars, lock, pc, localVars, faults>>
  BY Bounds DEF Correct, Unlocked, TypeOK
<1>2. Revised(g, x)
  BY <1>1, ReviseRows
<1>3. TypeOK'
  <2>1. /\ rows' \in [Page -> Row \cup {NoRow, Deleted}]
        /\ \A h \in Page : rows'[h] = NoRow <=> h > born'
        /\ born' \in 0..MaxPage
    BY <1>1, ReviseTyped
  <2>2. overtaken' \subseteq Process
    BY DEF Tracked
  <2> QED BY <1>1, <2>1, <2>2
         DEF TypeOK, proposalVars, runVars, outputVars, localVars
<1>4. Leased'
  BY <1>1 DEF Leased, runVars, localVars
<1>5. Advance /\ Rendered' /\ Lineage'
  BY <1>1, <1>2, ReviseAdvances, ReviseRenders, ReviseLineage
<1>6. Outputs'
  <2>1. FromEnded' /\ NoLitter' /\ ImagesPresent'
    BY <1>1, <1>2, ReviseOutputs DEF runVars, outputVars
  <2>2. \A p \in Process : pc[p] # "reconcile_commit"
    BY <1>1, Sentinels DEF Leased, Cleaning
  <2>3. \A p \in Process : Standing(p)'
    BY <1>1, <2>2 DEF Outputs, Standing, runVars, outputVars, localVars
  <2> QED BY <2>1, <2>3 DEF Outputs
<1>7. EvidenceFrozen'
  BY <1>1, <1>5, <1>6, EvidenceStays DEF Outputs, proposalVars
<1>8. \A p \in Process : Knows(p)'
  <2>1. \A p \in Process : Still(p)
    BY <1>1 DEF Still, localVars
  <2> QED BY <1>5, <2>1, StillKnows
<1> QED BY <1>3, <1>4, <1>5, <1>6, <1>7, <1>8

\* An apply, or an import.
LEMMA OtherKeeps ==
  ASSUME PageInvariant, (\E q \in Proposal : Apply(q)) \/ Import, Tracked
  PROVE  PageInvariant'
<1> USE DEF PageInvariant
<1>1. /\ UNCHANGED <<kind, rows, born, evidence, baseOf, runVars, lock, pc, localVars,
                     boundVars>>
      /\ latest' \in Version
      /\ {pending', applied'} \subseteq Proposal \cup {NoProposal}
  BY Bounds DEF Apply, Import, TypeOK, Version, pageVars, proposalVars
<1>2. TypeOK'
  <2>1. overtaken' \subseteq Process
    BY DEF Tracked
  <2> QED BY <1>1, <2>1 DEF TypeOK, runVars, outputVars, localVars, boundVars
<1>3. Leased'
  BY <1>1 DEF Leased, runVars, localVars
<1>4. Outputs'
  <2>1. FromEnded' /\ NoLitter' /\ ImagesPresent'
    BY <1>1 DEF Outputs, FromEnded, NoLitter, ImagesPresent, ImageThere, Stored,
       Live, runVars, outputVars
  <2>2. \A p \in Process : Standing(p)'
    BY <1>1 DEF Outputs, Standing, ReferencedImage, Stored, Live, runVars,
       outputVars, localVars
  <2> QED BY <2>1, <2>2 DEF Outputs
<1>5. Advance /\ Rendered' /\ Lineage'
  BY <1>1, NothingAdvances DEF Rendered, Rendering, Lineage, CurrentOf, Stored, Live
<1>6. EvidenceFrozen'
  BY <1>1, <1>4, <1>5, EvidenceStays DEF Outputs
<1>7. \A p \in Process : Knows(p)'
  <2>1. \A p \in Process : Still(p)
    BY <1>1 DEF Still, localVars
  <2> QED BY <1>5, <2>1, StillKnows
<1> QED BY <1>2, <1>3, <1>4, <1>5, <1>6, <1>7

\* Nothing.
LEMMA StutterKeeps ==
  ASSUME PageInvariant, UNCHANGED vars
  PROVE  PageInvariant'
<1> USE DEF PageInvariant, vars, pageVars, proposalVars, runVars, outputVars,
            localVars, boundVars
<1>1. TypeOK' /\ Leased'
  BY DEF TypeOK, Leased
<1>2. Outputs'
  BY DEF Outputs, FromEnded, NoLitter, ImagesPresent, ImageThere, Standing,
     ReferencedImage, Stored, Live
<1>3. Rendered' /\ Lineage'
  BY DEF Rendered, Rendering, Lineage, CurrentOf, Stored, Live
<1>4. Advance
  BY NothingAdvances
<1>5. EvidenceFrozen'
  BY <1>2, <1>4, EvidenceStays DEF Outputs
<1>6. \A p \in Process : Knows(p)'
  <2>1. \A v \in Version : PageSnapshot(v)' = PageSnapshot(v)
    BY DEF PageSnapshot, Snapshot, CurrentOf, Stored, Live
  <2>2. \A e : /\ Remembered(e)' <=> Remembered(e)
               /\ Same(e)' <=> Same(e)
               /\ Outdated(e)' <=> Outdated(e)
    BY DEF Remembered, Same, Outdated, Live, Snapshot
  <2>3. \A p \in Process : Lost(p)' <=> Lost(p)
    BY <2>2 DEF Lost, CurrentOf, Stored, Live
  <2>4. \A p \in Process :
          (seen[p] = PageSnapshot(version[p]))' <=> seen[p] = PageSnapshot(version[p])
    BY DEF PageSnapshot, Snapshot, CurrentOf, Stored, Live
  <2> QED BY <2>2, <2>3, <2>4 DEF Knows
<1> QED BY <1>1, <1>2, <1>3, <1>5, <1>6

\* The invariant holds whatever the processes do.
THEOREM PagesAlways == Spec => []PageInvariant
<1>1. Init => PageInvariant
  BY InitiallyIn
<1>2. PageInvariant /\ [Next]_vars => PageInvariant'
  BY CommandKeeps, CorrectKeeps, OtherKeeps, StutterKeeps DEF Next
<1> QED BY <1>1, <1>2, PTL DEF Spec

----------------------------------------------------------------------------
\* The properties.

\* Every variable keeps its type, and the pages generated so far are exactly
\* those with a row or a deleted one.
THEOREM PagesTyped == Spec => []TypeOK
<1>1. PageInvariant => TypeOK
  BY DEF PageInvariant
<1> QED BY <1>1, PagesAlways, PTL

\* What a proposal was generated from is never changed, renumbered, deleted or
\* left without its image: neither by a correction, an acceptance or another
\* extraction, nor by a reconciliation.
THEOREM CapturedFrozen == Spec => []EvidenceFrozen
<1>1. PageInvariant => EvidenceFrozen
  BY DEF PageInvariant
<1> QED BY <1>1, PagesAlways, PTL

\* The current pages of every version are one rendering, numbered without a gap.
THEOREM OneRendering == Spec => []CurrentPages
<1>1. PageInvariant => CurrentPages
  <2> SUFFICES ASSUME PageInvariant, NEW v \in Version
               PROVE  \E n \in 0..MaxNumber :
                        /\ {rows[g].number : g \in CurrentOf(v)} = 1..n
                        /\ Cardinality(CurrentOf(v)) = n
                        /\ n > 0 => \E r \in Run \cup {NoRun} :
                                      \A g \in CurrentOf(v) : rows[g].run = r
    BY DEF CurrentPages
  <2> PICK n \in 0..MaxNumber : Rendering(v, n)
    BY DEF PageInvariant, Rendered
  <2> PICK S : S = CurrentOf(v)
    OBVIOUS
  <2> DEFINE number == [g \in S |-> rows[g].number]
  <2>1. /\ {rows[g].number : g \in S} = 1..n /\ n \in Nat
        /\ \A g, h \in S : rows[g].number = rows[h].number => g = h
        /\ \A g, h \in S : rows[g].run = rows[h].run
    BY Bounds DEF Rendering
  <2>2. number \in Bijection(S, 1..n)
    <3>1. number \in [S -> 1..n]
      BY <2>1
    <3>2. number \in Injection(S, 1..n)
      BY <2>1, <3>1 DEF Injection, IsInjective
    <3>3. number \in Surjection(S, 1..n)
      BY <2>1, <3>1 DEF Surjection
    <3> QED BY <3>2, <3>3 DEF Bijection
  <2>3. Cardinality(S) = n
    <3>1. IsFiniteSet(S)
      <4>1. MaxPage \in Nat /\ S \in SUBSET (1..MaxPage)
        BY Bounds DEF CurrentOf, Stored, Page
      <4>2. IsFiniteSet(1..MaxPage)
        BY <4>1, FS_Interval
      <4> QED BY <4>1, <4>2, FS_Subset
    <3>2. Cardinality(1..n) = n
      BY <2>1, FS_Interval
    <3>3. Cardinality(1..n) = Cardinality(S)
      <4> PICK T : T = 1..n
        OBVIOUS
      <4> PICK f \in Bijection(S, T) : f = number
        BY <2>2
      <4>1. ExistsBijection(S, T)
        BY DEF ExistsBijection
      <4> QED BY <3>1, <4>1, FS_Bijection
    <3> QED BY <3>2, <3>3
  <2>4. n > 0 => \E r \in Run \cup {NoRun} : \A g \in S : rows[g].run = r
    <3> SUFFICES ASSUME n > 0
                 PROVE  \E r \in Run \cup {NoRun} : \A g \in S : rows[g].run = r
      OBVIOUS
    <3> PICK g \in S : TRUE
      BY <2>1
    <3>1. rows[g].run \in Run \cup {NoRun}
      <4>1. rows[g] \in Row
        BY RowTypes DEF PageInvariant, CurrentOf, Stored
      <4> QED BY <4>1 DEF Row
    <3> QED BY <2>1, <3>1
  <2> QED BY <2>1, <2>3, <2>4
<1> QED BY <1>1, PagesAlways, PTL

\* A page supersedes an older, retired identity of itself, and nothing else
\* does.
THEOREM LineageOrdered == Spec => []Lineage
<1>1. PageInvariant => Lineage
  BY DEF PageInvariant
<1> QED BY <1>1, PagesAlways, PTL

\* No reconciliation and no failed extraction takes the image of a page.
THEOREM ImagesStay == Spec => []ImagesPresent
<1>1. PageInvariant => ImagesPresent
  BY DEF PageInvariant, Outputs
<1> QED BY <1>1, PagesAlways, PTL

\* No directory outlives the record that its run is under way, unless pages
\* were published from it.
THEOREM NothingLeftOver == Spec => []NoLitter
<1>1. PageInvariant => NoLitter
  BY DEF PageInvariant, Outputs
<1> QED BY <1>1, PagesAlways, PTL

\* While an extraction lives, its run and its directories are its own.
THEOREM LiveRunsLeftAlone == Spec => LiveRunsIntact
<1> DEFINE Intact(p) ==
             pc[p] \in Extracting /\ pc'[p] = pc[p] =>
               LET r == run[p] IN
               /\ runs'[r] = runs[r]
               /\ r \in images => r \in images'
               /\ r \in staging => r \in staging'
<1>1. ASSUME PageInvariant, Next, NEW p \in Process PROVE Intact(p)
  <2> SUFFICES ASSUME pc[p] \in Extracting, pc'[p] = pc[p]
               PROVE  /\ runs'[run[p]] = runs[run[p]]
                      /\ run[p] \in images => run[p] \in images'
                      /\ run[p] \in staging => run[p] \in staging'
    OBVIOUS
  <2>1. TypeOK /\ Leased /\ pc[p] \in Holding
    BY <1>1 DEF PageInvariant, Extracting, Holding
  <2>2. CASE \E q \in Process : Command(q)
    <3> PICK q \in Process : Command(q)
      BY <2>2
    <3>1. CASE q # p
      <4>1. run[p] \in Run \ {run[q]}
        BY <2>1, <3>1, HoldsRun DEF Leased
      <4> QED BY <2>1, <4>1, OtherRunsStay DEF SameRun
    <3>2. CASE q = p
      <4>1. pc \in [Process -> Steps]
        BY <2>1 DEF TypeOK
      <4>2. ~Ending(p) /\ ~AcceptWrite(p) /\ ~ \E o \in Proposal : CompilePublish(p, o)
        <5>1. ~Finish(p)
          BY <2>1, FinishIs DEF Extracting
        <5> QED BY <2>1, <5>1, EndingIs DEF AcceptWrite, CompilePublish
      <4>3. ~Extraction(p)
        BY <4>1 DEF Extraction, ExtractRead, ExtractLease, ExtractStart,
           ExtractOutput, ExtractStage, ExtractRendered, ExtractAbort, ExtractMark,
           Extracting,
           At, Goto, Opened
      <4>4. ~Reconciliation(p)
        BY <4>1 DEF Reconciliation, Open, ReconcileSkip, ReconcileLease,
           ReconcileBegin, ReconcileStaging, ReconcileImages, ReconcileCommit,
           ReconcileDone, Extracting, At
      <4>5. ~Selection(p)
        BY DEF Selection, CompileBase, CompileSelect, CompileRetain, AcceptRead,
           Extracting, At, Opened
      <4>6. ~ \E n \in Number : \E readings \in [1..n -> Readings] :
                ExtractPublish(p, n, readings)
        BY <4>1 DEF ExtractPublish, At, Goto
      <4> QED BY <3>2, <4>2, <4>3, <4>4, <4>5, <4>6, CommandIs
    <3> QED BY <3>1, <3>2
  <2>3. CASE \/ \E g \in Page, x \in Text : Correct(g, x)
             \/ \E q \in Proposal : Apply(q)
             \/ Import
    BY <2>3 DEF Correct, Apply, Import, runVars, outputVars
  <2> QED BY <1>1, <2>2, <2>3 DEF Next
<1>2. PageInvariant /\ [Next]_vars => [\A p \in Process : Intact(p)]_vars
  BY <1>1
<1> QED BY <1>2, PagesAlways, PTL DEF Spec, LiveRunsIntact

\* Nothing is published from pages that changed since they were read.
THEOREM NeverPublishedStale == Spec => NothingStalePublished
<1>1. ASSUME PageInvariant, Next, NEW p \in Process, Publishes(p)
      PROVE  p \notin overtaken
  <2>1. TypeOK /\ Knows(p) /\ pc \in [Process -> Steps]
    BY <1>1 DEF PageInvariant, TypeOK
  <2>2. pc'[p] # pc[p]
    BY <1>1 DEF Publishes
  <2>3. Command(p)
    <3>1. ASSUME NEW q \in Process, Command(q) PROVE q = p
      BY <2>1, <2>2, <3>1, OthersStay DEF Still
    <3>2. CASE \/ \E g \in Page, x \in Text : Correct(g, x)
               \/ \E q \in Proposal : Apply(q)
               \/ Import
      BY <2>2, <3>2 DEF Correct, Apply, Import
    <3> QED BY <1>1, <3>1, <3>2 DEF Next
  <2>4. CASE pc[p] = "publish" /\ pc'[p] = "release"
    <3>1. ~Ending(p)
      BY <2>1, <2>4, EndingIs, FinishIs
    <3>2. ~Extraction(p)
      BY <2>1, <2>4 DEF Extraction, ExtractRead, ExtractLease, ExtractStart,
         ExtractOutput, ExtractStage, ExtractRendered, ExtractAbort, ExtractMark,
         At, Goto, Opened
    <3>3. ~Reconciliation(p)
      BY <2>4 DEF Reconciliation, Open, ReconcileSkip, ReconcileLease,
         ReconcileBegin, ReconcileStaging, ReconcileImages, ReconcileCommit,
         ReconcileDone, At
    <3>4. ~Selection(p) /\ ~AcceptWrite(p) /\ ~ \E q \in Proposal : CompilePublish(p, q)
      BY <2>4 DEF Selection, CompileBase, CompileSelect, CompileRetain, AcceptRead,
         AcceptWrite, CompilePublish, At, Opened
    <3>5. seen[p] = PageSnapshot(version[p])
      BY <2>3, <3>1, <3>2, <3>3, <3>4, CommandIs DEF ExtractPublish, Publishable
    <3>6. ~Lost(p)
      <4>1. seen[p] = {} => CurrentOf(version[p]) = {}
        BY <3>5 DEF PageSnapshot
      <4>2. \A g \in CurrentOf(version[p]) :
              Snapshot(g).page = g /\ Live(g) /\ rows[g].current
        BY DEF CurrentOf, Stored, Snapshot
      <4>3. \A e \in seen[p] : ~Outdated(e)
        BY <3>5, <4>2 DEF PageSnapshot, Outdated, Same
      <4> QED BY <4>1, <4>3 DEF Lost
    <3> QED BY <2>1, <2>4, <3>6 DEF Knows, Reading
  <2>5. CASE pc[p] = "propose" /\ evidence' # evidence
    <3>1. \E q \in Proposal : CompilePublish(p, q)
      BY <2>3, <2>5, EvidenceUntouched
    <3>2. \A e \in seen[p] \cup kept[p] : Same(e)
      BY <3>1 DEF CompilePublish
    <3> QED BY <2>1, <2>5, <3>2 DEF Knows
  <2> QED BY <1>1, <2>4, <2>5 DEF Publishes
<1>2. PageInvariant /\ [Next]_vars =>
        [\A p \in Process : Publishes(p) => p \notin overtaken]_vars
  BY <1>1
<1> QED BY <1>2, PagesAlways, PTL DEF Spec, NothingStalePublished

\* What an acceptance marks reviewed is the text it showed.
THEOREM AcceptedAsInspected == Spec => AcceptedAsShown
<1> DEFINE AsShown(p) ==
             pc[p] = "accept" /\ pc'[p] = "idle" =>
               \A g \in Page : rows'[g] # rows[g] /\ Live(g)' /\ rows'[g].current =>
                 \E e \in seen[p] : rows'[g].text = e.text
<1>1. ASSUME PageInvariant, Next, NEW p \in Process PROVE AsShown(p)
  <2> SUFFICES ASSUME pc[p] = "accept", pc'[p] = "idle", NEW g \in Page,
                      rows'[g] # rows[g], rows'[g].current
               PROVE  \E e \in seen[p] : rows'[g].text = e.text
    OBVIOUS
  <2>1. TypeOK
    BY <1>1 DEF PageInvariant
  <2>2. Command(p)
    <3>1. ASSUME NEW q \in Process, Command(q) PROVE q = p
      BY <2>1, <3>1, OthersStay DEF Still
    <3>2. CASE \/ \E h \in Page, x \in Text : Correct(h, x)
               \/ \E q \in Proposal : Apply(q)
               \/ Import
      BY <3>2 DEF Correct, Apply, Import
    <3> QED BY <1>1, <3>1, <3>2 DEF Next
  <2>3. AcceptWrite(p)
    <3>1. ~ \E n \in Number : \E readings \in [1..n -> Readings] :
              ExtractPublish(p, n, readings)
      BY DEF ExtractPublish, At
    <3> QED BY <2>2, <3>1, CommandIs, RowsStay
  <2>4. PICK e \in seen[p], h \in CurrentOf(latest) :
          AsInspected(e, h) /\ Revised(h, rows[h].text)
    BY <2>1, <2>3, AcceptWriteIs
  <2>5. rows[h].text = e.text /\ rows[h] \in Row
    BY <2>1, <2>4, RowTypes DEF AsInspected, CurrentOf, Stored
  <2>6. CASE ReworkedAlone(h, rows[h].text)
    BY <2>5, <2>6 DEF ReworkedAlone
  <2>7. CASE Succeeded(h, rows[h].text)
    <3>1. ~rows'[h].current
      BY <2>5, <2>7 DEF Succeeded, Retired, Row
    <3>2. g = born + 1
      BY <2>7, <3>1 DEF Succeeded
    <3> QED BY <2>5, <2>7, <3>2 DEF Succeeded
  <2> QED BY <2>4, <2>6, <2>7 DEF Revised
<1>2. PageInvariant /\ [Next]_vars => [\A p \in Process : AsShown(p)]_vars
  BY <1>1
<1> QED BY <1>2, PagesAlways, PTL DEF Spec, AcceptedAsShown

=============================================================================
