----------------------- MODULE ArticleContent_proofs -----------------------
(***************************************************************************)
(* What an article says, for any answers of the model, however long, any   *)
(* lines that a person writes, and any number of compiles and edits; and   *)
(* that the diff of a publication is exact, and as short as can be as long *)
(* as the table for it is not too large.                                   *)
(*                                                                         *)
(* The model's loops are recursive functions over the positions of a       *)
(* sequence.  Recursion gives each its equation and Induction what it      *)
(* returns: both follow from the least element of a set of numbers, so     *)
(* that a property is a set and not an operator.                           *)
(***************************************************************************)
EXTENDS ArticleContent, FiniteSetTheorems, SequenceTheorems,
        WellFoundedInduction, TLAPS

----------------------------------------------------------------------------
\* Numbers and recursive functions.

\* Every non-empty set of numbers has a least element.
LEMMA Least ==
  ASSUME NEW T, T \subseteq Nat, T # {}
  PROVE  \E m \in T : \A k \in T : m <= k
<1> DEFINE R == OpToRel(<, Nat)
<1>1. IsWellFoundedOn(R, Nat)
  BY NatLessThanWellFounded
<1>2. \A x, y \in Nat : <<x, y>> \in R <=> x < y
  BY DEF OpToRel
<1> HIDE DEF R
<1>3. PICK m \in T : \A y \in T : ~ (<<y, m>> \in R)
  BY <1>1, WFMin
<1>4. ASSUME NEW k \in T PROVE m <= k
  <2>1. ~(<<k, m>> \in R) /\ k \in Nat /\ m \in Nat
    BY <1>3
  <2>2. ~ (k < m)
    BY <2>1, <1>2
  <2> QED BY <2>1, <2>2
<1> QED
  BY <1>4

\* Induction, for the set of the numbers that have a property, up to a bound.
LEMMA Induction ==
  ASSUME NEW N \in Nat, NEW T, 0 \in T, \A n \in 1..N : n - 1 \in T => n \in T
  PROVE  0..N \subseteq T
<1> SUFFICES ASSUME NEW n \in 0..N, n \notin T PROVE FALSE
  OBVIOUS
<1> DEFINE Miss == {i \in 0..N : i \notin T}
<1>1. PICK m \in Miss : \A k \in Miss : m <= k
  <2> HIDE DEF Miss
  <2>1. Miss \subseteq Nat /\ Miss # {}
    BY DEF Miss
  <2> QED
    BY <2>1, Least
<1>2. m \in 1..N /\ m - 1 \in 0..N /\ m - 1 \notin Miss
  BY <1>1
<1> QED
  BY <1>1, <1>2

\* A function all of whose values have a type when each has it after the one
\* before.
LEMMA Values ==
  ASSUME NEW N \in Nat, NEW f, NEW A, f[0] \in A,
         \A n \in 1..N : f[n - 1] \in A => f[n] \in A
  PROVE  \A n \in 0..N : f[n] \in A
<1> DEFINE T == {n \in 0..N : f[n] \in A}
<1>1. 0 \in T
  OBVIOUS
<1>2. \A n \in 1..N : n - 1 \in T => n \in T
  OBVIOUS
<1> HIDE DEF T
<1>3. 0..N \subseteq T
  BY <1>1, <1>2, Induction
<1> QED BY <1>3 DEF T

\* Steps that keep a type, and what they make of a first value.
Closed(step, N, A) == \A n \in 1..N, a \in A : step[n][a] \in A
Iterates(f, first, step, N) ==
  f[0] = first /\ \A n \in 1..N : f[n] = step[n][f[n - 1]]
LEMMA Recursion ==
  ASSUME NEW N \in Nat, NEW A, NEW first \in A, NEW step, Closed(step, N, A)
  PROVE  \E f \in [0..N -> A] : Iterates(f, first, step, N)
<1> USE DEF Closed, Iterates
<1> DEFINE Solves(k, f) ==
             f[0] = first /\ \A n \in 1..k : f[n] = step[n][f[n - 1]]
           T == {k \in 0..N : \E f \in [0..k -> A] : Solves(k, f)}
<1>1. 0 \in T
  <2> DEFINE f == [n \in 0..0 |-> first]
  <2>1. f \in [0..0 -> A] /\ Solves(0, f)
    OBVIOUS
  <2> HIDE DEF f, Solves
  <2> QED BY <2>1
<1>2. ASSUME NEW k \in 1..N, k - 1 \in T PROVE k \in T
  <2>1. PICK f \in [0..(k - 1) -> A] : Solves(k - 1, f)
    BY <1>2
  <2> DEFINE g == [n \in 0..k |-> IF n < k THEN f[n] ELSE step[k][f[k - 1]]]
  <2>2. g \in [0..k -> A]
    BY <2>1
  <2>3. ASSUME NEW n \in 1..k PROVE g[n] = step[n][g[n - 1]]
    <3>1. CASE n < k
      BY <2>1, <3>1
    <3>2. CASE n = k
      BY <3>2
    <3> QED BY <3>1, <3>2
  <2>4. Solves(k, g)
    BY <2>1, <2>3
  <2> HIDE DEF g, Solves
  <2> QED BY <2>2, <2>4
<1> HIDE DEF T, Solves
<1>3. N \in T
  BY <1>1, <1>2, Induction
<1>4. PICK f \in [0..N -> A] : Solves(N, f)
  BY <1>3 DEF T
<1> QED BY <1>4 DEF Solves

----------------------------------------------------------------------------
\* Merging citations.

\* s is a prefix of t.
Grows(s, t) == Len(s) <= Len(t) /\ \A i \in 1..Len(s) : t[i] = s[i]
\* Each slot of new is taken in cites.
Covers(cites, new) ==
  \A i \in 1..Len(new) : \E j \in 1..Len(cites) : SameSlot(cites[j], new[i])

\* One citation is appended, unless its slot is taken.
LEMMA MergeOneIs ==
  ASSUME NEW C, NEW kept \in Seq(C), NEW c \in C
  PROVE  LET more == MergeOne(kept, c) IN
         /\ more \in Seq(C) /\ Grows(kept, more)
         /\ \E j \in 1..Len(more) : SameSlot(more[j], c)
         /\ (\E j \in 1..Len(kept) : SameSlot(kept[j], c)) => more = kept
<1>1. Len(kept) \in Nat /\ DOMAIN kept = 1..Len(kept)
  OBVIOUS
<1>2. CASE \E j \in DOMAIN kept : SameSlot(kept[j], c)
  <2>1. MergeOne(kept, c) = kept
    BY <1>2 DEF MergeOne
  <2> QED BY <1>1, <1>2, <2>1 DEF Grows
<1>3. CASE ~ \E j \in DOMAIN kept : SameSlot(kept[j], c)
  <2>1. MergeOne(kept, c) = Append(kept, c)
    BY <1>3 DEF MergeOne
  <2> DEFINE more == Append(kept, c)
  <2>2. /\ more \in Seq(C) /\ Len(more) = Len(kept) + 1
        /\ \A i \in 1..Len(kept) : more[i] = kept[i]
        /\ more[Len(kept) + 1] = c
    OBVIOUS
  <2> HIDE DEF more
  <2>3. SameSlot(more[Len(kept) + 1], c)
    BY <2>2 DEF SameSlot
  <2>4. Len(kept) + 1 \in 1..Len(more)
    BY <1>1, <2>2
  <2>5. MergeOne(kept, c) = more
    BY <2>1 DEF more
  <2>6. Grows(kept, more)
    BY <1>1, <2>2 DEF Grows
  <2> QED BY <1>1, <1>3, <2>2, <2>3, <2>4, <2>5, <2>6
<1> QED BY <1>2, <1>3

\* The steps of a merge.
LEMMA MergeSteps ==
  ASSUME NEW C, NEW old \in Seq(C), NEW new \in Seq(C)
  PROVE  \E kept : /\ kept[0] = old
                   /\ \A n \in 1..Len(new) : kept[n] = MergeOne(kept[n - 1], new[n])
                   /\ Merge(old, new) = kept[Len(new)]
<1> DEFINE N == Len(new)
           Solves(f) ==
             f = [n \in 0..N |-> IF n = 0 THEN old ELSE MergeOne(f[n - 1], new[n])]
           step == [n \in 1..N |-> [a \in Seq(C) |-> MergeOne(a, new[n])]]
<1>1. N \in Nat
  OBVIOUS
<1>2. Closed(step, N, Seq(C))
  <2> SUFFICES ASSUME NEW n \in 1..N, NEW a \in Seq(C) PROVE step[n][a] \in Seq(C)
    BY DEF Closed
  <2>1. new[n] \in C
    OBVIOUS
  <2>2. MergeOne(a, new[n]) \in Seq(C)
    BY <2>1, MergeOneIs
  <2> QED BY <2>2
<1> HIDE DEF step
<1>3. PICK f \in [0..N -> Seq(C)] : Iterates(f, old, step, N)
  BY <1>1, <1>2, Recursion
<1>4. \A n \in 1..N : f[n] = MergeOne(f[n - 1], new[n])
  <2> SUFFICES ASSUME NEW n \in 1..N PROVE f[n] = MergeOne(f[n - 1], new[n])
    OBVIOUS
  <2>1. f[n - 1] \in Seq(C)
    <3>1. n - 1 \in 0..N
      BY <1>1
    <3> QED BY <1>3, <3>1
  <2>2. f[n] = step[n][f[n - 1]]
    BY <1>3 DEF Iterates
  <2> QED BY <2>1, <2>2 DEF step
<1>5. Solves(f)
  BY <1>1, <1>3, <1>4 DEF Iterates
<1>6. Solves(CHOOSE g : Solves(g))
  BY <1>5, Zenon
<1>7. Merge(old, new) = (CHOOSE g : Solves(g))[N]
  BY Zenon DEF Merge
<1>8. PICK kept : Solves(kept) /\ Merge(old, new) = kept[N]
  BY <1>6, <1>7, Zenon
<1>9. kept[0] = old /\ \A n \in 1..N : kept[n] = MergeOne(kept[n - 1], new[n])
  <2> HIDE DEF N
  <2> QED BY <1>1, <1>8
<1> QED BY <1>8, <1>9

\* merge_citations appends what is new to what was there, and nothing when
\* every slot is taken.
LEMMA MergeIs ==
  ASSUME NEW C, NEW old \in Seq(C), NEW new \in Seq(C)
  PROVE  LET merged == Merge(old, new) IN
         /\ merged \in Seq(C) /\ Grows(old, merged) /\ Covers(merged, new)
         /\ Covers(old, new) => merged = old
<1>1. PICK kept : /\ kept[0] = old
                  /\ \A n \in 1..Len(new) : kept[n] = MergeOne(kept[n - 1], new[n])
                  /\ Merge(old, new) = kept[Len(new)]
  BY MergeSteps
<1> DEFINE N == Len(new)
           Done(n, m) == /\ m \in Seq(C) /\ Grows(old, m)
                         /\ \A i \in 1..n : \E j \in 1..Len(m) : SameSlot(m[j], new[i])
                         /\ Covers(old, new) => m = old
           T == {n \in 0..N : Done(n, kept[n])}
<1>2. N \in Nat /\ \A n \in 1..N : new[n] \in C
  OBVIOUS
<1>3. 0 \in T
  BY <1>1, <1>2 DEF Grows
<1>4. ASSUME NEW n \in 1..N, n - 1 \in T PROVE n \in T
  <2> DEFINE a == kept[n - 1]
             b == kept[n]
             c == new[n]
  <2>1. a \in Seq(C) /\ c \in C /\ b = MergeOne(a, c) /\ Done(n - 1, a)
    BY <1>1, <1>2, <1>4
  <2>2. /\ b \in Seq(C) /\ Grows(a, b)
        /\ \E j \in 1..Len(b) : SameSlot(b[j], c)
        /\ (\E j \in 1..Len(a) : SameSlot(a[j], c)) => b = a
    <3> HIDE DEF a, b, c
    <3> QED BY <2>1, MergeOneIs
  <2>3. Len(a) \in Nat /\ Len(b) \in Nat /\ Len(old) \in Nat
    BY <2>1, <2>2
  <2> HIDE DEF a, b
  <2>4. Grows(old, b)
    BY <2>1, <2>2, <2>3 DEF Grows
  <2>5. \A i \in 1..n : \E j \in 1..Len(b) : SameSlot(b[j], new[i])
    <3> SUFFICES ASSUME NEW i \in 1..n
                 PROVE  \E j \in 1..Len(b) : SameSlot(b[j], new[i])
      OBVIOUS
    <3>1. CASE i = n
      BY <2>2, <3>1
    <3>2. CASE i # n
      <4>1. i \in 1..(n - 1)
        BY <1>2, <3>2
      <4>2. PICK j \in 1..Len(a) : SameSlot(a[j], new[i])
        BY <2>1, <4>1
      <4>3. j \in 1..Len(b) /\ b[j] = a[j]
        BY <2>2, <2>3, <4>2 DEF Grows
      <4> QED BY <4>2, <4>3
    <3> QED BY <3>1, <3>2
  <2>6. Covers(old, new) => b = old
    BY <1>2, <2>1, <2>2 DEF Covers
  <2> QED BY <2>2, <2>4, <2>5, <2>6 DEF b
<1>5. 0..N \subseteq T
  <2> HIDE DEF T
  <2> QED BY <1>2, <1>3, <1>4, Induction
<1>6. Done(N, kept[N])
  <2>1. N \in T
    BY <1>2, <1>5
  <2> QED BY <2>1
<1> QED BY <1>1, <1>6 DEF Covers

----------------------------------------------------------------------------
\* The first claim with a key and a text.

\* The first of some positions, or 0.
FirstOf(S) == IF S # {} THEN Min(S) ELSE 0
LEMMA FirstIs ==
  ASSUME NEW S, S \subseteq Nat
  PROVE  /\ S # {} => FirstOf(S) \in S /\ \A j \in S : FirstOf(S) <= j
         /\ S = {} => FirstOf(S) = 0
<1>1. CASE S # {}
  <2>1. \E m \in S : \A k \in S : m <= k
    BY <1>1, Least
  <2>2. Min(S) \in S /\ \A k \in S : Min(S) <= k
    BY <2>1, Zenon DEF Min
  <2> QED BY <1>1, <2>2 DEF FirstOf
<1>2. CASE S = {}
  BY <1>2 DEF FirstOf
<1> QED BY <1>1, <1>2

\* Its position among the blocks of its section, and that of its section.
Twins(blocks, text) == {i \in 1..Len(blocks) : blocks[i].text = text}
TwinSections(sections, key, text) ==
  {s \in 1..Len(sections) :
     sections[s].key = key /\ FirstTwin(sections[s].blocks, text) # 0}

\* The searches of accumulate return the first of these positions.
LEMMA FirstTwinIs ==
  ASSUME NEW blocks, NEW text
  PROVE  FirstTwin(blocks, text) = FirstOf(Twins(blocks, text))
BY DEF FirstTwin, SelectInSeq, FirstOf, Twins

\* ... for sections with a key and a claim,
LEMMA FirstSectionWithIs ==
  ASSUME NEW sections, NEW key, NEW text
  PROVE  FirstSectionWith(sections, key, text)
           = FirstOf(TwinSections(sections, key, text))
BY DEF FirstSectionWith, SelectInSeq, FirstOf, TwinSections

\* ... and for sections with a key and a heading.
LEMMA FirstSectionIs ==
  ASSUME NEW sections, NEW key, NEW heading
  PROVE  FirstSection(sections, key, heading)
           = FirstOf({s \in 1..Len(sections) :
                        sections[s].key = key /\ sections[s].heading = heading})
BY DEF FirstSection, SelectInSeq, FirstOf

\* Sections and their blocks are sequences.
Sized(sections) ==
  /\ Len(sections) \in Nat
  /\ \A s \in 1..Len(sections) : Len(sections[s].blocks) \in Nat
\* No section has the claim, or section s has it first, as its block i.
Absent(sections, key, text) ==
  \A s \in 1..Len(sections) : \A i \in 1..Len(sections[s].blocks) :
    ~ (sections[s].key = key /\ sections[s].blocks[i].text = text)
FirstAt(sections, key, text, s, i) ==
  /\ s \in 1..Len(sections) /\ sections[s].key = key
  /\ i \in 1..Len(sections[s].blocks) /\ sections[s].blocks[i].text = text
  /\ \A j \in 1..(i - 1) : sections[s].blocks[j].text # text
  /\ \A r \in 1..(s - 1) : \A j \in 1..Len(sections[r].blocks) :
       ~ (sections[r].key = key /\ sections[r].blocks[j].text = text)

\* The search finds a block when there is one, ...
LEMMA TwinFound ==
  ASSUME NEW blocks, Len(blocks) \in Nat, NEW text
  PROVE  /\ FirstTwin(blocks, text) = 0 <=>
              \A i \in 1..Len(blocks) : blocks[i].text # text
         /\ FirstTwin(blocks, text) # 0 =>
              /\ FirstTwin(blocks, text) \in 1..Len(blocks)
              /\ blocks[FirstTwin(blocks, text)].text = text
              /\ \A j \in 1..(FirstTwin(blocks, text) - 1) : blocks[j].text # text
<1> DEFINE i == FirstTwin(blocks, text)
           S == Twins(blocks, text)
<1>1. S \subseteq Nat /\ \A j : j \in S <=> j \in 1..Len(blocks) /\ blocks[j].text = text
  BY DEF Twins
<1>2. i = FirstOf(S)
  BY FirstTwinIs
<1> HIDE DEF S, i
<1>3. /\ S # {} => i \in S /\ \A j \in S : i <= j
      /\ S = {} => i = 0
  BY <1>1, <1>2, FirstIs
<1> QED BY <1>1, <1>3 DEF i

\* ... and the first section that has one.
LEMMA ClaimFound ==
  ASSUME NEW sections, Sized(sections), NEW key, NEW text
  PROVE  LET s == FirstSectionWith(sections, key, text) IN
         /\ s = 0 => Absent(sections, key, text)
         /\ s # 0 => FirstAt(sections, key, text, s,
                             FirstTwin(sections[s].blocks, text))
<1> DEFINE s == FirstSectionWith(sections, key, text)
           S == TwinSections(sections, key, text)
           Has(r) == \E j \in 1..Len(sections[r].blocks) :
                       sections[r].blocks[j].text = text
<1>1. \A r \in 1..Len(sections) :
        FirstTwin(sections[r].blocks, text) # 0 <=> Has(r)
  BY TwinFound DEF Sized
<1>2. /\ S \subseteq Nat
      /\ \A r : r \in S <=> r \in 1..Len(sections) /\ sections[r].key = key /\ Has(r)
  BY <1>1 DEF TwinSections, Sized
<1>3. s = FirstOf(S)
  BY FirstSectionWithIs
<1> HIDE DEF S, s
<1>4. /\ S # {} => s \in S /\ \A j \in S : s <= j
      /\ S = {} => s = 0
  BY <1>2, <1>3, FirstIs
<1>5. s = 0 => Absent(sections, key, text)
  BY <1>2, <1>4 DEF Absent
<1>6. ASSUME s # 0
      PROVE  FirstAt(sections, key, text, s, FirstTwin(sections[s].blocks, text))
  <2>1. s \in S /\ \A j \in S : s <= j
    BY <1>4, <1>6
  <2>2. s \in 1..Len(sections) /\ Len(sections) \in Nat
    BY <1>2, <2>1 DEF Sized
  <2>3. \A r \in 1..(s - 1) : ~ (sections[r].key = key /\ Has(r))
    BY <1>2, <2>1, <2>2
  <2>4. FirstTwin(sections[s].blocks, text) # 0 /\ sections[s].key = key
    BY <1>1, <1>2, <2>1
  <2>5. Len(sections[s].blocks) \in Nat
    BY <2>2 DEF Sized
  <2> QED BY <2>2, <2>3, <2>4, <2>5, TwinFound DEF FirstAt
<1> QED BY <1>5, <1>6 DEF s

\* Where a claim is first, the search finds it.
LEMMA FirstAtFound ==
  ASSUME NEW sections, Sized(sections), NEW key, NEW text, NEW s, NEW i,
         FirstAt(sections, key, text, s, i)
  PROVE  /\ FirstSectionWith(sections, key, text) = s
         /\ FirstTwin(sections[s].blocks, text) = i
<1> DEFINE r == FirstSectionWith(sections, key, text)
           j == FirstTwin(sections[r].blocks, text)
<1>1. /\ r = 0 => Absent(sections, key, text)
      /\ r # 0 => FirstAt(sections, key, text, r, j)
  BY ClaimFound
<1> HIDE DEF r, j
<1>2. r # 0
  BY <1>1 DEF FirstAt, Absent
<1>3. r = s
  BY <1>1, <1>2 DEF FirstAt, Sized
<1>4. j = i
  BY <1>1, <1>2, <1>3 DEF FirstAt, Sized
<1> QED BY <1>3, <1>4 DEF r, j

----------------------------------------------------------------------------
\* One block of an answer.

Cited(C) == Seq(C) \ {<<>>}
\* A claim of a section, as BlocksOf gives it.
ClaimsIn(Q) == [key : STRING, heading : Word, text : Word, cites : Q]
BlockClaims(C) == ClaimsIn(Cited(C))

\* What an addition may do: blocks and sections are appended, and blocks gain
\* citations.
BlockKept(b, d) == d.text = b.text /\ Grows(b.cites, d.cites)
BlocksKept(s, t) ==
  Len(s) <= Len(t) /\ \A i \in 1..Len(s) : BlockKept(s[i], t[i])
SectionKept(s, t) ==
  t.key = s.key /\ t.heading = s.heading /\ BlocksKept(s.blocks, t.blocks)
Kept(old, new) ==
  Len(old) <= Len(new) /\ \A s \in 1..Len(old) : SectionKept(old[s], new[s])

\* The first block with the claim has all its slots.
Absorbed(sections, b) ==
  \E s, i \in Nat :
    /\ FirstAt(sections, b.key, b.text, s, i)
    /\ Covers(sections[s].blocks[i].cites, b.cites)

\* Types, as the proofs use them.
LEMMA Typed ==
  ASSUME NEW C, NEW sections \in Seq(Sections(Cited(C)))
  PROVE  /\ Sized(sections)
         /\ \A s \in 1..Len(sections) :
              /\ sections[s] \in Sections(Cited(C))
              /\ sections[s].blocks \in Seq(Blocks(Cited(C)))
              /\ \A i \in 1..Len(sections[s].blocks) :
                   /\ sections[s].blocks[i] \in Blocks(Cited(C))
                   /\ sections[s].blocks[i].text \in Word
                   /\ sections[s].blocks[i].cites \in Seq(C)
                   /\ Len(sections[s].blocks[i].cites) \in Nat \ {0}
<1>1. \A s \in 1..Len(sections) : sections[s] \in Sections(Cited(C))
  OBVIOUS
<1>2. ASSUME NEW t \in Sections(Cited(C))
      PROVE  /\ t.blocks \in Seq(Blocks(Cited(C))) /\ Len(t.blocks) \in Nat
             /\ \A i \in 1..Len(t.blocks) : t.blocks[i] \in Blocks(Cited(C))
  <2>1. t.blocks \in Seq(Blocks(Cited(C)))
    BY DEF Sections
  <2> QED BY <2>1
<1>3. ASSUME NEW d \in Blocks(Cited(C))
      PROVE  d.text \in Word /\ d.cites \in Seq(C) /\ Len(d.cites) \in Nat \ {0}
  <2>1. d.text \in Word /\ d.cites \in Seq(C) /\ d.cites # <<>>
    BY DEF Blocks, Cited
  <2> QED BY <2>1
<1>4. Len(sections) \in Nat
  OBVIOUS
<1> QED BY <1>1, <1>2, <1>3, <1>4 DEF Sized

\* Growing is reflexive and transitive.
LEMMA GrowsOn ==
  /\ \A r : Len(r) \in Nat => Grows(r, r)
  /\ \A r, s, t : Len(r) \in Nat /\ Len(s) \in Nat /\ Len(t) \in Nat
                  /\ Grows(r, s) /\ Grows(s, t) => Grows(r, t)
  /\ \A r, s, c : Len(r) \in Nat /\ Len(s) \in Nat /\ Grows(r, s) /\ Covers(r, c)
                  => Covers(s, c)
  /\ \A r, s : Len(r) \in Nat /\ Len(s) \in Nat /\ Grows(r, s) => Covers(s, r)
<1>1. \A r : Len(r) \in Nat => Grows(r, r)
  BY DEF Grows
<1>2. \A r, s, t : Len(r) \in Nat /\ Len(s) \in Nat /\ Len(t) \in Nat
                  /\ Grows(r, s) /\ Grows(s, t) => Grows(r, t)
  BY DEF Grows
<1>3. \A r, s, c : Len(r) \in Nat /\ Len(s) \in Nat /\ Grows(r, s) /\ Covers(r, c)
                  => Covers(s, c)
  <2> SUFFICES ASSUME NEW r, NEW s, NEW c, Len(r) \in Nat, Len(s) \in Nat,
                      Grows(r, s), Covers(r, c), NEW i \in 1..Len(c)
               PROVE  \E j \in 1..Len(s) : SameSlot(s[j], c[i])
    BY DEF Covers
  <2>1. PICK j \in 1..Len(r) : SameSlot(r[j], c[i])
    BY DEF Covers
  <2>2. j \in 1..Len(s) /\ s[j] = r[j]
    BY DEF Grows
  <2> QED BY <2>1, <2>2
<1>4. \A r, s : Len(r) \in Nat /\ Len(s) \in Nat /\ Grows(r, s) => Covers(s, r)
  <2> SUFFICES ASSUME NEW r, NEW s, Len(r) \in Nat, Len(s) \in Nat, Grows(r, s),
                      NEW i \in 1..Len(r)
               PROVE  \E j \in 1..Len(s) : SameSlot(s[j], r[i])
    BY DEF Covers
  <2>1. i \in 1..Len(s) /\ s[i] = r[i]
    BY DEF Grows
  <2>2. SameSlot(s[i], r[i])
    BY <2>1 DEF SameSlot
  <2> QED BY <2>1, <2>2
<1> QED BY <1>1, <1>2, <1>3, <1>4

\* A block takes citations.
Take(sections, s, i, cites) ==
  [sections EXCEPT ![s].blocks[i].cites = Merge(@, cites)]
HasTaken(sections, s, i, cites, new, merged, Q) ==
  /\ new \in Seq(Sections(Q)) /\ Len(new) = Len(sections)
  /\ \A r \in 1..Len(sections) : r # s => new[r] = sections[r]
  /\ new[s].key = sections[s].key /\ new[s].heading = sections[s].heading
  /\ Len(new[s].blocks) = Len(sections[s].blocks)
  /\ \A j \in 1..Len(sections[s].blocks) :
       j # i => new[s].blocks[j] = sections[s].blocks[j]
  /\ new[s].blocks[i].text = sections[s].blocks[i].text
  /\ new[s].blocks[i].cites = merged
  /\ Grows(sections[s].blocks[i].cites, merged) /\ Covers(merged, cites)
  /\ Covers(sections[s].blocks[i].cites, cites) => new = sections
LEMMA Taken ==
  ASSUME NEW C, NEW sections \in Seq(Sections(Cited(C))), NEW cites \in Cited(C),
         NEW s \in 1..Len(sections), NEW i \in 1..Len(sections[s].blocks)
  PROVE  HasTaken(sections, s, i, cites, Take(sections, s, i, cites),
                  Merge(sections[s].blocks[i].cites, cites), Cited(C))
<1> DEFINE Q == Cited(C)
           old == sections[s]
           blocks == old.blocks
           b == blocks[i]
           merged == Merge(b.cites, cites)
           d == [b EXCEPT !.cites = merged]
           more == [blocks EXCEPT ![i] = d]
           section == [old EXCEPT !.blocks = more]
           new == [sections EXCEPT ![s] = section]
<1>1. /\ old \in Sections(Q) /\ blocks \in Seq(Blocks(Q)) /\ b \in Blocks(Q)
      /\ b.cites \in Seq(C) /\ cites \in Seq(C)
      /\ Len(sections) \in Nat /\ Len(blocks) \in Nat
      /\ Len(b.cites) \in Nat \ {0}
  BY Typed DEF Sized, Cited
<1>2. /\ merged \in Seq(C) /\ Grows(b.cites, merged) /\ Covers(merged, cites)
      /\ Covers(b.cites, cites) => merged = b.cites
  <2> HIDE DEF b
  <2> QED BY <1>1, MergeIs
<1> HIDE DEF merged
<1>3. merged \in Cited(C)
  <2>1. Len(merged) \in Nat /\ Len(merged) # 0
    BY <1>1, <1>2 DEF Grows
  <2> QED BY <1>2, <2>1 DEF Cited
<1>4. /\ d \in Blocks(Q) /\ d.text = b.text /\ d.cites = merged
      /\ merged = b.cites => d = b
  <2> HIDE DEF b, Q
  <2>1. merged \in Q
    BY <1>3 DEF Q
  <2> QED BY <1>1, <2>1 DEF Blocks
<1> HIDE DEF d
<1>5. /\ more \in Seq(Blocks(Q)) /\ Len(more) = Len(blocks)
      /\ \A j \in 1..Len(blocks) : more[j] = IF j = i THEN d ELSE blocks[j]
      /\ d = b => more = blocks
  <2>1. \A T, q, e : q \in Seq(T) /\ e \in T /\ i \in 1..Len(q) =>
          LET x == [q EXCEPT ![i] = e] IN
          /\ x \in Seq(T) /\ Len(x) = Len(q)
          /\ \A j \in 1..Len(q) : x[j] = IF j = i THEN e ELSE q[j]
    BY ExceptSeq
  <2>2. d = b => more = blocks
    BY <1>1
  <2> HIDE DEF blocks, Q, b
  <2>3. i \in 1..Len(blocks)
    BY DEF blocks
  <2> QED BY <1>1, <1>4, <2>1, <2>2, <2>3
<1> HIDE DEF more
<1>6. /\ section \in Sections(Q) /\ section.key = old.key
      /\ section.heading = old.heading /\ section.blocks = more
      /\ more = blocks => section = old
  <2> HIDE DEF Q
  <2> QED BY <1>1, <1>5 DEF Sections
<1> HIDE DEF section
<1>7. /\ new \in Seq(Sections(Q)) /\ Len(new) = Len(sections)
      /\ \A r \in 1..Len(sections) : new[r] = IF r = s THEN section ELSE sections[r]
  <2> HIDE DEF old
  <2> QED BY <1>6, ExceptSeq
<1>8. section = old => new = sections
  BY <1>1
<1>9. new = Take(sections, s, i, cites)
  BY DEF Take, section, more, d, merged
<1> HIDE DEF new
<1>10. \A r \in 1..Len(sections) : r # s => new[r] = sections[r]
  BY <1>7
<1>11. new[s] = section
  BY <1>7
<1>12. new[s].key = sections[s].key /\ new[s].heading = sections[s].heading
  BY <1>6, <1>11
<1>13. /\ Len(new[s].blocks) = Len(sections[s].blocks)
       /\ \A j \in 1..Len(sections[s].blocks) :
            j # i => new[s].blocks[j] = sections[s].blocks[j]
       /\ new[s].blocks[i].text = sections[s].blocks[i].text
       /\ new[s].blocks[i].cites = merged
  BY <1>4, <1>5, <1>6, <1>11
<1>14. Covers(sections[s].blocks[i].cites, cites) => new = sections
  BY <1>2, <1>4, <1>5, <1>6, <1>8
<1>15. HasTaken(sections, s, i, cites, new, merged, Q)
  <2> HIDE DEF Q
  <2> QED BY <1>2, <1>7, <1>10, <1>12, <1>13, <1>14 DEF HasTaken
<1> QED BY <1>9, <1>15 DEF merged

\* A block comes last in a section that is there.
Place(sections, s, block) == [sections EXCEPT ![s].blocks = Append(@, block)]
LEMMA Placed ==
  ASSUME NEW C, NEW sections \in Seq(Sections(Cited(C))),
         NEW block \in Blocks(Cited(C)), NEW s \in 1..Len(sections)
  PROVE  LET new == Place(sections, s, block)
             n == Len(sections[s].blocks) IN
         /\ new \in Seq(Sections(Cited(C))) /\ Len(new) = Len(sections)
         /\ \A r \in 1..Len(sections) : r # s => new[r] = sections[r]
         /\ new[s].key = sections[s].key /\ new[s].heading = sections[s].heading
         /\ n \in Nat /\ Len(new[s].blocks) = n + 1
         /\ \A j \in 1..n : new[s].blocks[j] = sections[s].blocks[j]
         /\ new[s].blocks[n + 1] = block
<1> DEFINE Q == Cited(C)
           old == sections[s]
           blocks == old.blocks
           more == Append(blocks, block)
           section == [old EXCEPT !.blocks = more]
           new == [sections EXCEPT ![s] = section]
<1>1. old \in Sections(Q) /\ blocks \in Seq(Blocks(Q)) /\ Len(blocks) \in Nat
  BY Typed DEF Sized
<1>2. /\ more \in Seq(Blocks(Q)) /\ Len(more) = Len(blocks) + 1
      /\ \A j \in 1..Len(blocks) : more[j] = blocks[j]
      /\ more[Len(blocks) + 1] = block
  <2> HIDE DEF blocks, Q
  <2>1. block \in Blocks(Q)
    BY DEF Q
  <2> QED BY <1>1, <2>1, AppendProperties
<1> HIDE DEF more
<1>3. /\ section \in Sections(Q) /\ section.key = old.key
      /\ section.heading = old.heading /\ section.blocks = more
  <2> HIDE DEF Q
  <2> QED BY <1>1, <1>2 DEF Sections
<1> HIDE DEF section
<1>4. /\ new \in Seq(Sections(Q)) /\ Len(new) = Len(sections)
      /\ \A r \in 1..Len(sections) : new[r] = IF r = s THEN section ELSE sections[r]
  <2> HIDE DEF old
  <2> QED BY <1>3, ExceptSeq
<1>5. new = Place(sections, s, block)
  BY DEF Place, section, more
<1> HIDE DEF new
<1>6. new[s] = section /\ \A r \in 1..Len(sections) : r # s => new[r] = sections[r]
  BY <1>4
<1>7. /\ new[s].key = sections[s].key /\ new[s].heading = sections[s].heading
      /\ Len(new[s].blocks) = Len(sections[s].blocks) + 1
      /\ \A j \in 1..Len(sections[s].blocks) :
           new[s].blocks[j] = sections[s].blocks[j]
      /\ new[s].blocks[Len(sections[s].blocks) + 1] = block
  BY <1>2, <1>3, <1>6
<1> QED BY <1>1, <1>4, <1>5, <1>6, <1>7

\* A block opens a section of its own.
LEMMA Opened ==
  ASSUME NEW C, NEW sections \in Seq(Sections(Cited(C))),
         NEW block \in Blocks(Cited(C)), NEW key \in STRING, NEW heading \in Word
  PROVE  LET new == Append(sections, [key |-> key, heading |-> heading,
                                      blocks |-> <<block>>])
             n == Len(sections) IN
         /\ new \in Seq(Sections(Cited(C))) /\ n \in Nat /\ Len(new) = n + 1
         /\ \A r \in 1..n : new[r] = sections[r]
         /\ new[n + 1].key = key
         /\ Len(new[n + 1].blocks) = 1 /\ new[n + 1].blocks[1] = block
<1> DEFINE Q == Cited(C)
           section == [key |-> key, heading |-> heading, blocks |-> <<block>>]
           new == Append(sections, section)
<1>1. <<block>> \in Seq(Blocks(Q)) /\ Len(<<block>>) = 1 /\ <<block>>[1] = block
  <2> HIDE DEF Q
  <2>1. block \in Blocks(Q)
    BY DEF Q
  <2> QED BY <2>1
<1>2. section \in Sections(Q) /\ section.key = key /\ section.blocks = <<block>>
  <2> HIDE DEF Q
  <2> QED BY <1>1 DEF Sections
<1> HIDE DEF section
<1>3. /\ new \in Seq(Sections(Q)) /\ Len(new) = Len(sections) + 1
      /\ \A r \in 1..Len(sections) : new[r] = sections[r]
      /\ new[Len(sections) + 1] = section
  BY <1>2, AppendProperties
<1>4. Len(sections) \in Nat
  OBVIOUS
<1> QED BY <1>1, <1>2, <1>3, <1>4 DEF section

\* What an addition appended to sections that were there is the block itself,
\* which no section had.
Fresh(sections, new, b) ==
  \/ \A r \in 1..Len(sections) : Len(new[r].blocks) = Len(sections[r].blocks)
  \/ /\ Absent(sections, b.key, b.text)
     /\ \A r \in 1..Len(sections) : \A j \in 1..Len(new[r].blocks) :
          j > Len(sections[r].blocks)
          => new[r].key = b.key /\ new[r].blocks[j].text = b.text

\* An addition loses nothing, has the block's slots under its key and text, and
\* changes nothing that had them already.
LEMMA AddBlockIs ==
  ASSUME NEW C, NEW sections \in Seq(Sections(Cited(C))), NEW b \in BlockClaims(C)
  PROVE  LET new == AddBlock(sections, b) IN
         /\ new \in Seq(Sections(Cited(C)))
         /\ Kept(sections, new) /\ Fresh(sections, new, b)
         /\ Absorbed(new, b)
         /\ Absorbed(sections, b) => new = sections
<1> DEFINE twin == FirstSectionWith(sections, b.key, b.text)
           target == FirstSection(sections, b.key, b.heading)
           block == [text |-> b.text, cites |-> b.cites]
           new == AddBlock(sections, b)
           i == FirstTwin(sections[twin].blocks, b.text)
<1>0. /\ b.key \in STRING /\ b.heading \in Word /\ b.text \in Word
      /\ b.cites \in Cited(C) /\ b.cites \in Seq(C) /\ Len(b.cites) \in Nat
      /\ block \in Blocks(Cited(C)) /\ block.text = b.text /\ block.cites = b.cites
  <2>1. /\ b.key \in STRING /\ b.heading \in Word /\ b.text \in Word
        /\ b.cites \in Cited(C)
    BY DEF BlockClaims, ClaimsIn
  <2>2. b.cites \in Seq(C)
    BY <2>1 DEF Cited
  <2>3. Len(b.cites) \in Nat
    BY <2>2
  <2>4. block \in Blocks(Cited(C))
    BY <2>1 DEF Blocks
  <2> QED BY <2>1, <2>2, <2>3, <2>4
<1>1. Sized(sections) /\ Len(sections) \in Nat
  BY Typed DEF Sized
<1>2. /\ twin = 0 => Absent(sections, b.key, b.text)
      /\ twin # 0 => FirstAt(sections, b.key, b.text, twin, i)
  BY <1>1, ClaimFound
<1>3. new = IF twin # 0
            THEN [sections EXCEPT ![twin].blocks[i].cites = Merge(@, b.cites)]
            ELSE IF target = 0
            THEN Append(sections, [key |-> b.key, heading |-> b.heading,
                                   blocks |-> <<block>>])
            ELSE [sections EXCEPT ![target].blocks = Append(@, block)]
  BY Zenon DEF AddBlock
<1>4. target = 0 \/ (target \in 1..Len(sections) /\ sections[target].key = b.key)
  <2> DEFINE S == {s \in 1..Len(sections) :
                     sections[s].key = b.key /\ sections[s].heading = b.heading}
  <2>1. target = FirstOf(S)
    BY FirstSectionIs
  <2>2. S \subseteq Nat
    BY <1>1
  <2> HIDE DEF target
  <2>3. target = 0 \/ target \in S
    <3> HIDE DEF S
    <3> QED BY <2>1, <2>2, FirstIs
  <2> QED BY <2>3
<1> HIDE DEF twin, target, i, new, block
<1>5. ASSUME NEW s, s \in Sections(Cited(C))
      PROVE  SectionKept(s, s)
  <2>1. \A j \in 1..Len(s.blocks) : BlockKept(s.blocks[j], s.blocks[j])
    <3>1. s.blocks \in Seq(Blocks(Cited(C)))
      BY <1>5 DEF Sections
    <3> SUFFICES ASSUME NEW j \in 1..Len(s.blocks)
                 PROVE  BlockKept(s.blocks[j], s.blocks[j])
      OBVIOUS
    <3>2. s.blocks[j] \in Blocks(Cited(C))
      BY <3>1
    <3>3. s.blocks[j].cites \in Seq(C)
      BY <3>2 DEF Blocks, Cited
    <3>4. Len(s.blocks[j].cites) \in Nat
      BY <3>3
    <3> QED BY <3>4, GrowsOn DEF BlockKept
  <2>2. Len(s.blocks) \in Nat
    <3>1. s.blocks \in Seq(Blocks(Cited(C)))
      BY <1>5 DEF Sections
    <3> QED BY <3>1
  <2> QED BY <2>1, <2>2 DEF SectionKept, BlocksKept
<1>6. \A s \in 1..Len(sections) : /\ sections[s] \in Sections(Cited(C))
                                  /\ Len(sections[s].blocks) \in Nat
                                  /\ SectionKept(sections[s], sections[s])
  BY <1>1, <1>5, Typed DEF Sized
<1>7. ASSUME NEW s, NEW j, FirstAt(sections, b.key, b.text, s, j)
      PROVE  s = twin /\ j = i /\ twin # 0
  <2>1. FirstSectionWith(sections, b.key, b.text) = s
        /\ FirstTwin(sections[s].blocks, b.text) = j
    BY <1>1, <1>7, FirstAtFound
  <2>2. s # 0
    BY <1>7 DEF FirstAt
  <2> QED BY <2>1, <2>2 DEF twin, i
<1>8. CASE twin # 0
  <2>1. FirstAt(sections, b.key, b.text, twin, i)
    BY <1>2, <1>8
  <2>2. /\ twin \in 1..Len(sections) /\ i \in 1..Len(sections[twin].blocks)
        /\ twin \in Nat /\ i \in Nat
    BY <1>1, <2>1 DEF FirstAt
  <2> DEFINE had == sections[twin].blocks[i].cites
             merged == Merge(had, b.cites)
  <2>3. /\ new \in Seq(Sections(Cited(C))) /\ Len(new) = Len(sections)
        /\ \A r \in 1..Len(sections) : r # twin => new[r] = sections[r]
        /\ new[twin].key = sections[twin].key
        /\ new[twin].heading = sections[twin].heading
        /\ Len(new[twin].blocks) = Len(sections[twin].blocks)
        /\ \A j \in 1..Len(sections[twin].blocks) :
             j # i => new[twin].blocks[j] = sections[twin].blocks[j]
        /\ new[twin].blocks[i].text = sections[twin].blocks[i].text
        /\ new[twin].blocks[i].cites = merged
        /\ Grows(had, merged) /\ Covers(merged, b.cites)
        /\ Covers(had, b.cites) => new = sections
    <3>1. new = Take(sections, twin, i, b.cites)
      BY <1>3, <1>8 DEF Take
    <3> HIDE DEF had, merged
    <3>2. PICK c : c = b.cites /\ c \in Cited(C)
      BY <1>0
    <3>3. merged = Merge(had, c)
      BY <3>2 DEF merged
    <3>4. new = Take(sections, twin, i, c)
      BY <3>1, <3>2
    <3>5. HasTaken(sections, twin, i, c, Take(sections, twin, i, c), Merge(had, c),
                   Cited(C))
      BY <2>2, <3>2, Taken DEF had
    <3>6. HasTaken(sections, twin, i, b.cites, new, merged, Cited(C))
      BY <3>2, <3>3, <3>4, <3>5
    <3> HIDE DEF new, twin, i
    <3> QED BY <3>6 DEF HasTaken, had
  <2> HIDE DEF had, merged
  <2>4. \A j \in 1..Len(sections[twin].blocks) :
          BlockKept(sections[twin].blocks[j], new[twin].blocks[j])
    <3> SUFFICES ASSUME NEW j \in 1..Len(sections[twin].blocks)
                 PROVE  BlockKept(sections[twin].blocks[j], new[twin].blocks[j])
      OBVIOUS
    <3>1. CASE j = i
      BY <2>3, <3>1 DEF BlockKept, had
    <3>2. CASE j # i
      <4>1. BlockKept(sections[twin].blocks[j], sections[twin].blocks[j])
        BY <1>6, <2>2 DEF SectionKept, BlocksKept
      <4> QED BY <2>3, <3>2, <4>1
    <3> QED BY <3>1, <3>2
  <2>5. SectionKept(sections[twin], new[twin])
    BY <1>6, <2>2, <2>3, <2>4 DEF SectionKept, BlocksKept
  <2>6. Kept(sections, new)
    BY <1>1, <1>6, <2>3, <2>5 DEF Kept
  <2>7. Fresh(sections, new, b)
    BY <2>2, <2>3 DEF Fresh
  <2>8. FirstAt(new, b.key, b.text, twin, i)
    <3>1. \A r \in 1..Len(sections) :
            /\ new[r].key = sections[r].key
            /\ Len(new[r].blocks) = Len(sections[r].blocks)
            /\ \A j \in 1..Len(sections[r].blocks) :
                 new[r].blocks[j].text = sections[r].blocks[j].text
      BY <2>3
    <3>2. /\ new[twin].key = b.key
          /\ i \in 1..Len(new[twin].blocks) /\ new[twin].blocks[i].text = b.text
      BY <2>1, <2>3 DEF FirstAt
    <3>3. \A j \in 1..(i - 1) : new[twin].blocks[j].text # b.text
      <4>1. \A j \in 1..(i - 1) : j \in 1..Len(sections[twin].blocks)
        BY <1>6, <2>2
      <4> QED BY <2>1, <2>2, <3>1, <4>1 DEF FirstAt
    <3>4. \A r \in 1..(twin - 1) : \A j \in 1..Len(new[r].blocks) :
            ~ (new[r].key = b.key /\ new[r].blocks[j].text = b.text)
      <4>1. \A r \in 1..(twin - 1) : r \in 1..Len(sections)
        BY <1>1, <2>2
      <4> QED BY <2>1, <2>2, <3>1, <4>1 DEF FirstAt
    <3> QED BY <2>2, <2>3, <3>2, <3>3, <3>4 DEF FirstAt
  <2>9. Absorbed(new, b)
    BY <2>2, <2>3, <2>8 DEF Absorbed
  <2>10. Absorbed(sections, b) => new = sections
    <3> SUFFICES ASSUME Absorbed(sections, b) PROVE new = sections
      OBVIOUS
    <3>1. PICK s, j \in Nat : /\ FirstAt(sections, b.key, b.text, s, j)
                              /\ Covers(sections[s].blocks[j].cites, b.cites)
      BY DEF Absorbed
    <3>2. Covers(had, b.cites)
      BY <1>7, <3>1 DEF had
    <3> QED BY <2>3, <3>2
  <2> QED BY <2>3, <2>6, <2>7, <2>9, <2>10 DEF new
<1>9. ASSUME twin = 0 PROVE ~ Absorbed(sections, b)
  BY <1>7, <1>9 DEF Absorbed
<1>10. CASE twin = 0 /\ target = 0
  <2> DEFINE n == Len(sections)
  <2>1. /\ new \in Seq(Sections(Cited(C))) /\ Len(new) = n + 1
        /\ \A r \in 1..n : new[r] = sections[r]
        /\ new[n + 1].key = b.key
        /\ Len(new[n + 1].blocks) = 1 /\ new[n + 1].blocks[1] = block
    BY <1>0, <1>3, <1>10, Opened
  <2>2. Absent(sections, b.key, b.text)
    BY <1>2, <1>10
  <2>3. Kept(sections, new)
    BY <1>1, <1>6, <2>1 DEF Kept
  <2>4. Fresh(sections, new, b)
    BY <2>1 DEF Fresh
  <2>5. FirstAt(new, b.key, b.text, n + 1, 1)
    <3> HIDE DEF n
    <3>1. n \in Nat /\ n = Len(sections)
      BY <1>1 DEF n
    <3> QED BY <1>0, <2>1, <2>2, <3>1 DEF FirstAt, Absent
  <2>6. Covers(new[n + 1].blocks[1].cites, b.cites)
    BY <1>0, <2>1, GrowsOn
  <2>7. Absorbed(new, b)
    BY <1>1, <2>5, <2>6 DEF Absorbed
  <2> QED BY <1>9, <1>10, <2>1, <2>3, <2>4, <2>7 DEF new
<1>11. CASE twin = 0 /\ target # 0
  <2> DEFINE n == Len(sections[target].blocks)
  <2>0. target \in 1..Len(sections) /\ sections[target].key = b.key
    BY <1>4, <1>11
  <2>1. /\ new \in Seq(Sections(Cited(C))) /\ Len(new) = Len(sections)
        /\ \A r \in 1..Len(sections) : r # target => new[r] = sections[r]
        /\ new[target].key = sections[target].key
        /\ new[target].heading = sections[target].heading
        /\ n \in Nat /\ Len(new[target].blocks) = n + 1
        /\ \A j \in 1..n : new[target].blocks[j] = sections[target].blocks[j]
        /\ new[target].blocks[n + 1] = block
    <3>1. new = Place(sections, target, block)
      BY <1>3, <1>11 DEF Place
    <3> QED BY <1>0, <2>0, <3>1, Placed
  <2>2. Absent(sections, b.key, b.text)
    BY <1>2, <1>11
  <2>3. \A j \in 1..n : BlockKept(sections[target].blocks[j], new[target].blocks[j])
    BY <1>6, <2>0, <2>1 DEF SectionKept, BlocksKept
  <2>4. SectionKept(sections[target], new[target])
    BY <2>1, <2>3 DEF SectionKept, BlocksKept
  <2>5. Kept(sections, new)
    BY <1>1, <1>6, <2>1, <2>4 DEF Kept
  <2> HIDE DEF n
  <2>6. Fresh(sections, new, b)
    <3>1. ASSUME NEW r \in 1..Len(sections), NEW j \in 1..Len(new[r].blocks),
                 j > Len(sections[r].blocks)
          PROVE  new[r].key = b.key /\ new[r].blocks[j].text = b.text
      <4>1. r = target
        BY <1>6, <2>1, <3>1
      <4>2. j = n + 1
        BY <2>1, <3>1, <4>1 DEF n
      <4> QED BY <1>0, <2>0, <2>1, <4>1, <4>2
    <3> QED BY <2>2, <3>1 DEF Fresh
  <2>7. FirstAt(new, b.key, b.text, target, n + 1)
    <3>1. \A j \in 1..n : new[target].blocks[j].text # b.text
      BY <2>0, <2>1, <2>2 DEF Absent, n
    <3>2. \A r \in 1..(target - 1) : \A j \in 1..Len(new[r].blocks) :
            ~ (new[r].key = b.key /\ new[r].blocks[j].text = b.text)
      <4> SUFFICES ASSUME NEW r \in 1..(target - 1), NEW j \in 1..Len(new[r].blocks)
                   PROVE  ~ (new[r].key = b.key /\ new[r].blocks[j].text = b.text)
        OBVIOUS
      <4>1. r \in 1..Len(sections) /\ r # target
        BY <1>1, <2>0
      <4> QED BY <2>1, <2>2, <4>1 DEF Absent
    <3>3. /\ n + 1 \in 1..Len(new[target].blocks) /\ (n + 1) - 1 = n
          /\ new[target].blocks[n + 1].text = b.text
      BY <1>0, <2>1
    <3> QED BY <2>0, <2>1, <3>1, <3>2, <3>3 DEF FirstAt
  <2>8. Covers(new[target].blocks[n + 1].cites, b.cites)
    BY <1>0, <2>1, GrowsOn
  <2>9. Absorbed(new, b)
    BY <1>1, <2>0, <2>1, <2>7, <2>8 DEF Absorbed
  <2> QED BY <1>9, <1>11, <2>1, <2>5, <2>6, <2>9 DEF new
<1> QED BY <1>8, <1>10, <1>11

\* What was absorbed stays so: nothing comes before the first block with a claim.
LEMMA AbsorbedStays ==
  ASSUME NEW C, NEW old \in Seq(Sections(Cited(C))),
         NEW new \in Seq(Sections(Cited(C))), NEW a, NEW b,
         Kept(old, new), Fresh(old, new, b), Absorbed(old, a)
  PROVE  Absorbed(new, a)
<1>1. PICK s, i \in Nat : /\ FirstAt(old, a.key, a.text, s, i)
                          /\ Covers(old[s].blocks[i].cites, a.cites)
  BY DEF Absorbed
<1>2. Sized(old) /\ Sized(new)
  BY Typed
<1>3. /\ s \in 1..Len(old) /\ old[s].key = a.key
      /\ i \in 1..Len(old[s].blocks) /\ old[s].blocks[i].text = a.text
      /\ \A j \in 1..(i - 1) : old[s].blocks[j].text # a.text
      /\ \A r \in 1..(s - 1) : \A j \in 1..Len(old[r].blocks) :
           ~ (old[r].key = a.key /\ old[r].blocks[j].text = a.text)
  BY <1>1 DEF FirstAt
<1>4. /\ Len(old) \in Nat /\ Len(new) \in Nat /\ Len(old) <= Len(new)
      /\ \A r \in 1..Len(old) :
           /\ r \in 1..Len(new)
           /\ Len(old[r].blocks) \in Nat /\ Len(new[r].blocks) \in Nat
           /\ Len(old[r].blocks) <= Len(new[r].blocks)
           /\ new[r].key = old[r].key
           /\ \A j \in 1..Len(old[r].blocks) :
                BlockKept(old[r].blocks[j], new[r].blocks[j])
  BY <1>2 DEF Kept, SectionKept, BlocksKept, Sized
<1>5. \A r \in 1..Len(old) : \A j \in 1..Len(old[r].blocks) :
        new[r].blocks[j].text = old[r].blocks[j].text
  BY <1>4 DEF BlockKept
<1>6. \A r \in 1..(s - 1) : \A j \in 1..Len(new[r].blocks) :
        ~ (new[r].key = a.key /\ new[r].blocks[j].text = a.text)
  <2> SUFFICES ASSUME NEW r \in 1..(s - 1), NEW j \in 1..Len(new[r].blocks),
                      new[r].key = a.key, new[r].blocks[j].text = a.text
               PROVE  FALSE
    OBVIOUS
  <2>1. r \in 1..Len(old)
    BY <1>3, <1>4
  <2>2. CASE j <= Len(old[r].blocks)
    <3>1. j \in 1..Len(old[r].blocks)
      BY <1>4, <2>1, <2>2
    <3> QED BY <1>3, <1>4, <1>5, <2>1, <3>1
  <2>3. CASE j > Len(old[r].blocks)
    <3>1. /\ Absent(old, b.key, b.text)
          /\ new[r].key = b.key /\ new[r].blocks[j].text = b.text
      BY <1>4, <2>1, <2>3 DEF Fresh
    <3> QED BY <1>3, <3>1 DEF Absent
  <2> QED BY <1>4, <2>1, <2>2, <2>3
<1>7. \A j \in 1..(i - 1) : new[s].blocks[j].text # a.text
  <2>1. \A j \in 1..(i - 1) : j \in 1..Len(old[s].blocks)
    BY <1>3, <1>4
  <2> QED BY <1>3, <1>5, <2>1
<1>8. /\ s \in 1..Len(new) /\ new[s].key = a.key
      /\ i \in 1..Len(new[s].blocks) /\ new[s].blocks[i].text = a.text
  BY <1>3, <1>4, <1>5
<1>9. FirstAt(new, a.key, a.text, s, i)
  BY <1>6, <1>7, <1>8 DEF FirstAt
<1>10. Covers(new[s].blocks[i].cites, a.cites)
  <2>1. Grows(old[s].blocks[i].cites, new[s].blocks[i].cites)
    BY <1>3, <1>4 DEF BlockKept
  <2>2. Len(old[s].blocks[i].cites) \in Nat /\ Len(new[s].blocks[i].cites) \in Nat
    BY <1>3, <1>8, Typed
  <2> QED BY <1>1, <2>1, <2>2, GrowsOn
<1> QED BY <1>1, <1>9, <1>10 DEF Absorbed

\* Being kept is reflexive and transitive.
LEMMA KeptSelf ==
  ASSUME NEW C, NEW s \in Seq(Sections(Cited(C)))
  PROVE  Kept(s, s)
<1>1. /\ Len(s) \in Nat
      /\ \A r \in 1..Len(s) :
           /\ Len(s[r].blocks) \in Nat
           /\ \A i \in 1..Len(s[r].blocks) : Len(s[r].blocks[i].cites) \in Nat
  BY Typed DEF Sized
<1>2. \A r \in 1..Len(s) : \A i \in 1..Len(s[r].blocks) :
        BlockKept(s[r].blocks[i], s[r].blocks[i])
  BY <1>1, GrowsOn DEF BlockKept
<1> QED BY <1>1, <1>2 DEF Kept, SectionKept, BlocksKept

\* What is kept twice is kept.
LEMMA KeptAgain ==
  ASSUME NEW C, NEW s \in Seq(Sections(Cited(C))),
         NEW t \in Seq(Sections(Cited(C))), NEW u \in Seq(Sections(Cited(C))),
         Kept(s, t), Kept(t, u)
  PROVE  Kept(s, u)
<1>0. ASSUME NEW x \in Seq(Sections(Cited(C)))
      PROVE  /\ Len(x) \in Nat
             /\ \A r \in 1..Len(x) :
                  /\ Len(x[r].blocks) \in Nat
                  /\ \A i \in 1..Len(x[r].blocks) :
                       Len(x[r].blocks[i].cites) \in Nat
  BY Typed DEF Sized
<1>1. /\ Len(s) \in Nat /\ Len(t) \in Nat /\ Len(u) \in Nat
      /\ Len(s) <= Len(t) /\ Len(t) <= Len(u)
  BY <1>0 DEF Kept
<1>2. ASSUME NEW r \in 1..Len(s) PROVE SectionKept(s[r], u[r])
  <2>1. r \in 1..Len(t) /\ r \in 1..Len(u)
    BY <1>1
  <2>2. SectionKept(s[r], t[r]) /\ SectionKept(t[r], u[r])
    BY <2>1 DEF Kept
  <2>3. /\ Len(s[r].blocks) \in Nat /\ Len(t[r].blocks) \in Nat
        /\ Len(u[r].blocks) \in Nat
        /\ Len(s[r].blocks) <= Len(t[r].blocks)
        /\ Len(t[r].blocks) <= Len(u[r].blocks)
    BY <1>0, <2>1, <2>2 DEF SectionKept, BlocksKept
  <2>4. ASSUME NEW i \in 1..Len(s[r].blocks)
        PROVE  BlockKept(s[r].blocks[i], u[r].blocks[i])
    <3>1. i \in 1..Len(t[r].blocks) /\ i \in 1..Len(u[r].blocks)
      <4> DEFINE l == Len(s[r].blocks)
                 m == Len(t[r].blocks)
                 n == Len(u[r].blocks)
      <4>1. l \in Nat /\ m \in Nat /\ n \in Nat /\ l <= m /\ m <= n /\ i \in 1..l
        BY <2>3
      <4> HIDE DEF l, m, n
      <4>2. i \in 1..m /\ i \in 1..n
        BY <4>1
      <4> QED BY <4>2 DEF m, n
    <3>2. /\ BlockKept(s[r].blocks[i], t[r].blocks[i])
          /\ BlockKept(t[r].blocks[i], u[r].blocks[i])
      BY <2>2, <3>1 DEF SectionKept, BlocksKept
    <3>3. /\ Len(s[r].blocks[i].cites) \in Nat /\ Len(t[r].blocks[i].cites) \in Nat
          /\ Len(u[r].blocks[i].cites) \in Nat
      BY <1>0, <2>1, <3>1
    <3> QED BY <3>2, <3>3, GrowsOn DEF BlockKept
  <2>5. BlocksKept(s[r].blocks, u[r].blocks)
    <3>1. Len(s[r].blocks) <= Len(u[r].blocks)
      BY <2>3
    <3> QED BY <2>4, <3>1 DEF BlocksKept
  <2>6. u[r].key = s[r].key /\ u[r].heading = s[r].heading
    BY <2>2 DEF SectionKept
  <2> QED BY <2>5, <2>6 DEF SectionKept
<1> QED BY <1>1, <1>2 DEF Kept

\* The steps of AddBlocks.
LEMMA AddBlocksSteps ==
  ASSUME NEW C, NEW sections \in Seq(Sections(Cited(C))),
         NEW blocks \in Seq(BlockClaims(C))
  PROVE  \E sum : /\ sum[0] = sections
                  /\ \A n \in 1..Len(blocks) : sum[n] = AddBlock(sum[n - 1], blocks[n])
                  /\ AddBlocks(sections, blocks) = sum[Len(blocks)]
<1> DEFINE N == Len(blocks)
           A == Seq(Sections(Cited(C)))
           Solves(f) ==
             f = [n \in 0..N |-> IF n = 0 THEN sections
                                 ELSE AddBlock(f[n - 1], blocks[n])]
           step == [n \in 1..N |-> [a \in A |-> AddBlock(a, blocks[n])]]
<1>1. N \in Nat
  OBVIOUS
<1>2. Closed(step, N, A)
  <2> SUFFICES ASSUME NEW n \in 1..N, NEW a \in A PROVE step[n][a] \in A
    BY DEF Closed
  <2>1. blocks[n] \in BlockClaims(C)
    OBVIOUS
  <2>2. AddBlock(a, blocks[n]) \in A
    BY <2>1, AddBlockIs
  <2> QED BY <2>2
<1> HIDE DEF step
<1>3. PICK f \in [0..N -> A] : Iterates(f, sections, step, N)
  BY <1>1, <1>2, Recursion
<1>4. \A n \in 1..N : f[n] = AddBlock(f[n - 1], blocks[n])
  <2> SUFFICES ASSUME NEW n \in 1..N PROVE f[n] = AddBlock(f[n - 1], blocks[n])
    OBVIOUS
  <2>1. f[n - 1] \in A
    <3>1. n - 1 \in 0..N
      BY <1>1
    <3> HIDE DEF A
    <3> QED BY <1>3, <3>1
  <2>2. f[n] = step[n][f[n - 1]]
    BY <1>3 DEF Iterates
  <2> HIDE DEF A
  <2> QED BY <2>1, <2>2 DEF step
<1>5. Solves(f)
  <2> HIDE DEF A
  <2> QED BY <1>1, <1>3, <1>4 DEF Iterates
<1>6. Solves(CHOOSE g : Solves(g))
  BY <1>5, Zenon
<1>7. AddBlocks(sections, blocks) = (CHOOSE g : Solves(g))[N]
  BY Zenon DEF AddBlocks
<1>8. PICK sum : Solves(sum) /\ AddBlocks(sections, blocks) = sum[N]
  BY <1>6, <1>7, Zenon
<1>9. sum[0] = sections /\ \A n \in 1..N : sum[n] = AddBlock(sum[n - 1], blocks[n])
  <2> HIDE DEF N
  <2> QED BY <1>1, <1>8
<1> QED BY <1>8, <1>9

\* All blocks of an answer are absorbed, and nothing is lost.
LEMMA AddBlocksIs ==
  ASSUME NEW C, NEW sections \in Seq(Sections(Cited(C))),
         NEW blocks \in Seq(BlockClaims(C))
  PROVE  LET new == AddBlocks(sections, blocks) IN
         /\ new \in Seq(Sections(Cited(C))) /\ Kept(sections, new)
         /\ \A n \in 1..Len(blocks) : Absorbed(new, blocks[n])
         /\ (\A n \in 1..Len(blocks) : Absorbed(sections, blocks[n]))
            => new = sections
<1>1. PICK sum : /\ sum[0] = sections
                 /\ \A n \in 1..Len(blocks) : sum[n] = AddBlock(sum[n - 1], blocks[n])
                 /\ AddBlocks(sections, blocks) = sum[Len(blocks)]
  BY AddBlocksSteps
<1> DEFINE N == Len(blocks)
           A == Seq(Sections(Cited(C)))
           All == \A n \in 1..N : Absorbed(sections, blocks[n])
           Done(n, x) == /\ x \in A /\ Kept(sections, x)
                         /\ \A k \in 1..n : Absorbed(x, blocks[k])
                         /\ All => x = sections
           T == {n \in 0..N : Done(n, sum[n])}
<1>2. N \in Nat /\ \A n \in 1..N : blocks[n] \in BlockClaims(C)
  OBVIOUS
<1>3. 0 \in T
  BY <1>1, <1>2, KeptSelf
<1>4. ASSUME NEW n \in 1..N, n - 1 \in T PROVE n \in T
  <2> DEFINE a == sum[n - 1]
             b == sum[n]
             c == blocks[n]
  <2>1. Done(n - 1, a)
    BY <1>4
  <2>2. b = AddBlock(a, c) /\ c \in BlockClaims(C)
    BY <1>1, <1>2
  <2> HIDE DEF a, b, c, All
  <2>3. /\ b \in A /\ Kept(a, b) /\ Fresh(a, b, c) /\ Absorbed(b, c)
        /\ Absorbed(a, c) => b = a
    BY <2>1, <2>2, AddBlockIs
  <2>4. Kept(sections, b)
    BY <2>1, <2>3, KeptAgain
  <2>5. \A k \in 1..n : Absorbed(b, blocks[k])
    <3> SUFFICES ASSUME NEW k \in 1..n PROVE Absorbed(b, blocks[k])
      OBVIOUS
    <3>1. CASE k = n
      BY <2>3, <3>1 DEF c
    <3>2. CASE k # n
      <4>1. k \in 1..(n - 1)
        BY <1>2, <3>2
      <4>2. Absorbed(a, blocks[k])
        BY <2>1, <4>1
      <4> QED BY <2>1, <2>3, <4>2, AbsorbedStays
    <3> QED BY <3>1, <3>2
  <2>6. All => b = sections
    <3>1. ASSUME All PROVE b = sections
      <4>1. a = sections /\ Absorbed(sections, c)
        BY <2>1, <3>1 DEF All, c
      <4> QED BY <2>3, <4>1
    <3> QED BY <3>1
  <2>7. Done(n, b)
    BY <2>3, <2>4, <2>5, <2>6
  <2> QED BY <2>7 DEF b
<1>5. 0..N \subseteq T
  <2> HIDE DEF T
  <2> QED BY <1>2, <1>3, <1>4, Induction
<1>6. Done(N, sum[N])
  <2>1. N \in T
    BY <1>2, <1>5
  <2> QED BY <2>1
<1> QED BY <1>1, <1>6

----------------------------------------------------------------------------
\* Related concepts, which an answer adds to in the same way.

\* The first block with a text, and that it has all the slots of another.
BlockAt(blocks, text, i) ==
  /\ i \in 1..Len(blocks) /\ blocks[i].text = text
  /\ \A j \in 1..(i - 1) : blocks[j].text # text
Listed(blocks, b) ==
  \E i \in Nat : BlockAt(blocks, b.text, i) /\ Covers(blocks[i].cites, b.cites)

\* Types, as the proofs use them.
LEMMA TypedBlocks ==
  ASSUME NEW C, NEW blocks \in Seq(Blocks(Cited(C)))
  PROVE  /\ Len(blocks) \in Nat
         /\ \A i \in 1..Len(blocks) :
              /\ blocks[i] \in Blocks(Cited(C)) /\ blocks[i].text \in Word
              /\ blocks[i].cites \in Cited(C) /\ blocks[i].cites \in Seq(C)
              /\ Len(blocks[i].cites) \in Nat \ {0}
<1>1. Len(blocks) \in Nat /\ \A i \in 1..Len(blocks) : blocks[i] \in Blocks(Cited(C))
  OBVIOUS
<1>2. ASSUME NEW d \in Blocks(Cited(C))
      PROVE  /\ d.text \in Word /\ d.cites \in Cited(C) /\ d.cites \in Seq(C)
             /\ Len(d.cites) \in Nat \ {0}
  <2>1. d.text \in Word /\ d.cites \in Cited(C)
    BY DEF Blocks
  <2>2. d.cites \in Seq(C) /\ d.cites # <<>>
    BY <2>1 DEF Cited
  <2> QED BY <2>1, <2>2
<1> QED BY <1>1, <1>2

\* What was listed stays so, since blocks are appended.
LEMMA ListedStays ==
  ASSUME NEW C, NEW old \in Seq(Blocks(Cited(C))), NEW new \in Seq(Blocks(Cited(C))),
         BlocksKept(old, new), NEW a, Listed(old, a)
  PROVE  Listed(new, a)
<1>1. PICK i \in Nat : BlockAt(old, a.text, i) /\ Covers(old[i].cites, a.cites)
  BY DEF Listed
<1>2. /\ Len(old) \in Nat /\ Len(new) \in Nat /\ Len(old) <= Len(new)
      /\ \A j \in 1..Len(old) : new[j].text = old[j].text
      /\ i \in 1..Len(old) /\ i \in 1..Len(new)
  BY <1>1, TypedBlocks DEF BlocksKept, BlockKept, BlockAt
<1>3. \A j \in 1..(i - 1) : j \in 1..Len(old)
  BY <1>2
<1>4. BlockAt(new, a.text, i)
  BY <1>1, <1>2, <1>3 DEF BlockAt
<1>5. Covers(new[i].cites, a.cites)
  <2>1. Grows(old[i].cites, new[i].cites)
    BY <1>2 DEF BlocksKept, BlockKept
  <2>2. Len(old[i].cites) \in Nat /\ Len(new[i].cites) \in Nat
    BY <1>2, TypedBlocks
  <2> QED BY <1>1, <2>1, <2>2, GrowsOn
<1> QED BY <1>1, <1>4, <1>5 DEF Listed

\* Keeping blocks is reflexive and transitive.
LEMMA BlocksKeptOn ==
  ASSUME NEW C
  PROVE  /\ \A s \in Seq(Blocks(Cited(C))) : BlocksKept(s, s)
         /\ \A s, t, u \in Seq(Blocks(Cited(C))) :
              BlocksKept(s, t) /\ BlocksKept(t, u) => BlocksKept(s, u)
<1>1. ASSUME NEW s \in Seq(Blocks(Cited(C))) PROVE BlocksKept(s, s)
  BY TypedBlocks, GrowsOn DEF BlocksKept, BlockKept
<1>2. ASSUME NEW s \in Seq(Blocks(Cited(C))), NEW t \in Seq(Blocks(Cited(C))),
             NEW u \in Seq(Blocks(Cited(C))), BlocksKept(s, t), BlocksKept(t, u)
      PROVE  BlocksKept(s, u)
  <2>1. /\ Len(s) \in Nat /\ Len(t) \in Nat /\ Len(u) \in Nat
        /\ Len(s) <= Len(t) /\ Len(t) <= Len(u)
    BY <1>2, TypedBlocks DEF BlocksKept
  <2>2. ASSUME NEW i \in 1..Len(s) PROVE BlockKept(s[i], u[i])
    <3>1. i \in 1..Len(t) /\ i \in 1..Len(u)
      BY <2>1
    <3>2. BlockKept(s[i], t[i]) /\ BlockKept(t[i], u[i])
      BY <1>2, <3>1 DEF BlocksKept
    <3>3. /\ Len(s[i].cites) \in Nat /\ Len(t[i].cites) \in Nat
          /\ Len(u[i].cites) \in Nat
      BY <3>1, TypedBlocks
    <3> QED BY <3>2, <3>3, GrowsOn DEF BlockKept
  <2> QED BY <2>1, <2>2 DEF BlocksKept
<1> QED BY <1>1, <1>2

\* One related concept is merged into the first with its text, or appended.
LEMMA AddRelatedIs ==
  ASSUME NEW C, NEW related \in Seq(Blocks(Cited(C))), NEW r \in Blocks(Cited(C))
  PROVE  LET new == AddRelated(related, r) IN
         /\ new \in Seq(Blocks(Cited(C))) /\ BlocksKept(related, new)
         /\ Listed(new, r)
         /\ Listed(related, r) => new = related
<1> DEFINE i == FirstTwin(related, r.text)
           new == AddRelated(related, r)
           Q == Cited(C)
<1>0. /\ Len(related) \in Nat /\ r.text \in Word /\ r.cites \in Seq(C)
      /\ Len(r.cites) \in Nat /\ r.cites # <<>>
      /\ \A j \in 1..Len(related) : /\ related[j] \in Blocks(Q)
                                    /\ related[j].cites \in Seq(C)
                                    /\ Len(related[j].cites) \in Nat \ {0}
  <2>1. r.text \in Word /\ r.cites \in Cited(C)
    BY DEF Blocks
  <2>2. r.cites \in Seq(C) /\ r.cites # <<>>
    BY <2>1 DEF Cited
  <2>3. Len(r.cites) \in Nat
    BY <2>2
  <2> QED BY <2>1, <2>2, <2>3, TypedBlocks
<1>1. /\ i = 0 <=> \A j \in 1..Len(related) : related[j].text # r.text
      /\ i # 0 => BlockAt(related, r.text, i)
  BY <1>0, TwinFound DEF BlockAt
<1>2. new = IF i = 0 THEN Append(related, r)
            ELSE [related EXCEPT ![i].cites = Merge(@, r.cites)]
  BY Zenon DEF AddRelated
<1>3. Listed(related, r) =>
        i # 0 /\ Covers(related[i].cites, r.cites)
  <2> HIDE DEF i
  <2> SUFFICES ASSUME Listed(related, r)
               PROVE  i # 0 /\ Covers(related[i].cites, r.cites)
    OBVIOUS
  <2>1. PICK j \in Nat : BlockAt(related, r.text, j) /\ Covers(related[j].cites, r.cites)
    BY DEF Listed
  <2>2. i # 0
    BY <1>1, <2>1 DEF BlockAt
  <2>3. i = j
    BY <1>0, <1>1, <2>1, <2>2 DEF BlockAt
  <2> QED BY <2>1, <2>2, <2>3
<1>4. BlocksKept(related, related)
  BY BlocksKeptOn
<1> HIDE DEF i, new
<1>5. CASE i = 0
  <2>1. /\ new \in Seq(Blocks(Q)) /\ Len(new) = Len(related) + 1
        /\ \A j \in 1..Len(related) : new[j] = related[j]
        /\ new[Len(related) + 1] = r
    <3>1. new = Append(related, r)
      BY <1>2, <1>5
    <3> HIDE DEF Q
    <3>2. related \in Seq(Blocks(Q)) /\ r \in Blocks(Q)
      BY DEF Q
    <3> QED BY <3>1, <3>2, AppendProperties
  <2>2. BlocksKept(related, new)
    BY <1>0, <1>4, <2>1 DEF BlocksKept
  <2>3. Len(related) + 1 \in Nat /\ BlockAt(new, r.text, Len(related) + 1)
    BY <1>0, <1>1, <1>5, <2>1 DEF BlockAt
  <2>4. Covers(new[Len(related) + 1].cites, r.cites)
    BY <1>0, <2>1, GrowsOn
  <2>5. Listed(new, r)
    BY <2>3, <2>4 DEF Listed
  <2> QED BY <1>3, <1>5, <2>1, <2>2, <2>5 DEF new
<1>6. CASE i # 0
  <2> DEFINE b == related[i]
             merged == Merge(b.cites, r.cites)
             d == [b EXCEPT !.cites = merged]
  <2>1. i \in 1..Len(related) /\ BlockAt(related, r.text, i)
    BY <1>1, <1>6 DEF BlockAt
  <2>2. /\ merged \in Seq(C) /\ Grows(b.cites, merged) /\ Covers(merged, r.cites)
        /\ Covers(b.cites, r.cites) => merged = b.cites
    <3>1. b.cites \in Seq(C)
      BY <1>0, <2>1
    <3> HIDE DEF b
    <3> QED BY <1>0, <3>1, MergeIs
  <2>3. new = [related EXCEPT ![i] = d]
    BY <1>2, <1>6
  <2>4. b \in Blocks(Q) /\ Len(b.cites) \in Nat \ {0}
    BY <1>0, <2>1
  <2> HIDE DEF merged, b
  <2>5. merged \in Q
    <3>1. Len(merged) \in Nat /\ Len(merged) # 0
      BY <2>2, <2>4 DEF Grows
    <3> QED BY <2>2, <3>1 DEF Cited
  <2>6. /\ d \in Blocks(Q) /\ d.text = b.text /\ d.cites = merged
        /\ merged = b.cites => d = b
    <3> HIDE DEF Q
    <3> QED BY <2>4, <2>5 DEF Blocks
  <2> HIDE DEF d
  <2>7. /\ new \in Seq(Blocks(Q)) /\ Len(new) = Len(related)
        /\ \A j \in 1..Len(related) : new[j] = IF j = i THEN d ELSE related[j]
    <3> HIDE DEF Q
    <3>1. related \in Seq(Blocks(Q))
      BY DEF Q
    <3> QED BY <2>1, <2>3, <2>6, <3>1, ExceptSeq
  <2>8. d = b => new = related
    BY <2>1, <2>3 DEF b
  <2>9. \A j \in 1..Len(related) : BlockKept(related[j], new[j])
    <3> SUFFICES ASSUME NEW j \in 1..Len(related) PROVE BlockKept(related[j], new[j])
      OBVIOUS
    <3>1. CASE j = i
      BY <2>2, <2>6, <2>7, <3>1 DEF BlockKept, b
    <3>2. CASE j # i
      <4>1. BlockKept(related[j], related[j])
        BY <1>4 DEF BlocksKept
      <4> QED BY <2>7, <3>2, <4>1
    <3> QED BY <3>1, <3>2
  <2>10. BlocksKept(related, new)
    BY <1>0, <2>7, <2>9 DEF BlocksKept
  <2>11. BlockAt(new, r.text, i)
    <3>1. \A j \in 1..Len(related) : new[j].text = related[j].text
      BY <2>9 DEF BlockKept
    <3>2. i \in 1..Len(new) /\ \A j \in 1..(i - 1) : j \in 1..Len(related)
      BY <1>0, <2>1, <2>7
    <3> QED BY <2>1, <3>1, <3>2 DEF BlockAt
  <2>12. Covers(new[i].cites, r.cites)
    BY <2>1, <2>2, <2>6, <2>7
  <2>13. Listed(new, r)
    BY <2>1, <2>11, <2>12 DEF Listed
  <2>14. Listed(related, r) => new = related
    BY <1>3, <2>2, <2>6, <2>8 DEF b
  <2> QED BY <2>7, <2>10, <2>13, <2>14 DEF new
<1> QED BY <1>5, <1>6

\* The steps of AddAllRelated.
LEMMA AddAllRelatedSteps ==
  ASSUME NEW C, NEW related \in Seq(Blocks(Cited(C))), NEW new \in Seq(Blocks(Cited(C)))
  PROVE  \E sum : /\ sum[0] = related
                  /\ \A n \in 1..Len(new) : sum[n] = AddRelated(sum[n - 1], new[n])
                  /\ AddAllRelated(related, new) = sum[Len(new)]
<1> DEFINE N == Len(new)
           A == Seq(Blocks(Cited(C)))
           Solves(f) ==
             f = [n \in 0..N |-> IF n = 0 THEN related
                                 ELSE AddRelated(f[n - 1], new[n])]
           step == [n \in 1..N |-> [a \in A |-> AddRelated(a, new[n])]]
<1>1. N \in Nat
  OBVIOUS
<1>2. Closed(step, N, A)
  <2> SUFFICES ASSUME NEW n \in 1..N, NEW a \in A PROVE step[n][a] \in A
    BY DEF Closed
  <2>1. new[n] \in Blocks(Cited(C))
    OBVIOUS
  <2>2. AddRelated(a, new[n]) \in A
    BY <2>1, AddRelatedIs
  <2> QED BY <2>2
<1> HIDE DEF step
<1>3. PICK f \in [0..N -> A] : Iterates(f, related, step, N)
  BY <1>1, <1>2, Recursion
<1>4. \A n \in 1..N : f[n] = AddRelated(f[n - 1], new[n])
  <2> SUFFICES ASSUME NEW n \in 1..N PROVE f[n] = AddRelated(f[n - 1], new[n])
    OBVIOUS
  <2>1. f[n - 1] \in A
    <3>1. n - 1 \in 0..N
      BY <1>1
    <3> HIDE DEF A
    <3> QED BY <1>3, <3>1
  <2>2. f[n] = step[n][f[n - 1]]
    BY <1>3 DEF Iterates
  <2> HIDE DEF A
  <2> QED BY <2>1, <2>2 DEF step
<1>5. Solves(f)
  <2> HIDE DEF A
  <2> QED BY <1>1, <1>3, <1>4 DEF Iterates
<1>6. Solves(CHOOSE g : Solves(g))
  BY <1>5, Zenon
<1>7. AddAllRelated(related, new) = (CHOOSE g : Solves(g))[N]
  BY Zenon DEF AddAllRelated
<1>8. PICK sum : Solves(sum) /\ AddAllRelated(related, new) = sum[N]
  BY <1>6, <1>7, Zenon
<1>9. sum[0] = related /\ \A n \in 1..N : sum[n] = AddRelated(sum[n - 1], new[n])
  <2> HIDE DEF N
  <2> QED BY <1>1, <1>8
<1> QED BY <1>8, <1>9

\* All related concepts of an answer are listed, and nothing is lost.
LEMMA AddAllRelatedIs ==
  ASSUME NEW C, NEW related \in Seq(Blocks(Cited(C))), NEW more \in Seq(Blocks(Cited(C)))
  PROVE  LET new == AddAllRelated(related, more) IN
         /\ new \in Seq(Blocks(Cited(C))) /\ BlocksKept(related, new)
         /\ \A n \in 1..Len(more) : Listed(new, more[n])
         /\ (\A n \in 1..Len(more) : Listed(related, more[n])) => new = related
<1>1. PICK sum : /\ sum[0] = related
                 /\ \A n \in 1..Len(more) : sum[n] = AddRelated(sum[n - 1], more[n])
                 /\ AddAllRelated(related, more) = sum[Len(more)]
  BY AddAllRelatedSteps
<1> DEFINE N == Len(more)
           A == Seq(Blocks(Cited(C)))
           All == \A n \in 1..N : Listed(related, more[n])
           Done(n, x) == /\ x \in A /\ BlocksKept(related, x)
                         /\ \A k \in 1..n : Listed(x, more[k])
                         /\ All => x = related
           T == {n \in 0..N : Done(n, sum[n])}
<1>2. N \in Nat /\ \A n \in 1..N : more[n] \in Blocks(Cited(C))
  OBVIOUS
<1>3. 0 \in T
  BY <1>1, <1>2, BlocksKeptOn
<1>4. ASSUME NEW n \in 1..N, n - 1 \in T PROVE n \in T
  <2> DEFINE a == sum[n - 1]
             b == sum[n]
             c == more[n]
  <2>1. Done(n - 1, a)
    BY <1>4
  <2>2. b = AddRelated(a, c) /\ c \in Blocks(Cited(C))
    BY <1>1, <1>2
  <2> HIDE DEF a, b, c, All
  <2>3. /\ b \in A /\ BlocksKept(a, b) /\ Listed(b, c)
        /\ Listed(a, c) => b = a
    BY <2>1, <2>2, AddRelatedIs
  <2>4. BlocksKept(related, b)
    BY <2>1, <2>3, BlocksKeptOn
  <2>5. \A k \in 1..n : Listed(b, more[k])
    <3> SUFFICES ASSUME NEW k \in 1..n PROVE Listed(b, more[k])
      OBVIOUS
    <3>1. CASE k = n
      BY <2>3, <3>1 DEF c
    <3>2. CASE k # n
      <4>1. k \in 1..(n - 1)
        BY <1>2, <3>2
      <4>2. Listed(a, more[k])
        BY <2>1, <4>1
      <4> QED BY <2>1, <2>3, <4>2, ListedStays
    <3> QED BY <3>1, <3>2
  <2>6. All => b = related
    <3>1. ASSUME All PROVE b = related
      <4>1. a = related /\ Listed(related, c)
        BY <2>1, <3>1 DEF All, c
      <4> QED BY <2>3, <4>1
    <3> QED BY <3>1
  <2>7. Done(n, b)
    BY <2>3, <2>4, <2>5, <2>6
  <2> QED BY <2>7 DEF b
<1>5. 0..N \subseteq T
  <2> HIDE DEF T
  <2> QED BY <1>2, <1>3, <1>4, Induction
<1>6. Done(N, sum[N])
  <2>1. N \in T
    BY <1>2, <1>5
  <2> QED BY <2>1
<1> QED BY <1>1, <1>6

----------------------------------------------------------------------------
\* The claims of a payload.

\* The steps of FlattenSeq.
LEMMA FlattenSteps ==
  ASSUME NEW T, NEW seqs \in Seq(Seq(T))
  PROVE  \E flat : /\ flat[0] = <<>>
                   /\ \A n \in 1..Len(seqs) : /\ flat[n - 1] \in Seq(T)
                                              /\ flat[n] = flat[n - 1] \o seqs[n]
                   /\ FlattenSeq(seqs) = flat[Len(seqs)]
<1> DEFINE N == Len(seqs)
           A == Seq(T)
           Solves(g) ==
             g = [n \in 1..N |-> IF n = 1 THEN seqs[n] ELSE g[n - 1] \o seqs[n]]
           step == [n \in 1..N |-> [a \in A |-> a \o seqs[n]]]
<1>1. N \in Nat /\ \A n \in 1..N : seqs[n] \in A
  OBVIOUS
<1>2. Closed(step, N, A)
  <2> SUFFICES ASSUME NEW n \in 1..N, NEW a \in A PROVE step[n][a] \in A
    BY DEF Closed
  <2>1. a \o seqs[n] \in A
    BY <1>1
  <2> QED BY <2>1
<1> HIDE DEF step
<1>3. PICK f \in [0..N -> A] : Iterates(f, <<>>, step, N)
  <2>1. <<>> \in A
    OBVIOUS
  <2> HIDE DEF A
  <2> QED BY <1>1, <1>2, <2>1, Recursion
<1>4. \A n \in 1..N : f[n - 1] \in A /\ f[n] = f[n - 1] \o seqs[n]
  <2> SUFFICES ASSUME NEW n \in 1..N
               PROVE  f[n - 1] \in A /\ f[n] = f[n - 1] \o seqs[n]
    OBVIOUS
  <2>1. f[n - 1] \in A
    <3>1. n - 1 \in 0..N
      BY <1>1
    <3> HIDE DEF A
    <3> QED BY <1>3, <3>1
  <2>2. f[n] = step[n][f[n - 1]]
    BY <1>3 DEF Iterates
  <2> HIDE DEF A
  <2> QED BY <2>1, <2>2 DEF step
<1>5. f[0] = <<>> /\ FlattenSeq(seqs) = f[N]
  <2>0. f[0] = <<>>
    BY <1>3 DEF Iterates
  <2>1. CASE N = 0
    <3>1. seqs = <<>>
      BY <2>1
    <3>2. FlattenSeq(seqs) = seqs
      BY <2>1, Zenon DEF FlattenSeq
    <3> QED BY <2>0, <2>1, <3>1, <3>2
  <2>2. CASE N # 0
    <3>1. N \in 1..N
      BY <1>1, <2>2
    <3> DEFINE h == [n \in 1..N |-> f[n]]
    <3>2. Solves(h)
      <4>1. ASSUME NEW n \in 1..N
            PROVE  h[n] = IF n = 1 THEN seqs[n] ELSE h[n - 1] \o seqs[n]
        <5>1. h[n] = f[n - 1] \o seqs[n]
          BY <1>4
        <5>2. CASE n = 1
          <6>1. f[n - 1] = <<>>
            BY <2>0, <5>2
          <6>2. <<>> \o seqs[n] = seqs[n]
            BY <1>1
          <6> QED BY <5>1, <5>2, <6>1, <6>2
        <5>3. CASE n # 1
          <6>1. n - 1 \in 1..N
            BY <1>1, <5>3
          <6>2. h[n - 1] = f[n - 1]
            BY <6>1
          <6> HIDE DEF h
          <6> QED BY <5>1, <5>3, <6>2
        <5> QED BY <5>2, <5>3
      <4>2. h = [n \in 1..N |-> h[n]]
        OBVIOUS
      <4> HIDE DEF h, N
      <4> QED BY <4>1, <4>2
    <3>3. Solves(CHOOSE g : Solves(g))
      BY <3>2, Zenon
    <3>4. FlattenSeq(seqs) = (CHOOSE g : Solves(g))[N]
      BY <2>2, Zenon DEF FlattenSeq
    <3>5. PICK g : Solves(g) /\ FlattenSeq(seqs) = g[N]
      BY <3>3, <3>4, Zenon
    <3> DEFINE S == {n \in 0..N : n = 0 \/ g[n] = f[n]}
    <3>6. 0 \in S
      BY <1>1
    <3>7. ASSUME NEW n \in 1..N, n - 1 \in S PROVE n \in S
      <4>1. g[n] = IF n = 1 THEN seqs[n] ELSE g[n - 1] \o seqs[n]
        <5> HIDE DEF N
        <5> QED BY <3>5
      <4>2. f[n] = f[n - 1] \o seqs[n]
        BY <1>4
      <4>3. CASE n = 1
        <5>1. f[n - 1] = <<>>
          BY <2>0, <4>3
        <5>2. <<>> \o seqs[n] = seqs[n]
          BY <1>1
        <5> QED BY <4>1, <4>2, <4>3, <5>1, <5>2
      <4>4. CASE n # 1
        <5>1. g[n - 1] = f[n - 1]
          BY <3>7, <4>4
        <5>2. g[n] = f[n]
          BY <4>1, <4>2, <4>4, <5>1
        <5> QED BY <5>2
      <4> QED BY <4>3, <4>4
    <3> HIDE DEF S
    <3>8. N \in S
      <4>1. 0..N \subseteq S
        <5> HIDE DEF N
        <5> QED BY <1>1, <3>6, <3>7, Induction
      <4>2. N \in 0..N
        <5> HIDE DEF N
        <5> QED BY <1>1
      <4> QED BY <4>1, <4>2, Zenon
    <3> QED BY <2>0, <2>2, <3>5, <3>8 DEF S
  <2> QED BY <2>1, <2>2
<1> QED BY <1>4, <1>5

\* A flattened sequence has the elements of its sequences and no others.
LEMMA FlattenIs ==
  ASSUME NEW T, NEW seqs \in Seq(Seq(T))
  PROVE  LET flat == FlattenSeq(seqs) IN
         /\ flat \in Seq(T)
         /\ \A i \in 1..Len(flat) : \E s \in 1..Len(seqs) : \E b \in 1..Len(seqs[s]) :
              flat[i] = seqs[s][b]
         /\ \A s \in 1..Len(seqs) : \A b \in 1..Len(seqs[s]) :
              \E i \in 1..Len(flat) : flat[i] = seqs[s][b]
<1>1. PICK f : /\ f[0] = <<>>
               /\ \A n \in 1..Len(seqs) : /\ f[n - 1] \in Seq(T)
                                          /\ f[n] = f[n - 1] \o seqs[n]
               /\ FlattenSeq(seqs) = f[Len(seqs)]
  BY FlattenSteps
<1> DEFINE N == Len(seqs)
           Done(n, x) ==
             /\ x \in Seq(T)
             /\ \A i \in 1..Len(x) : \E s \in 1..n : \E b \in 1..Len(seqs[s]) :
                  x[i] = seqs[s][b]
             /\ \A s \in 1..n : \A b \in 1..Len(seqs[s]) :
                  \E i \in 1..Len(x) : x[i] = seqs[s][b]
           S == {n \in 0..N : Done(n, f[n])}
<1>2. N \in Nat /\ \A n \in 1..N : seqs[n] \in Seq(T)
  OBVIOUS
<1>3. 0 \in S
  <2>1. <<>> \in Seq(T) /\ Len(<<>>) = 0
    OBVIOUS
  <2>2. 1..0 = {}
    OBVIOUS
  <2>3. Done(0, <<>>)
    <3> HIDE DEF N
    <3> QED BY <2>1, <2>2
  <2> HIDE DEF Done
  <2> QED BY <1>1, <1>2, <2>3
<1>4. ASSUME NEW n \in 1..N, n - 1 \in S PROVE n \in S
  <2> DEFINE x == f[n - 1]
             y == seqs[n]
             z == f[n]
  <2>1. Done(n - 1, x)
    BY <1>4
  <2>2. z = x \o y /\ x \in Seq(T) /\ y \in Seq(T)
    BY <1>1, <1>2
  <2> HIDE DEF x, z
  <2>3. /\ z \in Seq(T) /\ Len(x) \in Nat /\ Len(y) \in Nat
        /\ Len(z) = Len(x) + Len(y)
        /\ \A i \in 1..Len(x) : z[i] = x[i]
        /\ \A b \in 1..Len(y) : z[Len(x) + b] = y[b]
        /\ \A i \in (Len(x) + 1)..Len(z) : z[i] = y[i - Len(x)]
    <3> HIDE DEF y
    <3> QED BY <2>2
  <2>4. \A i \in 1..Len(z) : \E s \in 1..n : \E b \in 1..Len(seqs[s]) :
          z[i] = seqs[s][b]
    <3> SUFFICES ASSUME NEW i \in 1..Len(z)
                 PROVE  \E s \in 1..n : \E b \in 1..Len(seqs[s]) : z[i] = seqs[s][b]
      OBVIOUS
    <3>1. CASE i <= Len(x)
      <4>1. i \in 1..Len(x)
        BY <2>3, <3>1
      <4>2. PICK s \in 1..(n - 1) : \E b \in 1..Len(seqs[s]) : x[i] = seqs[s][b]
        BY <2>1, <4>1
      <4>3. s \in 1..n
        BY <1>2
      <4> QED BY <2>3, <4>1, <4>2, <4>3
    <3>2. CASE i > Len(x)
      <4>1. i - Len(x) \in 1..Len(y) /\ z[i] = y[i - Len(x)]
        BY <2>3, <3>2
      <4>2. n \in 1..n
        BY <1>2
      <4> QED BY <4>1, <4>2
    <3> QED BY <2>3, <3>1, <3>2
  <2>5. \A s \in 1..n : \A b \in 1..Len(seqs[s]) :
          \E i \in 1..Len(z) : z[i] = seqs[s][b]
    <3> SUFFICES ASSUME NEW s \in 1..n, NEW b \in 1..Len(seqs[s])
                 PROVE  \E i \in 1..Len(z) : z[i] = seqs[s][b]
      OBVIOUS
    <3>1. CASE s = n
      <4>1. b \in 1..Len(y) /\ y[b] = seqs[s][b]
        BY <3>1
      <4>2. Len(x) + b \in 1..Len(z)
        BY <2>3, <4>1
      <4> QED BY <2>3, <4>1, <4>2
    <3>2. CASE s # n
      <4>1. s \in 1..(n - 1)
        BY <1>2, <3>2
      <4>2. PICK i \in 1..Len(x) : x[i] = seqs[s][b]
        BY <2>1, <4>1
      <4>3. i \in 1..Len(z)
        BY <2>3
      <4> QED BY <2>3, <4>2, <4>3
    <3> QED BY <3>1, <3>2
  <2>6. Done(n, z)
    BY <2>3, <2>4, <2>5
  <2> QED BY <2>6 DEF z
<1>5. 0..N \subseteq S
  <2> HIDE DEF S
  <2> QED BY <1>2, <1>3, <1>4, Induction
<1>6. Done(N, f[N])
  <2>1. N \in S
    BY <1>2, <1>5
  <2> QED BY <2>1
<1> QED BY <1>1, <1>6

\* A claim of a section, and one that is a related concept.
SectionClaim(s, b) ==
  [key |-> s.key, heading |-> s.heading, text |-> b.text, cites |-> b.cites]
RelatedClaim(r) ==
  [key |-> RelatedKey, heading |-> None, text |-> r.text, cites |-> r.cites]

\* A payload's parts, for any set Q of lists of citations.
LEMMA TypedPayload ==
  ASSUME NEW Q, NEW p \in Payloads(Q)
  PROVE  /\ p.sections \in Seq(Sections(Q)) /\ p.related \in Seq(Blocks(Q))
         /\ Len(p.sections) \in Nat /\ DOMAIN p.sections = 1..Len(p.sections)
         /\ Len(p.related) \in Nat /\ DOMAIN p.related = 1..Len(p.related)
         /\ \A s \in 1..Len(p.sections) :
              /\ p.sections[s] \in Sections(Q)
              /\ p.sections[s].key \in STRING /\ p.sections[s].heading \in Word
              /\ p.sections[s].blocks \in Seq(Blocks(Q))
              /\ Len(p.sections[s].blocks) \in Nat
              /\ DOMAIN p.sections[s].blocks = 1..Len(p.sections[s].blocks)
              /\ \A b \in 1..Len(p.sections[s].blocks) :
                   /\ p.sections[s].blocks[b] \in Blocks(Q)
                   /\ p.sections[s].blocks[b].text \in Word
                   /\ p.sections[s].blocks[b].cites \in Q
         /\ \A r \in 1..Len(p.related) :
              /\ p.related[r] \in Blocks(Q)
              /\ p.related[r].text \in Word /\ p.related[r].cites \in Q
<1>1. p.sections \in Seq(Sections(Q)) /\ p.related \in Seq(Blocks(Q))
  BY DEF Payloads
<1>2. ASSUME NEW T, NEW q \in Seq(T)
      PROVE  Len(q) \in Nat /\ DOMAIN q = 1..Len(q) /\ \A i \in 1..Len(q) : q[i] \in T
  OBVIOUS
<1>3. \A s \in Sections(Q) :
        s.key \in STRING /\ s.heading \in Word /\ s.blocks \in Seq(Blocks(Q))
  BY DEF Sections
<1>4. \A b \in Blocks(Q) : b.text \in Word /\ b.cites \in Q
  BY DEF Blocks
<1>5. \A s \in 1..Len(p.sections) :
        /\ p.sections[s] \in Sections(Q)
        /\ p.sections[s].key \in STRING /\ p.sections[s].heading \in Word
        /\ p.sections[s].blocks \in Seq(Blocks(Q))
  BY <1>1, <1>2, <1>3
<1>6. \A s \in 1..Len(p.sections) :
        /\ Len(p.sections[s].blocks) \in Nat
        /\ DOMAIN p.sections[s].blocks = 1..Len(p.sections[s].blocks)
        /\ \A b \in 1..Len(p.sections[s].blocks) : p.sections[s].blocks[b] \in Blocks(Q)
  BY <1>2, <1>5
<1>7. \A r \in 1..Len(p.related) : p.related[r] \in Blocks(Q)
  BY <1>1
<1>8. /\ Len(p.sections) \in Nat /\ DOMAIN p.sections = 1..Len(p.sections)
      /\ Len(p.related) \in Nat /\ DOMAIN p.related = 1..Len(p.related)
  BY <1>1
<1>9. \A s \in 1..Len(p.sections) : \A b \in 1..Len(p.sections[s].blocks) :
        p.sections[s].blocks[b].text \in Word /\ p.sections[s].blocks[b].cites \in Q
  BY <1>4, <1>6
<1>10. \A r \in 1..Len(p.related) : p.related[r].text \in Word /\ p.related[r].cites \in Q
  BY <1>4, <1>7
<1> QED BY <1>1, <1>5, <1>6, <1>7, <1>8, <1>9, <1>10

\* BlocksOf has one claim for every block of a section.
LEMMA BlocksOfIs ==
  ASSUME NEW Q, NEW p \in Payloads(Q)
  PROVE  /\ BlocksOf(p) \in Seq(ClaimsIn(Q))
         /\ \A n \in 1..Len(BlocksOf(p)) :
              \E s \in 1..Len(p.sections) : \E b \in 1..Len(p.sections[s].blocks) :
                BlocksOf(p)[n] = SectionClaim(p.sections[s], p.sections[s].blocks[b])
         /\ \A s \in 1..Len(p.sections) : \A b \in 1..Len(p.sections[s].blocks) :
              \E n \in 1..Len(BlocksOf(p)) :
                BlocksOf(p)[n] = SectionClaim(p.sections[s], p.sections[s].blocks[b])
<1> DEFINE t == p.sections
           row(s) == [b \in 1..Len(t[s].blocks) |-> SectionClaim(t[s], t[s].blocks[b])]
           rows == [s \in 1..Len(t) |-> row(s)]
<1>1. BlocksOf(p) = FlattenSeq(rows)
  <2>1. rows = [s \in DOMAIN p.sections |->
                 [b \in DOMAIN p.sections[s].blocks |->
                    [key     |-> p.sections[s].key,
                     heading |-> p.sections[s].heading,
                     text    |-> p.sections[s].blocks[b].text,
                     cites   |-> p.sections[s].blocks[b].cites]]]
    BY TypedPayload DEF SectionClaim
  <2> HIDE DEF rows
  <2> QED BY <2>1 DEF BlocksOf
<1>2. /\ Len(t) \in Nat
      /\ \A s \in 1..Len(t) :
           /\ Len(t[s].blocks) \in Nat
           /\ t[s].key \in STRING /\ t[s].heading \in Word
           /\ \A b \in 1..Len(t[s].blocks) :
                t[s].blocks[b].text \in Word /\ t[s].blocks[b].cites \in Q
  BY TypedPayload
<1> HIDE DEF t
<1>3. ASSUME NEW s \in 1..Len(t)
      PROVE  /\ row(s) \in Seq(ClaimsIn(Q)) /\ Len(row(s)) = Len(t[s].blocks)
             /\ \A b \in 1..Len(t[s].blocks) :
                  row(s)[b] = SectionClaim(t[s], t[s].blocks[b])
  <2> DEFINE n == Len(t[s].blocks)
             F(b) == SectionClaim(t[s], t[s].blocks[b])
  <2>1. \A b \in 1..n : F(b) \in ClaimsIn(Q)
    BY <1>2 DEF SectionClaim, ClaimsIn
  <2>2. n \in Nat
    BY <1>2
  <2> HIDE DEF n, F
  <2>3. [b \in 1..n |-> F(b)] \in Seq(ClaimsIn(Q))
    BY <2>1, <2>2
  <2>4. Len([b \in 1..n |-> F(b)]) = n
    BY <2>2
  <2>5. \A b \in 1..n : [c \in 1..n |-> F(c)][b] = F(b)
    OBVIOUS
  <2> QED BY <2>3, <2>4, <2>5 DEF n, F
<1> HIDE DEF row
<1>4. rows \in Seq(Seq(ClaimsIn(Q))) /\ Len(rows) = Len(t)
      /\ \A s \in 1..Len(t) : rows[s] = row(s)
  BY <1>2, <1>3
<1> HIDE DEF rows
<1> DEFINE flat == FlattenSeq(rows)
           A == ClaimsIn(Q)
<1>5. /\ flat \in Seq(A)
      /\ \A i \in 1..Len(flat) : \E s \in 1..Len(rows) : \E b \in 1..Len(rows[s]) :
           flat[i] = rows[s][b]
      /\ \A s \in 1..Len(rows) : \A b \in 1..Len(rows[s]) :
           \E i \in 1..Len(flat) : flat[i] = rows[s][b]
  <2>1. rows \in Seq(Seq(A))
    BY <1>4
  <2> HIDE DEF A
  <2> QED BY <2>1, FlattenIs
<1> HIDE DEF flat, A
<1>6. \A s \in 1..Len(t) : /\ s \in 1..Len(rows) /\ Len(rows[s]) = Len(t[s].blocks)
                           /\ \A b \in 1..Len(t[s].blocks) :
                                rows[s][b] = SectionClaim(t[s], t[s].blocks[b])
  <2> SUFFICES ASSUME NEW s \in 1..Len(t)
               PROVE  /\ s \in 1..Len(rows) /\ Len(rows[s]) = Len(t[s].blocks)
                      /\ \A b \in 1..Len(t[s].blocks) :
                           rows[s][b] = SectionClaim(t[s], t[s].blocks[b])
    OBVIOUS
  <2>1. rows[s] = row(s) /\ s \in 1..Len(rows)
    BY <1>4
  <2> QED BY <1>3, <2>1
<1>7. \A n \in 1..Len(flat) : \E s \in 1..Len(t) : \E b \in 1..Len(t[s].blocks) :
        flat[n] = SectionClaim(t[s], t[s].blocks[b])
  <2> SUFFICES ASSUME NEW n \in 1..Len(flat)
               PROVE  \E s \in 1..Len(t) : \E b \in 1..Len(t[s].blocks) :
                        flat[n] = SectionClaim(t[s], t[s].blocks[b])
    OBVIOUS
  <2>1. PICK s \in 1..Len(rows) : \E b \in 1..Len(rows[s]) : flat[n] = rows[s][b]
    BY <1>5
  <2>2. s \in 1..Len(t)
    BY <1>4
  <2>3. PICK b \in 1..Len(rows[s]) : flat[n] = rows[s][b]
    BY <2>1
  <2>4. b \in 1..Len(t[s].blocks)
    BY <1>6, <2>2
  <2>5. flat[n] = SectionClaim(t[s], t[s].blocks[b])
    BY <1>6, <2>2, <2>3, <2>4
  <2> QED BY <2>2, <2>4, <2>5
<1>8. \A s \in 1..Len(t) : \A b \in 1..Len(t[s].blocks) : \E n \in 1..Len(flat) :
        flat[n] = SectionClaim(t[s], t[s].blocks[b])
  <2> SUFFICES ASSUME NEW s \in 1..Len(t), NEW b \in 1..Len(t[s].blocks)
               PROVE  \E n \in 1..Len(flat) : flat[n] = SectionClaim(t[s], t[s].blocks[b])
    OBVIOUS
  <2>1. s \in 1..Len(rows) /\ b \in 1..Len(rows[s])
    BY <1>6
  <2>2. rows[s][b] = SectionClaim(t[s], t[s].blocks[b])
    BY <1>6
  <2>3. PICK n \in 1..Len(flat) : flat[n] = rows[s][b]
    BY <1>5, <2>1
  <2> QED BY <2>2, <2>3
<1>9. BlocksOf(p) = flat
  BY <1>1 DEF flat
<1> QED BY <1>5, <1>7, <1>8, <1>9 DEF t, A

\* The claims of a payload are those of its sections and its related concepts.
LEMMA ClaimsAre ==
  ASSUME NEW Q, NEW p \in Payloads(Q)
  PROVE  /\ Len(Claims(p)) \in Nat /\ DOMAIN Claims(p) = 1..Len(Claims(p))
         /\ \A i \in DOMAIN Claims(p) :
              \/ \E s \in 1..Len(p.sections) : \E b \in 1..Len(p.sections[s].blocks) :
                   Claims(p)[i] = SectionClaim(p.sections[s], p.sections[s].blocks[b])
              \/ \E r \in 1..Len(p.related) : Claims(p)[i] = RelatedClaim(p.related[r])
         /\ \A s \in 1..Len(p.sections) : \A b \in 1..Len(p.sections[s].blocks) :
              \E i \in DOMAIN Claims(p) :
                Claims(p)[i] = SectionClaim(p.sections[s], p.sections[s].blocks[b])
         /\ \A r \in 1..Len(p.related) :
              \E i \in DOMAIN Claims(p) : Claims(p)[i] = RelatedClaim(p.related[r])
<1> DEFINE x == BlocksOf(p)
           y == RelatedOf(p)
           z == Claims(p)
           R == {RelatedClaim(p.related[r]) : r \in 1..Len(p.related)}
           A == ClaimsIn(Q) \cup R
<1>1. /\ x \in Seq(ClaimsIn(Q))
      /\ \A n \in 1..Len(x) :
           \E s \in 1..Len(p.sections) : \E b \in 1..Len(p.sections[s].blocks) :
             x[n] = SectionClaim(p.sections[s], p.sections[s].blocks[b])
      /\ \A s \in 1..Len(p.sections) : \A b \in 1..Len(p.sections[s].blocks) :
           \E n \in 1..Len(x) :
             x[n] = SectionClaim(p.sections[s], p.sections[s].blocks[b])
  BY BlocksOfIs
<1>2. /\ Len(p.related) \in Nat
      /\ y = [r \in 1..Len(p.related) |-> RelatedClaim(p.related[r])]
  BY TypedPayload DEF RelatedOf, RelatedClaim
<1> HIDE DEF x, y
<1>3. /\ y \in Seq(R) /\ Len(y) = Len(p.related)
      /\ \A r \in 1..Len(p.related) : y[r] = RelatedClaim(p.related[r])
  BY <1>2
<1>4. x \in Seq(A) /\ y \in Seq(A)
  <2> HIDE DEF R
  <2> QED BY <1>1, <1>3
<1> HIDE DEF A, R
<1>5. z = x \o y
  BY DEF Claims, x, y
<1>6. /\ z \in Seq(A) /\ Len(x) \in Nat /\ Len(y) \in Nat
      /\ Len(z) = Len(x) + Len(y)
      /\ \A i \in 1..Len(x) : z[i] = x[i]
      /\ \A b \in 1..Len(y) : z[Len(x) + b] = y[b]
      /\ \A i \in (Len(x) + 1)..Len(z) : z[i] = y[i - Len(x)]
  <2> HIDE DEF z
  <2> QED BY <1>4, <1>5
<1> HIDE DEF z
<1>7. Len(z) \in Nat /\ DOMAIN z = 1..Len(z)
  BY <1>6
<1>8. ASSUME NEW i \in 1..Len(z)
      PROVE  \/ \E s \in 1..Len(p.sections) : \E b \in 1..Len(p.sections[s].blocks) :
                  z[i] = SectionClaim(p.sections[s], p.sections[s].blocks[b])
             \/ \E r \in 1..Len(p.related) : z[i] = RelatedClaim(p.related[r])
  <2>1. CASE i <= Len(x)
    <3>1. i \in 1..Len(x) /\ z[i] = x[i]
      BY <1>6, <2>1
    <3> QED BY <1>1, <3>1
  <2>2. CASE i > Len(x)
    <3>1. i - Len(x) \in 1..Len(y) /\ z[i] = y[i - Len(x)]
      BY <1>6, <2>2
    <3> QED BY <1>3, <3>1
  <2>3. i <= Len(x) \/ i > Len(x)
    BY <1>6
  <2> QED BY <2>1, <2>2, <2>3
<1>9. \A s \in 1..Len(p.sections) : \A b \in 1..Len(p.sections[s].blocks) :
        \E i \in 1..Len(z) :
          z[i] = SectionClaim(p.sections[s], p.sections[s].blocks[b])
  <2> SUFFICES ASSUME NEW s \in 1..Len(p.sections),
                      NEW b \in 1..Len(p.sections[s].blocks)
               PROVE  \E i \in 1..Len(z) :
                        z[i] = SectionClaim(p.sections[s], p.sections[s].blocks[b])
    OBVIOUS
  <2>1. PICK n \in 1..Len(x) :
          x[n] = SectionClaim(p.sections[s], p.sections[s].blocks[b])
    BY <1>1
  <2>2. n \in 1..Len(z) /\ z[n] = x[n]
    BY <1>6
  <2> QED BY <2>1, <2>2
<1>10. \A r \in 1..Len(p.related) : \E i \in 1..Len(z) : z[i] = RelatedClaim(p.related[r])
  <2> SUFFICES ASSUME NEW r \in 1..Len(p.related)
               PROVE  \E i \in 1..Len(z) : z[i] = RelatedClaim(p.related[r])
    OBVIOUS
  <2>1. r \in 1..Len(y)
    BY <1>3
  <2>2. Len(x) + r \in 1..Len(z) /\ z[Len(x) + r] = y[r]
    BY <1>6, <2>1
  <2> QED BY <1>3, <2>2
<1> QED BY <1>7, <1>8, <1>9, <1>10 DEF z

----------------------------------------------------------------------------
\* What an additive update makes of approved content.

\* An answer that is valid has no claim without a citation, nor one that was
\* not verified.
LEMMA ValidIsApprovable ==
  ASSUME NEW p \in Answer, ValidAnswer(p)
  PROVE  p \in Approvable
<1> DEFINE C == Cited(Verified)
<1>1. p \in Payloads(Seq(Citation))
  BY ContentConstants
<1>2. ASSUME NEW i \in DOMAIN Claims(p), Claims(p)[i].cites \in Seq(Citation)
      PROVE  Claims(p)[i].cites \in C
  <2> DEFINE q == Claims(p)[i].cites
  <2>1. q # <<>>
    BY DEF ValidAnswer
  <2>2. \A c \in ToSet(q) : c \in Verified
    BY DEF ValidAnswer, CitationsOf, Supported
  <2>3. q \in Seq(Citation)
    BY <1>2
  <2> HIDE DEF q
  <2>4. \A j \in 1..Len(q) : q[j] \in Verified
    BY <2>2, <2>3 DEF ToSet
  <2>5. q \in Seq(Verified)
    BY <2>3, <2>4
  <2> QED BY <2>1, <2>5 DEF Cited, q
<1>3. /\ \A s \in 1..Len(p.sections) : \A b \in 1..Len(p.sections[s].blocks) :
           p.sections[s].blocks[b].cites \in Seq(Citation)
      /\ \A r \in 1..Len(p.related) : p.related[r].cites \in Seq(Citation)
  BY <1>1, TypedPayload
<1>4. /\ \A s \in 1..Len(p.sections) : \A b \in 1..Len(p.sections[s].blocks) :
           \E i \in DOMAIN Claims(p) :
             Claims(p)[i] = SectionClaim(p.sections[s], p.sections[s].blocks[b])
      /\ \A r \in 1..Len(p.related) :
           \E i \in DOMAIN Claims(p) : Claims(p)[i] = RelatedClaim(p.related[r])
  BY <1>1, ClaimsAre
<1>5. /\ \A s, b : SectionClaim(s, b).cites = b.cites
      /\ \A r : RelatedClaim(r).cites = r.cites
  BY DEF SectionClaim, RelatedClaim
<1> HIDE DEF C
<1>6. \A s \in 1..Len(p.sections) : \A b \in 1..Len(p.sections[s].blocks) :
        p.sections[s].blocks[b].cites \in C
  <2> SUFFICES ASSUME NEW s \in 1..Len(p.sections),
                      NEW b \in 1..Len(p.sections[s].blocks)
               PROVE  p.sections[s].blocks[b].cites \in C
    OBVIOUS
  <2>1. PICK i \in DOMAIN Claims(p) :
          Claims(p)[i] = SectionClaim(p.sections[s], p.sections[s].blocks[b])
    BY <1>4
  <2>2. Claims(p)[i].cites = p.sections[s].blocks[b].cites
    BY <1>5, <2>1
  <2>3. Claims(p)[i].cites \in Seq(Citation)
    BY <1>3, <2>2
  <2> QED BY <1>2, <2>2, <2>3
<1>7. \A r \in 1..Len(p.related) : p.related[r].cites \in C
  <2> SUFFICES ASSUME NEW r \in 1..Len(p.related) PROVE p.related[r].cites \in C
    OBVIOUS
  <2>1. PICK i \in DOMAIN Claims(p) : Claims(p)[i] = RelatedClaim(p.related[r])
    BY <1>4
  <2>2. Claims(p)[i].cites = p.related[r].cites
    BY <1>5, <2>1
  <2>3. Claims(p)[i].cites \in Seq(Citation)
    BY <1>3, <2>2
  <2> QED BY <1>2, <2>2, <2>3
<1> DEFINE Q == Seq(Citation)
<1>8. ASSUME NEW q \in Seq(Blocks(Q)), \A b \in 1..Len(q) : q[b].cites \in C
      PROVE  q \in Seq(Blocks(C))
  <2>1. \A d \in Blocks(Q) : d.cites \in C => d \in Blocks(C)
    BY DEF Blocks
  <2>2. \A b \in 1..Len(q) : q[b] \in Blocks(Q)
    OBVIOUS
  <2>3. \A b \in 1..Len(q) : q[b] \in Blocks(C)
    BY <1>8, <2>1, <2>2
  <2> HIDE DEF Q
  <2> QED BY <2>3
<1>9. p.related \in Seq(Blocks(C))
  <2>1. p.related \in Seq(Blocks(Q))
    BY <1>1, TypedPayload
  <2> HIDE DEF Q
  <2> QED BY <1>7, <1>8, <2>1
<1>10. \A s \in 1..Len(p.sections) : p.sections[s] \in Sections(C)
  <2> SUFFICES ASSUME NEW s \in 1..Len(p.sections) PROVE p.sections[s] \in Sections(C)
    OBVIOUS
  <2>1. p.sections[s] \in Sections(Q) /\ p.sections[s].blocks \in Seq(Blocks(Q))
    BY <1>1, TypedPayload
  <2> HIDE DEF Q
  <2>2. p.sections[s].blocks \in Seq(Blocks(C))
    BY <1>6, <1>8, <2>1
  <2>3. \A t \in Sections(Q) : t.blocks \in Seq(Blocks(C)) => t \in Sections(C)
    BY DEF Sections
  <2> QED BY <2>1, <2>2, <2>3
<1>11. p.sections \in Seq(Sections(C))
  <2>1. p.sections \in Seq(Sections(Q))
    BY <1>1, TypedPayload
  <2> DEFINE q == p.sections
  <2>2. q \in Seq(Sections(Q)) /\ \A s \in 1..Len(q) : q[s] \in Sections(C)
    BY <1>10, <2>1
  <2> HIDE DEF q, Q
  <2>3. q \in Seq(Sections(C))
    BY <2>2
  <2> QED BY <2>3 DEF q
<1>12. p = [sections |-> p.sections, related |-> p.related]
  BY <1>1 DEF Payloads
<1>13. p \in Payloads(C)
  BY <1>9, <1>11, <1>12 DEF Payloads
<1> QED BY <1>13 DEF Approvable, C, Cited

\* What one accumulation does, with sections and with related concepts.
LEMMA AccumulateIs ==
  ASSUME NEW prior \in Approvable, NEW more \in Approvable
  PROVE  LET new == Accumulate(prior, more) IN
         /\ new \in Approvable
         /\ Kept(prior.sections, new.sections) /\ BlocksKept(prior.related, new.related)
         /\ \A n \in 1..Len(BlocksOf(more)) : Absorbed(new.sections, BlocksOf(more)[n])
         /\ \A n \in 1..Len(more.related) : Listed(new.related, more.related[n])
         /\ Accumulate(new, more) = new
<1> DEFINE C == Cited(Verified)
           blocks == BlocksOf(more)
           sections == AddBlocks(prior.sections, blocks)
           related == AddAllRelated(prior.related, more.related)
           new == Accumulate(prior, more)
<1>1. prior \in Payloads(C) /\ more \in Payloads(C)
  BY DEF Approvable, Cited
<1>2. /\ prior.sections \in Seq(Sections(C)) /\ prior.related \in Seq(Blocks(C))
      /\ more.related \in Seq(Blocks(C))
  BY <1>1, TypedPayload
<1>3. blocks \in Seq(BlockClaims(Verified))
  BY <1>1, BlocksOfIs DEF BlockClaims
<1>4. new = [sections |-> sections, related |-> related]
  BY DEF Accumulate
<1>5. new.sections = sections /\ new.related = related
  BY <1>4
<1> HIDE DEF blocks
<1>6. /\ sections \in Seq(Sections(C)) /\ Kept(prior.sections, sections)
      /\ \A n \in 1..Len(blocks) : Absorbed(sections, blocks[n])
  BY <1>2, <1>3, AddBlocksIs
<1>7. /\ related \in Seq(Blocks(C)) /\ BlocksKept(prior.related, related)
      /\ \A n \in 1..Len(more.related) : Listed(related, more.related[n])
  BY <1>2, AddAllRelatedIs
<1> HIDE DEF sections, related, new
<1>8. AddBlocks(sections, blocks) = sections
  BY <1>3, <1>6, AddBlocksIs
<1>9. AddAllRelated(related, more.related) = related
  BY <1>2, <1>7, AddAllRelatedIs
<1>10. Accumulate(new, more) = new
  BY <1>4, <1>5, <1>8, <1>9 DEF Accumulate, blocks
<1>11. new \in Payloads(C)
  <2> HIDE DEF C
  <2> QED BY <1>4, <1>6, <1>7 DEF Payloads
<1> QED BY <1>5, <1>6, <1>7, <1>10, <1>11 DEF Approvable, Cited, new, blocks

\* A list of citations that grows has those it had.
LEMMA GrownHas ==
  ASSUME NEW C, NEW s \in Seq(C), NEW t \in Seq(C), Grows(s, t)
  PROVE  ToSet(s) \subseteq ToSet(t)
BY DEF ToSet, Grows

\* Every claim of the revision is in what an update makes of it.
LEMMA NothingRemoved ==
  ASSUME NEW prior \in Approvable, NEW more \in Approvable
  PROVE  RemovedClaims(prior, Accumulate(prior, more)) = {}
<1> DEFINE new == Accumulate(prior, more)
           C == Cited(Verified)
<1>1. /\ new \in Approvable
      /\ Kept(prior.sections, new.sections) /\ BlocksKept(prior.related, new.related)
  BY AccumulateIs
<1> HIDE DEF new
<1>2. prior \in Payloads(C) /\ new \in Payloads(C)
  BY <1>1 DEF Approvable, Cited
<1>3. ASSUME NEW b \in Blocks(C), NEW d \in Blocks(C), BlockKept(b, d)
      PROVE  d.text = b.text /\ ToSet(b.cites) \subseteq ToSet(d.cites)
  <2>1. b.cites \in Seq(Verified) /\ d.cites \in Seq(Verified)
    BY DEF Blocks, Cited
  <2> QED BY <1>3, <2>1, GrownHas DEF BlockKept
<1>4. ASSUME NEW i \in DOMAIN Claims(prior) PROVE HasClaim(new, Claims(prior)[i])
  <2>1. ASSUME NEW s \in 1..Len(prior.sections),
               NEW b \in 1..Len(prior.sections[s].blocks),
               Claims(prior)[i] = SectionClaim(prior.sections[s],
                                               prior.sections[s].blocks[b])
        PROVE  HasClaim(new, Claims(prior)[i])
    <3> DEFINE x == prior.sections[s]
               y == new.sections[s]
    <3>1. s \in 1..Len(new.sections) /\ SectionKept(x, y)
      BY <1>1, <1>2, TypedPayload DEF Kept
    <3>2. /\ y.key = x.key /\ y.heading = x.heading
          /\ b \in 1..Len(y.blocks) /\ BlockKept(x.blocks[b], y.blocks[b])
      <4>1. Len(x.blocks) \in Nat /\ Len(y.blocks) \in Nat
        BY <1>2, <3>1, TypedPayload
      <4> QED BY <3>1, <4>1 DEF SectionKept, BlocksKept
    <3>3. x.blocks[b] \in Blocks(C) /\ y.blocks[b] \in Blocks(C)
      BY <1>2, <3>1, <3>2, TypedPayload
    <3>4. /\ y.blocks[b].text = x.blocks[b].text
          /\ ToSet(x.blocks[b].cites) \subseteq ToSet(y.blocks[b].cites)
      <4> DEFINE e == x.blocks[b]
                 d == y.blocks[b]
      <4>1. e \in Blocks(C) /\ d \in Blocks(C) /\ BlockKept(e, d)
        BY <3>2, <3>3
      <4> HIDE DEF e, d, C
      <4>2. d.text = e.text /\ ToSet(e.cites) \subseteq ToSet(d.cites)
        BY <1>3, <4>1
      <4> QED BY <4>2 DEF e, d
    <3>5. PICK j \in DOMAIN Claims(new) : Claims(new)[j] = SectionClaim(y, y.blocks[b])
      BY <1>2, <3>1, <3>2, ClaimsAre
    <3> HIDE DEF x, y
    <3>6. /\ SectionClaim(y, y.blocks[b]).key = SectionClaim(x, x.blocks[b]).key
          /\ SectionClaim(y, y.blocks[b]).heading = SectionClaim(x, x.blocks[b]).heading
          /\ SectionClaim(y, y.blocks[b]).text = SectionClaim(x, x.blocks[b]).text
          /\ ToSet(SectionClaim(x, x.blocks[b]).cites)
               \subseteq ToSet(SectionClaim(y, y.blocks[b]).cites)
      BY <3>2, <3>4 DEF SectionClaim
    <3>7. Claims(prior)[i] = SectionClaim(x, x.blocks[b])
      BY <2>1 DEF x
    <3> QED BY <3>5, <3>6, <3>7 DEF HasClaim
  <2>2. ASSUME NEW r \in 1..Len(prior.related),
               Claims(prior)[i] = RelatedClaim(prior.related[r])
        PROVE  HasClaim(new, Claims(prior)[i])
    <3> DEFINE x == prior.related[r]
               y == new.related[r]
    <3>1. r \in 1..Len(new.related) /\ BlockKept(x, y)
      BY <1>1, <1>2, TypedPayload DEF BlocksKept
    <3>2. x \in Blocks(C) /\ y \in Blocks(C)
      BY <1>2, <3>1, TypedPayload
    <3> HIDE DEF x, y
    <3>3. y.text = x.text /\ ToSet(x.cites) \subseteq ToSet(y.cites)
      BY <1>3, <3>1, <3>2
    <3>4. PICK j \in DOMAIN Claims(new) : Claims(new)[j] = RelatedClaim(y)
      BY <1>2, <3>1, ClaimsAre DEF y
    <3>5. /\ RelatedClaim(y).key = RelatedClaim(x).key
          /\ RelatedClaim(y).heading = RelatedClaim(x).heading
          /\ RelatedClaim(y).text = RelatedClaim(x).text
          /\ ToSet(RelatedClaim(x).cites) \subseteq ToSet(RelatedClaim(y).cites)
      BY <3>3 DEF RelatedClaim
    <3>6. Claims(prior)[i] = RelatedClaim(x)
      BY <2>2 DEF x
    <3> QED BY <3>4, <3>5, <3>6 DEF HasClaim
  <2> QED BY <1>2, <2>1, <2>2, ClaimsAre
<1> QED BY <1>4 DEF RemovedClaims, new

\* What AnswerKept asks of one claim.
ClaimIsIn(p, claim) ==
  \A c \in ToSet(claim.cites) :
    \E j \in DOMAIN Claims(p) :
      LET kept == Claims(p)[j] IN
      /\ kept.key = claim.key /\ kept.text = claim.text
      /\ \E d \in ToSet(kept.cites) : SameSlot(c, d)

\* Covered slots, as sets.
LEMMA CoveredSlots ==
  ASSUME NEW C, NEW s \in Seq(C), NEW t \in Seq(C), Covers(t, s)
  PROVE  \A c \in ToSet(s) : \E d \in ToSet(t) : SameSlot(c, d)
<1> SUFFICES ASSUME NEW c \in ToSet(s)
             PROVE  \E d \in ToSet(t) : SameSlot(c, d)
  OBVIOUS
<1>1. PICK i \in 1..Len(s) : c = s[i]
  BY DEF ToSet
<1>2. PICK j \in 1..Len(t) : SameSlot(t[j], s[i])
  BY DEF Covers
<1>3. t[j] \in ToSet(t) /\ SameSlot(c, t[j])
  BY <1>1, <1>2 DEF ToSet, SameSlot
<1> QED BY <1>3

\* Every claim of the answer is in what an update makes with it.
LEMMA EverythingAdded ==
  ASSUME NEW prior \in Approvable, NEW more \in Approvable
  PROVE  \A i \in DOMAIN Claims(more) : ClaimIsIn(Accumulate(prior, more), Claims(more)[i])
<1> DEFINE new == Accumulate(prior, more)
           C == Cited(Verified)
<1>1. /\ new \in Approvable
      /\ \A n \in 1..Len(BlocksOf(more)) : Absorbed(new.sections, BlocksOf(more)[n])
      /\ \A n \in 1..Len(more.related) : Listed(new.related, more.related[n])
  BY AccumulateIs
<1> HIDE DEF new
<1>2. more \in Payloads(C) /\ new \in Payloads(C)
  BY <1>1 DEF Approvable, Cited
<1>3. ASSUME NEW i \in DOMAIN Claims(more) PROVE ClaimIsIn(new, Claims(more)[i])
  <2> DEFINE claim == Claims(more)[i]
  <2>1. ASSUME NEW s \in 1..Len(more.sections), NEW b \in 1..Len(more.sections[s].blocks),
               claim = SectionClaim(more.sections[s], more.sections[s].blocks[b])
        PROVE  ClaimIsIn(new, claim)
    <3>0. PICK n \in 1..Len(BlocksOf(more)) :
            BlocksOf(more)[n] = SectionClaim(more.sections[s],
                                             more.sections[s].blocks[b])
      BY <1>2, BlocksOfIs
    <3>1. BlocksOf(more)[n] = claim
      BY <2>1, <3>0
    <3>2. Absorbed(new.sections, claim)
      BY <1>1, <3>1
    <3>3. claim.cites \in Seq(Verified)
      <4>1. more.sections[s].blocks[b].cites \in C
        BY <1>2, TypedPayload
      <4>2. claim.cites = more.sections[s].blocks[b].cites
        BY <2>1 DEF SectionClaim
      <4> QED BY <4>1, <4>2 DEF Cited
    <3> HIDE DEF claim
    <3>4. PICK t, k \in Nat : /\ FirstAt(new.sections, claim.key, claim.text, t, k)
                              /\ Covers(new.sections[t].blocks[k].cites, claim.cites)
      BY <3>2 DEF Absorbed
    <3> DEFINE x == new.sections[t]
               y == x.blocks[k]
    <3>5. /\ t \in 1..Len(new.sections) /\ k \in 1..Len(x.blocks)
          /\ x.key = claim.key /\ y.text = claim.text
      BY <3>4 DEF FirstAt
    <3>6. y.cites \in Seq(Verified)
      <4>1. y.cites \in C
        BY <1>2, <3>5, TypedPayload
      <4> QED BY <4>1 DEF Cited
    <3>7. PICK j \in DOMAIN Claims(new) : Claims(new)[j] = SectionClaim(x, y)
      BY <1>2, <3>5, ClaimsAre
    <3>8. Covers(y.cites, claim.cites)
      BY <3>4
    <3> HIDE DEF x, y
    <3>9. \A c \in ToSet(claim.cites) : \E d \in ToSet(y.cites) : SameSlot(c, d)
      BY <3>3, <3>6, <3>8, CoveredSlots
    <3>10. /\ SectionClaim(x, y).key = claim.key /\ SectionClaim(x, y).text = claim.text
           /\ SectionClaim(x, y).cites = y.cites
      BY <3>5 DEF SectionClaim
    <3> QED BY <3>7, <3>9, <3>10 DEF ClaimIsIn
  <2>2. ASSUME NEW r \in 1..Len(more.related), claim = RelatedClaim(more.related[r])
        PROVE  ClaimIsIn(new, claim)
    <3> DEFINE x == more.related[r]
    <3>1. Listed(new.related, x)
      BY <1>1
    <3>2. x.cites \in Seq(Verified) /\ claim = RelatedClaim(x)
      <4>1. x.cites \in C
        BY <1>2, TypedPayload
      <4> QED BY <2>2, <4>1 DEF Cited
    <3> HIDE DEF x, claim
    <3>3. PICK k \in Nat : /\ BlockAt(new.related, x.text, k)
                           /\ Covers(new.related[k].cites, x.cites)
      BY <3>1 DEF Listed
    <3> DEFINE y == new.related[k]
    <3>4. k \in 1..Len(new.related) /\ y.text = x.text
      BY <3>3 DEF BlockAt
    <3>5. y.cites \in Seq(Verified)
      <4>1. y.cites \in C
        BY <1>2, <3>4, TypedPayload
      <4> QED BY <4>1 DEF Cited
    <3>6. PICK j \in DOMAIN Claims(new) : Claims(new)[j] = RelatedClaim(y)
      BY <1>2, <3>4, ClaimsAre
    <3>7. Covers(y.cites, x.cites)
      BY <3>3
    <3> HIDE DEF y
    <3>8. \A c \in ToSet(x.cites) : \E d \in ToSet(y.cites) : SameSlot(c, d)
      BY <3>2, <3>5, <3>7, CoveredSlots
    <3>9. /\ RelatedClaim(y).key = claim.key /\ RelatedClaim(y).text = claim.text
          /\ RelatedClaim(y).cites = y.cites /\ claim.cites = x.cites
      BY <3>2, <3>4 DEF RelatedClaim
    <3> QED BY <3>6, <3>8, <3>9 DEF ClaimIsIn
  <2> QED BY <1>2, <2>1, <2>2, ClaimsAre
<1> QED BY <1>3 DEF new

----------------------------------------------------------------------------
\* Citation rows.

\* The rows of some citations of one claim, and of one claim of a payload.
RowsFor(key, index, cites) == {[key |-> key, index |-> index, cite |-> c] : c \in cites}
RowsOf(claims, i) == RowsFor(claims[i].key, Index(claims, i), ToSet(claims[i].cites))

\* The steps of InsertClaim.
LEMMA InsertClaimSteps ==
  ASSUME NEW rows, NEW key, NEW index, NEW C, NEW cites \in Seq(C)
  PROVE  \E kept :
           /\ kept[0] = rows
           /\ \A n \in 1..Len(cites) :
                kept[n] = Insert(kept[n - 1], [key |-> key, index |-> index,
                                               cite |-> cites[n]])
           /\ InsertClaim(rows, key, index, cites) = kept[Len(cites)]
<1> DEFINE N == Len(cites)
           row(c) == [key |-> key, index |-> index, cite |-> c]
           A == SUBSET (rows \cup RowsFor(key, index, ToSet(cites)))
           Solves(f) ==
             f = [n \in 0..N |-> IF n = 0 THEN rows
                                 ELSE Insert(f[n - 1], [key |-> key, index |-> index,
                                                        cite |-> cites[n]])]
           step == [n \in 1..N |-> [a \in A |-> Insert(a, row(cites[n]))]]
<1>1. N \in Nat
  OBVIOUS
<1>2. Closed(step, N, A)
  <2> SUFFICES ASSUME NEW n \in 1..N, NEW a \in A PROVE step[n][a] \in A
    BY DEF Closed
  <2>1. row(cites[n]) \in RowsFor(key, index, ToSet(cites))
    <3>1. cites[n] \in ToSet(cites)
      BY DEF ToSet
    <3> QED BY <3>1 DEF RowsFor
  <2>2. Insert(a, row(cites[n])) \subseteq a \cup {row(cites[n])}
    BY DEF Insert
  <2> HIDE DEF row
  <2>3. Insert(a, row(cites[n])) \in A
    BY <2>1, <2>2
  <2>4. step[n][a] = Insert(a, row(cites[n]))
    <3> HIDE DEF A
    <3> QED OBVIOUS
  <2> QED BY <2>3, <2>4
<1> HIDE DEF step
<1>3. PICK f \in [0..N -> A] : Iterates(f, rows, step, N)
  <2>1. rows \in A
    OBVIOUS
  <2> HIDE DEF A
  <2> QED BY <1>1, <1>2, <2>1, Recursion
<1>4. \A n \in 1..N : f[n] = Insert(f[n - 1], row(cites[n]))
  <2> SUFFICES ASSUME NEW n \in 1..N PROVE f[n] = Insert(f[n - 1], row(cites[n]))
    OBVIOUS
  <2>1. f[n - 1] \in A
    <3>1. n - 1 \in 0..N
      BY <1>1
    <3> HIDE DEF A
    <3> QED BY <1>3, <3>1
  <2>2. f[n] = step[n][f[n - 1]]
    BY <1>3 DEF Iterates
  <2> HIDE DEF A, row
  <2> QED BY <2>1, <2>2 DEF step
<1>5. Solves(f)
  <2>1. \A n \in 0..N : f[n] = IF n = 0 THEN rows ELSE Insert(f[n - 1], row(cites[n]))
    <3> HIDE DEF row, A, N
    <3> QED BY <1>1, <1>3, <1>4 DEF Iterates
  <2>2. f = [n \in 0..N |-> f[n]]
    BY <1>3
  <2> QED BY <2>1, <2>2
<1>6. Solves(CHOOSE g : Solves(g))
  BY <1>5, Zenon
<1>7. InsertClaim(rows, key, index, cites) = (CHOOSE g : Solves(g))[N]
  BY Zenon DEF InsertClaim
<1>8. PICK kept : Solves(kept) /\ InsertClaim(rows, key, index, cites) = kept[N]
  BY <1>6, <1>7, Zenon
<1>9. /\ kept[0] = rows
      /\ \A n \in 1..N : kept[n] = Insert(kept[n - 1], [key |-> key, index |-> index,
                                                        cite |-> cites[n]])
  <2> HIDE DEF N
  <2> QED BY <1>1, <1>8
<1> QED BY <1>8, <1>9

\* A claim has a row for each of its citations and no other, if no row has its
\* key and index yet and no two citations have one slot.
LEMMA InsertClaimIs ==
  ASSUME NEW rows, NEW key, NEW index, NEW C, NEW cites \in Seq(C)
  PROVE  LET new == InsertClaim(rows, key, index, cites)
             all == rows \cup RowsFor(key, index, ToSet(cites)) IN
         /\ new \subseteq all
         /\ /\ \A r \in rows : ~ (r.key = key /\ r.index = index)
            /\ \A c, d \in ToSet(cites) : SameSlot(c, d) => c = d
            => new = all
<1>1. PICK kept :
        /\ kept[0] = rows
        /\ \A n \in 1..Len(cites) :
             kept[n] = Insert(kept[n - 1], [key |-> key, index |-> index,
                                            cite |-> cites[n]])
        /\ InsertClaim(rows, key, index, cites) = kept[Len(cites)]
  BY InsertClaimSteps
<1> DEFINE N == Len(cites)
           row(c) == [key |-> key, index |-> index, cite |-> c]
           first(n) == {cites[k] : k \in 1..n}
           all(n) == rows \cup RowsFor(key, index, first(n))
           Free == /\ \A r \in rows : ~ (r.key = key /\ r.index = index)
                   /\ \A c, d \in ToSet(cites) : SameSlot(c, d) => c = d
           Done(n, x) == x \subseteq all(n) /\ (Free => x = all(n))
           T == {n \in 0..N : Done(n, kept[n])}
<1>2. N \in Nat
  OBVIOUS
<1>3. 0 \in T
  <2>1. first(0) = {}
    OBVIOUS
  <2>2. all(0) = rows
    BY <2>1 DEF RowsFor
  <2> HIDE DEF all, Free
  <2> QED BY <1>1, <1>2, <2>2
<1>4. ASSUME NEW n \in 1..N, n - 1 \in T PROVE n \in T
  <2> DEFINE a == kept[n - 1]
             b == kept[n]
             c == cites[n]
  <2>1. Done(n - 1, a)
    BY <1>4
  <2>2. b = Insert(a, row(c))
    BY <1>1
  <2>3. first(n) = first(n - 1) \cup {c}
    <3>1. 1..n = 1..(n - 1) \cup {n}
      BY <1>2
    <3> QED BY <3>1
  <2>4. all(n) = all(n - 1) \cup {row(c)}
    BY <2>3 DEF RowsFor
  <2>5. \A e \in first(n - 1) : e \in ToSet(cites)
    BY <1>2 DEF ToSet
  <2>6. c \in ToSet(cites)
    BY <1>2 DEF ToSet
  <2> DEFINE old == first(n - 1)
  <2> HIDE DEF a, b, c, first
  <2>7. b \subseteq all(n)
    <3> HIDE DEF row, all
    <3> QED BY <2>1, <2>2, <2>4 DEF Insert
  <2>8. ASSUME Free PROVE b = all(n)
    <3>1. a = all(n - 1)
      BY <2>1, <2>8
    <3>2. ASSUME \E r \in a : /\ r.key = row(c).key /\ r.index = row(c).index
                              /\ SameSlot(r.cite, row(c).cite)
          PROVE  row(c) \in a
      <4>1. PICK r \in a : /\ r.key = key /\ r.index = index /\ SameSlot(r.cite, c)
        BY <3>2
      <4>2. r \notin rows
        BY <2>8, <4>1
      <4>3. PICK e \in old : r = row(e)
        BY <3>1, <4>1, <4>2 DEF RowsFor
      <4>4. SameSlot(e, c)
        BY <4>1, <4>3
      <4>5. e = c
        BY <2>5, <2>6, <2>8, <4>3, <4>4
      <4> QED BY <4>3, <4>5
    <3> HIDE DEF row, all, Free
    <3>3. b = a \cup {row(c)}
      BY <2>2, <3>2 DEF Insert
    <3> QED BY <2>4, <3>1, <3>3
  <2>9. Done(n, b)
    <3> HIDE DEF all, Free
    <3> QED BY <2>7, <2>8
  <2> HIDE DEF Done
  <2> QED BY <2>9 DEF b
<1>5. 0..N \subseteq T
  <2> HIDE DEF T
  <2> QED BY <1>2, <1>3, <1>4, Induction
<1>6. Done(N, kept[N])
  <2>1. N \in T
    BY <1>2, <1>5
  <2> HIDE DEF Done
  <2> QED BY <2>1
<1>7. first(N) = ToSet(cites)
  BY DEF ToSet
<1> HIDE DEF first
<1>8. all(N) = rows \cup RowsFor(key, index, ToSet(cites))
  BY <1>7
<1> HIDE DEF all
<1> QED BY <1>1, <1>6, <1>8

\* Claims with one key have different indexes.
LEMMA IndexGrows ==
  ASSUME NEW claims, NEW i \in Nat \ {0}, NEW n \in Nat, i < n,
         claims[i].key = claims[n].key
  PROVE  Index(claims, i) # Index(claims, n)
<1> DEFINE S == {j \in 1..(i - 1) : claims[j].key = claims[i].key}
           T == {j \in 1..(n - 1) : claims[j].key = claims[n].key}
<1>1. IsFiniteSet(T)
  <2>1. IsFiniteSet(1..(n - 1))
    BY FS_Interval
  <2>2. T \subseteq 1..(n - 1)
    OBVIOUS
  <2> HIDE DEF T
  <2> QED BY <2>1, <2>2, FS_Subset
<1>2. S \subseteq T /\ i \in T /\ i \notin S
  OBVIOUS
<1> HIDE DEF S, T
<1>3. Cardinality(S) # Cardinality(T)
  BY <1>1, <1>2, FS_Subset
<1> QED BY <1>3 DEF Index, S, T

\* The steps of InsertRows.
LEMMA InsertRowsSteps ==
  ASSUME NEW p, NEW C, Len(Claims(p)) \in Nat, DOMAIN Claims(p) = 1..Len(Claims(p)),
         \A i \in DOMAIN Claims(p) : Claims(p)[i].cites \in Seq(C)
  PROVE  \E rows :
           /\ rows[0] = {}
           /\ \A n \in 1..Len(Claims(p)) :
                rows[n] = InsertClaim(rows[n - 1], Claims(p)[n].key,
                                      Index(Claims(p), n), Claims(p)[n].cites)
           /\ InsertRows(p) = rows[Len(Claims(p))]
<1> DEFINE claims == Claims(p)
           N == Len(claims)
           A == SUBSET (UNION {RowsOf(claims, i) : i \in 1..N})
           Add(a, n) == InsertClaim(a, claims[n].key, Index(claims, n), claims[n].cites)
           Solves(f) ==
             f = [n \in 0..N |->
                    IF n = 0 THEN {}
                    ELSE InsertClaim(f[n - 1], Claims(p)[n].key,
                                     Index(Claims(p), n), Claims(p)[n].cites)]
           step == [n \in 1..N |-> [a \in A |-> Add(a, n)]]
<1>1. N \in Nat
  OBVIOUS
<1>2. Closed(step, N, A)
  <2> SUFFICES ASSUME NEW n \in 1..N, NEW a \in A PROVE step[n][a] \in A
    BY DEF Closed
  <2>1. Add(a, n) \subseteq a \cup RowsOf(claims, n)
    <3> HIDE DEF claims
    <3>1. claims[n].cites \in Seq(C)
      BY DEF claims
    <3> QED BY <3>1, InsertClaimIs DEF RowsOf
  <2> HIDE DEF Add, claims
  <2>2. Add(a, n) \in A
    BY <2>1
  <2>3. step[n][a] = Add(a, n)
    <3> HIDE DEF A
    <3> QED OBVIOUS
  <2> QED BY <2>2, <2>3
<1> HIDE DEF step
<1>3. PICK f \in [0..N -> A] : Iterates(f, {}, step, N)
  <2>1. {} \in A
    OBVIOUS
  <2> HIDE DEF A
  <2> QED BY <1>1, <1>2, <2>1, Recursion
<1>4. \A n \in 1..N : f[n] = Add(f[n - 1], n)
  <2> SUFFICES ASSUME NEW n \in 1..N PROVE f[n] = Add(f[n - 1], n)
    OBVIOUS
  <2>1. f[n - 1] \in A
    <3>1. n - 1 \in 0..N
      BY <1>1
    <3> HIDE DEF A, N
    <3> QED BY <1>3, <3>1
  <2>2. f[n] = step[n][f[n - 1]]
    BY <1>3 DEF Iterates
  <2> HIDE DEF A, Add, N
  <2> QED BY <2>1, <2>2 DEF step
<1>5. Solves(f)
  <2>1. \A n \in 0..N : f[n] = IF n = 0 THEN {} ELSE Add(f[n - 1], n)
    <3> HIDE DEF Add, A, N
    <3> QED BY <1>1, <1>3, <1>4 DEF Iterates
  <2>2. f = [n \in 0..N |-> f[n]]
    BY <1>3
  <2> QED BY <2>1, <2>2
<1>6. Solves(CHOOSE g : Solves(g))
  BY <1>5, Zenon
<1>7. InsertRows(p) = (CHOOSE g : Solves(g))[N]
  BY Zenon DEF InsertRows
<1>8. PICK rows : Solves(rows) /\ InsertRows(p) = rows[N]
  BY <1>6, <1>7, Zenon
<1>9. /\ rows[0] = {}
      /\ \A n \in 1..N : rows[n] = InsertClaim(rows[n - 1], Claims(p)[n].key,
                                               Index(Claims(p), n), Claims(p)[n].cites)
  <2>1. \A n \in 0..N : rows[n] = IF n = 0 THEN {} ELSE Add(rows[n - 1], n)
    <3> HIDE DEF N
    <3>1. rows = [n \in 0..N |-> IF n = 0 THEN {} ELSE Add(rows[n - 1], n)]
      BY <1>8
    <3> HIDE DEF Add
    <3> QED BY <3>1
  <2> HIDE DEF N, Add
  <2>2. rows[0] = {} /\ \A n \in 1..N : rows[n] = Add(rows[n - 1], n)
    BY <1>1, <2>1
  <2> QED BY <2>2 DEF Add
<1> QED BY <1>8, <1>9

\* The rows that a proposal stores are those that a publication expects, unless
\* a claim has two citations for one slot.
LEMMA InsertRowsIs ==
  ASSUME NEW p, NEW C, Len(Claims(p)) \in Nat, DOMAIN Claims(p) = 1..Len(Claims(p)),
         \A i \in DOMAIN Claims(p) : Claims(p)[i].cites \in Seq(C)
  PROVE  /\ InsertRows(p) \subseteq ExpectedRows(p)
         /\ ~SlotClash(p) => InsertRows(p) = ExpectedRows(p)
<1>1. PICK rows :
        /\ rows[0] = {}
        /\ \A n \in 1..Len(Claims(p)) :
             rows[n] = InsertClaim(rows[n - 1], Claims(p)[n].key,
                                   Index(Claims(p), n), Claims(p)[n].cites)
        /\ InsertRows(p) = rows[Len(Claims(p))]
  BY InsertRowsSteps
<1> DEFINE claims == Claims(p)
           N == Len(claims)
           all(n) == UNION {RowsOf(claims, i) : i \in 1..n}
           Done(n, x) == x \subseteq all(n) /\ (~SlotClash(p) => x = all(n))
           T == {n \in 0..N : Done(n, rows[n])}
<1>2. N \in Nat
  OBVIOUS
<1>3. 0 \in T
  <2>1. all(0) = {}
    OBVIOUS
  <2> HIDE DEF all
  <2>2. Done(0, {})
    BY <2>1
  <2>3. 0 \in 0..N
    <3> HIDE DEF N
    <3> QED BY <1>2
  <2>4. Done(0, rows[0])
    <3>1. rows[0] = {}
      BY <1>1
    <3> HIDE DEF Done
    <3> QED BY <2>2, <3>1
  <2> HIDE DEF Done, N
  <2> QED BY <2>3, <2>4
<1>4. ASSUME NEW n \in 1..N, n - 1 \in T PROVE n \in T
  <2> DEFINE a == rows[n - 1]
             b == rows[n]
             key == claims[n].key
             index == Index(claims, n)
             cites == claims[n].cites
  <2>1. Done(n - 1, a)
    BY <1>4
  <2>2. b = InsertClaim(a, key, index, cites) /\ cites \in Seq(C)
    BY <1>1
  <2>3. all(n) = all(n - 1) \cup RowsOf(claims, n)
    <3>1. 1..n = 1..(n - 1) \cup {n}
      BY <1>2
    <3> HIDE DEF claims
    <3> QED BY <3>1
  <2>4. RowsOf(claims, n) = RowsFor(key, index, ToSet(cites))
    BY DEF RowsOf
  <2>5. ~SlotClash(p) => \A c, d \in ToSet(cites) : SameSlot(c, d) => c = d
    BY DEF SlotClash
  <2>6. \A r \in all(n - 1) : ~ (r.key = key /\ r.index = index)
    <3> SUFFICES ASSUME NEW i \in 1..(n - 1), NEW r \in RowsOf(claims, i),
                        r.key = key, r.index = index
                 PROVE  FALSE
      <4> HIDE DEF key, index, claims
      <4> QED OBVIOUS
    <3> HIDE DEF claims
    <3>1. r.key = claims[i].key /\ r.index = Index(claims, i)
      BY DEF RowsOf, RowsFor
    <3>2. i \in Nat \ {0} /\ n \in Nat /\ i < n
      BY <1>2
    <3>3. claims[i].key = claims[n].key
      BY <3>1
    <3>4. Index(claims, i) # Index(claims, n)
      BY <3>2, <3>3, IndexGrows
    <3> QED BY <3>1, <3>4
  <2> HIDE DEF a, b, key, index, cites, all
  <2>7. /\ b \subseteq a \cup RowsFor(key, index, ToSet(cites))
        /\ /\ \A r \in a : ~ (r.key = key /\ r.index = index)
           /\ \A c, d \in ToSet(cites) : SameSlot(c, d) => c = d
           => b = a \cup RowsFor(key, index, ToSet(cites))
    BY <2>2, InsertClaimIs
  <2>8. Done(n, b)
    BY <2>1, <2>3, <2>4, <2>5, <2>6, <2>7
  <2> HIDE DEF Done
  <2> QED BY <2>8 DEF b
<1>5. 0..N \subseteq T
  <2> HIDE DEF T
  <2> QED BY <1>2, <1>3, <1>4, Induction
<1>6. Done(N, rows[N])
  <2>1. N \in T
    BY <1>2, <1>5
  <2> HIDE DEF Done
  <2> QED BY <2>1
<1>7. all(N) = ExpectedRows(p)
  BY DEF ExpectedRows, RowsOf, RowsFor
<1> HIDE DEF all
<1> QED BY <1>1, <1>6, <1>7

\* The claims of approved content have verified citations.
LEMMA ClaimsCite ==
  ASSUME NEW p \in Approvable
  PROVE  \A i \in DOMAIN Claims(p) : Claims(p)[i].cites \in Seq(Verified)
<1>1. p \in Payloads(Cited(Verified))
  BY DEF Approvable, Cited
<1>2. ASSUME NEW i \in DOMAIN Claims(p) PROVE Claims(p)[i].cites \in Seq(Verified)
  <2>1. ASSUME NEW s \in 1..Len(p.sections), NEW b \in 1..Len(p.sections[s].blocks),
               Claims(p)[i] = SectionClaim(p.sections[s], p.sections[s].blocks[b])
        PROVE  Claims(p)[i].cites \in Seq(Verified)
    <3>1. Claims(p)[i].cites = p.sections[s].blocks[b].cites
      BY <2>1 DEF SectionClaim
    <3>2. p.sections[s].blocks[b].cites \in Cited(Verified)
      BY <1>1, TypedPayload
    <3> QED BY <3>1, <3>2 DEF Cited
  <2>2. ASSUME NEW r \in 1..Len(p.related), Claims(p)[i] = RelatedClaim(p.related[r])
        PROVE  Claims(p)[i].cites \in Seq(Verified)
    <3>1. Claims(p)[i].cites = p.related[r].cites
      BY <2>2 DEF RelatedClaim
    <3>2. p.related[r].cites \in Cited(Verified)
      BY <1>1, TypedPayload
    <3> QED BY <3>1, <3>2 DEF Cited
  <2> QED BY <1>1, <2>1, <2>2, ClaimsAre
<1> QED BY <1>2

\* For approved content the rows have verified citations as well.
LEMMA RowsAre ==
  ASSUME NEW p \in Approvable
  PROVE  /\ \A row \in InsertRows(p) : row.cite \in Verified
         /\ ~SlotClash(p) => InsertRows(p) = ExpectedRows(p)
<1>1. p \in Payloads(Cited(Verified))
  BY DEF Approvable, Cited
<1>2. Len(Claims(p)) \in Nat /\ DOMAIN Claims(p) = 1..Len(Claims(p))
  BY <1>1, ClaimsAre
<1>3. \A i \in DOMAIN Claims(p) : Claims(p)[i].cites \in Seq(Verified)
  BY ClaimsCite
<1>4. /\ InsertRows(p) \subseteq ExpectedRows(p)
      /\ ~SlotClash(p) => InsertRows(p) = ExpectedRows(p)
  BY <1>2, <1>3, InsertRowsIs
<1>5. \A row \in ExpectedRows(p) : row.cite \in Verified
  <2> SUFFICES ASSUME NEW i \in DOMAIN Claims(p), NEW c \in ToSet(Claims(p)[i].cites)
               PROVE  c \in Verified
    BY DEF ExpectedRows
  <2>1. Claims(p)[i].cites \in Seq(Verified)
    BY <1>3
  <2> QED BY <2>1 DEF ToSet
<1> QED BY <1>4, <1>5

----------------------------------------------------------------------------
\* Rendering.

\* Sequences that are put together, and their elements.
LEMMA JoinedIs ==
  ASSUME NEW T, NEW s \in Seq(T), NEW t \in Seq(T)
  PROVE  /\ s \o t \in Seq(T) /\ Len(s) \in Nat /\ Len(t) \in Nat
         /\ Len(s \o t) = Len(s) + Len(t)
         /\ \A i \in 1..Len(s) : (s \o t)[i] = s[i]
         /\ \A b \in 1..Len(t) : (s \o t)[Len(s) + b] = t[b]
         /\ \A i \in (Len(s) + 1)..Len(s \o t) : (s \o t)[i] = t[i - Len(s)]
OBVIOUS

\* The elements of two sequences, one after the other.
LEMMA TogetherIs ==
  ASSUME NEW T, NEW s \in Seq(T), NEW t \in Seq(T)
  PROVE  /\ s \o t \in Seq(T) /\ Len(s \o t) = Len(s) + Len(t)
         /\ ToSet(s \o t) = ToSet(s) \cup ToSet(t)
<1> DEFINE z == s \o t
<1>1. /\ z \in Seq(T) /\ Len(s) \in Nat /\ Len(t) \in Nat
      /\ Len(z) = Len(s) + Len(t)
      /\ \A i \in 1..Len(s) : z[i] = s[i]
      /\ \A b \in 1..Len(t) : z[Len(s) + b] = t[b]
      /\ \A i \in (Len(s) + 1)..Len(z) : z[i] = t[i - Len(s)]
  BY JoinedIs
<1> HIDE DEF z
<1>2. /\ ToSet(z) = {z[i] : i \in 1..Len(z)} /\ ToSet(s) = {s[i] : i \in 1..Len(s)}
      /\ ToSet(t) = {t[i] : i \in 1..Len(t)}
  BY <1>1 DEF ToSet
<1>3. ASSUME NEW i \in 1..Len(z) PROVE z[i] \in ToSet(s) \cup ToSet(t)
  <2>1. CASE i \in 1..Len(s)
    BY <1>1, <1>2, <2>1
  <2>2. CASE i \in (Len(s) + 1)..Len(z)
    <3>1. z[i] = t[i - Len(s)] /\ i - Len(s) \in 1..Len(t)
      BY <1>1, <2>2
    <3> QED BY <1>2, <3>1
  <2>3. i \in 1..Len(s) \/ i \in (Len(s) + 1)..Len(z)
    BY <1>1
  <2> QED BY <2>1, <2>2, <2>3
<1>4. ASSUME NEW i \in 1..Len(s) PROVE s[i] \in ToSet(z)
  <2>1. i \in 1..Len(z) /\ s[i] = z[i]
    BY <1>1
  <2> QED BY <1>2, <2>1
<1>5. ASSUME NEW b \in 1..Len(t) PROVE t[b] \in ToSet(z)
  <2>1. Len(s) + b \in 1..Len(z) /\ t[b] = z[Len(s) + b]
    BY <1>1
  <2> QED BY <1>2, <2>1
<1>6. ToSet(z) = ToSet(s) \cup ToSet(t)
  BY <1>2, <1>3, <1>4, <1>5
<1> QED BY <1>1, <1>6 DEF z

\* The elements of a sequence of sequences that is flattened.
LEMMA FlatSet ==
  ASSUME NEW T, NEW seqs \in Seq(Seq(T))
  PROVE  /\ FlattenSeq(seqs) \in Seq(T)
         /\ ToSet(FlattenSeq(seqs)) = UNION {ToSet(seqs[s]) : s \in 1..Len(seqs)}
<1> DEFINE z == FlattenSeq(seqs)
<1>1. /\ z \in Seq(T)
      /\ \A i \in 1..Len(z) : \E s \in 1..Len(seqs) : \E b \in 1..Len(seqs[s]) :
           z[i] = seqs[s][b]
      /\ \A s \in 1..Len(seqs) : \A b \in 1..Len(seqs[s]) :
           \E i \in 1..Len(z) : z[i] = seqs[s][b]
  BY FlattenIs
<1> HIDE DEF z
<1>2. ASSUME NEW s \in 1..Len(seqs)
      PROVE  ToSet(seqs[s]) = {seqs[s][b] : b \in 1..Len(seqs[s])}
  <2> DEFINE q == seqs[s]
  <2>1. q \in Seq(T)
    OBVIOUS
  <2> HIDE DEF q
  <2>2. ToSet(q) = {q[b] : b \in 1..Len(q)}
    BY <2>1 DEF ToSet
  <2> QED BY <2>2 DEF q
<1>3. ToSet(z) = {z[i] : i \in 1..Len(z)}
  BY <1>1 DEF ToSet
<1>4. ASSUME NEW e \in ToSet(z) PROVE \E s \in 1..Len(seqs) : e \in ToSet(seqs[s])
  <2>1. PICK i \in 1..Len(z) : e = z[i]
    BY <1>3
  <2>2. PICK s \in 1..Len(seqs) : \E b \in 1..Len(seqs[s]) : z[i] = seqs[s][b]
    BY <1>1
  <2> QED BY <1>2, <2>1, <2>2
<1>5. ASSUME NEW s \in 1..Len(seqs), NEW e \in ToSet(seqs[s]) PROVE e \in ToSet(z)
  <2>1. PICK b \in 1..Len(seqs[s]) : e = seqs[s][b]
    BY <1>2
  <2>2. PICK i \in 1..Len(z) : z[i] = seqs[s][b]
    BY <1>1
  <2> QED BY <1>3, <2>1, <2>2
<1> QED BY <1>1, <1>4, <1>5 DEF z

\* The steps of References.
LEMMA ReferencesSteps ==
  ASSUME NEW cites \in Seq(Citation)
  PROVE  \E pages : /\ pages[0] = <<>>
                    /\ \A n \in 1..Len(cites) :
                         pages[n] = Refer(pages[n - 1], cites[n].page)
                    /\ References(cites) = pages[Len(cites)]
<1> DEFINE N == Len(cites)
           A == Seq(Page)
           Solves(f) ==
             f = [n \in 0..N |-> IF n = 0 THEN <<>> ELSE Refer(f[n - 1], cites[n].page)]
           step == [n \in 1..N |-> [a \in A |-> Refer(a, cites[n].page)]]
<1>1. N \in Nat /\ \A n \in 1..N : cites[n].page \in Page
  <2>1. N \in Nat /\ \A n \in 1..N : cites[n] \in Citation
    OBVIOUS
  <2>2. \A c \in Citation : c.page \in Page
    BY DEF Citation
  <2> QED BY <2>1, <2>2
<1>2. Closed(step, N, A)
  <2> SUFFICES ASSUME NEW n \in 1..N, NEW a \in A PROVE step[n][a] \in A
    BY DEF Closed
  <2>1. Refer(a, cites[n].page) \in A
    BY <1>1 DEF Refer
  <2> QED BY <2>1
<1> HIDE DEF step
<1>3. PICK f \in [0..N -> A] : Iterates(f, <<>>, step, N)
  <2>1. <<>> \in A
    OBVIOUS
  <2> HIDE DEF A
  <2> QED BY <1>1, <1>2, <2>1, Recursion
<1>4. \A n \in 1..N : f[n] = Refer(f[n - 1], cites[n].page)
  <2> SUFFICES ASSUME NEW n \in 1..N PROVE f[n] = Refer(f[n - 1], cites[n].page)
    OBVIOUS
  <2>1. f[n - 1] \in A
    <3>1. n - 1 \in 0..N
      BY <1>1
    <3> HIDE DEF A
    <3> QED BY <1>3, <3>1
  <2>2. f[n] = step[n][f[n - 1]]
    BY <1>3 DEF Iterates
  <2> HIDE DEF A
  <2> QED BY <2>1, <2>2 DEF step
<1>5. Solves(f)
  <2> HIDE DEF A
  <2> QED BY <1>1, <1>3, <1>4 DEF Iterates
<1>6. Solves(CHOOSE g : Solves(g))
  BY <1>5, Zenon
<1>7. References(cites) = (CHOOSE g : Solves(g))[N]
  BY Zenon DEF References
<1>8. PICK pages : Solves(pages) /\ References(cites) = pages[N]
  BY <1>6, <1>7, Zenon
<1>9. pages[0] = <<>> /\ \A n \in 1..N : pages[n] = Refer(pages[n - 1], cites[n].page)
  <2> HIDE DEF N
  <2> QED BY <1>1, <1>8
<1> QED BY <1>8, <1>9

\* A claim refers to the pages that it cites.
PagesOf(cites) == {c.page : c \in ToSet(cites)}
LEMMA ReferencesAre ==
  ASSUME NEW cites \in Seq(Citation)
  PROVE  References(cites) \in Seq(Page) /\ ToSet(References(cites)) = PagesOf(cites)
<1>1. PICK pages : /\ pages[0] = <<>>
                   /\ \A n \in 1..Len(cites) :
                        pages[n] = Refer(pages[n - 1], cites[n].page)
                   /\ References(cites) = pages[Len(cites)]
  BY ReferencesSteps
<1> DEFINE N == Len(cites)
           Done(n, x) == x \in Seq(Page) /\ ToSet(x) = {cites[k].page : k \in 1..n}
           T == {n \in 0..N : Done(n, pages[n])}
<1>2. N \in Nat /\ \A n \in 1..N : cites[n].page \in Page
  <2>1. N \in Nat /\ \A n \in 1..N : cites[n] \in Citation
    OBVIOUS
  <2>2. \A c \in Citation : c.page \in Page
    BY DEF Citation
  <2> QED BY <2>1, <2>2
<1>3. 0 \in T
  <2>1. Done(0, <<>>)
    BY DEF ToSet
  <2> HIDE DEF Done
  <2> QED BY <1>1, <1>2, <2>1
<1>4. ASSUME NEW n \in 1..N, n - 1 \in T PROVE n \in T
  <2> DEFINE a == pages[n - 1]
             b == pages[n]
             g == cites[n].page
  <2>1. Done(n - 1, a)
    BY <1>4
  <2>2. b = Refer(a, g) /\ g \in Page
    BY <1>1, <1>2
  <2>3. {cites[k].page : k \in 1..n} = {cites[k].page : k \in 1..(n - 1)} \cup {g}
    <3>1. 1..n = 1..(n - 1) \cup {n}
      BY <1>2
    <3> QED BY <3>1
  <2> HIDE DEF a, b, g
  <2>4. b \in Seq(Page) /\ ToSet(b) = ToSet(a) \cup {g}
    <3>1. CASE g \in ToSet(a)
      BY <2>1, <2>2, <3>1 DEF Refer
    <3>2. CASE g \notin ToSet(a)
      <4>1. b = Append(a, g) /\ a \in Seq(Page)
        BY <2>1, <2>2, <3>2 DEF Refer
      <4>2. Append(a, g) = a \o <<g>> /\ <<g>> \in Seq(Page) /\ ToSet(<<g>>) = {g}
        BY <2>2, <4>1 DEF ToSet
      <4> DEFINE one == <<g>>
      <4>3. one \in Seq(Page) /\ ToSet(one) = {g} /\ b = a \o one
        BY <4>1, <4>2
      <4> HIDE DEF one
      <4>4. b \in Seq(Page) /\ ToSet(b) = ToSet(a) \cup ToSet(one)
        BY <4>1, <4>3, TogetherIs
      <4> QED BY <4>3, <4>4
    <3> QED BY <3>1, <3>2
  <2>5. Done(n, b)
    BY <2>1, <2>3, <2>4
  <2> HIDE DEF Done
  <2> QED BY <2>5 DEF b
<1>5. 0..N \subseteq T
  <2> HIDE DEF T
  <2> QED BY <1>2, <1>3, <1>4, Induction
<1>6. Done(N, pages[N])
  <2>1. N \in T
    <3> HIDE DEF T, N
    <3> QED BY <1>2, <1>5
  <2> HIDE DEF Done
  <2> QED BY <2>1
<1>7. {cites[k].page : k \in 1..N} = PagesOf(cites)
  BY DEF PagesOf, ToSet
<1> QED BY <1>1, <1>6, <1>7

\* A sequence made of a finite set has all its elements.
LEMMA SetToSeqIs ==
  ASSUME NEW S, IsFiniteSet(S)
  PROVE  SetToSeq(S) \in Seq(S) /\ ToSet(SetToSeq(S)) = S
<1> DEFINE n == Cardinality(S)
           D == 1..n
<1>1. n \in Nat /\ ExistsBijection(D, S) /\ IsFiniteSet(D) /\ Cardinality(D) = n
  <2>1. n \in Nat /\ ExistsBijection(D, S)
    BY FS_CardinalityType
  <2>2. IsFiniteSet(1..n) /\ Cardinality(1..n) = IF 1 > n THEN 0 ELSE n - 1 + 1
    BY <2>1, FS_Interval
  <2> QED BY <2>1, <2>2
<1>2. PICK f : f \in [D -> S] /\ IsInjective(f)
  <2>1. PICK f : f \in Bijection(D, S)
    BY <1>1 DEF ExistsBijection
  <2>2. f \in [D -> S] /\ \A a, b \in D : f[a] = f[b] => a = b
    BY <2>1 DEF Bijection, Injection, IsInjective
  <2>3. IsInjective(f)
    BY <2>2 DEF IsInjective
  <2> QED BY <2>2, <2>3
<1> DEFINE g == SetToSeq(S)
<1>3. g \in [D -> S] /\ IsInjective(g)
  BY <1>2, Zenon DEF SetToSeq
<1> HIDE DEF g
<1>4. g \in Injection(D, S)
  BY <1>3 DEF Injection, IsInjective
<1>5. g \in Surjection(D, S)
  BY <1>1, <1>4, FS_Injection
<1>6. g \in Seq(S)
  BY <1>1, <1>3
<1>7. ToSet(g) = S
  BY <1>3, <1>5 DEF ToSet, Surjection
<1> QED BY <1>6, <1>7 DEF g

\* A function on positions is a sequence.
LEMMA Mapped ==
  ASSUME NEW n \in Nat, NEW T, NEW f \in [1..n -> T]
  PROVE  f \in Seq(T) /\ Len(f) = n /\ ToSet(f) = {f[i] : i \in 1..n}
BY DEF ToSet

\* A sequence has finitely many elements.
LEMMA FiniteElements ==
  ASSUME NEW T, NEW s \in Seq(T)
  PROVE  IsFiniteSet(ToSet(s))
<1>1. Len(s) \in Nat /\ s \in [1..Len(s) -> ToSet(s)]
  BY DEF ToSet
<1>2. s \in Surjection(1..Len(s), ToSet(s))
  BY <1>1 DEF Surjection, ToSet
<1>3. IsFiniteSet(1..Len(s))
  BY <1>1, FS_Interval
<1> QED BY <1>2, <1>3, FS_Surjection

\* The pages that a payload cites are those of its blocks and related concepts,
\* and they are finitely many.
Mentions(p, g) ==
  \/ \E s \in 1..Len(p.sections) : \E b \in 1..Len(p.sections[s].blocks) :
       g \in PagesOf(p.sections[s].blocks[b].cites)
  \/ \E r \in 1..Len(p.related) : g \in PagesOf(p.related[r].cites)

\* The pages of a payload's citations are those its blocks and its related
\* concepts mention, and finitely many.
LEMMA CitedPagesAre ==
  ASSUME NEW p \in Approvable
  PROVE  /\ \A g : g \in CitedPages(p) <=> Mentions(p, g)
         /\ CitedPages(p) \subseteq Page
         /\ IsFiniteSet(CitedPages(p))
<1> DEFINE claims == Claims(p)
           N == Len(claims)
           pages == [i \in 1..N |-> References(claims[i].cites)]
<1>1. p \in Payloads(Cited(Verified))
  BY DEF Approvable, Cited
<1>2. N \in Nat /\ DOMAIN claims = 1..N
  BY <1>1, ClaimsAre
<1>3. \A i \in 1..N : claims[i].cites \in Seq(Citation)
  <2> SUFFICES ASSUME NEW i \in 1..N PROVE claims[i].cites \in Seq(Citation)
    OBVIOUS
  <2>1. claims[i].cites \in Seq(Verified)
    BY <1>2, ClaimsCite
  <2> QED BY <2>1, ContentConstants
<1>4. /\ \A i \in DOMAIN claims :
           \/ \E s \in 1..Len(p.sections) : \E b \in 1..Len(p.sections[s].blocks) :
                claims[i] = SectionClaim(p.sections[s], p.sections[s].blocks[b])
           \/ \E r \in 1..Len(p.related) : claims[i] = RelatedClaim(p.related[r])
      /\ \A s \in 1..Len(p.sections) : \A b \in 1..Len(p.sections[s].blocks) :
           \E i \in DOMAIN claims :
             claims[i] = SectionClaim(p.sections[s], p.sections[s].blocks[b])
      /\ \A r \in 1..Len(p.related) :
           \E i \in DOMAIN claims : claims[i] = RelatedClaim(p.related[r])
  BY <1>1, ClaimsAre
<1>5. CitedPages(p) = UNION {PagesOf(claims[i].cites) : i \in 1..N}
  BY <1>2 DEF CitedPages, CitationsOf, PagesOf
<1> HIDE DEF claims
<1>6. /\ \A s, b : SectionClaim(s, b).cites = b.cites
      /\ \A r : RelatedClaim(r).cites = r.cites
  BY DEF SectionClaim, RelatedClaim
<1>7. \A g \in CitedPages(p) : Mentions(p, g)
  <2> SUFFICES ASSUME NEW i \in 1..N, NEW g \in PagesOf(claims[i].cites)
               PROVE  Mentions(p, g)
    BY <1>5
  <2>1. ASSUME NEW s \in 1..Len(p.sections), NEW b \in 1..Len(p.sections[s].blocks),
               claims[i] = SectionClaim(p.sections[s], p.sections[s].blocks[b])
        PROVE  Mentions(p, g)
    <3>1. g \in PagesOf(p.sections[s].blocks[b].cites)
      BY <1>6, <2>1
    <3> QED BY <3>1 DEF Mentions
  <2>2. ASSUME NEW r \in 1..Len(p.related), claims[i] = RelatedClaim(p.related[r])
        PROVE  Mentions(p, g)
    <3>1. g \in PagesOf(p.related[r].cites)
      BY <1>6, <2>2
    <3> QED BY <3>1 DEF Mentions
  <2> QED BY <1>2, <1>4, <2>1, <2>2
<1>8. ASSUME NEW g, Mentions(p, g) PROVE g \in CitedPages(p)
  <2>1. ASSUME NEW s \in 1..Len(p.sections), NEW b \in 1..Len(p.sections[s].blocks),
               g \in PagesOf(p.sections[s].blocks[b].cites)
        PROVE  g \in CitedPages(p)
    <3>1. PICK i \in 1..N :
            claims[i] = SectionClaim(p.sections[s], p.sections[s].blocks[b])
      BY <1>2, <1>4
    <3>2. g \in PagesOf(claims[i].cites)
      BY <1>6, <2>1, <3>1
    <3> QED BY <1>5, <3>2
  <2>2. ASSUME NEW r \in 1..Len(p.related), g \in PagesOf(p.related[r].cites)
        PROVE  g \in CitedPages(p)
    <3>1. PICK i \in 1..N : claims[i] = RelatedClaim(p.related[r])
      BY <1>2, <1>4
    <3>2. g \in PagesOf(claims[i].cites)
      BY <1>6, <2>2, <3>1
    <3> QED BY <1>5, <3>2
  <2> QED BY <1>8, <2>1, <2>2 DEF Mentions
<1>9. ASSUME NEW i \in 1..N
      PROVE  /\ pages[i] \in Seq(Page) /\ ToSet(pages[i]) = PagesOf(claims[i].cites)
  BY <1>3, ReferencesAre
<1>10. pages \in Seq(Seq(Page)) /\ Len(pages) = N
  <2>1. pages \in [1..N -> Seq(Page)]
    BY <1>9
  <2> HIDE DEF pages, N
  <2> QED BY <1>2, <2>1
<1> HIDE DEF pages
<1>11. /\ FlattenSeq(pages) \in Seq(Page)
       /\ ToSet(FlattenSeq(pages)) = UNION {ToSet(pages[i]) : i \in 1..N}
  BY <1>10, FlatSet
<1>12. UNION {ToSet(pages[i]) : i \in 1..N} = CitedPages(p)
  <2> HIDE DEF N
  <2> QED BY <1>5, <1>9
<1>13. IsFiniteSet(CitedPages(p)) /\ CitedPages(p) \subseteq Page
  <2>1. IsFiniteSet(ToSet(FlattenSeq(pages)))
    BY <1>11, FiniteElements
  <2>2. ToSet(FlattenSeq(pages)) \subseteq Page
    BY <1>11 DEF ToSet
  <2> QED BY <1>11, <1>12, <2>1, <2>2
<1> QED BY <1>7, <1>8, <1>13

\* The lines of a payload: those of its claims and related concepts, and one
\* definition for each page.
ClaimLines(s) == {ClaimLine(s.blocks[b]) : b \in 1..Len(s.blocks)}
RelatedLine(r) == Line("related", r.text, References(r.cites))
TextLine(p, line) ==
  \/ \E s \in 1..Len(p.sections) : \E b \in 1..Len(p.sections[s].blocks) :
       line = ClaimLine(p.sections[s].blocks[b])
  \/ \E r \in 1..Len(p.related) : line = RelatedLine(p.related[r])
Headings == {Line("heading", h, <<>>) : h \in Word}
Definitions(p) == {Definition(g) : g \in CitedPages(p)}

\* Each is a line, and refers to the pages cited.
LEMMA LinesAre ==
  ASSUME NEW b \in Blocks(Cited(Verified))
  PROVE  /\ ClaimLine(b) \in Lines /\ RelatedLine(b) \in Lines
         /\ ClaimLine(b).kind = "claim" /\ RelatedLine(b).kind = "related"
         /\ ToSet(ClaimLine(b).pages) = PagesOf(b.cites)
         /\ ToSet(RelatedLine(b).pages) = PagesOf(b.cites)
<1>1. b.text \in Word /\ b.cites \in Seq(Citation)
  <2>1. b.text \in Word /\ b.cites \in Seq(Verified)
    BY DEF Blocks, Cited
  <2> QED BY <2>1, ContentConstants
<1>2. References(b.cites) \in Seq(Page) /\ ToSet(References(b.cites)) = PagesOf(b.cites)
  BY <1>1, ReferencesAre
<1> DEFINE q == References(b.cites)
<1> HIDE DEF q
<1>3. q \in Seq(Page) /\ ToSet(q) = PagesOf(b.cites)
  BY <1>2 DEF q
<1>4. ClaimLine(b) = Line("claim", b.text, q) /\ RelatedLine(b) = Line("related", b.text, q)
  BY DEF ClaimLine, RelatedLine, q
<1>5. \A k \in Kinds : Line(k, b.text, q) \in Lines /\ Line(k, b.text, q).kind = k
                       /\ Line(k, b.text, q).pages = q
  BY <1>1, <1>3 DEF Line, Lines
<1>6. "claim" \in Kinds /\ "related" \in Kinds
  BY DEF Kinds
<1> QED BY <1>3, <1>4, <1>5, <1>6

\* The lines of one section.
SectionLines(p, s) ==
  <<Line("heading", s.heading, <<>>)>>
  \o [b \in DOMAIN s.blocks |-> ClaimLine(s.blocks[b])]
  \o (IF s.key = RelatedKey THEN RelatedLines(p) ELSE <<>>)

\* The lines of the related concepts.
LEMMA RelatedLinesAre ==
  ASSUME NEW p \in Approvable
  PROVE  /\ RelatedLines(p) \in Seq(Lines)
         /\ ToSet(RelatedLines(p)) = {RelatedLine(p.related[r]) : r \in 1..Len(p.related)}
<1>1. /\ Len(p.related) \in Nat /\ DOMAIN p.related = 1..Len(p.related)
      /\ \A r \in 1..Len(p.related) : p.related[r] \in Blocks(Cited(Verified))
  BY TypedPayload DEF Approvable, Cited
<1> DEFINE n == Len(p.related)
           f == [r \in 1..n |-> RelatedLine(p.related[r])]
<1>2. RelatedLines(p) = f
  BY <1>1 DEF RelatedLines, RelatedLine
<1>3. f \in [1..n -> Lines]
  BY <1>1, LinesAre
<1>4. \A r \in 1..n : f[r] = RelatedLine(p.related[r])
  OBVIOUS
<1> HIDE DEF n, f
<1>5. n \in Nat
  BY <1>1 DEF n
<1>6. f \in Seq(Lines) /\ ToSet(f) = {f[r] : r \in 1..n}
  BY <1>3, <1>5, Mapped
<1>7. {f[r] : r \in 1..n} = {RelatedLine(p.related[r]) : r \in 1..n}
  BY <1>4
<1> QED BY <1>2, <1>6, <1>7 DEF n

\* The lines of a section: its heading, its claims, and the related concepts
\* where they are due.
LEMMA SectionLinesAre ==
  ASSUME NEW p \in Approvable, NEW s \in Sections(Cited(Verified))
  PROVE  /\ SectionLines(p, s) \in Seq(Lines)
         /\ ToSet(SectionLines(p, s)) =
              {Line("heading", s.heading, <<>>)} \cup ClaimLines(s)
              \cup (IF s.key = RelatedKey THEN ToSet(RelatedLines(p)) ELSE {})
<1>1. s.heading \in Word /\ s.blocks \in Seq(Blocks(Cited(Verified)))
  BY DEF Sections
<1> DEFINE n == Len(s.blocks)
           f == [b \in 1..n |-> ClaimLine(s.blocks[b])]
           head == <<Line("heading", s.heading, <<>>)>>
           rest == IF s.key = RelatedKey THEN RelatedLines(p) ELSE <<>>
<1>2. n \in Nat /\ DOMAIN s.blocks = 1..n
      /\ \A b \in 1..n : s.blocks[b] \in Blocks(Cited(Verified))
  BY <1>1
<1>3. SectionLines(p, s) = (head \o f) \o rest
  BY <1>2 DEF SectionLines
<1>4. f \in [1..n -> Lines]
  BY <1>2, LinesAre
<1>5. \A b \in 1..n : f[b] = ClaimLine(s.blocks[b])
  OBVIOUS
<1> HIDE DEF f
<1>6. f \in Seq(Lines) /\ ToSet(f) = ClaimLines(s)
  <2> HIDE DEF n
  <2>1. f \in Seq(Lines) /\ ToSet(f) = {f[b] : b \in 1..n}
    BY <1>2, <1>4, Mapped
  <2>2. {f[b] : b \in 1..n} = ClaimLines(s)
    BY <1>5 DEF ClaimLines, n
  <2> QED BY <2>1, <2>2
<1>7. head \in Seq(Lines) /\ ToSet(head) = {Line("heading", s.heading, <<>>)}
  <2> DEFINE l == Line("heading", s.heading, <<>>)
  <2>1. l \in Lines
    <3>1. <<>> \in Seq(Page)
      OBVIOUS
    <3> QED BY <1>1, <3>1 DEF Line, Lines, Kinds
  <2> HIDE DEF l
  <2>2. <<l>> \in Seq(Lines) /\ ToSet(<<l>>) = {l}
    BY <2>1 DEF ToSet
  <2> QED BY <2>2 DEF l
<1>8. /\ rest \in Seq(Lines)
      /\ ToSet(rest) = IF s.key = RelatedKey THEN ToSet(RelatedLines(p)) ELSE {}
  <2>1. <<>> \in Seq(Lines) /\ ToSet(<<>>) = {}
    BY DEF ToSet
  <2> QED BY <2>1, RelatedLinesAre
<1> HIDE DEF head, rest
<1> DEFINE body == head \o f
<1>9. body \in Seq(Lines) /\ ToSet(body) = ToSet(head) \cup ToSet(f)
  BY <1>6, <1>7, TogetherIs
<1>10. body \o rest \in Seq(Lines) /\ ToSet(body \o rest) = ToSet(body) \cup ToSet(rest)
  <2> HIDE DEF body
  <2> QED BY <1>8, <1>9, TogetherIs
<1>11. SectionLines(p, s) = body \o rest
  BY <1>3
<1> HIDE DEF body
<1> QED BY <1>6, <1>7, <1>8, <1>9, <1>10, <1>11

\* A rendering has the lines of the payload, and headings.
LEMMA RenderedIs ==
  ASSUME NEW p \in Approvable
  PROVE  /\ Rendered(p) \in Seq(Lines)
         /\ \A line : TextLine(p, line) \/ line \in Definitions(p)
                     => line \in ToSet(Rendered(p))
         /\ \A line \in ToSet(Rendered(p)) :
              line \in Headings \/ TextLine(p, line) \/ line \in Definitions(p)
<1> DEFINE n == Len(p.sections)
           parts == [s \in 1..n |-> SectionLines(p, p.sections[s])]
           Own == \E s \in DOMAIN p.sections : p.sections[s].key = RelatedKey
           head == <<Line("heading", RelatedTitle, <<>>)>>
           own == IF Own THEN <<>> ELSE head \o RelatedLines(p)
           pages == SetToSeq(CitedPages(p))
           ends == [i \in DOMAIN pages |-> Definition(pages[i])]
           R == ToSet(RelatedLines(p))
<1>1. /\ n \in Nat /\ DOMAIN p.sections = 1..n
      /\ \A s \in 1..n : p.sections[s] \in Sections(Cited(Verified))
                         /\ p.sections[s].heading \in Word
  BY TypedPayload DEF Approvable, Cited
<1>2. Rendered(p) = (FlattenSeq(parts) \o own) \o ends
  BY <1>1 DEF Rendered, SectionLines
<1>3. /\ RelatedLines(p) \in Seq(Lines)
      /\ R = {RelatedLine(p.related[r]) : r \in 1..Len(p.related)}
  BY RelatedLinesAre
<1> HIDE DEF R
<1>4. \A s \in 1..n :
        /\ parts[s] \in Seq(Lines)
        /\ ToSet(parts[s]) =
             {Line("heading", p.sections[s].heading, <<>>)} \cup ClaimLines(p.sections[s])
             \cup (IF p.sections[s].key = RelatedKey THEN R ELSE {})
  BY <1>1, SectionLinesAre DEF R
<1>5. parts \in Seq(Seq(Lines)) /\ Len(parts) = n
  <2>1. parts \in [1..n -> Seq(Lines)]
    BY <1>4
  <2> HIDE DEF parts, n
  <2> QED BY <1>1, <2>1
<1> HIDE DEF parts
<1>6. /\ FlattenSeq(parts) \in Seq(Lines)
      /\ ToSet(FlattenSeq(parts)) = UNION {ToSet(parts[s]) : s \in 1..n}
  BY <1>5, FlatSet
<1>7. own \in Seq(Lines) /\ ToSet(own) \subseteq Headings \cup R
      /\ (~Own => R \subseteq ToSet(own))
  <2> DEFINE l == Line("heading", RelatedTitle, <<>>)
  <2>1. l \in Lines /\ l \in Headings
    <3>1. <<>> \in Seq(Page) /\ RelatedTitle \in Word
      BY ContentConstants
    <3> QED BY <3>1 DEF Line, Lines, Kinds, Headings
  <2> HIDE DEF l
  <2>2. <<l>> \in Seq(Lines) /\ ToSet(<<l>>) = {l}
    BY <2>1 DEF ToSet
  <2>3. head = <<l>>
    BY DEF l
  <2> HIDE DEF head
  <2>4. /\ head \o RelatedLines(p) \in Seq(Lines)
        /\ ToSet(head \o RelatedLines(p)) = {l} \cup R
    <3> DEFINE q == RelatedLines(p)
    <3>1. q \in Seq(Lines) /\ head \in Seq(Lines) /\ ToSet(head) = {l} /\ R = ToSet(q)
      BY <1>3, <2>2, <2>3 DEF R
    <3> HIDE DEF q
    <3>2. head \o q \in Seq(Lines) /\ ToSet(head \o q) = {l} \cup R
      BY <3>1, TogetherIs
    <3> QED BY <3>2 DEF q
  <2>5. <<>> \in Seq(Lines) /\ ToSet(<<>>) = {}
    BY DEF ToSet
  <2> HIDE DEF Own
  <2>6. CASE Own
    BY <2>5, <2>6
  <2>7. CASE ~Own
    BY <2>1, <2>4, <2>7
  <2> QED BY <2>6, <2>7
<1> HIDE DEF own
<1>8. pages \in Seq(CitedPages(p)) /\ ToSet(pages) = CitedPages(p)
  BY CitedPagesAre, SetToSeqIs
<1> HIDE DEF pages
<1>9. ends \in Seq(Lines) /\ ToSet(ends) = Definitions(p)
  <2>1. ASSUME NEW g \in CitedPages(p) PROVE Definition(g) \in Lines
    <3>1. <<>> \in Seq(Page) /\ g \in Page
      BY CitedPagesAre
    <3> QED BY <3>1 DEF Definition, Line, Lines, Kinds
  <2>2. Len(pages) \in Nat /\ DOMAIN pages = 1..Len(pages)
        /\ \A i \in 1..Len(pages) : pages[i] \in CitedPages(p)
    BY <1>8
  <2>3. ends \in [1..Len(pages) -> Lines]
    BY <2>1, <2>2
  <2>4. \A i \in 1..Len(pages) : ends[i] = Definition(pages[i])
    BY <2>2
  <2> HIDE DEF ends
  <2>5. ends \in Seq(Lines) /\ ToSet(ends) = {ends[i] : i \in 1..Len(pages)}
    BY <2>2, <2>3, Mapped
  <2>6. ToSet(pages) = {pages[i] : i \in 1..Len(pages)}
    BY <2>2 DEF ToSet
  <2>7. \A i \in 1..Len(pages) : ends[i] \in Definitions(p)
    BY <1>8, <2>4, <2>6 DEF Definitions
  <2>8. ASSUME NEW g \in CitedPages(p) PROVE Definition(g) \in ToSet(ends)
    <3>1. PICK i \in 1..Len(pages) : g = pages[i]
      BY <1>8, <2>6
    <3> QED BY <2>4, <2>5, <3>1
  <2> QED BY <2>5, <2>7, <2>8 DEF Definitions
<1> HIDE DEF ends
<1> DEFINE body == FlattenSeq(parts) \o own
<1>10. body \in Seq(Lines) /\ ToSet(body) = ToSet(FlattenSeq(parts)) \cup ToSet(own)
  BY <1>6, <1>7, TogetherIs
<1>11. /\ body \o ends \in Seq(Lines)
       /\ ToSet(body \o ends) = ToSet(body) \cup ToSet(ends)
  <2> HIDE DEF body
  <2> QED BY <1>9, <1>10, TogetherIs
<1>12. ToSet(Rendered(p)) = ToSet(FlattenSeq(parts)) \cup ToSet(own) \cup Definitions(p)
  BY <1>2, <1>9, <1>10, <1>11
<1> DEFINE claims == UNION {ClaimLines(p.sections[s]) : s \in 1..n}
<1>13. claims \subseteq ToSet(FlattenSeq(parts))
  BY <1>4, <1>6
<1>14. Own => R \subseteq ToSet(FlattenSeq(parts))
  BY <1>1, <1>4, <1>6
<1>15. ToSet(FlattenSeq(parts)) \subseteq Headings \cup claims \cup R
  <2>1. \A s \in 1..n : Line("heading", p.sections[s].heading, <<>>) \in Headings
    BY <1>1 DEF Headings
  <2> QED BY <1>4, <1>6, <2>1
<1>16. \A line : TextLine(p, line) <=> line \in claims \cup R
  BY <1>3 DEF TextLine, ClaimLines
<1> HIDE DEF claims, Own
<1>17. /\ claims \cup R \cup Definitions(p) \subseteq ToSet(Rendered(p))
       /\ ToSet(Rendered(p)) \subseteq Headings \cup claims \cup R \cup Definitions(p)
  BY <1>7, <1>12, <1>13, <1>14, <1>15
<1>18. Rendered(p) \in Seq(Lines)
  BY <1>2, <1>11
<1> QED BY <1>16, <1>17, <1>18

\* The claims of a rendering refer to the pages that it defines, and to all.
Referred(lines) == UNION {ToSet(lines[i].pages) : i \in DOMAIN lines}
LEMMA ReferencesResolve ==
  ASSUME NEW p \in Approvable
  PROVE  /\ Referred(Rendered(p)) = CitedPages(p)
         /\ \A g \in CitedPages(p) : Definition(g) \in ToSet(Rendered(p))
         /\ \A line \in ToSet(Rendered(p)) :
              line.kind = "definition" => line.what \in CitedPages(p)
<1> DEFINE z == Rendered(p)
           Pages(S) == UNION {ToSet(line.pages) : line \in S}
<1>1. /\ \A line : TextLine(p, line) \/ line \in Definitions(p) => line \in ToSet(z)
      /\ \A line \in ToSet(z) :
           line \in Headings \/ TextLine(p, line) \/ line \in Definitions(p)
  BY RenderedIs
<1>2. Referred(z) = Pages(ToSet(z))
  BY DEF Referred, ToSet
<1> HIDE DEF z
<1>3. \A line \in Headings : ToSet(line.pages) = {} /\ line.kind = "heading"
  BY DEF Headings, Line, ToSet
<1>4. \A line \in Definitions(p) : ToSet(line.pages) = {} /\ line.what \in CitedPages(p)
  BY DEF Definitions, Definition, Line, ToSet
<1>5. /\ \A s \in 1..Len(p.sections) : \A b \in 1..Len(p.sections[s].blocks) :
           p.sections[s].blocks[b] \in Blocks(Cited(Verified))
      /\ \A r \in 1..Len(p.related) : p.related[r] \in Blocks(Cited(Verified))
  BY TypedPayload DEF Approvable, Cited
<1>6. \A line : TextLine(p, line) =>
        line.kind # "definition" /\ \A g \in ToSet(line.pages) : Mentions(p, g)
  <2>1. ASSUME NEW s \in 1..Len(p.sections), NEW b \in 1..Len(p.sections[s].blocks)
        PROVE  /\ ClaimLine(p.sections[s].blocks[b]).kind # "definition"
               /\ \A g \in ToSet(ClaimLine(p.sections[s].blocks[b]).pages) : Mentions(p, g)
    <3>1. /\ ClaimLine(p.sections[s].blocks[b]).kind = "claim"
          /\ ToSet(ClaimLine(p.sections[s].blocks[b]).pages)
               = PagesOf(p.sections[s].blocks[b].cites)
      BY <1>5, LinesAre
    <3> QED BY <3>1 DEF Mentions
  <2>2. ASSUME NEW r \in 1..Len(p.related)
        PROVE  /\ RelatedLine(p.related[r]).kind # "definition"
               /\ \A g \in ToSet(RelatedLine(p.related[r]).pages) : Mentions(p, g)
    <3>1. /\ RelatedLine(p.related[r]).kind = "related"
          /\ ToSet(RelatedLine(p.related[r]).pages) = PagesOf(p.related[r].cites)
      BY <1>5, LinesAre
    <3> QED BY <3>1 DEF Mentions
  <2> QED BY <2>1, <2>2 DEF TextLine
<1>7. ASSUME NEW g, Mentions(p, g) PROVE g \in Pages(ToSet(z))
  <2>1. ASSUME NEW s \in 1..Len(p.sections), NEW b \in 1..Len(p.sections[s].blocks),
               g \in PagesOf(p.sections[s].blocks[b].cites)
        PROVE  g \in Pages(ToSet(z))
    <3> DEFINE line == ClaimLine(p.sections[s].blocks[b])
    <3>1. ToSet(line.pages) = PagesOf(p.sections[s].blocks[b].cites)
      BY <1>5, LinesAre
    <3>2. TextLine(p, line)
      BY DEF TextLine
    <3> HIDE DEF line
    <3> QED BY <1>1, <2>1, <3>1, <3>2
  <2>2. ASSUME NEW r \in 1..Len(p.related), g \in PagesOf(p.related[r].cites)
        PROVE  g \in Pages(ToSet(z))
    <3> DEFINE line == RelatedLine(p.related[r])
    <3>1. ToSet(line.pages) = PagesOf(p.related[r].cites)
      BY <1>5, LinesAre
    <3>2. TextLine(p, line)
      BY DEF TextLine
    <3> HIDE DEF line
    <3> QED BY <1>1, <2>2, <3>1, <3>2
  <2> QED BY <1>7, <2>1, <2>2 DEF Mentions
<1>8. \A g : g \in CitedPages(p) <=> Mentions(p, g)
  BY CitedPagesAre
<1>9. Pages(ToSet(z)) = CitedPages(p)
  BY <1>1, <1>3, <1>4, <1>6, <1>7, <1>8
<1>10. \A g \in CitedPages(p) : Definition(g) \in ToSet(z)
  BY <1>1 DEF Definitions
<1>11. \A line \in ToSet(z) : line.kind = "definition" => line.what \in CitedPages(p)
  BY <1>1, <1>3, <1>4, <1>6
<1> QED BY <1>2, <1>9, <1>10, <1>11 DEF z

----------------------------------------------------------------------------
\* The file.

\* A marker that occurs once has one position.
LEMMA OnePosition ==
  ASSUME NEW lines \in Seq(Lines), NEW line, Cardinality(Positions(lines, line)) = 1
  PROVE  /\ MarkerAt(lines, line) \in 1..Len(lines)
         /\ lines[MarkerAt(lines, line)] = line
         /\ \A i \in 1..Len(lines) : lines[i] = line => i = MarkerAt(lines, line)
<1> DEFINE S == Positions(lines, line)
           m == MarkerAt(lines, line)
<1>1. DOMAIN lines = 1..Len(lines) /\ Len(lines) \in Nat
  OBVIOUS
<1>2. S \subseteq 1..Len(lines) /\ \A i : i \in S <=> i \in 1..Len(lines) /\ lines[i] = line
  BY <1>1 DEF Positions
<1>3. m = CHOOSE i \in S : TRUE
  BY DEF MarkerAt
<1> HIDE DEF S, m
<1>4. IsFiniteSet(S)
  <2>1. IsFiniteSet(1..Len(lines))
    BY <1>1, FS_Interval
  <2> QED BY <1>2, <2>1, FS_Subset
<1>5. \E x : S = {x}
  <2>1. Cardinality(S) = 1
    BY DEF S
  <2> QED BY <1>4, <2>1, FS_Singleton
<1>6. m \in S /\ \A i \in S : i = m
  BY <1>3, <1>5
<1> QED BY <1>2, <1>6 DEF m

\* A line that occurs occurs once, if no other line equals it.
LEMMA OccursOnce ==
  ASSUME NEW lines \in Seq(Lines), NEW line, NEW i \in 1..Len(lines), lines[i] = line,
         \A j \in 1..Len(lines) : lines[j] = line => j = i
  PROVE  Cardinality(Positions(lines, line)) = 1
<1>1. Positions(lines, line) = {i}
  BY DEF Positions
<1>2. \A x : Cardinality({x}) = 1
  BY FS_Singleton
<1> QED BY <1>1, <1>2

\* The markers of an article.
LEMMA Markers ==
  /\ Frontmatter \in Lines /\ StartMarker \in Lines /\ EndMarker \in Lines
<1>1. <<>> \in Seq(Page)
  OBVIOUS
<1> QED BY <1>1 DEF Frontmatter, StartMarker, EndMarker, Line, Lines, Kinds

\* What a person or a publication writes are lines.
LEMMA EditedTyped ==
  ASSUME NEW lines \in Seq(Lines), NEW line \in Lines
  PROVE  /\ \A i \in 1..(Len(lines) + 1) : InsertAt(lines, i, line) \in Seq(Lines)
         /\ \A i \in DOMAIN lines : RemoveAt(lines, i) \in Seq(Lines)
<1>1. DOMAIN lines = 1..Len(lines) /\ Len(lines) \in Nat
  OBVIOUS
<1>2. ASSUME NEW m \in Nat \ {0}, NEW n \in Nat, n <= Len(lines)
      PROVE  SubSeq(lines, m, n) \in Seq(Lines)
  <2>1. \A k \in m..n : lines[k] \in Lines
    BY <1>1, <1>2
  <2>2. m \in Int /\ n \in Int
    OBVIOUS
  <2> QED BY <2>1, <2>2, SubSeqProperties
<1>3. ASSUME NEW i \in 1..(Len(lines) + 1) PROVE InsertAt(lines, i, line) \in Seq(Lines)
  <2> DEFINE s == SubSeq(lines, 1, i - 1)
             t == SubSeq(lines, i, Len(lines))
             one == <<line>>
  <2>1. s \in Seq(Lines)
    <3>1. 1 \in Nat \ {0} /\ i - 1 \in Nat /\ i - 1 <= Len(lines)
      BY <1>1
    <3> QED BY <1>2, <3>1
  <2>2. t \in Seq(Lines)
    <3>1. i \in Nat \ {0} /\ Len(lines) \in Nat /\ Len(lines) <= Len(lines)
      BY <1>1
    <3> QED BY <1>2, <3>1
  <2>3. one \in Seq(Lines)
    OBVIOUS
  <2>4. InsertAt(lines, i, line) = s \o one \o t
    BY DEF InsertAt
  <2> HIDE DEF s, t, one
  <2> QED BY <2>1, <2>2, <2>3, <2>4
<1>4. ASSUME NEW i \in DOMAIN lines PROVE RemoveAt(lines, i) \in Seq(Lines)
  <2> DEFINE s == SubSeq(lines, 1, i - 1)
             t == SubSeq(lines, i + 1, Len(lines))
  <2>1. s \in Seq(Lines)
    <3>1. 1 \in Nat \ {0} /\ i - 1 \in Nat /\ i - 1 <= Len(lines)
      BY <1>1
    <3> QED BY <1>2, <3>1
  <2>2. t \in Seq(Lines)
    <3>1. i + 1 \in Nat \ {0} /\ Len(lines) \in Nat /\ Len(lines) <= Len(lines)
      BY <1>1
    <3> QED BY <1>2, <3>1
  <2>3. RemoveAt(lines, i) = s \o t
    BY DEF RemoveAt
  <2> HIDE DEF s, t
  <2> QED BY <2>1, <2>2, <2>3
<1> QED BY <1>3, <1>4

\* A new article is made of lines.
LEMMA NewArticleTyped ==
  ASSUME NEW region \in Seq(Lines)
  PROVE  NewArticle(region) \in Seq(Lines)
<1> DEFINE s == <<Frontmatter, StartMarker>>
           t == <<EndMarker>>
<1>1. s \in Seq(Lines) /\ t \in Seq(Lines)
  BY Markers
<1>2. NewArticle(region) = s \o region \o t
  BY DEF NewArticle
<1> HIDE DEF s, t
<1> QED BY <1>1, <1>2

\* A replacement keeps the lines up to the start marker, and those from the end
\* marker on.
IsReplaced(lines, region, new) ==
  LET m == MarkerAt(lines, StartMarker)
      e == MarkerAt(lines, EndMarker)
      rest == Len(lines) - e + 1
  IN /\ new \in Seq(Lines)
     /\ m \in 1..Len(lines) /\ e \in 1..Len(lines) /\ m < e
     /\ Prefix(lines) \in Seq(Lines) /\ Len(Prefix(lines)) = m
     /\ Suffix(lines) \in Seq(Lines) /\ Len(Suffix(lines)) = rest
     /\ Len(new) = m + Len(region) + rest
     /\ \A i \in 1..m : new[i] = lines[i] /\ Prefix(lines)[i] = lines[i]
     /\ \A i \in 1..Len(region) : new[m + i] = region[i]
     /\ \A i \in 1..rest : /\ new[m + Len(region) + i] = lines[e + i - 1]
                           /\ Suffix(lines)[i] = lines[e + i - 1]
LEMMA ReplacedIs ==
  ASSUME NEW lines \in Seq(Lines), NEW region \in Seq(Lines), HasRegion(lines)
  PROVE  IsReplaced(lines, region, Replaced(lines, region))
<1> DEFINE new == Replaced(lines, region)
           m == MarkerAt(lines, StartMarker)
           e == MarkerAt(lines, EndMarker)
           rest == Len(lines) - e + 1
           s == Prefix(lines)
           t == Suffix(lines)
<1>1. m \in 1..Len(lines) /\ e \in 1..Len(lines) /\ m < e /\ Len(lines) \in Nat
  BY OnePosition DEF HasRegion
<1>2. s = SubSeq(lines, 1, m) /\ t = SubSeq(lines, e, Len(lines))
  BY DEF Prefix, Suffix
<1>3. new = (s \o region) \o t
  BY DEF Replaced
<1> HIDE DEF m, e, s, t, new
<1>4. s \in Seq(Lines) /\ Len(s) = m /\ \A i \in 1..m : s[i] = lines[i]
  <2>1. 1 \in Int /\ m \in Int /\ \A k \in 1..m : lines[k] \in Lines
    BY <1>1
  <2>2. /\ SubSeq(lines, 1, m) \in Seq(Lines)
        /\ Len(SubSeq(lines, 1, m)) = IF 1 <= m THEN m - 1 + 1 ELSE 0
        /\ \A i \in 1..(m - 1 + 1) : SubSeq(lines, 1, m)[i] = lines[1 + i - 1]
    BY <2>1, SubSeqProperties
  <2> QED BY <1>1, <1>2, <2>2
<1>5. t \in Seq(Lines) /\ Len(t) = rest /\ \A i \in 1..rest : t[i] = lines[e + i - 1]
  <2> DEFINE n == Len(lines)
  <2>1. e \in Int /\ n \in Int /\ e <= n /\ \A k \in e..n : lines[k] \in Lines
    BY <1>1
  <2>2. /\ SubSeq(lines, e, n) \in Seq(Lines)
        /\ Len(SubSeq(lines, e, n)) = IF e <= n THEN n - e + 1 ELSE 0
        /\ \A i \in 1..(n - e + 1) : SubSeq(lines, e, n)[i] = lines[e + i - 1]
    BY <2>1, SubSeqProperties
  <2> QED BY <1>2, <2>1, <2>2
<1> DEFINE body == s \o region
           k == Len(region)
<1>6. /\ body \in Seq(Lines) /\ k \in Nat /\ Len(body) = m + k
      /\ \A i \in 1..m : body[i] = s[i]
      /\ \A i \in 1..k : body[m + i] = region[i]
  <2> HIDE DEF s
  <2>1. s \in Seq(Lines) /\ Len(s) = m /\ region \in Seq(Lines)
    BY <1>4
  <2>2. /\ s \o region \in Seq(Lines)
        /\ Len(s \o region) = Len(s) + Len(region)
        /\ \A i \in 1..Len(s) : (s \o region)[i] = s[i]
        /\ \A i \in 1..Len(region) : (s \o region)[Len(s) + i] = region[i]
    <3>1. s \in Seq(Lines) /\ region \in Seq(Lines)
      BY <2>1
    <3>2. s \o region \in Seq(Lines)
      BY <3>1, JoinedIs
    <3>3. Len(s \o region) = Len(s) + Len(region)
      BY <3>1, JoinedIs
    <3>4. \A i \in 1..Len(s) : (s \o region)[i] = s[i]
      BY <3>1, JoinedIs
    <3>5. \A i \in 1..Len(region) : (s \o region)[Len(s) + i] = region[i]
      BY <3>1, JoinedIs
    <3> QED BY <3>2, <3>3, <3>4, <3>5
  <2>3. Len(region) \in Nat
    OBVIOUS
  <2> QED BY <2>1, <2>2, <2>3
<1> HIDE DEF body
<1>7. rest \in Nat
  BY <1>1
<1> HIDE DEF rest
<1>8. /\ new \in Seq(Lines) /\ Len(new) = Len(body) + rest
      /\ \A i \in 1..Len(body) : new[i] = body[i]
      /\ \A i \in 1..rest : new[Len(body) + i] = t[i]
  <2>1. new = body \o t
    BY <1>3 DEF body
  <2>2. body \in Seq(Lines) /\ t \in Seq(Lines) /\ Len(t) = rest
    BY <1>5, <1>6
  <2>3. /\ body \o t \in Seq(Lines) /\ Len(body \o t) = Len(body) + Len(t)
        /\ \A i \in 1..Len(body) : (body \o t)[i] = body[i]
        /\ \A i \in 1..Len(t) : (body \o t)[Len(body) + i] = t[i]
    BY <2>2, JoinedIs
  <2> QED BY <2>1, <2>2, <2>3
<1> HIDE DEF k
<1>9. \A i \in 1..m : new[i] = lines[i]
  BY <1>1, <1>4, <1>6, <1>8
<1>10. \A i \in 1..k : new[m + i] = region[i]
  BY <1>1, <1>6, <1>8
<1>11. \A i \in 1..rest : new[m + k + i] = lines[e + i - 1]
  BY <1>5, <1>6, <1>8
<1>12. Len(new) = m + k + rest
  BY <1>6, <1>8
<1> QED BY <1>1, <1>4, <1>5, <1>8, <1>9, <1>10, <1>11, <1>12
        DEF m, e, s, t, new, rest, k, IsReplaced

----------------------------------------------------------------------------
\* The invariant.

\* A proposal was made of a valid answer and of the revision that is applied
\* still, and its rows are those of its payload.
Sound(p) ==
  /\ ValidAnswer(p.answer)
  /\ p.rows = InsertRows(p.payload)
  /\ p.mode = "create" <=> article = None
  /\ p.mode = "additive" => p.payload = Accumulate(article, p.answer)

Inv == TypeOK /\ (proposal # None => Sound(proposal))

\* Nothing is there at first.
LEMMA InitInv == Init => Inv
<1> SUFFICES ASSUME Init PROVE Inv
  OBVIOUS
<1>1. <<>> \in Seq(Lines)
  OBVIOUS
<1>2. 0 \in 0..MaxCompiles /\ 0 \in 0..MaxEdits
  BY ContentConstants
<1> QED BY <1>1, <1>2 DEF Init, Inv, TypeOK

\* A new proposal keeps it.
LEMMA ProposeInv ==
  ASSUME Inv, NEW mode \in {"create", "additive", "regenerate"}, NEW answer \in Answer,
         NEW payload \in Approvable, ValidAnswer(answer),
         mode = "create" <=> article = None,
         mode = "additive" => payload = Accumulate(article, answer),
         compiles < MaxCompiles, Propose(mode, answer, payload)
  PROVE  Inv'
<1>1. /\ proposal'.mode = mode /\ proposal'.answer = answer
      /\ proposal'.payload = payload /\ proposal'.rows = InsertRows(payload)
      /\ compiles' = compiles + 1
      /\ UNCHANGED <<article, managed, file, edits>>
  BY DEF Propose
<1>2. \A row \in InsertRows(payload) : row.cite \in Verified
  BY RowsAre
<1>3. compiles' \in 0..MaxCompiles
  BY <1>1, ContentConstants DEF Inv, TypeOK
<1>4. TypeOK'
  BY <1>1, <1>2, <1>3 DEF Inv, TypeOK
<1>5. Sound(proposal)'
  BY <1>1 DEF Sound
<1> QED BY <1>4, <1>5 DEF Inv

\* What a publication writes.
LEMMA ContentTyped ==
  ASSUME Inv, proposal # None, Publishable(proposal)
  PROVE  /\ proposal.payload \in Approvable /\ Rendered(proposal.payload) \in Seq(Lines)
         /\ Content(proposal) \in Seq(Lines)
         /\ proposal.mode # "create" => file \in Seq(Lines) /\ HasRegion(file)
<1>1. proposal.payload \in Approvable
  BY DEF Inv, TypeOK
<1>2. Rendered(proposal.payload) \in Seq(Lines)
  BY <1>1, RenderedIs
<1>3. proposal.mode # "create" => file \in Seq(Lines) /\ HasRegion(file)
  BY DEF Publishable, BaseIsReadable, Inv, TypeOK
<1>4. CASE proposal.mode = "create"
  BY <1>1, <1>2, <1>4, NewArticleTyped DEF Content
<1>5. CASE proposal.mode # "create"
  <2>1. Replaced(file, Rendered(proposal.payload)) \in Seq(Lines)
    BY <1>2, <1>3, <1>5, ReplacedIs DEF IsReplaced
  <2> QED BY <1>1, <1>2, <1>3, <1>5, <2>1 DEF Content
<1> QED BY <1>4, <1>5

\* Every step keeps the invariant: a proposal is made of a valid answer, and
\* the revision it updates changes only when it is published.
LEMMA NextInv == Inv /\ [Next]_vars => Inv'
<1> SUFFICES ASSUME Inv, [Next]_vars PROVE Inv'
  OBVIOUS
<1>1. ASSUME NEW answer \in Answer, Create(answer) PROVE Inv'
  <2>1. answer \in Approvable
    BY <1>1, ValidIsApprovable DEF Create
  <2> QED BY <1>1, <2>1, ProposeInv DEF Create
<1>2. ASSUME NEW answer \in Answer, NEW mode \in {"additive", "regenerate"},
             Update(mode, answer)
      PROVE  Inv'
  <2> DEFINE payload == IF mode = "additive" THEN Accumulate(article, answer) ELSE answer
  <2>1. answer \in Approvable /\ article \in Approvable
    BY <1>2, ValidIsApprovable DEF Update, Inv, TypeOK
  <2>2. payload \in Approvable
    BY <2>1, AccumulateIs
  <2>3. /\ Propose(mode, answer, payload) /\ ValidAnswer(answer)
        /\ compiles < MaxCompiles /\ article # None
    BY <1>2 DEF Update
  <2>4. mode = "additive" => payload = Accumulate(article, answer)
    OBVIOUS
  <2> HIDE DEF payload
  <2> QED BY <2>2, <2>3, <2>4, ProposeInv
<1>3. CASE Publish
  <2>1. /\ proposal.payload \in Approvable /\ Rendered(proposal.payload) \in Seq(Lines)
        /\ Content(proposal) \in Seq(Lines)
    BY <1>3, ContentTyped DEF Publish
  <2> QED BY <1>3, <2>1 DEF Publish, Inv, TypeOK
<1>4. CASE Reject
  BY <1>4 DEF Reject, Inv, TypeOK
<1>5. CASE Edit
  <2>1. file # None /\ file \in Seq(Lines) /\ edits < MaxEdits /\ edits' = edits + 1
        /\ UNCHANGED <<article, managed, proposal, compiles>>
    BY <1>5 DEF Edit, Inv, TypeOK
  <2>2. file' \in Seq(Lines)
    <3>1. ASSUME NEW i \in 1..(Len(file) + 1), NEW line \in UserLine,
                 file' = InsertAt(file, i, line)
          PROVE  file' \in Seq(Lines)
      <4>1. line \in Lines
        BY ContentConstants
      <4> QED BY <2>1, <3>1, <4>1, EditedTyped
    <3>2. ASSUME NEW i \in DOMAIN file, file' = RemoveAt(file, i)
          PROVE  file' \in Seq(Lines)
      BY <2>1, <3>2, EditedTyped, Markers
    <3> QED BY <1>5, <3>1, <3>2 DEF Edit
  <2>3. edits' \in 0..MaxEdits
    BY <2>1, ContentConstants DEF Inv, TypeOK
  <2> QED BY <2>1, <2>2, <2>3 DEF Inv, TypeOK, Sound
<1>6. CASE UNCHANGED vars
  BY <1>6 DEF vars, Inv, TypeOK, Sound
<1> QED BY <1>1, <1>2, <1>3, <1>4, <1>5, <1>6 DEF Next

\* Approved content is well formed throughout, and a proposal in review is what
\* its answer makes of the revision that is applied (article_updates.cpp:60-72
\* and 111-201, compiler.cpp:1049-1171).
THEOREM ContentIsSound == Spec => []Inv
<1>1. Init => Inv
  BY InitInv
<1>2. Inv /\ [Next]_vars => Inv'
  BY NextInv
<1> QED BY <1>1, <1>2, PTL DEF Spec

\* Whatever answers come, in whatever order and however long, an update loses no
\* claim and no citation of either side, keeps every claim cited and every
\* citation verified, and adds nothing when it is repeated
\* (article_updates.cpp:60-72 and 156-201).
THEOREM UpdatesAccumulate == Spec => []Accumulates
<1>1. Inv => Accumulates
  <2> SUFFICES ASSUME Inv PROVE Accumulates
    OBVIOUS
  <2>1. ASSUME proposal # None, proposal.mode = "additive"
        PROVE  /\ article \in Approvable /\ proposal.answer \in Approvable
               /\ proposal.payload = Accumulate(article, proposal.answer)
    <3>1. article # None /\ Sound(proposal) /\ proposal.answer \in Answer
      BY <2>1 DEF Inv, Sound, TypeOK
    <3>2. proposal.answer \in Approvable
      BY <3>1, ValidIsApprovable DEF Sound
    <3> QED BY <2>1, <3>1, <3>2 DEF Sound, Inv, TypeOK
  <2>2. AdditiveKeeps
    BY <2>1, NothingRemoved DEF AdditiveKeeps
  <2>3. AnswerKept
    BY <2>1, EverythingAdded DEF AnswerKept, ClaimIsIn
  <2>4. RepeatAddsNothing
    BY <2>1, AccumulateIs DEF RepeatAddsNothing
  <2> QED BY <2>2, <2>3, <2>4 DEF Accumulates, Inv
<1> QED BY <1>1, ContentIsSound, PTL

\* A proposal's rows are those that its publication will ask for, whatever its
\* sections, keys and related concepts are, unless one claim cites two spans
\* that start at one place (compiler.cpp:768-788 and 960-981).
THEOREM RowsAreComplete == Spec => []RowsComplete
<1>1. Inv => RowsComplete
  BY RowsAre DEF Inv, TypeOK, Sound, RowsComplete
<1> QED BY <1>1, ContentIsSound, PTL

----------------------------------------------------------------------------
\* What a publication does to the file.

\* An update leaves every line outside the managed region as it was, whoever
\* wrote it and whatever the new region is (rendering.cpp:258-287).
THEOREM LinesOfUsersKept == Spec => UserLinesKept
<1>1. ASSUME Inv, Publish, article # None
      PROVE  Prefix(file') = Prefix(file) /\ Suffix(file') = Suffix(file)
  <2> DEFINE region == Rendered(proposal.payload)
             m == MarkerAt(file, StartMarker)
             e == MarkerAt(file, EndMarker)
             rest == Len(file) - e + 1
             s == Prefix(file)
             t == Suffix(file)
             k == Len(region)
  <2>1. proposal # None /\ Publishable(proposal) /\ file' = Content(proposal)
    BY <1>1 DEF Publish
  <2>2. proposal.mode # "create"
    BY <1>1, <2>1 DEF Inv, Sound
  <2>3. region \in Seq(Lines) /\ file \in Seq(Lines) /\ HasRegion(file)
    BY <1>1, <2>1, <2>2, ContentTyped
  <2>4. file' = Replaced(file, region) /\ HasRegion(file')
    BY <2>1, <2>2 DEF Content, Publishable, WellFormed
  <2> HIDE DEF region
  <2>5. /\ file' \in Seq(Lines)
        /\ m \in 1..Len(file) /\ e \in 1..Len(file) /\ m < e
        /\ s \in Seq(Lines) /\ Len(s) = m /\ t \in Seq(Lines) /\ Len(t) = rest
        /\ Len(file') = m + k + rest
        /\ \A i \in 1..m : file'[i] = file[i] /\ s[i] = file[i]
        /\ \A i \in 1..rest : /\ file'[m + k + i] = file[e + i - 1]
                              /\ t[i] = file[e + i - 1]
    <3>1. IsReplaced(file, region, file')
      BY <2>3, <2>4, ReplacedIs
    <3> QED BY <3>1 DEF IsReplaced
  <2>6. file[m] = StartMarker /\ file[e] = EndMarker
    BY <2>3, OnePosition DEF HasRegion
  <2>7. k \in Nat /\ Len(file) \in Nat
    BY <2>3
  <2> HIDE DEF m, e, s, t, k
  <2>8. /\ m \in 1..Len(file') /\ file'[m] = StartMarker
        /\ m + k + 1 \in 1..Len(file') /\ file'[m + k + 1] = EndMarker
        /\ rest \in Nat
    <3>1. 1 \in 1..rest /\ e + 1 - 1 = e /\ rest \in Nat
      BY <2>5, <2>7
    <3>2. file'[m + k + 1] = file[e]
      BY <2>5, <3>1
    <3>3. file'[m] = file[m]
      BY <2>5, <2>7
    <3>4. m \in 1..Len(file') /\ m + k + 1 \in 1..Len(file')
      BY <2>5, <2>7, <3>1
    <3> QED BY <2>6, <3>1, <3>2, <3>3, <3>4
  <2>9. /\ MarkerAt(file', StartMarker) = m
        /\ MarkerAt(file', EndMarker) = m + k + 1
    BY <2>4, <2>5, <2>8, OnePosition DEF HasRegion
  <2>10. Prefix(file') = s
    <3> DEFINE q == SubSeq(file', 1, m)
    <3>1. \A i \in 1..m : file'[i] \in Lines
      BY <2>5, <2>7
    <3>2. m \in Int /\ m - 1 + 1 = m /\ 1 <= m
      BY <2>5, <2>7
    <3>3. /\ q \in Seq(Lines) /\ Len(q) = IF 1 <= m THEN m - 1 + 1 ELSE 0
          /\ \A i \in 1..(m - 1 + 1) : q[i] = file'[1 + i - 1]
      BY <3>1, <3>2, SubSeqProperties
    <3> HIDE DEF q
    <3>4. Len(q) = m /\ \A i \in 1..m : q[i] = file'[i]
      BY <3>2, <3>3
    <3>5. q = s
      BY <2>5, <3>3, <3>4, SeqEqual
    <3> QED BY <2>9, <3>5 DEF Prefix, q
  <2>11. Suffix(file') = t
    <3> DEFINE b == m + k + 1
               n == Len(file')
               q == SubSeq(file', b, n)
    <3>1. /\ b \in Int /\ n \in Int /\ b \in 1..n /\ n - b + 1 = rest /\ b <= n
          /\ \A i \in 1..rest : b + i - 1 = m + k + i
      BY <2>5, <2>7, <2>8
    <3>2. \A i \in b..n : file'[i] \in Lines
      BY <2>5, <3>1
    <3> HIDE DEF b, n
    <3>3. /\ q \in Seq(Lines) /\ Len(q) = IF b <= n THEN n - b + 1 ELSE 0
          /\ \A i \in 1..(n - b + 1) : q[i] = file'[b + i - 1]
      BY <3>1, <3>2, SubSeqProperties
    <3> HIDE DEF q, rest
    <3>4. Len(q) = rest /\ \A i \in 1..rest : q[i] = file'[m + k + i]
      BY <3>1, <3>3
    <3>5. q = t
      BY <2>5, <3>3, <3>4, SeqEqual
    <3> QED BY <2>9, <3>5 DEF Suffix, q, b, n
  <2> QED BY <2>10, <2>11 DEF s, t
<1>2. Inv /\ [Next]_vars =>
        [Publish /\ article # None =>
           Prefix(file') = Prefix(file) /\ Suffix(file') = Suffix(file)]_vars
  BY <1>1
<1> QED BY <1>2, ContentIsSound, PTL DEF Spec, UserLinesKept

\* What is published can be read back, each page that it refers to has its one
\* source line in the whole file, and no source line is there in vain, whatever
\* lines a person wrote around it (rendering.cpp:154-234 and 292-335,
\* article_updates.cpp:111-122).
THEOREM PublishedIsReadable == Spec => PublishedReadable
<1> DEFINE Reads ==
      Publish =>
        LET refs == UNION {ToSet(managed'[i].pages) : i \in DOMAIN managed'} IN
        /\ HasRegion(file') /\ Region(file') = managed'
        /\ \A g \in refs : Cardinality(Positions(file', Definition(g))) = 1
        /\ \A i \in DOMAIN managed' :
             managed'[i].kind = "definition" => managed'[i].what \in refs
<1>1. ASSUME Inv, Publish PROVE Reads
  <2> DEFINE p == proposal.payload
             region == Rendered(p)
             new == Content(proposal)
  <2>1. /\ proposal # None /\ Publishable(proposal)
        /\ file' = new /\ managed' = region
    BY <1>1 DEF Publish
  <2>2. p \in Approvable /\ region \in Seq(Lines) /\ new \in Seq(Lines)
    BY <1>1, <2>1, ContentTyped
  <2>3. HasRegion(new) /\ Region(new) = region /\ NoShadows(new, region)
    BY <2>1 DEF Publishable, WellFormed
  <2>4. /\ Referred(region) = CitedPages(p)
        /\ \A g \in CitedPages(p) : Definition(g) \in ToSet(region)
        /\ \A line \in ToSet(region) :
             line.kind = "definition" => line.what \in CitedPages(p)
    BY <2>2, ReferencesResolve
  <2> HIDE DEF p, region, new
  <2>5. DOMAIN region = 1..Len(region) /\ DOMAIN new = 1..Len(new)
        /\ Len(region) \in Nat /\ Len(new) \in Nat
    BY <2>2
  <2>6. ASSUME NEW i \in 1..Len(region) PROVE \E j \in 1..Len(new) : new[j] = region[i]
    <3> DEFINE m == MarkerAt(new, StartMarker)
               e == MarkerAt(new, EndMarker)
               q == SubSeq(new, m + 1, e - 1)
    <3>1. q = region
      BY <2>3 DEF Region
    <3>2. m \in 1..Len(new) /\ e \in 1..Len(new) /\ m < e
      BY <2>2, <2>3, OnePosition DEF HasRegion
    <3> HIDE DEF m, e
    <3> DEFINE a == m + 1
               b == e - 1
    <3>3. a \in Int /\ b \in Int /\ \A j \in a..b : j \in 1..Len(new) /\ new[j] \in Lines
      BY <2>2, <2>5, <3>2
    <3> HIDE DEF a, b
    <3>4. /\ Len(SubSeq(new, a, b)) = IF a <= b THEN b - a + 1 ELSE 0
          /\ \A j \in 1..(b - a + 1) : SubSeq(new, a, b)[j] = new[a + j - 1]
      BY <3>3, SubSeqProperties
    <3>5. SubSeq(new, a, b) = region
      BY <3>1 DEF a, b
    <3>6. i \in 1..(b - a + 1) /\ a + i - 1 \in a..b
      BY <3>3, <3>4, <3>5
    <3>7. region[i] = new[a + i - 1] /\ a + i - 1 \in 1..Len(new)
      BY <3>3, <3>4, <3>5, <3>6
    <3> QED BY <3>7
  <2>7. ASSUME NEW g \in CitedPages(p)
        PROVE  Cardinality(Positions(new, Definition(g))) = 1
    <3> DEFINE line == Definition(g)
    <3>1. line.kind = "definition"
      BY DEF Definition, Line
    <3>2. line \in ToSet(region)
      BY <2>4
    <3> HIDE DEF line
    <3>3. PICK k \in DOMAIN region : region[k] = line
      BY <3>2 DEF ToSet
    <3>4. PICK i \in 1..Len(new) : new[i] = line
      BY <2>5, <2>6, <3>3
    <3>5. \A j \in 1..Len(new) : new[j] = line => j = i
      BY <2>3, <2>5, <3>1, <3>3, <3>4 DEF NoShadows
    <3>6. Cardinality(Positions(new, line)) = 1
      BY <2>2, <3>4, <3>5, OccursOnce
    <3> QED BY <3>6 DEF line
  <2>8. \A i \in DOMAIN region :
          region[i].kind = "definition" => region[i].what \in CitedPages(p)
    BY <2>4 DEF ToSet
  <2> QED BY <2>1, <2>3, <2>4, <2>7, <2>8 DEF Referred
<1>2. Inv /\ [Next]_vars => [Reads]_vars
  BY <1>1
<1> QED BY <1>2, ContentIsSound, PTL DEF Spec, PublishedReadable
----------------------------------------------------------------------------
\* Common subsequences: the reference that the diff is held against.

\* f and g are the positions of n lines that both sides have, in old after a and
\* up to c, in new after b and up to d.
Matched(old, new, a, b, c, d, n, f, g) ==
  /\ f \in [1..n -> (a + 1)..c] /\ g \in [1..n -> (b + 1)..d]
  /\ \A i, j \in 1..n : i < j => f[i] < f[j] /\ g[i] < g[j]
  /\ \A i \in 1..n : old[f[i]] = new[g[i]]
Common(old, new, a, b, c, d, n) ==
  \E f, g : Matched(old, new, a, b, c, d, n, f, g)
\* n is the length of a longest common subsequence there.
Longest(old, new, a, b, c, d, n) ==
  /\ n \in Nat /\ Common(old, new, a, b, c, d, n)
  /\ \A m \in Nat : Common(old, new, a, b, c, d, m) => m <= n

\* Two lengths of the longest are one.
LEMMA LongestIsOne ==
  ASSUME NEW old, NEW new, NEW a, NEW b, NEW c, NEW d, NEW m, NEW n,
         Longest(old, new, a, b, c, d, m), Longest(old, new, a, b, c, d, n)
  PROVE  m = n
<1>1. m \in Nat /\ n \in Nat /\ m <= n /\ n <= m
  BY DEF Longest
<1> QED BY <1>1

\* Without its first lines a subsequence is after those of both sides.
LEMMA WithoutFirst ==
  ASSUME NEW old, NEW new, NEW a \in Nat, NEW b \in Nat, NEW c \in Nat,
         NEW d \in Nat, NEW n \in Nat \ {0}, Common(old, new, a, b, c, d, n)
  PROVE  Common(old, new, a + 1, b + 1, c, d, n - 1)
<1>1. PICK f, g : Matched(old, new, a, b, c, d, n, f, g)
  BY DEF Common
<1> DEFINE f1 == [i \in 1..(n - 1) |-> f[i + 1]]
           g1 == [i \in 1..(n - 1) |-> g[i + 1]]
<1>2. ASSUME NEW i \in 1..(n - 1)
      PROVE  /\ f1[i] = f[i + 1] /\ g1[i] = g[i + 1]
             /\ f1[i] \in (a + 2)..c /\ g1[i] \in (b + 2)..d
             /\ old[f1[i]] = new[g1[i]]
  <2>1. 1 \in 1..n /\ i + 1 \in 1..n /\ 1 < i + 1
    OBVIOUS
  <2>2. /\ f[1] \in (a + 1)..c /\ g[1] \in (b + 1)..d
        /\ f[i + 1] \in (a + 1)..c /\ g[i + 1] \in (b + 1)..d
        /\ f[1] < f[i + 1] /\ g[1] < g[i + 1] /\ old[f[i + 1]] = new[g[i + 1]]
    BY <1>1, <2>1 DEF Matched
  <2> QED BY <2>2
<1>3. ASSUME NEW i \in 1..(n - 1), NEW j \in 1..(n - 1), i < j
      PROVE  f1[i] < f1[j] /\ g1[i] < g1[j]
  <2>1. i + 1 \in 1..n /\ j + 1 \in 1..n /\ i + 1 < j + 1
    BY <1>3
  <2> QED BY <1>1, <2>1 DEF Matched
<1>4. DOMAIN f1 = 1..(n - 1) /\ DOMAIN g1 = 1..(n - 1)
  OBVIOUS
<1>5. f1 \in [1..(n - 1) -> (a + 1 + 1)..c] /\ g1 \in [1..(n - 1) -> (b + 1 + 1)..d]
  <2>1. (a + 1 + 1)..c = (a + 2)..c /\ (b + 1 + 1)..d = (b + 2)..d
    OBVIOUS
  <2> QED BY <1>2, <2>1
<1> HIDE DEF f1, g1
<1>6. Matched(old, new, a + 1, b + 1, c, d, n - 1, f1, g1)
  BY <1>2, <1>3, <1>5 DEF Matched
<1> QED BY <1>6 DEF Common

\* ... and without its last lines it is before those.
LEMMA WithoutLast ==
  ASSUME NEW old, NEW new, NEW a \in Nat, NEW b \in Nat, NEW c \in Nat,
         NEW d \in Nat, NEW n \in Nat \ {0}, Common(old, new, a, b, c, d, n)
  PROVE  Common(old, new, a, b, c - 1, d - 1, n - 1)
<1>1. PICK f, g : Matched(old, new, a, b, c, d, n, f, g)
  BY DEF Common
<1> DEFINE f1 == [i \in 1..(n - 1) |-> f[i]]
           g1 == [i \in 1..(n - 1) |-> g[i]]
<1>2. ASSUME NEW i \in 1..(n - 1)
      PROVE  /\ f1[i] = f[i] /\ g1[i] = g[i]
             /\ f1[i] \in (a + 1)..(c - 1) /\ g1[i] \in (b + 1)..(d - 1)
             /\ old[f1[i]] = new[g1[i]]
  <2>1. n \in 1..n /\ i \in 1..n /\ i < n
    OBVIOUS
  <2>2. /\ f[n] \in (a + 1)..c /\ g[n] \in (b + 1)..d
        /\ f[i] \in (a + 1)..c /\ g[i] \in (b + 1)..d
        /\ f[i] < f[n] /\ g[i] < g[n] /\ old[f[i]] = new[g[i]]
    BY <1>1, <2>1 DEF Matched
  <2> QED BY <2>2
<1>3. ASSUME NEW i \in 1..(n - 1), NEW j \in 1..(n - 1), i < j
      PROVE  f1[i] < f1[j] /\ g1[i] < g1[j]
  <2>1. i \in 1..n /\ j \in 1..n
    OBVIOUS
  <2> QED BY <1>1, <1>3, <2>1 DEF Matched
<1>4. f1 \in [1..(n - 1) -> (a + 1)..(c - 1)] /\ g1 \in [1..(n - 1) -> (b + 1)..(d - 1)]
  BY <1>2
<1> HIDE DEF f1, g1
<1>5. Matched(old, new, a, b, c - 1, d - 1, n - 1, f1, g1)
  BY <1>2, <1>3, <1>4 DEF Matched
<1> QED BY <1>5 DEF Common

\* Two lines that are equal can be put before what is after them.
LEMMA WithFirst ==
  ASSUME NEW old, NEW new, NEW a \in Nat, NEW b \in Nat, NEW c \in Nat,
         NEW d \in Nat, NEW n \in Nat, a < c, b < d, old[a + 1] = new[b + 1],
         Common(old, new, a + 1, b + 1, c, d, n)
  PROVE  Common(old, new, a, b, c, d, n + 1)
<1>1. PICK f, g : Matched(old, new, a + 1, b + 1, c, d, n, f, g)
  BY DEF Common
<1> DEFINE f1 == [i \in 1..(n + 1) |-> IF i = 1 THEN a + 1 ELSE f[i - 1]]
           g1 == [i \in 1..(n + 1) |-> IF i = 1 THEN b + 1 ELSE g[i - 1]]
<1>2. /\ f1[1] = a + 1 /\ g1[1] = b + 1
      /\ a + 1 \in (a + 1)..c /\ b + 1 \in (b + 1)..d
  OBVIOUS
<1>3. ASSUME NEW i \in 2..(n + 1)
      PROVE  /\ f1[i] = f[i - 1] /\ g1[i] = g[i - 1]
             /\ f1[i] \in (a + 2)..c /\ g1[i] \in (b + 2)..d
             /\ old[f1[i]] = new[g1[i]]
  <2>1. i - 1 \in 1..n /\ i \in 1..(n + 1) /\ i # 1
    OBVIOUS
  <2>2. f1[i] = f[i - 1] /\ g1[i] = g[i - 1]
    BY <2>1
  <2>3. /\ f[i - 1] \in (a + 1 + 1)..c /\ g[i - 1] \in (b + 1 + 1)..d
        /\ old[f[i - 1]] = new[g[i - 1]]
    BY <1>1, <2>1 DEF Matched
  <2> QED BY <2>2, <2>3
<1>4. \A i \in 1..(n + 1) : i = 1 \/ i \in 2..(n + 1)
  OBVIOUS
<1>5. f1 \in [1..(n + 1) -> (a + 1)..c] /\ g1 \in [1..(n + 1) -> (b + 1)..d]
  <2>1. \A i \in 1..(n + 1) : f1[i] \in (a + 1)..c /\ g1[i] \in (b + 1)..d
    <3> HIDE DEF f1, g1
    <3> SUFFICES ASSUME NEW i \in 1..(n + 1)
                 PROVE  f1[i] \in (a + 1)..c /\ g1[i] \in (b + 1)..d
      OBVIOUS
    <3>1. CASE i = 1
      BY <1>2, <3>1
    <3>2. CASE i \in 2..(n + 1)
      BY <1>3, <3>2
    <3> QED BY <1>4, <3>1, <3>2
  <2> QED BY <2>1
<1>6. ASSUME NEW i \in 1..(n + 1), NEW j \in 1..(n + 1), i < j
      PROVE  f1[i] < f1[j] /\ g1[i] < g1[j]
  <2> HIDE DEF f1, g1
  <2>1. j \in 2..(n + 1)
    BY <1>6
  <2>2. CASE i = 1
    BY <1>2, <1>3, <2>1, <2>2
  <2>3. CASE i \in 2..(n + 1)
    <3>1. i - 1 \in 1..n /\ j - 1 \in 1..n /\ i - 1 < j - 1
      BY <1>6, <2>1, <2>3
    <3>2. f[i - 1] < f[j - 1] /\ g[i - 1] < g[j - 1]
      BY <1>1, <3>1 DEF Matched
    <3> QED BY <1>3, <2>1, <2>3, <3>2
  <2> QED BY <1>4, <2>2, <2>3
<1> HIDE DEF f1, g1
<1>7. \A i \in 1..(n + 1) : old[f1[i]] = new[g1[i]]
  BY <1>2, <1>3, <1>4
<1>8. Matched(old, new, a, b, c, d, n + 1, f1, g1)
  BY <1>5, <1>6, <1>7 DEF Matched
<1> QED BY <1>8 DEF Common

\* ... and after what is before them.
LEMMA WithLast ==
  ASSUME NEW old, NEW new, NEW a \in Nat, NEW b \in Nat, NEW c \in Nat,
         NEW d \in Nat, NEW n \in Nat, a < c, b < d, old[c] = new[d],
         Common(old, new, a, b, c - 1, d - 1, n)
  PROVE  Common(old, new, a, b, c, d, n + 1)
<1>1. PICK f, g : Matched(old, new, a, b, c - 1, d - 1, n, f, g)
  BY DEF Common
<1> DEFINE f1 == [i \in 1..(n + 1) |-> IF i = n + 1 THEN c ELSE f[i]]
           g1 == [i \in 1..(n + 1) |-> IF i = n + 1 THEN d ELSE g[i]]
<1>2. /\ f1[n + 1] = c /\ g1[n + 1] = d
      /\ c \in (a + 1)..c /\ d \in (b + 1)..d
  OBVIOUS
<1>3. ASSUME NEW i \in 1..n
      PROVE  /\ f1[i] = f[i] /\ g1[i] = g[i]
             /\ f1[i] \in (a + 1)..(c - 1) /\ g1[i] \in (b + 1)..(d - 1)
             /\ old[f1[i]] = new[g1[i]]
  <2>1. i \in 1..(n + 1) /\ i # n + 1
    OBVIOUS
  <2>2. f1[i] = f[i] /\ g1[i] = g[i]
    BY <2>1
  <2>3. /\ f[i] \in (a + 1)..(c - 1) /\ g[i] \in (b + 1)..(d - 1)
        /\ old[f[i]] = new[g[i]]
    BY <1>1 DEF Matched
  <2> QED BY <2>2, <2>3
<1>4. \A i \in 1..(n + 1) : i = n + 1 \/ i \in 1..n
  OBVIOUS
<1>5. f1 \in [1..(n + 1) -> (a + 1)..c] /\ g1 \in [1..(n + 1) -> (b + 1)..d]
  <2>1. \A i \in 1..(n + 1) : f1[i] \in (a + 1)..c /\ g1[i] \in (b + 1)..d
    <3> HIDE DEF f1, g1
    <3> SUFFICES ASSUME NEW i \in 1..(n + 1)
                 PROVE  f1[i] \in (a + 1)..c /\ g1[i] \in (b + 1)..d
      OBVIOUS
    <3>1. CASE i = n + 1
      BY <1>2, <3>1
    <3>2. CASE i \in 1..n
      BY <1>3, <3>2
    <3> QED BY <1>4, <3>1, <3>2
  <2> QED BY <2>1
<1>6. ASSUME NEW i \in 1..(n + 1), NEW j \in 1..(n + 1), i < j
      PROVE  f1[i] < f1[j] /\ g1[i] < g1[j]
  <2> HIDE DEF f1, g1
  <2>1. i \in 1..n
    BY <1>6
  <2>2. CASE j = n + 1
    BY <1>2, <1>3, <2>1, <2>2
  <2>3. CASE j \in 1..n
    <3>1. f[i] < f[j] /\ g[i] < g[j]
      BY <1>1, <1>6, <2>1, <2>3 DEF Matched
    <3> QED BY <1>3, <2>1, <2>3, <3>1
  <2> QED BY <1>4, <2>2, <2>3
<1> HIDE DEF f1, g1
<1>7. \A i \in 1..(n + 1) : old[f1[i]] = new[g1[i]]
  BY <1>2, <1>3, <1>4
<1>8. Matched(old, new, a, b, c, d, n + 1, f1, g1)
  BY <1>5, <1>6, <1>7 DEF Matched
<1> QED BY <1>8 DEF Common

\* What is after more lines is after fewer.
LEMMA CommonWider ==
  ASSUME NEW old, NEW new, NEW a \in Nat, NEW b \in Nat, NEW c \in Nat,
         NEW d \in Nat, NEW n \in Nat, NEW a1 \in Nat, NEW b1 \in Nat,
         a <= a1, b <= b1, Common(old, new, a1, b1, c, d, n)
  PROVE  Common(old, new, a, b, c, d, n)
<1>1. PICK f, g : Matched(old, new, a1, b1, c, d, n, f, g)
  BY DEF Common
<1>2. (a1 + 1)..c \subseteq (a + 1)..c /\ (b1 + 1)..d \subseteq (b + 1)..d
  OBVIOUS
<1>3. f \in [1..n -> (a + 1)..c] /\ g \in [1..n -> (b + 1)..d]
  BY <1>1, <1>2 DEF Matched
<1>4. Matched(old, new, a, b, c, d, n, f, g)
  BY <1>1, <1>3 DEF Matched
<1> QED BY <1>4 DEF Common

\* Two lines that differ are not both the first of a subsequence.
LEMMA CommonSkips ==
  ASSUME NEW old, NEW new, NEW a \in Nat, NEW b \in Nat, NEW c \in Nat,
         NEW d \in Nat, NEW n \in Nat, old[a + 1] # new[b + 1],
         Common(old, new, a, b, c, d, n)
  PROVE  Common(old, new, a + 1, b, c, d, n) \/ Common(old, new, a, b + 1, c, d, n)
<1>1. PICK f, g : Matched(old, new, a, b, c, d, n, f, g)
  BY DEF Common
<1>2. CASE n = 0
  <2>1. f \in [1..n -> (a + 1 + 1)..c] /\ g \in [1..n -> (b + 1)..d]
    BY <1>1, <1>2 DEF Matched
  <2>2. Matched(old, new, a + 1, b, c, d, n, f, g)
    BY <1>1, <1>2, <2>1 DEF Matched
  <2> QED BY <2>2 DEF Common
<1>3. CASE n # 0 /\ f[1] # a + 1
  <2>1. ASSUME NEW i \in 1..n PROVE f[i] \in (a + 1 + 1)..c
    <3>1. 1 \in 1..n /\ f[1] \in (a + 1)..c /\ f[i] \in (a + 1)..c
      BY <1>1, <1>3 DEF Matched
    <3>2. i = 1 \/ f[1] < f[i]
      BY <1>1, <3>1 DEF Matched
    <3> QED BY <1>3, <3>1, <3>2
  <2>2. f \in [1..n -> (a + 1 + 1)..c]
    BY <1>1, <2>1 DEF Matched
  <2>3. Matched(old, new, a + 1, b, c, d, n, f, g)
    BY <1>1, <2>2 DEF Matched
  <2> QED BY <2>3 DEF Common
<1>4. CASE n # 0 /\ f[1] = a + 1
  <2>0. g[1] # b + 1
    <3>1. 1 \in 1..n
      BY <1>4
    <3> QED BY <1>1, <1>4, <3>1 DEF Matched
  <2>1. ASSUME NEW i \in 1..n PROVE g[i] \in (b + 1 + 1)..d
    <3>1. 1 \in 1..n /\ g[1] \in (b + 1)..d /\ g[i] \in (b + 1)..d
      BY <1>1, <1>4 DEF Matched
    <3>2. i = 1 \/ g[1] < g[i]
      BY <1>1, <3>1 DEF Matched
    <3> QED BY <2>0, <3>1, <3>2
  <2>2. g \in [1..n -> (b + 1 + 1)..d]
    BY <1>1, <2>1 DEF Matched
  <2>3. Matched(old, new, a, b + 1, c, d, n, f, g)
    BY <1>1, <2>2 DEF Matched
  <2> QED BY <2>3 DEF Common
<1> QED BY <1>2, <1>3, <1>4

\* Where one side has nothing left there is nothing in common.
LEMMA LongestEmpty ==
  ASSUME NEW old, NEW new, NEW a \in Nat, NEW b \in Nat, NEW c \in Nat,
         NEW d \in Nat, a >= c \/ b >= d
  PROVE  Longest(old, new, a, b, c, d, 0)
<1>1. Common(old, new, a, b, c, d, 0)
  <2> DEFINE f == [i \in 1..0 |-> 0]
  <2>1. 1..0 = {}
    OBVIOUS
  <2>2. f \in [1..0 -> (a + 1)..c] /\ f \in [1..0 -> (b + 1)..d]
    BY <2>1
  <2> HIDE DEF f
  <2>3. Matched(old, new, a, b, c, d, 0, f, f)
    BY <2>1, <2>2 DEF Matched
  <2> QED BY <2>3 DEF Common
<1>2. ASSUME NEW m \in Nat, Common(old, new, a, b, c, d, m) PROVE m <= 0
  <2>1. PICK f, g : Matched(old, new, a, b, c, d, m, f, g)
    BY <1>2 DEF Common
  <2>2. ASSUME m >= 1 PROVE FALSE
    <3>1. 1 \in 1..m
      BY <2>2
    <3>2. f[1] \in (a + 1)..c /\ g[1] \in (b + 1)..d
      BY <2>1, <3>1 DEF Matched
    <3> QED BY <3>2
  <2> QED BY <2>2
<1> QED BY <1>1, <1>2 DEF Longest

\* Lines that are equal are the first of a longest.
LEMMA LongestFirst ==
  ASSUME NEW old, NEW new, NEW a \in Nat, NEW b \in Nat, NEW c \in Nat,
         NEW d \in Nat, NEW n, a < c, b < d, old[a + 1] = new[b + 1],
         Longest(old, new, a + 1, b + 1, c, d, n)
  PROVE  Longest(old, new, a, b, c, d, n + 1)
<1>1. n \in Nat /\ n + 1 \in Nat
  BY DEF Longest
<1>2. Common(old, new, a, b, c, d, n + 1)
  BY <1>1, WithFirst DEF Longest
<1>3. ASSUME NEW m \in Nat, Common(old, new, a, b, c, d, m) PROVE m <= n + 1
  <2>1. CASE m = 0
    BY <1>1, <2>1
  <2>2. CASE m # 0
    <3>1. Common(old, new, a + 1, b + 1, c, d, m - 1)
      BY <1>3, <2>2, WithoutFirst
    <3>2. m - 1 \in Nat
      BY <2>2
    <3>3. m - 1 <= n
      BY <3>1, <3>2 DEF Longest
    <3> QED BY <1>1, <3>3
  <2> QED BY <2>1, <2>2
<1> QED BY <1>1, <1>2, <1>3 DEF Longest

\* ... or the last.
LEMMA LongestLast ==
  ASSUME NEW old, NEW new, NEW a \in Nat, NEW b \in Nat, NEW c \in Nat,
         NEW d \in Nat, NEW n, a < c, b < d, old[c] = new[d],
         Longest(old, new, a, b, c - 1, d - 1, n)
  PROVE  Longest(old, new, a, b, c, d, n + 1)
<1>1. n \in Nat /\ n + 1 \in Nat
  BY DEF Longest
<1>2. Common(old, new, a, b, c, d, n + 1)
  BY <1>1, WithLast DEF Longest
<1>3. ASSUME NEW m \in Nat, Common(old, new, a, b, c, d, m) PROVE m <= n + 1
  <2>1. CASE m = 0
    BY <1>1, <2>1
  <2>2. CASE m # 0
    <3>1. Common(old, new, a, b, c - 1, d - 1, m - 1)
      BY <1>3, <2>2, WithoutLast
    <3>2. m - 1 \in Nat
      BY <2>2
    <3>3. m - 1 <= n
      BY <3>1, <3>2 DEF Longest
    <3> QED BY <1>1, <3>3
  <2> QED BY <2>1, <2>2
<1> QED BY <1>1, <1>2, <1>3 DEF Longest

\* Lines that differ are not both in one.
LEMMA LongestSkips ==
  ASSUME NEW old, NEW new, NEW a \in Nat, NEW b \in Nat, NEW c \in Nat,
         NEW d \in Nat, NEW m, NEW n, old[a + 1] # new[b + 1],
         Longest(old, new, a, b + 1, c, d, m), Longest(old, new, a + 1, b, c, d, n)
  PROVE  Longest(old, new, a, b, c, d, IF m > n THEN m ELSE n)
<1> DEFINE k == IF m > n THEN m ELSE n
<1>1. m \in Nat /\ n \in Nat
  BY DEF Longest
<1>2. k \in Nat /\ m <= k /\ n <= k /\ (k = m \/ k = n)
  BY <1>1
<1> HIDE DEF k
<1>3. Common(old, new, a, b, c, d, m)
  BY <1>1, CommonWider, a <= a /\ b <= b + 1 DEF Longest
<1>4. Common(old, new, a, b, c, d, n)
  BY <1>1, CommonWider, a <= a + 1 /\ b <= b DEF Longest
<1>5. Common(old, new, a, b, c, d, k)
  BY <1>2, <1>3, <1>4
<1>6. ASSUME NEW i \in Nat, Common(old, new, a, b, c, d, i) PROVE i <= k
  <2>1. Common(old, new, a + 1, b, c, d, i) \/ Common(old, new, a, b + 1, c, d, i)
    BY <1>6, CommonSkips
  <2>2. i <= n \/ i <= m
    BY <2>1 DEF Longest
  <2> QED BY <1>1, <1>2, <2>2
<1>7. Longest(old, new, a, b, c, d, k)
  BY <1>2, <1>5, <1>6 DEF Longest
<1> QED BY <1>7 DEF k

\* O and N are what old and new have after p lines, up to c and d.
Part(s, t, p, c) == \A i \in 1..(c - p) : t[i] = s[p + i]

\* A subsequence of parts is one of the whole, and the other way round.
LEMMA CommonOfParts ==
  ASSUME NEW old, NEW new, NEW o, NEW u, NEW p \in Nat, NEW c \in Nat,
         NEW d \in Nat, NEW n \in Nat, p <= c, p <= d,
         Part(old, o, p, c), Part(new, u, p, d)
  PROVE  Common(o, u, 0, 0, c - p, d - p, n) <=> Common(old, new, p, p, c, d, n)
<1>1. ASSUME Common(o, u, 0, 0, c - p, d - p, n)
      PROVE  Common(old, new, p, p, c, d, n)
  <2>1. PICK f, g : Matched(o, u, 0, 0, c - p, d - p, n, f, g)
    BY <1>1 DEF Common
  <2> DEFINE f1 == [i \in 1..n |-> p + f[i]]
             g1 == [i \in 1..n |-> p + g[i]]
  <2>2. ASSUME NEW i \in 1..n
        PROVE  /\ f[i] \in 1..(c - p) /\ g[i] \in 1..(d - p)
               /\ f1[i] = p + f[i] /\ g1[i] = p + g[i]
               /\ f1[i] \in (p + 1)..c /\ g1[i] \in (p + 1)..d
               /\ old[f1[i]] = new[g1[i]]
    <3>1. /\ f[i] \in (0 + 1)..(c - p) /\ g[i] \in (0 + 1)..(d - p)
          /\ o[f[i]] = u[g[i]]
      BY <2>1 DEF Matched
    <3>2. f[i] \in 1..(c - p) /\ g[i] \in 1..(d - p)
      BY <3>1
    <3>3. o[f[i]] = old[p + f[i]] /\ u[g[i]] = new[p + g[i]]
      BY <3>2 DEF Part
    <3>4. p + f[i] \in (p + 1)..c /\ p + g[i] \in (p + 1)..d
      BY <3>2
    <3>5. f1[i] = p + f[i] /\ g1[i] = p + g[i]
      OBVIOUS
    <3> QED BY <3>1, <3>2, <3>3, <3>4, <3>5
  <2>3. f1 \in [1..n -> (p + 1)..c] /\ g1 \in [1..n -> (p + 1)..d]
    BY <2>2
  <2> HIDE DEF f1, g1
  <2>4. ASSUME NEW i \in 1..n, NEW j \in 1..n, i < j
        PROVE  f1[i] < f1[j] /\ g1[i] < g1[j]
    <3>1. f[i] < f[j] /\ g[i] < g[j]
      BY <2>1, <2>4 DEF Matched
    <3> QED BY <2>2, <3>1
  <2>5. Matched(old, new, p, p, c, d, n, f1, g1)
    BY <2>2, <2>3, <2>4 DEF Matched
  <2> QED BY <2>5 DEF Common
<1>2. ASSUME Common(old, new, p, p, c, d, n)
      PROVE  Common(o, u, 0, 0, c - p, d - p, n)
  <2>1. PICK f, g : Matched(old, new, p, p, c, d, n, f, g)
    BY <1>2 DEF Common
  <2> DEFINE f1 == [i \in 1..n |-> f[i] - p]
             g1 == [i \in 1..n |-> g[i] - p]
  <2>2. ASSUME NEW i \in 1..n
        PROVE  /\ f[i] \in (p + 1)..c /\ g[i] \in (p + 1)..d
               /\ f1[i] = f[i] - p /\ g1[i] = g[i] - p
               /\ f1[i] \in (0 + 1)..(c - p) /\ g1[i] \in (0 + 1)..(d - p)
               /\ o[f1[i]] = u[g1[i]]
    <3>1. /\ f[i] \in (p + 1)..c /\ g[i] \in (p + 1)..d
          /\ old[f[i]] = new[g[i]]
      BY <2>1 DEF Matched
    <3>2. f[i] - p \in 1..(c - p) /\ g[i] - p \in 1..(d - p)
      BY <3>1
    <3>3. p + (f[i] - p) = f[i] /\ p + (g[i] - p) = g[i]
      BY <3>1
    <3>4. o[f[i] - p] = old[f[i]] /\ u[g[i] - p] = new[g[i]]
      BY <3>2, <3>3 DEF Part
    <3>5. f1[i] = f[i] - p /\ g1[i] = g[i] - p
      OBVIOUS
    <3> QED BY <3>1, <3>2, <3>4, <3>5
  <2>3. f1 \in [1..n -> (0 + 1)..(c - p)] /\ g1 \in [1..n -> (0 + 1)..(d - p)]
    BY <2>2
  <2> HIDE DEF f1, g1
  <2>4. ASSUME NEW i \in 1..n, NEW j \in 1..n, i < j
        PROVE  f1[i] < f1[j] /\ g1[i] < g1[j]
    <3>1. f[i] < f[j] /\ g[i] < g[j]
      BY <2>1, <2>4 DEF Matched
    <3> QED BY <2>2, <3>1
  <2>5. Matched(o, u, 0, 0, c - p, d - p, n, f1, g1)
    BY <2>2, <2>3, <2>4 DEF Matched
  <2> QED BY <2>5 DEF Common
<1> QED BY <1>1, <1>2

\* ... and so are the longest of them.
LEMMA LongestOfParts ==
  ASSUME NEW old, NEW new, NEW o, NEW u, NEW p \in Nat, NEW c \in Nat,
         NEW d \in Nat, NEW n, p <= c, p <= d,
         Part(old, o, p, c), Part(new, u, p, d),
         Longest(o, u, 0, 0, c - p, d - p, n)
  PROVE  Longest(old, new, p, p, c, d, n)
<1>1. \A m \in Nat : Common(o, u, 0, 0, c - p, d - p, m)
                     <=> Common(old, new, p, p, c, d, m)
  BY CommonOfParts
<1> QED BY <1>1 DEF Longest

\* What both sides begin with belongs to a longest of the whole.
LEMMA LongestWithPrefix ==
  ASSUME NEW old, NEW new, NEW p \in Nat, NEW c \in Nat, NEW d \in Nat, NEW n,
         p <= c, p <= d, \A i \in 1..p : old[i] = new[i],
         Longest(old, new, p, p, c, d, n)
  PROVE  Longest(old, new, 0, 0, c, d, p + n)
<1> DEFINE T == {k \in 0..p : Longest(old, new, p - k, p - k, c, d, k + n)}
<1>0. n \in Nat
  BY DEF Longest
<1>1. 0 \in T
  <2>1. p - 0 = p /\ 0 + n = n /\ 0 \in 0..p
    BY <1>0
  <2> QED BY <2>1
<1>2. ASSUME NEW k \in 1..p, k - 1 \in T PROVE k \in T
  <2> DEFINE a == p - k
  <2>1. Longest(old, new, p - (k - 1), p - (k - 1), c, d, (k - 1) + n)
    BY <1>2
  <2>2. /\ a \in Nat /\ a + 1 \in 1..p /\ a < c /\ a < d /\ p - (k - 1) = a + 1
        /\ (k - 1) + n + 1 = k + n
    BY <1>0
  <2> HIDE DEF a
  <2>3. old[a + 1] = new[a + 1] /\ Longest(old, new, a + 1, a + 1, c, d, (k - 1) + n)
    BY <2>1, <2>2
  <2>4. Longest(old, new, a, a, c, d, (k - 1) + n + 1)
    BY <2>2, <2>3, LongestFirst
  <2>5. Longest(old, new, a, a, c, d, k + n)
    BY <2>2, <2>4
  <2> QED BY <2>5 DEF a
<1>3. p \in T
  <2> HIDE DEF T
  <2> QED BY <1>1, <1>2, Induction
<1>4. p - p = 0
  OBVIOUS
<1> QED BY <1>3, <1>4

\* ... and what they end with.
LEMMA LongestWithSuffix ==
  ASSUME NEW old, NEW new, NEW p \in Nat, NEW s \in Nat, NEW c \in Nat,
         NEW d \in Nat, NEW n, p + s <= c, p + s <= d,
         \A k \in 0..(s - 1) : old[c - k] = new[d - k],
         Longest(old, new, p, p, c - s, d - s, n)
  PROVE  Longest(old, new, p, p, c, d, s + n)
<1> DEFINE T == {k \in 0..s :
                   Longest(old, new, p, p, c - (s - k), d - (s - k), k + n)}
<1>0. n \in Nat
  BY DEF Longest
<1>1. 0 \in T
  <2>1. s - 0 = s /\ 0 + n = n /\ 0 \in 0..s
    BY <1>0
  <2> QED BY <2>1
<1>2. ASSUME NEW k \in 1..s, k - 1 \in T PROVE k \in T
  <2> DEFINE x == c - (s - k)
             y == d - (s - k)
  <2>1. Longest(old, new, p, p, c - (s - (k - 1)), d - (s - (k - 1)), (k - 1) + n)
    BY <1>2
  <2>2. /\ x \in Nat /\ y \in Nat /\ p < x /\ p < y /\ s - k \in 0..(s - 1)
        /\ c - (s - (k - 1)) = x - 1 /\ d - (s - (k - 1)) = y - 1
        /\ (k - 1) + n + 1 = k + n
    BY <1>0
  <2>3. old[x] = new[y]
    BY <2>2
  <2> HIDE DEF x, y
  <2>4. Longest(old, new, p, p, x - 1, y - 1, (k - 1) + n)
    BY <2>1, <2>2
  <2>5. Longest(old, new, p, p, x, y, (k - 1) + n + 1)
    BY <2>2, <2>3, <2>4, LongestLast
  <2>6. Longest(old, new, p, p, x, y, k + n)
    BY <2>2, <2>5
  <2> QED BY <2>6 DEF x, y
<1>3. s \in T
  <2> HIDE DEF T
  <2> QED BY <1>1, <1>2, Induction
<1>4. s - s = 0 /\ c - 0 = c /\ d - 0 = d
  OBVIOUS
<1> QED BY <1>3, <1>4

----------------------------------------------------------------------------
\* The table.

\* A cell of a row, of the one beside it and of the row below.
Cell(line, new, below, left, l) ==
  IF line = new[Len(new) - l + 1] THEN below[l - 1] + 1
  ELSE IF left > below[l] THEN left ELSE below[l]

\* The cells of a row.
IsRow(row, line, new, below) ==
  /\ row \in [0..Len(new) -> Nat] /\ row[0] = 0
  /\ \A l \in 1..Len(new) : row[l] = Cell(line, new, below, row[l - 1], l)
LEMMA RowSteps ==
  ASSUME NEW line, NEW new, Len(new) \in Nat, NEW below \in [0..Len(new) -> Nat]
  PROVE  IsRow(RowOf(line, new, below), line, new, below)
<1> DEFINE N == Len(new)
           Solves(f) ==
             f = [l \in 0..N |->
                    IF l = 0 THEN 0
                    ELSE IF line = new[N - l + 1] THEN below[l - 1] + 1
                    ELSE IF f[l - 1] > below[l] THEN f[l - 1] ELSE below[l]]
           step == [l \in 1..N |-> [a \in Nat |-> Cell(line, new, below, a, l)]]
<1>1. \A l \in 1..N : below[l] \in Nat /\ below[l - 1] \in Nat
  OBVIOUS
<1>2. \A l \in 1..N, a \in Nat : Cell(line, new, below, a, l) \in Nat
  <2> SUFFICES ASSUME NEW l \in 1..N, NEW a \in Nat
               PROVE  Cell(line, new, below, a, l) \in Nat
    OBVIOUS
  <2>1. below[l] \in Nat /\ below[l - 1] \in Nat
    BY <1>1
  <2> QED BY <2>1 DEF Cell
<1>3. Closed(step, N, Nat)
  BY <1>2 DEF Closed
<1> HIDE DEF step
<1>4. PICK f \in [0..N -> Nat] : Iterates(f, 0, step, N)
  BY <1>3, Recursion
<1>5. \A l \in 1..N : f[l] = Cell(line, new, below, f[l - 1], l)
  <2> SUFFICES ASSUME NEW l \in 1..N
               PROVE  f[l] = Cell(line, new, below, f[l - 1], l)
    OBVIOUS
  <2>1. f[l - 1] \in Nat
    <3>1. l - 1 \in 0..N
      OBVIOUS
    <3> QED BY <1>4, <3>1
  <2>2. f[l] = step[l][f[l - 1]]
    BY <1>4 DEF Iterates
  <2> QED BY <2>1, <2>2 DEF step
<1>6. Solves(f)
  BY <1>4, <1>5 DEF Iterates, Cell
<1>7. Solves(CHOOSE g : Solves(g))
  BY <1>6, Zenon
<1>8. RowOf(line, new, below) = CHOOSE g : Solves(g)
  BY Zenon DEF RowOf
<1> DEFINE row == RowOf(line, new, below)
<1>9. Solves(row)
  BY <1>7, <1>8, Zenon
<1> HIDE DEF row
<1> DEFINE value(g, l) == IF l = 0 THEN 0 ELSE Cell(line, new, below, g[l - 1], l)
<1>10. row[0] = 0 /\ \A l \in 1..N : row[l] = Cell(line, new, below, row[l - 1], l)
  <2>1. row = [l \in 0..N |-> value(row, l)]
    BY <1>9 DEF Cell
  <2>2. \A l \in 0..N : row[l] = value(row, l)
    <3> HIDE DEF value, N
    <3> QED BY <2>1
  <2> QED BY <2>2
<1>11. \A l \in 0..N : row[l] \in Nat
  <2>1. \A l \in 1..N : row[l - 1] \in Nat => row[l] \in Nat
    BY <1>2, <1>10
  <2>2. row[0] \in Nat
    BY <1>10
  <2> HIDE DEF N
  <2>3. N \in Nat
    BY DEF N
  <2> QED BY <2>1, <2>2, <2>3, Values
<1>12. row \in [0..N -> Nat]
  <2>1. row = [l \in 0..N |-> row[l]]
    BY <1>9
  <2> QED BY <1>11, <2>1
<1> QED BY <1>10, <1>12 DEF row, IsRow

\* The rows of the table.
LEMMA TableSteps ==
  ASSUME NEW old, NEW new, Len(old) \in Nat, Len(new) \in Nat
  PROVE  LET cell == Lengths(old, new) IN
         /\ cell \in [0..Len(old) -> [0..Len(new) -> Nat]]
         /\ cell[0] = [l \in 0..Len(new) |-> 0]
         /\ \A k \in 1..Len(old) :
              cell[k] = RowOf(old[Len(old) - k + 1], new, cell[k - 1])
<1> DEFINE M == Len(old)
           R == [0..Len(new) -> Nat]
           first == [l \in 0..Len(new) |-> 0]
           Solves(f) ==
             f = [k \in 0..M |-> IF k = 0 THEN first
                                 ELSE RowOf(old[M - k + 1], new, f[k - 1])]
           step == [k \in 1..M |-> [a \in R |-> RowOf(old[M - k + 1], new, a)]]
<1>1. first \in R
  OBVIOUS
<1>2. \A k \in 1..M, a \in R : RowOf(old[M - k + 1], new, a) \in R
  BY RowSteps DEF IsRow
<1> HIDE DEF R
<1>3. Closed(step, M, R)
  BY <1>2 DEF Closed
<1> HIDE DEF step
<1>4. PICK f \in [0..M -> R] : Iterates(f, first, step, M)
  BY <1>1, <1>3, Recursion
<1>5. \A k \in 1..M : f[k] = RowOf(old[M - k + 1], new, f[k - 1])
  <2> SUFFICES ASSUME NEW k \in 1..M
               PROVE  f[k] = RowOf(old[M - k + 1], new, f[k - 1])
    OBVIOUS
  <2>1. f[k - 1] \in R
    <3>1. k - 1 \in 0..M
      OBVIOUS
    <3> QED BY <1>4, <3>1
  <2>2. f[k] = step[k][f[k - 1]]
    BY <1>4 DEF Iterates
  <2> QED BY <2>1, <2>2 DEF step
<1> DEFINE value(g, k) ==
             IF k = 0 THEN first ELSE RowOf(old[M - k + 1], new, g[k - 1])
<1>6. Solves(f)
  <2> HIDE DEF first
  <2>1. f[0] = first /\ f = [k \in 0..M |-> f[k]]
    BY <1>4 DEF Iterates
  <2>2. \A k \in 0..M : f[k] = value(f, k)
    <3> SUFFICES ASSUME NEW k \in 0..M PROVE f[k] = value(f, k)
      OBVIOUS
    <3>1. CASE k = 0
      BY <2>1, <3>1
    <3>2. CASE k # 0
      <4>1. k \in 1..M /\ value(f, k) = RowOf(old[M - k + 1], new, f[k - 1])
        BY <3>2
      <4> HIDE DEF value
      <4> QED BY <1>5, <4>1
    <3> QED BY <3>1, <3>2
  <2>3. f = [k \in 0..M |-> value(f, k)]
    <3> HIDE DEF value, M
    <3> QED BY <2>1, <2>2
  <2> QED BY <2>3
<1>7. Solves(CHOOSE g : Solves(g))
  BY <1>6, Zenon
<1>8. Lengths(old, new) = CHOOSE g : Solves(g)
  BY Zenon DEF Lengths, first
<1> DEFINE cell == Lengths(old, new)
<1>9. Solves(cell)
  BY <1>7, <1>8, Zenon
<1> HIDE DEF cell
<1>10. /\ cell[0] = first
       /\ \A k \in 1..M : cell[k] = RowOf(old[M - k + 1], new, cell[k - 1])
  <2> HIDE DEF first
  <2>1. cell = [k \in 0..M |-> value(cell, k)]
    BY <1>9
  <2>2. \A k \in 0..M : cell[k] = value(cell, k)
    <3> HIDE DEF value, M
    <3> QED BY <2>1
  <2> QED BY <2>2
<1>11. \A k \in 0..M : cell[k] \in R
  <2>1. cell[0] \in R
    BY <1>1, <1>10
  <2>2. \A k \in 1..M : cell[k - 1] \in R => cell[k] \in R
    BY <1>2, <1>10
  <2> HIDE DEF M
  <2>3. M \in Nat
    BY DEF M
  <2> QED BY <2>1, <2>2, <2>3, Values
<1>12. cell \in [0..M -> R]
  <2>1. cell = [k \in 0..M |-> cell[k]]
    BY <1>9
  <2> QED BY <1>11, <2>1
<1> QED BY <1>10, <1>12 DEF cell, R

\* Every cell of the table, by the ones beside and below it.
IsTable(cell, old, new) ==
  /\ \A k \in 0..Len(old), l \in 0..Len(new) : cell[k][l] \in Nat
  /\ \A l \in 0..Len(new) : cell[0][l] = 0
  /\ \A k \in 0..Len(old) : cell[k][0] = 0
  /\ \A k \in 1..Len(old), l \in 1..Len(new) :
       cell[k][l] = Cell(old[Len(old) - k + 1], new, cell[k - 1],
                         cell[k][l - 1], l)
LEMMA TableCells ==
  ASSUME NEW old, NEW new, Len(old) \in Nat, Len(new) \in Nat
  PROVE  IsTable(Lengths(old, new), old, new)
<1> DEFINE cell == Lengths(old, new)
           M == Len(old)
           N == Len(new)
<1>1. /\ cell \in [0..M -> [0..N -> Nat]]
      /\ cell[0] = [l \in 0..N |-> 0]
      /\ \A k \in 1..M : cell[k] = RowOf(old[M - k + 1], new, cell[k - 1])
  BY TableSteps
<1> HIDE DEF cell
<1>2. \A k \in 0..M : cell[k] \in [0..N -> Nat]
  BY <1>1
<1>3. \A k \in 0..M, l \in 0..N : cell[k][l] \in Nat
  BY <1>2
<1>4. \A l \in 0..N : cell[0][l] = 0
  BY <1>1
<1>5. ASSUME NEW k \in 1..M
      PROVE  /\ cell[k][0] = 0
             /\ \A l \in 1..N :
                  cell[k][l] = Cell(old[M - k + 1], new, cell[k - 1], cell[k][l - 1], l)
  <2> DEFINE below == cell[k - 1]
             line == old[M - k + 1]
             row == RowOf(line, new, below)
  <2>1. below \in [0..N -> Nat] /\ cell[k] = row
    <3>1. k - 1 \in 0..M
      OBVIOUS
    <3> QED BY <1>1, <1>2, <3>1
  <2> HIDE DEF below, line
  <2>2. /\ row[0] = 0
        /\ \A l \in 1..N : row[l] = Cell(line, new, below, row[l - 1], l)
    <3>1. IsRow(row, line, new, below)
      BY <2>1, RowSteps
    <3> HIDE DEF row
    <3> QED BY <3>1 DEF IsRow
  <2> HIDE DEF row
  <2> QED BY <2>1, <2>2 DEF below, line
<1>6. 0 \in 0..N
  OBVIOUS
<1>7. \A k \in 0..M : cell[k][0] = 0
  <2> SUFFICES ASSUME NEW k \in 0..M PROVE cell[k][0] = 0
    OBVIOUS
  <2>1. CASE k = 0
    BY <1>4, <1>6, <2>1
  <2>2. CASE k # 0
    <3>1. k \in 1..M
      BY <2>2
    <3> QED BY <1>5, <3>1
  <2> QED BY <2>1, <2>2
<1> QED BY <1>3, <1>4, <1>5, <1>7 DEF cell, IsTable

\* Each is the length of a longest common subsequence of what is left there.
LEMMA TableIsLongest ==
  ASSUME NEW old, NEW new, Len(old) \in Nat, Len(new) \in Nat
  PROVE  Longest(old, new, 0, 0, Len(old), Len(new),
                 Lengths(old, new)[Len(old)][Len(new)])
<1> DEFINE cell == Lengths(old, new)
           M == Len(old)
           N == Len(new)
           Right(k, l) == Longest(old, new, M - k, N - l, M, N, cell[k][l])
           T == {k \in 0..M : \A l \in 0..N : Right(k, l)}
<1>1. /\ \A k \in 0..M, l \in 0..N : cell[k][l] \in Nat
      /\ \A l \in 0..N : cell[0][l] = 0
      /\ \A k \in 0..M : cell[k][0] = 0
      /\ \A k \in 1..M, l \in 1..N :
           cell[k][l] = Cell(old[M - k + 1], new, cell[k - 1], cell[k][l - 1], l)
  <2>1. IsTable(cell, old, new)
    BY TableCells
  <2> HIDE DEF cell
  <2> QED BY <2>1 DEF IsTable
<1> HIDE DEF cell
<1>2. 0 \in T
  <2> SUFFICES ASSUME NEW l \in 0..N PROVE Right(0, l)
    OBVIOUS
  <2>1. cell[0][l] = 0 /\ M - 0 \in Nat /\ N - l \in Nat /\ M - 0 >= M
    BY <1>1
  <2>2. Longest(old, new, M - 0, N - l, M, N, 0)
    BY <2>1, LongestEmpty
  <2> QED BY <2>1, <2>2
<1>3. ASSUME NEW k \in 1..M, k - 1 \in T PROVE k \in T
  <2> DEFINE U == {l \in 0..N : Right(k, l)}
             a == M - k
  <2>1. a \in Nat /\ a < M /\ M - (k - 1) = a + 1 /\ M - k + 1 = a + 1
    OBVIOUS
  <2>2. \A l \in 0..N : Right(k - 1, l)
    BY <1>3
  <2>3. 0 \in U
    <3>1. cell[k][0] = 0 /\ N - 0 \in Nat /\ N - 0 >= N /\ 0 \in 0..N
      BY <1>1
    <3>2. Longest(old, new, M - k, N - 0, M, N, 0)
      BY <2>1, <3>1, LongestEmpty
    <3> QED BY <3>1, <3>2
  <2>4. ASSUME NEW l \in 1..N, l - 1 \in U PROVE l \in U
    <3> DEFINE b == N - l
    <3>1. b \in Nat /\ b < N /\ N - (l - 1) = b + 1 /\ N - l + 1 = b + 1
      OBVIOUS
    <3>2. /\ Longest(old, new, a, b + 1, M, N, cell[k][l - 1])
          /\ Longest(old, new, a + 1, b, M, N, cell[k - 1][l])
          /\ Longest(old, new, a + 1, b + 1, M, N, cell[k - 1][l - 1])
      <4>1. Right(k, l - 1) /\ Right(k - 1, l) /\ Right(k - 1, l - 1)
        <5>1. l \in 0..N /\ l - 1 \in 0..N
          OBVIOUS
        <5> QED BY <2>2, <2>4, <5>1
      <4> QED BY <2>1, <3>1, <4>1
    <3>3. cell[k][l] = Cell(old[a + 1], new, cell[k - 1], cell[k][l - 1], l)
      BY <1>1, <2>1
    <3>4. cell[k][l] = IF old[a + 1] = new[b + 1] THEN cell[k - 1][l - 1] + 1
                       ELSE IF cell[k][l - 1] > cell[k - 1][l]
                       THEN cell[k][l - 1] ELSE cell[k - 1][l]
      BY <3>1, <3>3 DEF Cell
    <3> HIDE DEF a, b, M, N
    <3>5. M \in Nat /\ N \in Nat
      BY DEF M, N
    <3>6. Longest(old, new, a, b, M, N, cell[k][l])
      <4>1. CASE old[a + 1] = new[b + 1]
        BY <2>1, <3>1, <3>2, <3>4, <3>5, <4>1, LongestFirst
      <4>2. CASE old[a + 1] # new[b + 1]
        <5> DEFINE left == cell[k][l - 1]
                   low == cell[k - 1][l]
        <5>1. cell[k][l] = IF left > low THEN left ELSE low
          BY <3>4, <4>2
        <5>2. Longest(old, new, a, b + 1, M, N, left)
              /\ Longest(old, new, a + 1, b, M, N, low)
          BY <3>2
        <5> HIDE DEF left, low
        <5>3. Longest(old, new, a, b, M, N, IF left > low THEN left ELSE low)
          BY <2>1, <3>1, <3>5, <4>2, <5>2, LongestSkips, Zenon
        <5> QED BY <5>1, <5>3
      <4> QED BY <4>1, <4>2
    <3> QED BY <3>6 DEF a, b
  <2>5. 0..N \subseteq U
    <3> HIDE DEF U
    <3> QED BY <2>3, <2>4, Induction
  <2> HIDE DEF Right
  <2> QED BY <2>5
<1>4. M \in T
  <2> HIDE DEF T, M
  <2>1. M \in Nat
    BY DEF M
  <2>2. 0..M \subseteq T
    BY <1>2, <1>3, <2>1, Induction
  <2> QED BY <2>1, <2>2
<1> HIDE DEF Right
<1>5. Right(M, N)
  BY <1>4
<1>6. M - M = 0 /\ N - N = 0
  OBVIOUS
<1> QED BY <1>5, <1>6 DEF cell, Right

----------------------------------------------------------------------------
\* What a diff shows.

Sides == {"both", "old", "new"}
ShownLines(T) == [side : Sides, line : T]

\* Two functions that go on in the same way from one value end with one.
LEMMA Agree ==
  ASSUME NEW N \in Nat, NEW f, NEW g, f[0] = g[0],
         \A n \in 1..N : f[n - 1] = g[n - 1] => f[n] = g[n]
  PROVE  f[N] = g[N]
<1> DEFINE T == {n \in 0..N : f[n] = g[n]}
<1>1. 0 \in T /\ \A n \in 1..N : n - 1 \in T => n \in T
  OBVIOUS
<1> HIDE DEF T
<1>2. 0..N \subseteq T
  BY <1>1, Induction
<1> QED BY <1>2 DEF T

\* A line is shown or not.
LEMMA ShowTyped ==
  ASSUME NEW T, NEW lines \in Seq(T), NEW shown \in ShownLines(T), NEW sides
  PROVE  Show(lines, shown, sides) \in Seq(T)
<1>1. shown.line \in T
  BY DEF ShownLines
<1>2. Append(lines, shown.line) \in Seq(T)
  BY <1>1
<1> QED BY <1>2 DEF Show

\* The steps of Shown.
IsShown(lines, diff, sides, T) ==
  /\ lines[0] = <<>>
  /\ \A n \in 1..Len(diff) : lines[n] = Show(lines[n - 1], diff[n], sides)
  /\ \A n \in 0..Len(diff) : lines[n] \in Seq(T)
  /\ Shown(diff, sides) = lines[Len(diff)]
LEMMA ShownSteps ==
  ASSUME NEW T, NEW diff \in Seq(ShownLines(T)), NEW sides
  PROVE  \E lines : IsShown(lines, diff, sides, T)
<1> DEFINE N == Len(diff)
           Solves(f) ==
             f = [n \in 0..N |-> IF n = 0 THEN <<>> ELSE Show(f[n - 1], diff[n], sides)]
           step == [n \in 1..N |-> [a \in Seq(T) |-> Show(a, diff[n], sides)]]
<1>1. N \in Nat /\ <<>> \in Seq(T) /\ \A n \in 1..N : diff[n] \in ShownLines(T)
  OBVIOUS
<1>2. \A n \in 1..N, a \in Seq(T) : Show(a, diff[n], sides) \in Seq(T)
  BY <1>1, ShowTyped
<1>3. Closed(step, N, Seq(T))
  BY <1>2 DEF Closed
<1> HIDE DEF step
<1>4. PICK f \in [0..N -> Seq(T)] : Iterates(f, <<>>, step, N)
  BY <1>1, <1>3, Recursion
<1>5. \A n \in 1..N : f[n] = Show(f[n - 1], diff[n], sides)
  <2> SUFFICES ASSUME NEW n \in 1..N PROVE f[n] = Show(f[n - 1], diff[n], sides)
    OBVIOUS
  <2>1. f[n - 1] \in Seq(T)
    <3>1. n - 1 \in 0..N
      BY <1>1
    <3> QED BY <1>4, <3>1
  <2>2. f[n] = step[n][f[n - 1]]
    BY <1>4 DEF Iterates
  <2> QED BY <2>1, <2>2 DEF step
<1>6. Solves(f)
  BY <1>1, <1>4, <1>5 DEF Iterates
<1>7. Solves(CHOOSE g : Solves(g))
  BY <1>6, Zenon
<1>8. Shown(diff, sides) = (CHOOSE g : Solves(g))[N]
  BY Zenon DEF Shown
<1>9. PICK lines : Solves(lines) /\ Shown(diff, sides) = lines[N]
  BY <1>7, <1>8, Zenon
<1>10. lines[0] = <<>> /\ \A n \in 1..N : lines[n] = Show(lines[n - 1], diff[n], sides)
  <2> HIDE DEF N
  <2> QED BY <1>1, <1>9
<1>11. \A n \in 0..N : lines[n] \in Seq(T)
  <2>1. /\ lines[0] \in Seq(T)
        /\ \A n \in 1..N : lines[n - 1] \in Seq(T) => lines[n] \in Seq(T)
    BY <1>1, <1>2, <1>10
  <2> HIDE DEF N
  <2> QED BY <1>1, <2>1, Values
<1> QED BY <1>9, <1>10, <1>11 DEF IsShown

\* What is shown of a diff is lines.
LEMMA ShownTyped ==
  ASSUME NEW T, NEW diff \in Seq(ShownLines(T)), NEW sides
  PROVE  Shown(diff, sides) \in Seq(T) /\ Len(Shown(diff, sides)) \in Nat
<1>1. PICK lines : IsShown(lines, diff, sides, T)
  BY ShownSteps
<1>2. Len(diff) \in Nat /\ Len(diff) \in 0..Len(diff)
  OBVIOUS
<1>3. Shown(diff, sides) \in Seq(T)
  BY <1>1, <1>2 DEF IsShown
<1> QED BY <1>3

\* Nothing is shown of nothing, and one line more of one line more.
LEMMA ShownAppend ==
  ASSUME NEW T, NEW diff \in Seq(ShownLines(T)), NEW x \in ShownLines(T), NEW sides
  PROVE  /\ Shown(<<>>, sides) = <<>>
         /\ Shown(Append(diff, x), sides) = Show(Shown(diff, sides), x, sides)
<1> DEFINE more == Append(diff, x)
           N == Len(diff)
<1>1. /\ more \in Seq(ShownLines(T)) /\ Len(more) = N + 1 /\ more[N + 1] = x
      /\ N \in Nat /\ \A n \in 1..N : more[n] = diff[n]
      /\ <<>> \in Seq(ShownLines(T)) /\ Len(<<>>) = 0
  OBVIOUS
<1> HIDE DEF more, N
<1>2. PICK f : IsShown(f, diff, sides, T)
  BY ShownSteps
<1>3. PICK g : IsShown(g, more, sides, T)
  BY <1>1, ShownSteps
<1>4. PICK h : IsShown(h, <<>>, sides, T)
  BY <1>1, ShownSteps
<1>5. f[0] = g[0] /\ \A n \in 1..N : f[n - 1] = g[n - 1] => f[n] = g[n]
  <2>1. f[0] = <<>> /\ \A n \in 1..N : f[n] = Show(f[n - 1], diff[n], sides)
    BY <1>2 DEF IsShown, N
  <2>2. g[0] = <<>> /\ \A n \in 1..(N + 1) : g[n] = Show(g[n - 1], more[n], sides)
    BY <1>1, <1>3 DEF IsShown
  <2>3. \A n \in 1..N : n \in 1..(N + 1)
    BY <1>1
  <2> QED BY <1>1, <2>1, <2>2, <2>3
<1>6. f[N] = g[N]
  BY <1>1, <1>5, Agree
<1>7. N + 1 \in 1..(N + 1) /\ (N + 1) - 1 = N
  BY <1>1
<1>8. g[N + 1] = Show(g[N], x, sides)
  BY <1>1, <1>3, <1>7 DEF IsShown
<1>9. Shown(diff, sides) = f[N] /\ Shown(more, sides) = g[N + 1]
  BY <1>1, <1>2, <1>3 DEF IsShown, N
<1>10. Shown(<<>>, sides) = <<>>
  BY <1>1, <1>4 DEF IsShown
<1> QED BY <1>6, <1>8, <1>9, <1>10 DEF more

\* A last element belongs to the second of two sequences.
BelongsToSecond(s, t, x) == Append(s \o t, x) = s \o Append(t, x)
LEMMA AppendJoined ==
  ASSUME NEW T, NEW s \in Seq(T), NEW t \in Seq(T), NEW x \in T
  PROVE  BelongsToSecond(s, t, x)
<1> DEFINE m == Len(s)
           n == Len(t)
           a == s \o t
           b == Append(t, x)
           u == Append(a, x)
           v == s \o b
<1>1. m \in Nat /\ n \in Nat
  OBVIOUS
<1>2. a \in Seq(T) /\ Len(a) = m + n /\ \A i \in 1..(m + n) :
        a[i] = IF i <= m THEN s[i] ELSE t[i - m]
  OBVIOUS
<1>3. b \in Seq(T) /\ Len(b) = n + 1 /\ b[n + 1] = x /\ \A i \in 1..n : b[i] = t[i]
  OBVIOUS
<1> HIDE DEF a, b
<1>4. v \in Seq(T) /\ Len(v) = m + (n + 1) /\ \A i \in 1..(m + (n + 1)) :
        v[i] = IF i <= m THEN s[i] ELSE b[i - m]
  BY <1>3
<1> HIDE DEF m, n
<1>5. u \in Seq(T) /\ Len(u) = m + n + 1 /\ u[m + n + 1] = x
      /\ \A i \in 1..(m + n) : u[i] = a[i]
  BY <1>1, <1>2
<1> HIDE DEF u, v
<1>6. ASSUME NEW i \in 1..(m + n + 1) PROVE u[i] = v[i]
  <2>1. CASE i <= m
    <3>1. i \in 1..(m + n) /\ i \in 1..(m + (n + 1))
      BY <1>1, <2>1
    <3> QED BY <1>2, <1>4, <1>5, <2>1, <3>1
  <2>2. CASE i > m /\ i <= m + n
    <3>1. /\ i \in 1..(m + n) /\ i \in 1..(m + (n + 1)) /\ ~ (i <= m)
          /\ i - m \in 1..n
      BY <1>1, <2>2
    <3> QED BY <1>2, <1>3, <1>4, <1>5, <3>1
  <2>3. CASE i = m + n + 1
    <3>1. i \in 1..(m + (n + 1)) /\ ~ (i <= m) /\ i - m = n + 1
      BY <1>1, <2>3
    <3> QED BY <1>3, <1>4, <1>5, <2>3, <3>1
  <2> QED BY <1>1, <2>1, <2>2, <2>3
<1>7. Len(u) = Len(v) /\ \A i \in 1..Len(u) : u[i] = v[i]
  BY <1>1, <1>4, <1>5, <1>6
<1>8. u = v
  BY <1>4, <1>5, <1>7
<1> QED BY <1>8 DEF u, v, a, b, BelongsToSecond

\* What two diffs show, one after the other.
LEMMA ShownJoined ==
  ASSUME NEW T, NEW d \in Seq(ShownLines(T)), NEW e \in Seq(ShownLines(T)), NEW sides
  PROVE  Shown(d \o e, sides) = Shown(d, sides) \o Shown(e, sides)
<1> DEFINE z == d \o e
           M == Len(d)
           N == Len(e)
<1>1. /\ z \in Seq(ShownLines(T)) /\ Len(z) = M + N /\ M \in Nat /\ N \in Nat
      /\ \A n \in 1..M : z[n] = d[n]
  OBVIOUS
<1>2. \A n \in 1..N : z[M + n] = e[n]
  OBVIOUS
<1>3. \A n \in 1..N : e[n] \in ShownLines(T)
  OBVIOUS
<1> HIDE DEF z, M, N
<1>4. PICK f : IsShown(f, d, sides, T)
  BY ShownSteps
<1>5. PICK g : IsShown(g, e, sides, T)
  BY ShownSteps
<1>6. PICK h : IsShown(h, z, sides, T)
  BY <1>1, ShownSteps
<1>7. h[0] = <<>> /\ \A n \in 1..(M + N) : h[n] = Show(h[n - 1], z[n], sides)
  BY <1>1, <1>6 DEF IsShown
<1>8. /\ f[0] = <<>> /\ \A n \in 1..M : f[n] = Show(f[n - 1], d[n], sides)
      /\ f[M] \in Seq(T) /\ Shown(d, sides) = f[M]
  <2>1. M \in 0..M
    BY <1>1
  <2> QED BY <1>4, <2>1 DEF IsShown, M
<1>9. /\ g[0] = <<>> /\ \A n \in 1..N : g[n] = Show(g[n - 1], e[n], sides)
      /\ \A n \in 0..N : g[n] \in Seq(T)
      /\ Shown(e, sides) = g[N]
  BY <1>5 DEF IsShown, N
<1>10. h[M] = f[M]
  <2>1. h[0] = f[0] /\ \A n \in 1..M : h[n - 1] = f[n - 1] => h[n] = f[n]
    <3>1. \A n \in 1..M : n \in 1..(M + N)
      BY <1>1
    <3> QED BY <1>1, <1>7, <1>8, <3>1
  <2> QED BY <1>1, <2>1, Agree
<1> DEFINE U == {n \in 0..N : h[M + n] = f[M] \o g[n]}
<1>11. 0 \in U
  <2>1. f[M] \o <<>> = f[M]
    BY <1>8
  <2>2. M + 0 = M /\ 0 \in 0..N
    BY <1>1
  <2> QED BY <1>9, <1>10, <2>1, <2>2
<1>12. ASSUME NEW n \in 1..N, n - 1 \in U PROVE n \in U
  <2> DEFINE s == f[M]
             t == g[n - 1]
             x == e[n]
  <2>0. M + n \in 1..(M + N) /\ (M + n) - 1 = M + (n - 1) /\ n - 1 \in 0..N
    BY <1>1
  <2>1. /\ h[M + (n - 1)] = s \o t
        /\ M + n \in 1..(M + N) /\ (M + n) - 1 = M + (n - 1) /\ n - 1 \in 0..N
    BY <1>12, <2>0
  <2>2. h[M + n] = Show(s \o t, x, sides)
    BY <1>2, <1>7, <2>1
  <2>3. g[n] = Show(t, x, sides)
    BY <1>9
  <2>4. s \in Seq(T) /\ t \in Seq(T) /\ x.line \in T
    BY <1>3, <1>8, <1>9, <2>1 DEF ShownLines
  <2> HIDE DEF s, t, x
  <2>5. Append(s \o t, x.line) = s \o Append(t, x.line)
    <3>1. BelongsToSecond(s, t, x.line)
      BY <2>4, AppendJoined
    <3> QED BY <3>1 DEF BelongsToSecond
  <2>6. h[M + n] = s \o g[n]
    BY <2>2, <2>3, <2>5 DEF Show
  <2>7. n \in 0..N
    BY <1>1
  <2> QED BY <2>6, <2>7 DEF s
<1>13. 0..N \subseteq U
  <2> HIDE DEF U
  <2> QED BY <1>1, <1>11, <1>12, Induction
<1>14. h[M + N] = f[M] \o g[N]
  <2>1. N \in 0..N
    BY <1>1
  <2> QED BY <1>13, <2>1
<1>15. Shown(z, sides) = h[M + N]
  BY <1>1, <1>6 DEF IsShown
<1> QED BY <1>8, <1>9, <1>14, <1>15 DEF z

\* The first lines of a sequence, one by one.
LEMMA PrefixMore ==
  ASSUME NEW T, NEW s \in Seq(T), NEW n \in 1..Len(s)
  PROVE  Append(SubSeq(s, 1, n - 1), s[n]) = SubSeq(s, 1, n)
<1> DEFINE a == SubSeq(s, 1, n - 1)
           b == SubSeq(s, 1, n)
<1>1. /\ Len(s) \in Nat /\ n \in Nat
      /\ \A i \in 1..n : s[i] \in T
  OBVIOUS
<1>2. a \in Seq(T) /\ Len(a) = n - 1 /\ \A i \in 1..(n - 1) : a[i] = s[i]
  BY <1>1
<1>3. b \in Seq(T) /\ Len(b) = n /\ \A i \in 1..n : b[i] = s[i]
  BY <1>1
<1> HIDE DEF a, b
<1> DEFINE c == Append(a, s[n])
<1>4. c \in Seq(T) /\ Len(c) = n /\ c[n] = s[n] /\ \A i \in 1..(n - 1) : c[i] = a[i]
  BY <1>1, <1>2
<1> HIDE DEF c
<1>5. \A i \in 1..n : c[i] = b[i]
  <2> SUFFICES ASSUME NEW i \in 1..n PROVE c[i] = b[i]
    OBVIOUS
  <2>1. CASE i = n
    BY <1>3, <1>4, <2>1
  <2>2. CASE i # n
    <3>1. i \in 1..(n - 1)
      BY <2>2
    <3> QED BY <1>2, <1>3, <1>4, <3>1
  <2> QED BY <2>1, <2>2
<1>6. c = b
  BY <1>3, <1>4, <1>5
<1> QED BY <1>6 DEF a, b, c

\* Lines that all are on one side are shown together.
LEMMA ShownSigned ==
  ASSUME NEW T, NEW s \in Seq(T), NEW side \in Sides, NEW sides
  PROVE  /\ Signed(side, s) \in Seq(ShownLines(T))
         /\ Shown(Signed(side, s), sides) = IF side \in sides THEN s ELSE <<>>
<1> DEFINE d == Signed(side, s)
           N == Len(s)
<1>1. /\ N \in Nat /\ DOMAIN s = 1..N
      /\ \A n \in 1..N : s[n] \in T
  OBVIOUS
<1>2. d = [i \in 1..N |-> Shows(side, s[i])]
  BY <1>1 DEF Signed
<1>3. \A n \in 1..N : Shows(side, s[n]) \in ShownLines(T)
  BY <1>1 DEF Shows, ShownLines
<1> HIDE DEF d, N
<1>4. d \in Seq(ShownLines(T)) /\ Len(d) = N /\ \A n \in 1..N : d[n] = Shows(side, s[n])
  <2>1. d \in [1..N -> ShownLines(T)]
    BY <1>2, <1>3
  <2> HIDE DEF ShownLines
  <2> QED BY <1>1, <1>2, <2>1
<1>5. PICK f : IsShown(f, d, sides, T)
  BY <1>4, ShownSteps
<1>6. /\ f[0] = <<>> /\ \A n \in 1..N : f[n] = Show(f[n - 1], d[n], sides)
      /\ Shown(d, sides) = f[N]
  BY <1>4, <1>5 DEF IsShown
<1>7. CASE side \in sides
  <2>1. \A n \in 1..N : f[n] = Append(f[n - 1], s[n])
    <3> SUFFICES ASSUME NEW n \in 1..N PROVE f[n] = Append(f[n - 1], s[n])
      OBVIOUS
    <3>1. d[n].side = side /\ d[n].line = s[n]
      BY <1>4 DEF Shows
    <3> QED BY <1>6, <1>7, <3>1 DEF Show
  <2> DEFINE g == [n \in 0..N |-> SubSeq(s, 1, n)]
  <2>2. \A n \in 1..N : g[n] = Append(g[n - 1], s[n])
    <3> SUFFICES ASSUME NEW n \in 1..N PROVE g[n] = Append(g[n - 1], s[n])
      OBVIOUS
    <3>1. Append(SubSeq(s, 1, n - 1), s[n]) = SubSeq(s, 1, n)
      BY PrefixMore DEF N
    <3>2. n \in 0..N /\ n - 1 \in 0..N
      BY <1>1
    <3> QED BY <3>1, <3>2
  <2>3. g[0] = <<>> /\ g[N] = s
    <3>1. SubSeq(s, 1, 0) = <<>> /\ SubSeq(s, 1, N) = s
      BY DEF N
    <3>2. 0 \in 0..N /\ N \in 0..N
      BY <1>1
    <3> QED BY <3>1, <3>2
  <2> HIDE DEF g
  <2>4. f[0] = g[0] /\ \A n \in 1..N : f[n - 1] = g[n - 1] => f[n] = g[n]
    BY <1>6, <2>1, <2>2, <2>3
  <2>5. f[N] = g[N]
    BY <1>1, <2>4, Agree
  <2> QED BY <1>4, <1>6, <1>7, <2>3, <2>5 DEF d
<1>8. CASE side \notin sides
  <2>1. \A n \in 1..N : f[n] = f[n - 1]
    BY <1>4, <1>6, <1>8 DEF Show, Shows
  <2> DEFINE g == [n \in 0..N |-> <<>>]
  <2>2. g[0] = <<>> /\ g[N] = <<>> /\ \A n \in 1..N : g[n] = g[n - 1]
    BY <1>1
  <2> HIDE DEF g
  <2>3. f[0] = g[0] /\ \A n \in 1..N : f[n - 1] = g[n - 1] => f[n] = g[n]
    BY <1>6, <2>1, <2>2
  <2>4. f[N] = g[N]
    BY <1>1, <2>3, Agree
  <2> QED BY <1>4, <1>6, <1>8, <2>2, <2>4 DEF d
<1> QED BY <1>7, <1>8

----------------------------------------------------------------------------
\* The walk.

\* What is out of two sides after i and j lines: these lines, and as many in
\* common as a longest common subsequence can have there.
SoFar(old, new, cell, i, j, out) ==
  /\ Shown(out, {"both", "old"}) = SubSeq(old, 1, i)
  /\ Shown(out, {"both", "new"}) = SubSeq(new, 1, j)
  /\ Len(Shown(out, {"both"})) + cell[Len(old) - i][Len(new) - j]
       = cell[Len(old)][Len(new)]

\* A line that comes out is shown with the lines of its side.
LEMMA LineOut ==
  ASSUME NEW T, NEW out \in Seq(ShownLines(T)), NEW side \in Sides, NEW line \in T,
         NEW sides
  PROVE  /\ Append(out, Shows(side, line)) \in Seq(ShownLines(T))
         /\ Shown(Append(out, Shows(side, line)), sides) =
              IF side \in sides THEN Append(Shown(out, sides), line)
              ELSE Shown(out, sides)
<1> DEFINE x == Shows(side, line)
<1>1. x \in ShownLines(T) /\ x.side = side /\ x.line = line
  BY DEF Shows, ShownLines
<1> HIDE DEF x
<1>2. Append(out, x) \in Seq(ShownLines(T))
  BY <1>1
<1>3. Shown(Append(out, x), sides) = Show(Shown(out, sides), x, sides)
  BY <1>1, ShownAppend
<1>4. Show(Shown(out, sides), x, sides) =
        IF side \in sides THEN Append(Shown(out, sides), line) ELSE Shown(out, sides)
  BY <1>1 DEF Show
<1> QED BY <1>2, <1>3, <1>4 DEF x

\* A line of both sides.
LEMMA BothOut ==
  ASSUME NEW T, NEW old \in Seq(T), NEW new \in Seq(T), NEW cell,
         IsTable(cell, old, new), NEW i \in 0..(Len(old) - 1),
         NEW j \in 0..(Len(new) - 1), NEW out \in Seq(ShownLines(T)),
         old[i + 1] = new[j + 1], SoFar(old, new, cell, i, j, out)
  PROVE  SoFar(old, new, cell, i + 1, j + 1,
               Append(out, Shows("both", old[i + 1])))
<1> DEFINE line == old[i + 1]
           more == Append(out, Shows("both", line))
           M == Len(old)
           N == Len(new)
           k == M - i
           l == N - j
<1>1. /\ M \in Nat /\ N \in Nat /\ i + 1 \in 1..M /\ j + 1 \in 1..N
      /\ k \in 1..M /\ l \in 1..N /\ M - k + 1 = i + 1 /\ N - l + 1 = j + 1
      /\ M - (i + 1) = k - 1 /\ N - (j + 1) = l - 1
      /\ (i + 1) - 1 = i /\ (j + 1) - 1 = j
  OBVIOUS
<1>2. line \in T /\ "both" \in Sides
  BY <1>1 DEF Sides
<1> HIDE DEF more, M, N, k, l, line
<1>3. /\ Shown(more, {"both", "old"}) = Append(Shown(out, {"both", "old"}), line)
      /\ Shown(more, {"both", "new"}) = Append(Shown(out, {"both", "new"}), line)
      /\ Shown(more, {"both"}) = Append(Shown(out, {"both"}), line)
  BY <1>2, LineOut DEF more
<1>4. Shown(more, {"both", "old"}) = SubSeq(old, 1, i + 1)
  <2>1. Append(SubSeq(old, 1, (i + 1) - 1), old[i + 1]) = SubSeq(old, 1, i + 1)
    BY <1>1, PrefixMore DEF M
  <2> QED BY <1>1, <1>3, <2>1 DEF SoFar, line
<1>5. Shown(more, {"both", "new"}) = SubSeq(new, 1, j + 1)
  <2>1. Append(SubSeq(new, 1, (j + 1) - 1), new[j + 1]) = SubSeq(new, 1, j + 1)
    BY <1>1, PrefixMore DEF N
  <2> QED BY <1>1, <1>3, <2>1 DEF SoFar, line
<1>6. cell[k][l] = cell[k - 1][l - 1] + 1 /\ cell[k - 1][l - 1] \in Nat
  <2>1. cell[k][l] = Cell(old[M - k + 1], new, cell[k - 1], cell[k][l - 1], l)
    BY <1>1 DEF IsTable, M, N
  <2>2. old[M - k + 1] = new[N - l + 1]
    BY <1>1
  <2>3. k - 1 \in 0..M /\ l - 1 \in 0..N
    BY <1>1
  <2>4. cell[k - 1][l - 1] \in Nat
    BY <2>3 DEF IsTable, M, N
  <2> QED BY <2>1, <2>2, <2>4 DEF Cell, N
<1>7. Len(Shown(more, {"both"})) = Len(Shown(out, {"both"})) + 1
      /\ Len(Shown(out, {"both"})) \in Nat
  <2>1. Shown(out, {"both"}) \in Seq(T)
    BY ShownTyped
  <2> QED BY <1>2, <1>3, <2>1
<1>8. Len(Shown(out, {"both"})) + cell[k][l] = cell[M][N]
  BY DEF SoFar, k, l, M, N
<1>9. Len(Shown(more, {"both"})) + cell[k - 1][l - 1] = cell[M][N]
  <2> DEFINE a == Len(Shown(more, {"both"}))
             b == Len(Shown(out, {"both"}))
             c == cell[k - 1][l - 1]
  <2>1. a = b + 1 /\ b \in Nat /\ c \in Nat /\ b + (c + 1) = cell[M][N]
    BY <1>6, <1>7, <1>8
  <2> HIDE DEF a, b, c
  <2>2. a + c = cell[M][N]
    BY <2>1
  <2> QED BY <2>2 DEF a, c
<1>10. Len(Shown(more, {"both"})) + cell[M - (i + 1)][N - (j + 1)] = cell[M][N]
  BY <1>1, <1>9
<1> QED BY <1>4, <1>5, <1>10 DEF SoFar, more, line, M, N

\* A line of the old side alone.
LEMMA OldOut ==
  ASSUME NEW T, NEW old \in Seq(T), NEW new \in Seq(T), NEW cell,
         NEW i \in 0..(Len(old) - 1), NEW j \in 0..Len(new),
         NEW out \in Seq(ShownLines(T)),
         cell[Len(old) - i][Len(new) - j] = cell[Len(old) - i - 1][Len(new) - j],
         SoFar(old, new, cell, i, j, out)
  PROVE  SoFar(old, new, cell, i + 1, j, Append(out, Shows("old", old[i + 1])))
<1> DEFINE line == old[i + 1]
           more == Append(out, Shows("old", line))
<1>1. /\ i + 1 \in 1..Len(old) /\ (i + 1) - 1 = i
      /\ Len(old) - (i + 1) = Len(old) - i - 1
  OBVIOUS
<1>2. line \in T /\ "old" \in Sides
  BY <1>1 DEF Sides
<1> HIDE DEF more, line
<1>3. /\ Shown(more, {"both", "old"}) = Append(Shown(out, {"both", "old"}), line)
      /\ Shown(more, {"both", "new"}) = Shown(out, {"both", "new"})
      /\ Shown(more, {"both"}) = Shown(out, {"both"})
  <2>1. "old" \notin {"both", "new"} /\ "old" \notin {"both"}
    OBVIOUS
  <2> QED BY <1>2, <2>1, LineOut DEF more
<1>4. Shown(more, {"both", "old"}) = SubSeq(old, 1, i + 1)
  <2>1. Append(SubSeq(old, 1, (i + 1) - 1), old[i + 1]) = SubSeq(old, 1, i + 1)
    BY <1>1, PrefixMore
  <2> QED BY <1>1, <1>3, <2>1 DEF SoFar, line
<1>5. Len(Shown(more, {"both"})) + cell[Len(old) - (i + 1)][Len(new) - j]
        = cell[Len(old)][Len(new)]
  BY <1>1, <1>3 DEF SoFar
<1> QED BY <1>3, <1>4, <1>5 DEF SoFar, more, line

\* A line of the new side alone.
LEMMA NewOut ==
  ASSUME NEW T, NEW old \in Seq(T), NEW new \in Seq(T), NEW cell,
         NEW i \in 0..Len(old), NEW j \in 0..(Len(new) - 1),
         NEW out \in Seq(ShownLines(T)),
         cell[Len(old) - i][Len(new) - j] = cell[Len(old) - i][Len(new) - j - 1],
         SoFar(old, new, cell, i, j, out)
  PROVE  SoFar(old, new, cell, i, j + 1, Append(out, Shows("new", new[j + 1])))
<1> DEFINE line == new[j + 1]
           more == Append(out, Shows("new", line))
<1>1. /\ j + 1 \in 1..Len(new) /\ (j + 1) - 1 = j
      /\ Len(new) - (j + 1) = Len(new) - j - 1
  OBVIOUS
<1>2. line \in T /\ "new" \in Sides
  BY <1>1 DEF Sides
<1> HIDE DEF more, line
<1>3. /\ Shown(more, {"both", "new"}) = Append(Shown(out, {"both", "new"}), line)
      /\ Shown(more, {"both", "old"}) = Shown(out, {"both", "old"})
      /\ Shown(more, {"both"}) = Shown(out, {"both"})
  <2>1. "new" \notin {"both", "old"} /\ "new" \notin {"both"}
    OBVIOUS
  <2> QED BY <1>2, <2>1, LineOut DEF more
<1>4. Shown(more, {"both", "new"}) = SubSeq(new, 1, j + 1)
  <2>1. Append(SubSeq(new, 1, (j + 1) - 1), new[j + 1]) = SubSeq(new, 1, j + 1)
    BY <1>1, PrefixMore
  <2> QED BY <1>1, <1>3, <2>1 DEF SoFar, line
<1>5. Len(Shown(more, {"both"})) + cell[Len(old) - i][Len(new) - (j + 1)]
        = cell[Len(old)][Len(new)]
  BY <1>1, <1>3 DEF SoFar
<1> QED BY <1>3, <1>4, <1>5 DEF SoFar, more, line

\* Where the walk can be, and that it goes on until both sides are out.
At(old, new, T) ==
  [i : 0..Len(old), j : 0..Len(new), out : Seq(ShownLines(T))]
Reached(old, new, n, w) == (w.i = Len(old) /\ w.j = Len(new)) \/ w.i + w.j >= n

\* Each of its steps brings out one line, until there is none.
LEMMA WalkStep ==
  ASSUME NEW T, NEW old \in Seq(T), NEW new \in Seq(T), NEW cell,
         IsTable(cell, old, new), NEW w \in At(old, new, T)
  PROVE  LET next == Walk(old, new, cell, w) IN
         /\ next \in At(old, new, T)
         /\ \A n \in Nat : Reached(old, new, n, w) => Reached(old, new, n + 1, next)
         /\ SoFar(old, new, cell, w.i, w.j, w.out)
            => SoFar(old, new, cell, next.i, next.j, next.out)
<1> DEFINE M == Len(old)
           N == Len(new)
           i == w.i
           j == w.j
           k == M - i
           l == N - j
           next == Walk(old, new, cell, w)
           Goal == /\ next \in At(old, new, T)
                   /\ \A n \in Nat :
                        Reached(old, new, n, w) => Reached(old, new, n + 1, next)
                   /\ SoFar(old, new, cell, w.i, w.j, w.out)
                      => SoFar(old, new, cell, next.i, next.j, next.out)
<1> SUFFICES Goal
  OBVIOUS
<1>1. /\ M \in Nat /\ N \in Nat /\ i \in 0..M /\ j \in 0..N
      /\ w.out \in Seq(ShownLines(T))
  BY DEF At
<1>2. k \in 0..M /\ l \in 0..N /\ (k = 0 <=> i = M) /\ (l = 0 <=> j = N)
  BY <1>1
<1>3. \A a \in 0..M, b \in 0..N : cell[a][b] \in Nat
  BY DEF IsTable
<1>4. CASE k = 0 /\ l = 0
  <2>1. next = w
    BY <1>4 DEF Walk
  <2>2. \A n \in Nat : Reached(old, new, n + 1, w)
    BY <1>2, <1>4 DEF Reached
  <2> QED BY <2>1, <2>2
<1>5. CASE k > 0 /\ l > 0 /\ old[i + 1] = new[j + 1]
  <2> DEFINE more == Append(w.out, Shows("both", old[i + 1]))
  <2>1. next = [i |-> i + 1, j |-> j + 1, out |-> more]
    BY <1>5 DEF Walk
  <2>2. i \in 0..(M - 1) /\ j \in 0..(N - 1) /\ i + 1 \in 1..M /\ j + 1 \in 0..N
    <3>1. i < M /\ j < N
      BY <1>1, <1>5
    <3> HIDE DEF i, j, M, N
    <3> QED BY <1>1, <3>1
  <2>3. old[i + 1] \in T
    BY <2>2
  <2>4. more \in Seq(ShownLines(T))
    BY <1>1, <2>3, LineOut DEF Sides
  <2>5. SoFar(old, new, cell, i, j, w.out) => SoFar(old, new, cell, i + 1, j + 1, more)
    <3> HIDE DEF i, j
    <3> QED BY <1>1, <1>5, <2>2, BothOut
  <2> HIDE DEF next, more
  <2>6. next.i = i + 1 /\ next.j = j + 1 /\ next.out = more
    BY <2>1
  <2>7. next \in At(old, new, T)
    BY <2>1, <2>2, <2>4 DEF At
  <2>8. \A n \in Nat : Reached(old, new, n, w) => Reached(old, new, n + 1, next)
    <3> SUFFICES ASSUME NEW n \in Nat, Reached(old, new, n, w)
                 PROVE  Reached(old, new, n + 1, next)
      OBVIOUS
    <3>1. i + j >= n
      BY <1>1, <2>2 DEF Reached
    <3>2. next.i + next.j >= n + 1
      <4> HIDE DEF i, j
      <4> QED BY <1>1, <2>2, <2>6, <3>1
    <3> QED BY <3>2 DEF Reached
  <2> QED BY <2>5, <2>6, <2>7, <2>8
<1>6. CASE /\ k > 0 /\ ~ (l > 0 /\ old[i + 1] = new[j + 1])
           /\ l = 0 \/ cell[k - 1][l] >= cell[k][l - 1]
  <2> DEFINE more == Append(w.out, Shows("old", old[i + 1]))
  <2>1. next = [i |-> i + 1, j |-> j, out |-> more]
    BY <1>6 DEF Walk
  <2>2. i \in 0..(M - 1) /\ i + 1 \in 1..M
    BY <1>1, <1>6
  <2>3. old[i + 1] \in T
    BY <2>2
  <2>4. more \in Seq(ShownLines(T))
    BY <1>1, <2>3, LineOut DEF Sides
  <2>5. cell[k][l] = cell[k - 1][l]
    <3>1. CASE l = 0
      <4>1. k \in 0..M /\ k - 1 \in 0..M
        BY <1>2, <1>6
      <4>2. cell[k][0] = 0 /\ cell[k - 1][0] = 0
        BY <4>1 DEF IsTable
      <4> QED BY <3>1, <4>2
    <3>2. CASE l # 0
      <4>1. /\ k \in 1..M /\ l \in 1..N /\ M - k + 1 = i + 1 /\ N - l + 1 = j + 1
            /\ k - 1 \in 0..M /\ l - 1 \in 0..N
        <5>1. k > 0
          BY <1>6
        <5> HIDE DEF i, j, M, N
        <5> QED BY <1>1, <1>2, <3>2, <5>1
      <4>2. cell[k][l] = Cell(old[M - k + 1], new, cell[k - 1], cell[k][l - 1], l)
        BY <4>1 DEF IsTable
      <4>3. old[M - k + 1] # new[N - l + 1]
        BY <1>6, <3>2, <4>1
      <4>4. cell[k - 1][l] \in Nat /\ cell[k][l - 1] \in Nat
        <5> HIDE DEF k, l, M, N
        <5> QED BY <1>3, <4>1
      <4>5. ~ (cell[k][l - 1] > cell[k - 1][l])
        BY <1>6, <3>2, <4>4
      <4> QED BY <4>2, <4>3, <4>5 DEF Cell
    <3> QED BY <3>1, <3>2
  <2>6. SoFar(old, new, cell, i, j, w.out) => SoFar(old, new, cell, i + 1, j, more)
    <3>1. cell[Len(old) - i][Len(new) - j] = cell[Len(old) - i - 1][Len(new) - j]
      BY <2>5
    <3> HIDE DEF i, j
    <3> QED BY <1>1, <2>2, <3>1, OldOut
  <2> HIDE DEF next, more
  <2>7. next.i = i + 1 /\ next.j = j /\ next.out = more
    BY <2>1 DEF At
  <2>8. next \in At(old, new, T)
    BY <2>1, <2>2, <2>4 DEF At
  <2>9. \A n \in Nat : Reached(old, new, n, w) => Reached(old, new, n + 1, next)
    <3> SUFFICES ASSUME NEW n \in Nat, Reached(old, new, n, w)
                 PROVE  Reached(old, new, n + 1, next)
      OBVIOUS
    <3>1. i + j >= n
      BY <1>1, <2>2 DEF Reached
    <3>2. next.i + next.j >= n + 1
      <4> HIDE DEF i, j
      <4> QED BY <1>1, <2>2, <2>7, <3>1
    <3> QED BY <3>2 DEF Reached
  <2> QED BY <2>6, <2>7, <2>8, <2>9
<1>7. CASE /\ ~ (k = 0 /\ l = 0) /\ ~ (k > 0 /\ l > 0 /\ old[i + 1] = new[j + 1])
           /\ ~ (k > 0 /\ (l = 0 \/ cell[k - 1][l] >= cell[k][l - 1]))
  <2> DEFINE more == Append(w.out, Shows("new", new[j + 1]))
  <2>0. l > 0
    BY <1>2, <1>7
  <2>1. next = [i |-> i, j |-> j + 1, out |-> more]
    BY <1>7 DEF Walk
  <2>2. j \in 0..(N - 1) /\ j + 1 \in 1..N
    BY <1>1, <2>0
  <2>3. new[j + 1] \in T
    BY <2>2
  <2>4. more \in Seq(ShownLines(T))
    BY <1>1, <2>3, LineOut DEF Sides
  <2>5. cell[k][l] = cell[k][l - 1]
    <3>1. CASE k = 0
      <4>1. l \in 0..N /\ l - 1 \in 0..N
        BY <1>2, <2>0
      <4>2. cell[0][l] = 0 /\ cell[0][l - 1] = 0
        BY <4>1 DEF IsTable
      <4> QED BY <3>1, <4>2
    <3>2. CASE k # 0
      <4>1. /\ k \in 1..M /\ l \in 1..N /\ M - k + 1 = i + 1 /\ N - l + 1 = j + 1
            /\ k - 1 \in 0..M /\ l - 1 \in 0..N
        <5> HIDE DEF i, j, M, N
        <5> QED BY <1>1, <1>2, <2>0, <3>2
      <4>2. cell[k][l] = Cell(old[M - k + 1], new, cell[k - 1], cell[k][l - 1], l)
        BY <4>1 DEF IsTable
      <4>3. old[M - k + 1] # new[N - l + 1]
        BY <1>7, <2>0, <3>2, <4>1
      <4>4. cell[k - 1][l] \in Nat /\ cell[k][l - 1] \in Nat
        <5> HIDE DEF k, l, M, N
        <5> QED BY <1>3, <4>1
      <4>5. cell[k][l - 1] > cell[k - 1][l]
        <5>1. ~ (cell[k - 1][l] >= cell[k][l - 1])
          <6>1. k > 0
            BY <1>2, <3>2
          <6> QED BY <1>7, <6>1
        <5> HIDE DEF k, l
        <5> QED BY <4>4, <5>1
      <4> QED BY <4>2, <4>3, <4>5 DEF Cell
    <3> QED BY <3>1, <3>2
  <2>6. SoFar(old, new, cell, i, j, w.out) => SoFar(old, new, cell, i, j + 1, more)
    <3>1. cell[Len(old) - i][Len(new) - j] = cell[Len(old) - i][Len(new) - j - 1]
      BY <2>5
    <3> HIDE DEF i, j
    <3> QED BY <1>1, <2>2, <3>1, NewOut
  <2> HIDE DEF next, more
  <2>7. next.i = i /\ next.j = j + 1 /\ next.out = more
    BY <2>1 DEF At
  <2>8. next \in At(old, new, T)
    BY <2>1, <2>2, <2>4 DEF At
  <2>9. \A n \in Nat : Reached(old, new, n, w) => Reached(old, new, n + 1, next)
    <3> SUFFICES ASSUME NEW n \in Nat, Reached(old, new, n, w)
                 PROVE  Reached(old, new, n + 1, next)
      OBVIOUS
    <3>1. i + j >= n
      BY <1>1, <2>2 DEF Reached
    <3>2. next.i + next.j >= n + 1
      <4> HIDE DEF i, j
      <4> QED BY <1>1, <2>2, <2>7, <3>1
    <3> QED BY <3>2 DEF Reached
  <2> QED BY <2>6, <2>7, <2>8, <2>9
<1> HIDE DEF Goal, k, l
<1> QED BY <1>2, <1>4, <1>5, <1>6, <1>7

\* The steps of the walk.
IsWalk(walk, old, new, T) ==
  /\ walk[0] = Start
  /\ \A n \in 1..(Len(old) + Len(new)) :
       walk[n] = Walk(old, new, Lengths(old, new), walk[n - 1])
  /\ \A n \in 0..(Len(old) + Len(new)) : walk[n] \in At(old, new, T)
  /\ Walked(old, new) = walk[Len(old) + Len(new)].out
LEMMA WalkSteps ==
  ASSUME NEW T, NEW old \in Seq(T), NEW new \in Seq(T)
  PROVE  \E walk : IsWalk(walk, old, new, T)
<1> DEFINE cell == Lengths(old, new)
           N == Len(old) + Len(new)
           A == At(old, new, T)
           Solves(f) ==
             f = [n \in 0..N |-> IF n = 0 THEN Start ELSE Walk(old, new, cell, f[n - 1])]
           step == [n \in 1..N |-> [w \in A |-> Walk(old, new, cell, w)]]
<1>1. N \in Nat /\ IsTable(cell, old, new)
  BY TableCells
<1>2. Start \in A
  <2>1. <<>> \in Seq(ShownLines(T)) /\ 0 \in 0..Len(old) /\ 0 \in 0..Len(new)
    OBVIOUS
  <2> QED BY <2>1 DEF Start, At
<1> HIDE DEF cell
<1>3. \A w \in A : Walk(old, new, cell, w) \in A
  BY <1>1, WalkStep
<1> HIDE DEF A, N
<1>4. Closed(step, N, A)
  BY <1>3 DEF Closed
<1> HIDE DEF step
<1>5. PICK f \in [0..N -> A] : Iterates(f, Start, step, N)
  BY <1>1, <1>2, <1>4, Recursion
<1>6. \A n \in 1..N : f[n] = Walk(old, new, cell, f[n - 1])
  <2> SUFFICES ASSUME NEW n \in 1..N PROVE f[n] = Walk(old, new, cell, f[n - 1])
    OBVIOUS
  <2>1. f[n - 1] \in A
    <3>1. n - 1 \in 0..N
      BY <1>1
    <3> QED BY <1>5, <3>1
  <2>2. f[n] = step[n][f[n - 1]]
    BY <1>5 DEF Iterates
  <2> QED BY <2>1, <2>2 DEF step
<1>7. Solves(f)
  BY <1>1, <1>5, <1>6 DEF Iterates
<1>8. Solves(CHOOSE g : Solves(g))
  BY <1>7, Zenon
<1>9. Walked(old, new) = (CHOOSE g : Solves(g))[N].out
  BY Zenon DEF Walked, cell, N
<1>10. PICK walk : Solves(walk) /\ Walked(old, new) = walk[N].out
  BY <1>8, <1>9, Zenon
<1>11. walk[0] = Start /\ \A n \in 1..N : walk[n] = Walk(old, new, cell, walk[n - 1])
  BY <1>1, <1>10
<1>12. \A n \in 0..N : walk[n] \in A
  <2>1. walk[0] \in A /\ \A n \in 1..N : walk[n - 1] \in A => walk[n] \in A
    BY <1>2, <1>3, <1>11
  <2> QED BY <1>1, <2>1, Values
<1> QED BY <1>10, <1>11, <1>12 DEF IsWalk, cell, N, A

\* What the walk brings out is exact, and shows as many lines on both sides as the
\* table counts.
LEMMA WalkedIsExact ==
  ASSUME NEW T, NEW old \in Seq(T), NEW new \in Seq(T)
  PROVE  LET d == Walked(old, new) IN
         /\ d \in Seq(ShownLines(T)) /\ Exact(d, old, new)
         /\ Len(Shown(d, {"both"})) = Lengths(old, new)[Len(old)][Len(new)]
<1> DEFINE cell == Lengths(old, new)
           M == Len(old)
           N == Len(new)
           Good(n, w) == /\ Reached(old, new, n, w)
                         /\ SoFar(old, new, cell, w.i, w.j, w.out)
<1>1. M \in Nat /\ N \in Nat /\ M + N \in Nat /\ IsTable(cell, old, new)
  BY TableCells
<1>2. PICK walk : IsWalk(walk, old, new, T)
  BY WalkSteps
<1> DEFINE U == {n \in 0..(M + N) : Good(n, walk[n])}
<1>3. /\ walk[0] = Start
      /\ \A n \in 1..(M + N) : walk[n] = Walk(old, new, cell, walk[n - 1])
      /\ \A n \in 0..(M + N) : walk[n] \in At(old, new, T)
      /\ Walked(old, new) = walk[M + N].out
  BY <1>2 DEF IsWalk
<1> HIDE DEF cell
<1>4. Good(0, walk[0])
  <2>1. walk[0].i = 0 /\ walk[0].j = 0 /\ walk[0].out = <<>>
    BY <1>3 DEF Start
  <2>2. Reached(old, new, 0, walk[0])
    BY <2>1 DEF Reached
  <2>3. \A sides : Shown(<<>>, sides) = <<>>
    <3>1. <<>> \in Seq(ShownLines({0})) /\ Shows("both", 0) \in ShownLines({0})
      BY DEF Shows, ShownLines, Sides
    <3> HIDE DEF ShownLines
    <3> QED BY <3>1, ShownAppend
  <2>4. SubSeq(old, 1, 0) = <<>> /\ SubSeq(new, 1, 0) = <<>> /\ Len(<<>>) = 0
    OBVIOUS
  <2>5. M - 0 = M /\ N - 0 = N /\ cell[M][N] \in Nat
    <3>1. M \in 0..M /\ N \in 0..N
      BY <1>1
    <3> QED BY <1>1, <3>1 DEF IsTable
  <2>6. 0 + cell[M][N] = cell[M][N]
    BY <2>5
  <2>7. SoFar(old, new, cell, 0, 0, <<>>)
    BY <2>3, <2>4, <2>5, <2>6 DEF SoFar
  <2> QED BY <2>1, <2>2, <2>7
<1>5. ASSUME NEW n \in 1..(M + N), n - 1 \in U PROVE n \in U
  <2> DEFINE w == walk[n - 1]
             x == walk[n]
  <2>1. n - 1 \in 0..(M + N) /\ n - 1 \in Nat /\ n \in 0..(M + N) /\ (n - 1) + 1 = n
    BY <1>1
  <2>2. w \in At(old, new, T) /\ x = Walk(old, new, cell, w) /\ Good(n - 1, w)
    BY <1>3, <1>5, <2>1
  <2> HIDE DEF w, x
  <2>3. /\ Reached(old, new, n - 1, w) => Reached(old, new, (n - 1) + 1, x)
        /\ SoFar(old, new, cell, w.i, w.j, w.out)
           => SoFar(old, new, cell, x.i, x.j, x.out)
    BY <1>1, <2>1, <2>2, WalkStep
  <2>4. Good(n, x)
    BY <2>1, <2>2, <2>3
  <2> QED BY <2>1, <2>4 DEF x
<1>6. Good(M + N, walk[M + N])
  <2>1. 0 \in U
    BY <1>1, <1>4
  <2>2. 0..(M + N) \subseteq U
    <3> HIDE DEF U
    <3> QED BY <1>1, <1>5, <2>1, Induction
  <2> HIDE DEF Good
  <2>3. M + N \in 0..(M + N)
    BY <1>1
  <2> QED BY <2>2, <2>3
<1> DEFINE w == walk[M + N]
           d == Walked(old, new)
<1>7. w \in At(old, new, T) /\ d = w.out
  <2>1. M + N \in 0..(M + N)
    BY <1>1
  <2> QED BY <1>3, <2>1
<1> HIDE DEF w, d
<1>8. w.i = M /\ w.j = N /\ d \in Seq(ShownLines(T))
  <2>1. w.i \in 0..M /\ w.j \in 0..N /\ w.out \in Seq(ShownLines(T))
    BY <1>7 DEF At
  <2>2. (w.i = M /\ w.j = N) \/ w.i + w.j >= M + N
    BY <1>6 DEF Reached, w
  <2> QED BY <1>1, <1>7, <2>1, <2>2
<1>9. SoFar(old, new, cell, M, N, d)
  BY <1>6, <1>7, <1>8 DEF w
<1>10. SubSeq(old, 1, M) = old /\ SubSeq(new, 1, N) = new
  OBVIOUS
<1>11. Len(Shown(d, {"both"})) = cell[M][N]
  <2>1. M - M = 0 /\ N - N = 0 /\ 0 \in 0..N
    BY <1>1
  <2>2. cell[0][0] = 0
    BY <1>1, <2>1 DEF IsTable
  <2>3. Len(Shown(d, {"both"})) \in Nat
    BY <1>8, ShownTyped
  <2>4. Len(Shown(d, {"both"})) + 0 = cell[M][N]
    BY <1>9, <2>1, <2>2 DEF SoFar
  <2> QED BY <2>3, <2>4
<1>12. Shown(d, {"both", "old"}) = old /\ Shown(d, {"both", "new"}) = new
  BY <1>9, <1>10 DEF SoFar
<1> QED BY <1>8, <1>11, <1>12 DEF Exact, d, cell

----------------------------------------------------------------------------
\* The diff.

\* What both sides begin with.
LEMMA PrefixIs ==
  ASSUME NEW T, NEW old \in Seq(T), NEW new \in Seq(T)
  PROVE  LET p == CommonPrefix(old, new) IN
         /\ p \in 0..Len(old) /\ p <= Len(new) /\ \A i \in 1..p : old[i] = new[i]
<1> DEFINE M == Len(old)
           N == Len(new)
           K == IF M < N THEN M ELSE N
           Same(n) == \A i \in 1..n : old[i] = new[i]
           Is(n) == /\ n <= N /\ Same(n)
                    /\ n < M /\ n < N => old[n + 1] # new[n + 1]
           U == {n \in 0..K : Same(n)}
<1>1. M \in Nat /\ N \in Nat /\ K \in Nat /\ K <= M /\ K <= N /\ (K = M \/ K = N)
  OBVIOUS
<1> HIDE DEF M, N, K
<1>2. \E n \in 0..M : Is(n)
  <2> SUFFICES ASSUME \A n \in 0..M : ~Is(n) PROVE FALSE
    OBVIOUS
  <2>1. 0 \in U
    BY <1>1
  <2>2. ASSUME NEW n \in 1..K, n - 1 \in U PROVE n \in U
    <3>1. /\ n - 1 \in 0..M /\ n - 1 <= N /\ n - 1 < M /\ n - 1 < N /\ (n - 1) + 1 = n
          /\ n \in 0..K
      BY <1>1
    <3>2. Same(n - 1)
      BY <2>2
    <3>3. ~Is(n - 1)
      BY <3>1
    <3>4. old[n] = new[n]
      <4> HIDE DEF Same
      <4> QED BY <3>1, <3>2, <3>3
    <3>5. \A i \in 1..n : i = n \/ i \in 1..(n - 1)
      OBVIOUS
    <3>6. Same(n)
      BY <3>2, <3>4, <3>5
    <3> QED BY <3>1, <3>6
  <2>3. 0..K \subseteq U
    <3> HIDE DEF U
    <3> QED BY <1>1, <2>1, <2>2, Induction
  <2>4. Same(K)
    <3>1. K \in 0..K
      BY <1>1
    <3> HIDE DEF Same
    <3> QED BY <2>3, <3>1
  <2>5. Is(K) /\ K \in 0..M
    <3> HIDE DEF Same
    <3> QED BY <1>1, <2>4
  <2> HIDE DEF Is
  <2> QED BY <2>5
<1>3. CommonPrefix(old, new) = CHOOSE n \in 0..M : Is(n)
  BY Zenon DEF CommonPrefix, M, N
<1> DEFINE p == CommonPrefix(old, new)
<1>4. p \in 0..M /\ Is(p)
  <2> HIDE DEF Is
  <2> QED BY <1>2, <1>3
<1> HIDE DEF p
<1> QED BY <1>4 DEF p, M, N

\* ... and what they end with, beyond that.
LEMMA SuffixIs ==
  ASSUME NEW T, NEW old \in Seq(T), NEW new \in Seq(T), NEW p \in 0..Len(old),
         p <= Len(new)
  PROVE  LET s == CommonSuffix(old, new, p) IN
         /\ s \in Nat /\ p + s <= Len(old) /\ p + s <= Len(new)
         /\ \A k \in 0..(s - 1) : old[Len(old) - k] = new[Len(new) - k]
<1> DEFINE rest == Rest(old, new, p)
           Same(k) == old[Len(old) - k] = new[Len(new) - k]
           Is(n) == (\A k \in 0..(n - 1) : Same(k)) /\ (n < rest => ~Same(n))
           U == {n \in 0..rest : \A k \in 0..(n - 1) : Same(k)}
<1>1. /\ rest \in Nat /\ p + rest <= Len(old) /\ p + rest <= Len(new)
      /\ Len(old) \in Nat /\ Len(new) \in Nat
  BY DEF Rest
<1> HIDE DEF rest, Same
<1>2. \E n \in 0..rest : Is(n)
  <2> SUFFICES ASSUME \A n \in 0..rest : ~Is(n) PROVE FALSE
    OBVIOUS
  <2>1. 0 \in U
    BY <1>1
  <2>2. ASSUME NEW n \in 1..rest, n - 1 \in U PROVE n \in U
    <3>1. n - 1 \in 0..rest /\ n - 1 < rest /\ n \in 0..rest
      BY <1>1
    <3>2. \A k \in 0..((n - 1) - 1) : Same(k)
      BY <2>2
    <3>3. Same(n - 1)
      BY <3>1, <3>2
    <3>4. \A k \in 0..(n - 1) : k = n - 1 \/ k \in 0..((n - 1) - 1)
      OBVIOUS
    <3>5. \A k \in 0..(n - 1) : Same(k)
      BY <3>2, <3>3, <3>4
    <3> QED BY <3>1, <3>5
  <2>3. 0..rest \subseteq U
    <3> HIDE DEF U
    <3> QED BY <1>1, <2>1, <2>2, Induction
  <2>4. rest \in 0..rest /\ ~ (rest < rest)
    BY <1>1
  <2>5. Is(rest)
    BY <2>3, <2>4
  <2> HIDE DEF Is
  <2> QED BY <2>4, <2>5
<1>3. CommonSuffix(old, new, p) = CHOOSE n \in 0..rest : Is(n)
  BY Zenon DEF CommonSuffix, Same, rest
<1> DEFINE s == CommonSuffix(old, new, p)
<1>4. s \in 0..rest /\ Is(s)
  <2> HIDE DEF Is
  <2> QED BY <1>2, <1>3
<1> HIDE DEF s
<1>5. s \in Nat /\ p + s <= Len(old) /\ p + s <= Len(new)
  BY <1>1, <1>4
<1>6. \A k \in 0..(s - 1) : Same(k)
  BY <1>4
<1> QED BY <1>5, <1>6 DEF s, Same

\* What is between is exact, walked or not.
LEMMA MiddleIsExact ==
  ASSUME NEW T, NEW old \in Seq(T), NEW new \in Seq(T)
  PROVE  LET d == Middle(old, new) IN
         /\ d \in Seq(ShownLines(T)) /\ Exact(d, old, new)
         /\ Len(Shown(d, {"both"})) =
              IF Fits(old, new) THEN Lengths(old, new)[Len(old)][Len(new)] ELSE 0
<1>1. CASE Fits(old, new)
  BY <1>1, WalkedIsExact DEF Middle
<1>2. CASE ~ Fits(old, new)
  <2> DEFINE x == Signed("old", old)
             y == Signed("new", new)
  <2>1. "old" \in Sides /\ "new" \in Sides
    BY DEF Sides
  <2>2. x \in Seq(ShownLines(T)) /\ y \in Seq(ShownLines(T))
    BY <2>1, ShownSigned
  <2>3. /\ Shown(x, {"both", "old"}) = old /\ Shown(y, {"both", "old"}) = <<>>
        /\ Shown(x, {"both", "new"}) = <<>> /\ Shown(y, {"both", "new"}) = new
        /\ Shown(x, {"both"}) = <<>> /\ Shown(y, {"both"}) = <<>>
    BY <2>1, ShownSigned
  <2> HIDE DEF x, y
  <2>4. \A sides : Shown(x \o y, sides) = Shown(x, sides) \o Shown(y, sides)
    BY <2>2, ShownJoined
  <2>5. Middle(old, new) = x \o y
    BY <1>2 DEF Middle, x, y
  <2>6. x \o y \in Seq(ShownLines(T))
    <3> DEFINE S == ShownLines(T)
    <3> HIDE DEF S
    <3>1. x \in Seq(S) /\ y \in Seq(S)
      BY <2>2 DEF S
    <3>2. x \o y \in Seq(S)
      BY <3>1
    <3> QED BY <3>2 DEF S
  <2>7. old \o <<>> = old /\ <<>> \o new = new /\ <<>> \o <<>> = <<>> /\ Len(<<>>) = 0
    OBVIOUS
  <2>8. Exact(x \o y, old, new) /\ Len(Shown(x \o y, {"both"})) = 0
    BY <2>3, <2>4, <2>7 DEF Exact
  <2> QED BY <1>2, <2>5, <2>6, <2>8
<1> QED BY <1>1, <1>2

\* Two sequences of one length with the same values are one.
LEMMA SameSeq ==
  ASSUME NEW T, NEW a \in Seq(T), NEW b \in Seq(T), NEW n \in Nat,
         Len(a) = n, Len(b) = n, \A i \in 1..n : a[i] = b[i]
  PROVE  a = b
OBVIOUS

\* A sequence in three pieces.
Joined(a, b, c) == a \o b \o c
Pieces(s, a, b, c, p, m, T) ==
  /\ a \in Seq(T) /\ b \in Seq(T) /\ c \in Seq(T)
  /\ Len(a) = p /\ Len(b) = m - p /\ Len(c) = Len(s) - m
  /\ \A i \in 1..p : a[i] = s[i]
  /\ Part(s, b, p, m)
  /\ \A i \in 1..(Len(s) - m) : c[i] = s[m + i]
  /\ s = Joined(a, b, c)
LEMMA CutInPieces ==
  ASSUME NEW T, NEW s \in Seq(T), NEW p \in Nat, NEW m \in Nat, p <= m, m <= Len(s)
  PROVE  Pieces(s, SubSeq(s, 1, p), SubSeq(s, p + 1, m), SubSeq(s, m + 1, Len(s)),
                p, m, T)
<1> DEFINE N == Len(s)
           a == SubSeq(s, 1, p)
           b == SubSeq(s, p + 1, m)
           c == SubSeq(s, m + 1, N)
           u == a \o b
           v == u \o c
<1>1. N \in Nat /\ m <= N /\ \A i \in 1..N : s[i] \in T
  OBVIOUS
<1>2. a \in Seq(T) /\ Len(a) = p /\ \A i \in 1..p : a[i] = s[i]
  BY <1>1
<1>3. b \in Seq(T) /\ Len(b) = m - p /\ \A i \in 1..(m - p) : b[i] = s[p + i]
  BY <1>1
<1>4. c \in Seq(T) /\ Len(c) = N - m /\ \A i \in 1..(N - m) : c[i] = s[m + i]
  BY <1>1
<1> HIDE DEF a, b, c
<1>5. /\ u \in Seq(T) /\ Len(u) = p + (m - p)
      /\ \A i \in 1..(p + (m - p)) : u[i] = IF i <= p THEN a[i] ELSE b[i - p]
  BY <1>2, <1>3
<1> HIDE DEF u
<1>6. p + (m - p) = m
  OBVIOUS
<1>7. \A i \in 1..m : u[i] = s[i]
  <2> SUFFICES ASSUME NEW i \in 1..m PROVE u[i] = s[i]
    OBVIOUS
  <2>1. CASE i <= p
    BY <1>2, <1>5, <1>6, <2>1
  <2>2. CASE ~ (i <= p)
    <3>1. i - p \in 1..(m - p) /\ p + (i - p) = i
      BY <2>2
    <3> QED BY <1>3, <1>5, <1>6, <2>2, <3>1
  <2> QED BY <2>1, <2>2
<1>8. /\ v \in Seq(T) /\ Len(v) = m + (N - m)
      /\ \A i \in 1..(m + (N - m)) : v[i] = IF i <= m THEN u[i] ELSE c[i - m]
  BY <1>4, <1>5, <1>6
<1> HIDE DEF v, N
<1>9. m + (N - m) = N
  BY <1>1
<1>10. \A i \in 1..N : v[i] = s[i]
  <2> SUFFICES ASSUME NEW i \in 1..N PROVE v[i] = s[i]
    OBVIOUS
  <2>1. CASE i <= m
    <3>1. i \in 1..m
      BY <1>1, <2>1
    <3> QED BY <1>7, <1>8, <1>9, <2>1, <3>1
  <2>2. CASE ~ (i <= m)
    <3>1. i - m \in 1..(N - m) /\ m + (i - m) = i
      BY <1>1, <2>2
    <3> QED BY <1>4, <1>8, <1>9, <2>2, <3>1
  <2> QED BY <2>1, <2>2
<1>11. v = s
  <2>1. N = Len(s)
    BY DEF N
  <2> QED BY <1>1, <1>8, <1>9, <1>10, <2>1, SameSeq
<1>12. Part(s, b, p, m)
  BY <1>3 DEF Part
<1> QED BY <1>2, <1>3, <1>4, <1>11, <1>12 DEF a, b, c, u, v, N, Joined, Pieces

\* What three diffs show, one after the other.
LEMMA ShownThree ==
  ASSUME NEW T, NEW d \in Seq(ShownLines(T)), NEW e \in Seq(ShownLines(T)),
         NEW f \in Seq(ShownLines(T)), NEW sides
  PROVE  Shown(Joined(d, e, f), sides)
         = Joined(Shown(d, sides), Shown(e, sides), Shown(f, sides))
<1> DEFINE z == d \o e
           S == ShownLines(T)
<1> HIDE DEF S
<1>1. z \in Seq(S)
  <2>1. d \in Seq(S) /\ e \in Seq(S)
    BY DEF S
  <2> QED BY <2>1
<1> HIDE DEF z
<1>2. Shown(z \o f, sides) = Shown(z, sides) \o Shown(f, sides)
  BY <1>1, ShownJoined DEF S
<1>3. Shown(z, sides) = Shown(d, sides) \o Shown(e, sides)
  BY ShownJoined DEF z
<1> QED BY <1>2, <1>3 DEF z, Joined

\* The diff of two files that differ, or of none and an empty one, is exact.  The
\* lines it shows as unchanged are a longest common subsequence if the table of
\* what is left of the two fits, and what they begin and end with if not.
Counted(d, old, new) ==
  Len(Shown(d, {"both"})) =
    IF Fits(Cut(old, new).old, Cut(old, new).new)
    THEN Lengths(old, new)[Len(old)][Len(new)]
    ELSE Len(Cut(old, new).prefix) + Len(Cut(old, new).suffix)
LEMMA DiffIsExact ==
  ASSUME NEW T, NEW old \in Seq(T), NEW new \in Seq(T), old # new \/ old = <<>>
  PROVE  LET d == Diff(old, new) IN
         /\ Exact(d, old, new)
         /\ Counted(d, old, new)
         /\ Fits(Cut(old, new).old, Cut(old, new).new) =>
              Longest(old, new, 0, 0, Len(old), Len(new), Len(Shown(d, {"both"})))
<1> DEFINE M == Len(old)
           N == Len(new)
           d == Diff(old, new)
           most == Lengths(old, new)[M][N]
           cut == Cut(old, new)
           fits == Fits(cut.old, cut.new)
<1>1. M \in Nat /\ N \in Nat
  OBVIOUS
<1>2. Longest(old, new, 0, 0, M, N, most)
  BY <1>1, TableIsLongest
<1>3. CASE old = new
  <2>1. old = <<>> /\ new = <<>> /\ d = <<>> /\ M = 0 /\ N = 0
    BY <1>3 DEF Diff
  <2>2. \A sides : Shown(<<>>, sides) = <<>>
    <3>1. <<>> \in Seq(ShownLines({0})) /\ Shows("both", 0) \in ShownLines({0})
      BY DEF Shows, ShownLines, Sides
    <3> HIDE DEF ShownLines
    <3> QED BY <3>1, ShownAppend
  <2>3. most = 0
    <3>1. IsTable(Lengths(old, new), old, new)
      BY <1>1, TableCells
    <3>2. 0 \in 0..N
      BY <1>1
    <3> QED BY <2>1, <3>1, <3>2 DEF IsTable
  <2>4. Len(Shown(d, {"both"})) = most
    BY <2>1, <2>2, <2>3
  <2>5. Exact(d, old, new)
    BY <2>1, <2>2 DEF Exact
  <2>6. Len(cut.prefix) = 0 /\ Len(cut.suffix) = 0
    <3> DEFINE p == CommonPrefix(old, new)
               s == CommonSuffix(old, new, p)
    <3>1. p \in 0..M /\ p <= N
      BY PrefixIs
    <3>2. s \in Nat /\ p + s <= M
      BY <3>1, SuffixIs
    <3> HIDE DEF p, s
    <3>3. p = 0 /\ s = 0
      BY <2>1, <3>1, <3>2
    <3>4. Len(SubSeq(<<>>, 1, 0)) = 0 /\ 0 - 0 + 1 = 1
      OBVIOUS
    <3>5. cut.prefix = SubSeq(old, 1, p) /\ cut.suffix = SubSeq(old, M - s + 1, M)
      BY DEF Cut, p, s
    <3> HIDE DEF cut
    <3> QED BY <2>1, <3>3, <3>4, <3>5
  <2>7. Counted(d, old, new)
    <3>1. most = Len(cut.prefix) + Len(cut.suffix)
      BY <2>3, <2>6
    <3> HIDE DEF d
    <3> QED BY <2>4, <3>1 DEF Counted
  <2> QED BY <1>2, <2>4, <2>5, <2>7
<1>4. CASE old # new
  <2> DEFINE p == CommonPrefix(old, new)
             s == CommonSuffix(old, new, p)
             x == M - s
             y == N - s
             a == SubSeq(old, 1, p)
             o == SubSeq(old, p + 1, x)
             c == SubSeq(old, x + 1, M)
             a1 == SubSeq(new, 1, p)
             u == SubSeq(new, p + 1, y)
             c1 == SubSeq(new, y + 1, N)
             mid == Middle(o, u)
  <2>1. p \in 0..M /\ p <= N /\ \A i \in 1..p : old[i] = new[i]
    BY PrefixIs
  <2>2. /\ s \in Nat /\ p + s <= M /\ p + s <= N
        /\ \A k \in 0..(s - 1) : old[M - k] = new[N - k]
    BY <2>1, SuffixIs
  <2>3. /\ d = Joined(Signed("both", a), mid, Signed("both", c))
        /\ cut.prefix = a /\ cut.old = o /\ cut.new = u /\ cut.suffix = c
    <3>1. cut.prefix = a /\ cut.old = o /\ cut.new = u /\ cut.suffix = c
      BY DEF Cut
    <3> HIDE DEF cut, a, o, u, c
    <3>2. d = Signed("both", cut.prefix) \o Middle(cut.old, cut.new)
              \o Signed("both", cut.suffix)
      BY <1>4 DEF Diff, cut
    <3> QED BY <3>1, <3>2 DEF Joined
  <2> HIDE DEF p, s, d, cut
  <2>4. /\ p \in Nat /\ x \in Nat /\ y \in Nat /\ p <= x /\ p <= y
        /\ x <= M /\ y <= N /\ M - x = s /\ N - y = s
    BY <1>1, <2>1, <2>2
  <2> HIDE DEF x, y
  <2>5. /\ a \in Seq(T) /\ o \in Seq(T) /\ c \in Seq(T)
        /\ Len(a) = p /\ Len(o) = x - p /\ Len(c) = M - x
        /\ \A i \in 1..p : a[i] = old[i]
        /\ Part(old, o, p, x)
        /\ \A i \in 1..(M - x) : c[i] = old[x + i]
        /\ old = Joined(a, o, c)
    <3>1. Pieces(old, a, o, c, p, x, T)
      BY <2>4, CutInPieces
    <3> HIDE DEF a, o, c
    <3> QED BY <3>1 DEF Pieces
  <2>6. /\ a1 \in Seq(T) /\ u \in Seq(T) /\ c1 \in Seq(T)
        /\ Len(a1) = p /\ Len(u) = y - p /\ Len(c1) = N - y
        /\ \A i \in 1..p : a1[i] = new[i]
        /\ Part(new, u, p, y)
        /\ \A i \in 1..(N - y) : c1[i] = new[y + i]
        /\ new = Joined(a1, u, c1)
    <3>1. Pieces(new, a1, u, c1, p, y, T)
      BY <2>4, CutInPieces
    <3> HIDE DEF a1, u, c1
    <3> QED BY <3>1 DEF Pieces
  <2> HIDE DEF a, o, c, a1, u, c1, M, N
  <2>7. a1 = a
    <3>1. \A i \in 1..p : a1[i] = a[i]
      BY <2>1, <2>5, <2>6
    <3> QED BY <2>4, <2>5, <2>6, <3>1, SameSeq
  <2>8. c1 = c
    <3>1. \A i \in 1..s : c1[i] = c[i]
      <4> SUFFICES ASSUME NEW i \in 1..s PROVE c1[i] = c[i]
        OBVIOUS
      <4>1. s - i \in 0..(s - 1) /\ M - (s - i) = x + i /\ N - (s - i) = y + i
        BY <1>1, <2>2 DEF x, y
      <4>2. c[i] = old[x + i] /\ c1[i] = new[y + i]
        BY <2>4, <2>5, <2>6
      <4> QED BY <2>2, <4>1, <4>2
    <3> QED BY <2>2, <2>4, <2>5, <2>6, <3>1, SameSeq
  <2>9. /\ mid \in Seq(ShownLines(T)) /\ Exact(mid, o, u)
        /\ Len(Shown(mid, {"both"})) =
             IF fits THEN Lengths(o, u)[Len(o)][Len(u)] ELSE 0
    BY <2>3, <2>5, <2>6, MiddleIsExact
  <2> HIDE DEF mid, fits
  <2>10. "both" \in Sides
    BY DEF Sides
  <2>11. ASSUME NEW sides, "both" \in sides
         PROVE  Shown(d, sides) = Joined(a, Shown(mid, sides), c)
    <3>1. /\ Signed("both", a) \in Seq(ShownLines(T))
          /\ Shown(Signed("both", a), sides) = a
      BY <2>5, <2>10, <2>11, ShownSigned
    <3>2. /\ Signed("both", c) \in Seq(ShownLines(T))
          /\ Shown(Signed("both", c), sides) = c
      BY <2>5, <2>10, <2>11, ShownSigned
    <3>3. Shown(Joined(Signed("both", a), mid, Signed("both", c)), sides)
          = Joined(Shown(Signed("both", a), sides), Shown(mid, sides),
                   Shown(Signed("both", c), sides))
      BY <2>9, <3>1, <3>2, ShownThree
    <3> QED BY <2>3, <3>1, <3>2, <3>3
  <2>12. Shown(d, {"both", "old"}) = old
    <3>1. Shown(mid, {"both", "old"}) = o
      BY <2>9 DEF Exact
    <3> QED BY <2>5, <2>11, <3>1
  <2>13. Shown(d, {"both", "new"}) = new
    <3>1. Shown(mid, {"both", "new"}) = u
      BY <2>9 DEF Exact
    <3> QED BY <2>6, <2>7, <2>8, <2>11, <3>1
  <2> DEFINE b == Shown(mid, {"both"})
             n == Len(b)
  <2>14. b \in Seq(T) /\ n \in Nat
    BY <2>9, ShownTyped
  <2>15. Len(Shown(d, {"both"})) = p + (s + n)
    <3>1. Shown(d, {"both"}) = Joined(a, b, c)
      BY <2>11
    <3> HIDE DEF b
    <3> DEFINE z == a \o b
    <3>2. z \in Seq(T) /\ Len(z) = p + n
      BY <2>5, <2>14, ConcatProperties
    <3> HIDE DEF z
    <3>3. Len(z \o c) = p + n + s
      <4>1. Len(z \o c) = Len(z) + Len(c)
        BY <2>5, <3>2, ConcatProperties
      <4> QED BY <2>4, <2>5, <3>2, <4>1
    <3>4. Joined(a, b, c) = z \o c
      BY DEF Joined, z
    <3> QED BY <2>2, <2>4, <2>14, <3>1, <3>3, <3>4
  <2>16. ASSUME fits PROVE Longest(o, u, 0, 0, x - p, y - p, n)
    <3>1. x - p \in Nat /\ y - p \in Nat
      BY <2>4
    <3>2. Longest(o, u, 0, 0, Len(o), Len(u), Lengths(o, u)[Len(o)][Len(u)])
      BY <2>5, <2>6, <3>1, TableIsLongest
    <3>3. n = Lengths(o, u)[Len(o)][Len(u)]
      BY <2>9, <2>16
    <3> QED BY <2>5, <2>6, <3>2, <3>3
  <2>17. ~ fits => n = 0
    BY <2>9
  <2> HIDE DEF b, n
  <2>18. ASSUME fits PROVE Longest(old, new, 0, 0, M, N, p + (s + n))
    <3>1. Longest(old, new, p, p, x, y, n)
      BY <2>4, <2>5, <2>6, <2>16, <2>18, LongestOfParts
    <3>2. Longest(old, new, p, p, M, N, s + n)
      BY <1>1, <2>2, <2>4, <3>1, LongestWithSuffix DEF x, y
    <3>3. p <= M /\ p <= N
      BY <1>1, <2>1
    <3> QED BY <1>1, <2>1, <2>4, <3>2, <3>3, LongestWithPrefix
  <2>19. fits => p + (s + n) = most
    BY <1>2, <2>18, LongestIsOne
  <2>20. Exact(d, old, new)
    BY <2>12, <2>13 DEF Exact
  <2>21. ~ fits => p + (s + n) = Len(cut.prefix) + Len(cut.suffix)
    BY <2>2, <2>3, <2>4, <2>5, <2>17
  <2>22. Counted(d, old, new)
    BY <2>15, <2>19, <2>21 DEF Counted, M, N, fits, cut
  <2> QED BY <2>15, <2>18, <2>20, <2>22 DEF M, N, d, fits, cut
<1> QED BY <1>3, <1>4

\* A publication writes lines over what was there, or where nothing was.
LEMMA PublishDiffs ==
  ASSUME Inv, Publish, file' # file
  PROVE  LET old == IF file = None THEN <<>> ELSE file IN
         /\ old \in Seq(Lines) /\ file' \in Seq(Lines)
         /\ old # file' \/ old = <<>>
<1>1. file' \in Seq(Lines)
  BY ContentTyped DEF Publish
<1>2. CASE file = None
  <2>1. <<>> \in Seq(Lines)
    OBVIOUS
  <2> QED BY <1>1, <1>2, <2>1
<1>3. CASE file # None
  BY <1>1, <1>3 DEF Inv, TypeOK
<1> QED BY <1>2, <1>3

\* The diff that a reviewer reads says what the old file was and what the new
\* one is, however long the two are.  It shows as unchanged as many lines as the
\* table of the code counts, if the table of the changed lines is not too large,
\* and else the lines that both begin and end with (rendering.cpp:371-411).
THEOREM DiffsAreExact == Spec => DiffExact
<1> DEFINE old == IF file = None THEN <<>> ELSE file
           Is == /\ Exact(Diff(old, file'), old, file')
                 /\ Counted(Diff(old, file'), old, file')
           Good == Publish /\ file' # file => Is
<1>1. ASSUME Inv, Publish, file' # file PROVE Is
  <2>1. old \in Seq(Lines) /\ file' \in Seq(Lines) /\ (old # file' \/ old = <<>>)
    BY <1>1, PublishDiffs
  <2> HIDE DEF old
  <2> QED BY <2>1, DiffIsExact
<1>2. Inv /\ [Next]_vars => [Good]_vars
  BY <1>1
<1> QED BY <1>2, ContentIsSound, PTL DEF Spec, DiffExact, Counted

\* ... and as long as the table of the changed lines is not too large, the two
\* have no more lines in common, in order, than those: the table counts the
\* longest of all common subsequences, and leaving out the lines that both begin
\* and end with loses none (rendering.cpp:382-409).
DiffShortest ==
  [][Publish /\ file' # file =>
       LET old == IF file = None THEN <<>> ELSE file
           cut == Cut(old, file')
       IN Fits(cut.old, cut.new) =>
            Longest(old, file', 0, 0, Len(old), Len(file'),
                    Len(Shown(Diff(old, file'), {"both"})))]_vars
THEOREM DiffsAreShortest == Spec => DiffShortest
<1> DEFINE old == IF file = None THEN <<>> ELSE file
           cut == Cut(old, file')
           Is == Fits(cut.old, cut.new) =>
                   Longest(old, file', 0, 0, Len(old), Len(file'),
                           Len(Shown(Diff(old, file'), {"both"})))
           Good == Publish /\ file' # file => Is
<1>1. ASSUME Inv, Publish, file' # file PROVE Is
  <2>1. old \in Seq(Lines) /\ file' \in Seq(Lines) /\ (old # file' \/ old = <<>>)
    BY <1>1, PublishDiffs
  <2> HIDE DEF old
  <2> QED BY <2>1, DiffIsExact
<1>2. Inv /\ [Next]_vars => [Good]_vars
  BY <1>1
<1> QED BY <1>2, ContentIsSound, PTL DEF Spec, DiffShortest
=============================================================================
