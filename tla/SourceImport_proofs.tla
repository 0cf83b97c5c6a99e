------------------------- MODULE SourceImport_proofs -------------------------
(***************************************************************************)
(* Imports, for every number of processes, documents, versions, edits and  *)
(* faults: what the rows say of the retained files, and of each other.     *)
(*                                                                         *)
(* None of the four properties is inductive.  They rest on the lock (who   *)
(* has looked at the rows is the writer until it has added one, so what it *)
(* found is still so), on paths being new and private until a row names    *)
(* them, and on the staged copy having the digest that was looked for.     *)
(***************************************************************************)
EXTENDS SourceImport, FiniteSetTheorems, SequenceTheorems, TLAPS

Version == [source : Source, bytes : Bytes, path : Path]
Kind == {Format[d] : d \in Document}

RowTypes ==
  /\ sources \in Seq(Kind) /\ versions \in Seq(Version)
  /\ Len(sources) <= Len(versions) /\ Len(versions) <= MaxVersions
  /\ \A i \in DOMAIN versions : versions[i].source \in DOMAIN sources

FileTypes ==
  /\ copy \in [Path -> Bytes \cup {NoBytes}]
  /\ altered \subseteq Path /\ abandoned \subseteq Path
  /\ document \in [Document -> Bytes]
  /\ changes \in 0..MaxChanges

Places == {"idle", "stage", "digest", "begin", "repair", "decide", "insert",
           "cleanup"}
CommandTypes ==
  /\ import \in [Process -> Places]
  /\ request \in [Process -> Request]
  /\ \A p \in Process :
       request[p].source # NoSource => request[p].source \in DOMAIN sources
  /\ staged \in [Process -> Bytes \cup {NoBytes}]
  /\ digest \in [Process -> Bytes \cup {NoBytes}]
  /\ shared \in [Process -> Path \cup {0}]
  /\ retained \in [Process -> Path \cup {0}]

\* Every import that has not made its path yet may still make one.
Waiting == {p \in Process : import[p] \in {"stage", "digest", "begin",
                                           "repair", "decide"}}
Counted ==
  /\ imports \in 0..MaxImports /\ paths \in Nat
  /\ IsFiniteSet(Waiting)
  /\ paths + Cardinality(Waiting) <= imports

\* Who has looked at the rows and not ended yet has the lock.
Transacting(p) == import[p] \in {"repair", "decide", "insert"}
Writing == \A p \in Process : Transacting(p) => writer = p

\* A path that an import made is its own until a row names it.
Own(p) ==
  retained[p] # 0 =>
    /\ import[p] \in {"insert", "cleanup"}
    /\ retained[p] <= paths
    /\ \A q \in Process \ {p} : retained[q] # retained[p]
    /\ \A i \in DOMAIN versions : versions[i].path # retained[p]

\* Paths that no import made are empty.
Unmade ==
  /\ \A path \in Path : path > paths => copy[path] = NoBytes /\ path \notin altered
  /\ \A i \in DOMAIN versions : versions[i].path <= paths

\* The private copy has the digest, and so has what was made of it.
Digested(p) ==
  /\ At(p, "digest") => staged[p] \in Bytes
  /\ At(p, "begin") \/ Transacting(p) => digest[p] \in Bytes
  /\ \/ At(p, "begin") \/ At(p, "repair")
     \/ At(p, "decide") /\ shared[p] = 0
     => staged[p] = digest[p]
  /\ At(p, "insert") /\ shared[p] = 0 =>
       /\ retained[p] # 0
       /\ retained[p] \notin altered => copy[retained[p]] = digest[p]
  /\ At(p, "insert") /\ shared[p] # 0 => retained[p] = 0

\* What an import found in the rows is so as long as it has the lock.
Found(p) ==
  /\ At(p, "repair") => shared[p] # 0
  /\ Transacting(p) =>
       IF shared[p] = 0 THEN \A i \in DOMAIN versions : versions[i].bytes # digest[p]
       ELSE \E i \in DOMAIN versions :
              versions[i].bytes = digest[p] /\ versions[i].path = shared[p]
  /\ At(p, "insert") => ~UpToDate(p)

\* A path has one digest.
OneDigestPerCopy ==
  \A i, j \in DOMAIN versions :
    versions[i].path = versions[j].path => versions[i].bytes = versions[j].bytes

ImportTypes == RowTypes /\ FileTypes /\ CommandTypes /\ Counted
Commands ==
  /\ Writing
  /\ \A p \in Process : Own(p) /\ Digested(p) /\ Found(p)
Rowed == Unmade /\ OneDigestPerCopy /\ OneCopyPerDigest /\ CopiesStored
         /\ NoStrayCopies /\ RevisionsDiffer

\* The inductive invariant.
ImportInvariant == ImportTypes /\ Commands /\ Rowed

----------------------------------------------------------------------------
\* The last of some rows.
LEMMA LatestIs ==
  ASSUME NEW n \in Nat, NEW rows \in SUBSET (1..n), rows # {}
  PROVE  Latest(rows) \in rows /\ \A j \in rows : j <= Latest(rows)
<1> DEFINE Above(i) == {k \in rows : i < k}
           aboves == {Above(i) : i \in rows}
           less == StrictSubsetOrdering(rows)
<1>1. IsFiniteSet(1..n)
  BY FS_Interval
<1>2. \A S \in SUBSET rows : IsFiniteSet(S)
  BY <1>1, FS_Subset
<1>3. aboves \subseteq FiniteSubsetsOf(rows) /\ aboves # {}
  BY <1>2 DEF FiniteSubsetsOf
<1>4. PICK least \in aboves : \A a \in aboves : <<a, least>> \notin less
  <2> HIDE DEF aboves, less
  <2>1. IsWellFoundedOn(less, FiniteSubsetsOf(rows))
    BY FS_StrictSubsetOrderingWellFounded DEF less
  <2> QED BY <1>3, <2>1, WFMin
<1>5. PICK i \in rows : least = Above(i)
  OBVIOUS
<1>6. ASSUME NEW j \in rows, i < j PROVE FALSE
  <2>1. i \in Int /\ j \in Int /\ \A k \in rows : k \in Int
    OBVIOUS
  <2>2. \A k \in Above(j) : k \in Above(i)
    BY <1>6, <2>1
  <2>3. j \in Above(i) /\ j \notin Above(j)
    BY <1>6, <2>1
  <2>4. <<Above(j), Above(i)>> \in less
    BY <2>2, <2>3 DEF StrictSubsetOrdering
  <2> QED BY <1>4, <1>5, <2>4
<1>7. \A j \in rows : j <= i
  BY <1>6
<1> QED BY <1>7 DEF Latest

\* A request names a document, so there is one.
LEMMA NoRequestIs ==
  ASSUME CommandTypes, NEW p \in Process
  PROVE  NoRequest \in Request /\ NoRequest.source = NoSource
<1>1. request[p].document \in Document
  BY DEF CommandTypes, Request
<1>2. (CHOOSE d \in Document : TRUE) \in Document
  BY <1>1
<1> QED BY <1>2 DEF NoRequest, Request

\* Every version names a path.
LEMMA RowPaths ==
  ASSUME RowTypes
  PROVE  \A i \in DOMAIN versions : versions[i].path \in Path /\ versions[i].path # 0
<1> TAKE i \in DOMAIN versions
<1>1. versions[i] \in Version
  BY DEF RowTypes
<1> QED BY <1>1 DEF Version, Path

\* Waiting imports that stop waiting make room.
LEMMA FewerWaiting ==
  ASSUME Counted, Waiting' \subseteq Waiting, UNCHANGED <<imports, paths>>
  PROVE  Counted'
<1>1. IsFiniteSet(Waiting') /\ Cardinality(Waiting') <= Cardinality(Waiting)
  BY FS_Subset DEF Counted
<1>2. Cardinality(Waiting') \in Nat /\ Cardinality(Waiting) \in Nat
  BY <1>1, FS_CardinalityType DEF Counted
<1> HIDE DEF Waiting
<1> QED BY <1>1, <1>2 DEF Counted

\* While the rows stay, what an import found in them is so.
LEMMA SameRows ==
  ASSUME UNCHANGED versions, NEW q, request'[q] = request[q],
         digest'[q] = digest[q]
  PROVE  UpToDate(q)' <=> UpToDate(q)
<1>1. RowsOf(request[q].source)' = RowsOf(request[q].source)
  BY DEF RowsOf, Rows
<1> QED BY <1>1 DEF UpToDate

\* So what an import found stays found while nothing of its own changes.
LEMMA StillFound ==
  ASSUME UNCHANGED versions, NEW q, Found(q), import'[q] = import[q],
         request'[q] = request[q], digest'[q] = digest[q], shared'[q] = shared[q]
  PROVE  Found(q)'
<1>1. UpToDate(q)' <=> UpToDate(q)
  BY SameRows
<1> HIDE DEF UpToDate
<1> QED BY <1>1 DEF Found, Transacting, At

\* While its path has what it had, the same is so of its private copy.
LEMMA StillDigested ==
  ASSUME NEW q, Digested(q), import'[q] = import[q], staged'[q] = staged[q],
         digest'[q] = digest[q], shared'[q] = shared[q], retained'[q] = retained[q],
         retained[q] # 0 =>
           /\ copy'[retained[q]] = copy[retained[q]]
           /\ retained[q] \in altered' <=> retained[q] \in altered
  PROVE  Digested(q)'
BY DEF Digested, At, Transacting

\* What is local to a process.
Local(q) ==
  <<import[q], request[q], staged[q], digest[q], shared[q], retained[q]>>

\* What the commands of the other processes know stays so while the rows, the
\* copies and what is local to them stay.
LEMMA OthersStay ==
  ASSUME UNCHANGED <<versions, copy, altered, paths>>, NEW p \in Process,
         \A q \in Process \ {p} : Local(q)' = Local(q),
         retained'[p] \in {0, retained[p]},
         \A q \in Process : Own(q) /\ Digested(q) /\ Found(q)
  PROVE  \A q \in Process \ {p} : (Own(q) /\ Digested(q) /\ Found(q))'
<1> TAKE q \in Process \ {p}
<1>1. Digested(q)'
  BY StillDigested DEF Local
<1>2. Found(q)'
  BY StillFound DEF Local
<1>3. Own(q)'
  BY DEF Own, Local
<1> QED BY <1>1, <1>2, <1>3

\* What the rows and the copies say stays so while they stay, and nobody
\* forgets a path with a copy.
LEMMA RowedStays ==
  ASSUME Rowed, UNCHANGED <<versions, copy, altered, paths>>,
         abandoned \subseteq abandoned',
         \A q \in Process :
           retained[q] \in {0, retained'[q]} \/ retained[q] \in abandoned'
  PROVE  Rowed'
<1>1. NoStrayCopies'
  BY DEF Rowed, NoStrayCopies, Rows, Path
<1> QED BY <1>1 DEF Rowed, Unmade, OneDigestPerCopy, OneCopyPerDigest,
                    CopiesStored, RevisionsDiffer, Rows

\* An import starts: one more that may make a path.
LEMMA StartImportKeeps ==
  ASSUME ImportInvariant, ImportConstants, NEW p \in Process, StartImport(p)
  PROVE  ImportInvariant'
<1> USE DEF ImportInvariant, ImportTypes, Commands, StartImport, At, Goto, Forget,
        rowVars, fileVars, outsideVars, localVars
<1>1. RowTypes' /\ FileTypes'
  BY DEF RowTypes, FileTypes
<1>2. CommandTypes'
  BY SMTT(30) DEF CommandTypes, RowTypes, Places, Request
<1>3. Counted'
  <2>1. Waiting' = Waiting \cup {p} /\ p \notin Waiting
    BY DEF Waiting, CommandTypes
  <2>2. IsFiniteSet(Waiting') /\ Cardinality(Waiting') = Cardinality(Waiting) + 1
    BY <2>1, FS_AddElement DEF Counted
  <2>3. Cardinality(Waiting) \in Nat
    BY FS_CardinalityType DEF Counted
  <2>4. MaxImports \in Nat
    BY DEF ImportConstants
  <2> HIDE DEF Waiting
  <2> QED BY <2>2, <2>3, <2>4 DEF Counted
<1>4. Writing'
  BY SMTT(30) DEF Writing, Transacting, CommandTypes
<1>5. (Own(p) /\ Digested(p) /\ Found(p))'
  BY SMTT(30) DEF Own, Digested, Found, CommandTypes, Transacting
<1>6. \A q \in Process \ {p} : (Own(q) /\ Digested(q) /\ Found(q))'
  BY OthersStay DEF Local, CommandTypes, Own
<1>7. Rowed'
  BY RowedStays DEF CommandTypes, Own
<1> QED BY <1>1, <1>2, <1>3, <1>4, <1>5, <1>6, <1>7

\* The private copy is taken of the document as it is now.
LEMMA StageKeeps ==
  ASSUME ImportInvariant, ImportConstants, NEW p \in Process, Stage(p)
  PROVE  ImportInvariant'
<1> USE DEF ImportInvariant, ImportTypes, Commands, Stage, At, Goto, Forget,
        rowVars, fileVars, outsideVars, localVars
<1>0. document[request[p].document] \in Bytes
  BY DEF CommandTypes, FileTypes, Request
<1>1. RowTypes' /\ FileTypes'
  BY DEF RowTypes, FileTypes
<1>2. CommandTypes'
  BY <1>0, SMTT(30) DEF CommandTypes, Places
<1>3. Counted'
  <2>1. Waiting' \subseteq Waiting
    BY DEF Waiting, CommandTypes
  <2> QED BY <2>1, FewerWaiting
<1>4. Writing'
  BY SMTT(30) DEF Writing, Transacting, CommandTypes
<1>5. (Own(p) /\ Digested(p) /\ Found(p))'
  BY <1>0, SMTT(30) DEF Own, Digested, Found, CommandTypes, Transacting
<1>6. \A q \in Process \ {p} : (Own(q) /\ Digested(q) /\ Found(q))'
  BY OthersStay DEF Local, CommandTypes, Own
<1>7. Rowed'
  BY RowedStays DEF CommandTypes, Own
<1> QED BY <1>1, <1>2, <1>3, <1>4, <1>5, <1>6, <1>7

\* What is looked for is the digest of the private copy.
LEMMA DigestKeeps ==
  ASSUME ImportInvariant, ImportConstants, NEW p \in Process, Digest(p)
  PROVE  ImportInvariant'
<1> USE DEF ImportInvariant, ImportTypes, Commands, Digest, At, Goto, Forget,
        rowVars, fileVars, outsideVars, localVars
<1>1. RowTypes' /\ FileTypes'
  BY DEF RowTypes, FileTypes
<1>2. CommandTypes'
  BY SMTT(30) DEF CommandTypes, RowTypes, Places, Request
<1>3. Counted'
  <2>1. Waiting' \subseteq Waiting
    BY DEF Waiting, CommandTypes
  <2> QED BY <2>1, FewerWaiting
<1>4. Writing'
  BY SMTT(30) DEF Writing, Transacting, CommandTypes
<1>5. (Own(p) /\ Digested(p) /\ Found(p))'
  BY SMTT(30) DEF Own, Digested, Found, CommandTypes, Transacting
<1>6. \A q \in Process \ {p} : (Own(q) /\ Digested(q) /\ Found(q))'
  BY OthersStay DEF Local, CommandTypes, Own
<1>7. Rowed'
  BY RowedStays DEF CommandTypes, Own
<1> QED BY <1>1, <1>2, <1>3, <1>4, <1>5, <1>6, <1>7

\* The lock is taken, and what is found in the rows is so.
LEMMA BeginKeeps ==
  ASSUME ImportInvariant, ImportConstants, NEW p \in Process, Begin(p)
  PROVE  ImportInvariant'
<1> USE DEF ImportInvariant, ImportTypes, Commands, Begin, At, Goto, Forget,
        rowVars, fileVars, outsideVars, localVars
<1>0. /\ writer = NoProcess /\ writer' = p /\ import[p] = "begin"
      /\ UNCHANGED <<history, sources, versions, copy, paths, altered, abandoned,
                     document, changes, request, staged, digest, retained, imports, faults>>
      /\ \/ /\ Copies(p) = {}
            /\ shared' = [shared EXCEPT ![p] = 0]
            /\ import' = [import EXCEPT ![p] = "decide"]
         \/ \E i \in DOMAIN versions :
              /\ versions[i].bytes = digest[p] /\ versions[i].path \in Path
              /\ shared' = [shared EXCEPT ![p] = versions[i].path]
              /\ \/ import' = [import EXCEPT ![p] = "decide"]
                 \/ import' = [import EXCEPT ![p] = "repair"]
  <2>1. CASE Copies(p) = {}
    BY <2>1
  <2>2. CASE Copies(p) # {}
    <3>1. Len(versions) \in Nat /\ DOMAIN versions = 1..Len(versions)
      BY DEF RowTypes
    <3>2. Copies(p) \in SUBSET (1..Len(versions))
      BY <3>1 DEF Copies, Rows
    <3>3. Latest(Copies(p)) \in Copies(p)
      BY <3>1, <3>2, <2>2, LatestIs
    <3>4. /\ Latest(Copies(p)) \in DOMAIN versions
          /\ versions[Latest(Copies(p))].bytes = digest[p]
      BY <3>3 DEF Copies, Rows
    <3>5. versions[Latest(Copies(p))] \in Version
      BY <3>1, <3>4 DEF RowTypes
    <3> QED BY <2>2, <3>4, <3>5 DEF Version
  <2> QED BY <2>1, <2>2
<1>p. 0 \notin Path
  BY DEF Path
<1> HIDE DEF Begin, Path, Copies
<1>1. RowTypes' /\ FileTypes'
  BY <1>0 DEF RowTypes, FileTypes
<1>2. CommandTypes'
  <2>1. import' \in [Process -> Places] /\ shared' \in [Process -> Path \cup {0}]
    BY <1>0, SMTT(30) DEF CommandTypes, Places
  <2> QED BY <1>0, <2>1 DEF CommandTypes
<1>3. Counted'
  <2>1. Waiting' \subseteq Waiting
    BY <1>0 DEF Waiting, CommandTypes
  <2> QED BY <1>0, <2>1, FewerWaiting
<1>4. Writing'
  <2>1. \A q \in Process \ {p} : ~Transacting(q) /\ import'[q] = import[q]
    BY <1>0 DEF Writing, CommandTypes, Transacting, ImportConstants
  <2> QED BY <1>0, <2>1 DEF Writing, Transacting
<1>5. (Own(p) /\ Digested(p) /\ Found(p))'
  BY <1>0, <1>p, SMTT(30) DEF Own, Digested, Found, CommandTypes, Transacting, Copies, Rows
<1>6. \A q \in Process \ {p} : (Own(q) /\ Digested(q) /\ Found(q))'
  BY <1>0, OthersStay DEF Local, CommandTypes
<1>7. Rowed'
  BY <1>0, RowedStays DEF CommandTypes
<1> QED BY <1>1, <1>2, <1>3, <1>4, <1>5, <1>6, <1>7

\* The staged bytes are those of every row that names the path.
LEMMA RepairKeeps ==
  ASSUME ImportInvariant, ImportConstants, NEW p \in Process, Repair(p)
  PROVE  ImportInvariant'
<1> USE DEF ImportInvariant, ImportTypes, Commands, Rowed, Repair, At, Goto, Forget,
        rowVars, fileVars, outsideVars, localVars
<1>0. shared[p] \in Path /\ staged[p] = digest[p] /\ digest[p] \in Bytes
  BY DEF Found, Digested, Transacting, CommandTypes
<1>n. \E i \in DOMAIN versions :
        versions[i].bytes = digest[p] /\ versions[i].path = shared[p]
  BY DEF Found, Transacting
<1>1. RowTypes'
  BY SMTT(30) DEF RowTypes, Version, Source
<1>2. FileTypes'
  BY <1>0 DEF FileTypes
<1>3. CommandTypes'
  BY SMTT(30) DEF CommandTypes, RowTypes, Places, Request
<1>4. Counted'
  <2>1. Waiting' \subseteq Waiting
    BY DEF Waiting, CommandTypes
  <2> QED BY <2>1, FewerWaiting
<1>5. Writing'
  BY DEF Writing, Transacting, CommandTypes
<1>6. \A q \in Process : Own(q)'
  BY SMTT(30) DEF Own, CommandTypes
<1>7. \A q \in Process : Digested(q)'
  <2> TAKE q \in Process
  <2>1. CASE q # p
    <3>1. retained[q] # shared[p]
      BY <1>0, <1>n DEF Own, Path
    <3>2. copy'[retained[q]] = copy[retained[q]]
      BY <1>0, <3>1 DEF FileTypes
    <3>3. retained[q] \in altered' <=> retained[q] \in altered
      BY <3>1
    <3>4. /\ import'[q] = import[q] /\ staged'[q] = staged[q]
          /\ digest'[q] = digest[q] /\ shared'[q] = shared[q]
          /\ retained'[q] = retained[q]
      BY <2>1 DEF CommandTypes
    <3> QED BY <3>2, <3>3, <3>4, StillDigested
  <2>2. CASE q = p
    BY <1>0, <1>n, <2>2, SMTT(30) DEF Digested, CommandTypes, Transacting, Path
  <2> QED BY <2>1, <2>2
<1>8. \A q \in Process : Found(q)'
  <2> TAKE q \in Process
  <2>1. CASE q # p
    BY <2>1, StillFound DEF CommandTypes
  <2>2. CASE q = p
    BY <1>0, <1>n, <2>2 DEF Found, CommandTypes, Transacting, Path
  <2> QED BY <2>1, <2>2
<1>9. Unmade'
  BY <1>0, <1>n DEF Unmade, FileTypes, Counted, Path, ImportConstants
<1>10. OneDigestPerCopy' /\ OneCopyPerDigest'
  BY SMTT(30) DEF OneDigestPerCopy, OneCopyPerDigest, Rows
<1>11. CopiesStored'
  BY <1>0, <1>n DEF CopiesStored, Rows, OneDigestPerCopy, FileTypes
<1>12. NoStrayCopies'
  BY <1>0, <1>n DEF NoStrayCopies, Rows, FileTypes
<1>13. RevisionsDiffer'
  BY SMTT(30) DEF RevisionsDiffer, Rows
<1> QED BY <1>1, <1>2, <1>3, <1>4, <1>5, <1>6, <1>7, <1>8, <1>9, <1>10, <1>11,
           <1>12, <1>13

\* Nothing to add: the lock is given back.
LEMMA UnchangedKeeps ==
  ASSUME ImportInvariant, ImportConstants, NEW p \in Process, Unchanged(p)
  PROVE  ImportInvariant'
<1> USE DEF ImportInvariant, ImportTypes, Commands, Unchanged, At, Goto, Forget,
        rowVars, fileVars, outsideVars, localVars
<1>1. RowTypes' /\ FileTypes'
  BY DEF RowTypes, FileTypes
<1>2. CommandTypes'
  <2>1. NoRequest \in Request /\ NoRequest.source = NoSource
    BY NoRequestIs
  <2> HIDE DEF NoRequest
  <2> QED BY <2>1, SMTT(30) DEF CommandTypes, Places
<1>3. Counted'
  <2>1. Waiting' \subseteq Waiting
    BY DEF Waiting, CommandTypes
  <2> QED BY <2>1, FewerWaiting
<1>4. Writing'
  BY SMTT(30) DEF Writing, Transacting, CommandTypes
<1>5. (Own(p) /\ Digested(p) /\ Found(p))'
  BY SMTT(30) DEF Own, Digested, Found, CommandTypes, Transacting
<1>6. \A q \in Process \ {p} : (Own(q) /\ Digested(q) /\ Found(q))'
  BY OthersStay DEF Local, CommandTypes, Own
<1>7. Rowed'
  BY RowedStays DEF CommandTypes, Own
<1> QED BY <1>1, <1>2, <1>3, <1>4, <1>5, <1>6, <1>7

\* The path is new: no row, no other import and no copy has it.
LEMMA RetainKeeps ==
  ASSUME ImportInvariant, ImportConstants, NEW p \in Process, Retain(p)
  PROVE  ImportInvariant'
<1> USE DEF ImportInvariant, ImportTypes, Commands, Rowed, Retain, At, Goto, Forget,
        rowVars, fileVars, outsideVars, localVars
<1>0. \/ /\ shared[p] # 0 /\ UNCHANGED <<copy, paths, staged, retained>>
      \/ /\ shared[p] = 0 /\ paths + 1 \in Path /\ paths' = paths + 1
         /\ staged[p] = digest[p] /\ digest[p] \in Bytes
         /\ copy' = [copy EXCEPT ![paths + 1] = digest[p]]
         /\ staged' = [staged EXCEPT ![p] = NoBytes]
         /\ retained' = [retained EXCEPT ![p] = paths + 1]
         /\ Counted'
  <2>1. p \in Waiting /\ Waiting' = Waiting \ {p}
    BY DEF Waiting, CommandTypes
  <2>2. /\ IsFiniteSet(Waiting') /\ Cardinality(Waiting') = Cardinality(Waiting) - 1
    BY <2>1, FS_RemoveElement DEF Counted
  <2>3. Cardinality(Waiting) \in Nat /\ Cardinality(Waiting') \in Nat
    BY <2>2, FS_CardinalityType DEF Counted
  <2>4. MaxImports \in Nat
    BY DEF ImportConstants
  <2>5. paths + 1 \in Path /\ paths + 1 <= imports
    <3> HIDE DEF Waiting
    <3> QED BY <2>2, <2>3, <2>4 DEF Counted, Path
  <2>6. CASE shared[p] # 0
    BY <2>6
  <2>7. CASE shared[p] = 0
    <3>1. Counted'
      <4> HIDE DEF Waiting
      <4> QED BY <2>2, <2>3, <2>4, <2>5, <2>7 DEF Counted
    <3>2. staged[p] = digest[p] /\ digest[p] \in Bytes
      BY <2>7 DEF Digested, Transacting
    <3> QED BY <2>5, <2>7, <3>1, <3>2
  <2> QED BY <2>6, <2>7
<1>n. retained[p] = 0 /\ paths \in Nat /\ 0 \notin Path
  BY DEF Own, Counted, CommandTypes, Path
<1>w. /\ import[p] = "decide" /\ import' = [import EXCEPT ![p] = "insert"]
      /\ UNCHANGED <<sources, versions, writer, imports, request, digest, shared,
                      altered, abandoned, document, changes>>
      /\ ~UpToDate(p)
  OBVIOUS
<1> HIDE DEF Retain, Path, UpToDate
<1>1. RowTypes'
  BY <1>w, SMTT(30) DEF RowTypes, Version, Source
<1>2. FileTypes'
  BY <1>0, <1>w, SMTT(30) DEF FileTypes
<1>3. CommandTypes'
  BY <1>0, <1>w, SMTT(30) DEF CommandTypes, Places
<1>4. Counted'
  <2>1. Waiting' \subseteq Waiting
    BY <1>w DEF Waiting, CommandTypes
  <2> QED BY <2>1, <1>0, <1>w, FewerWaiting
<1>5. Writing'
  BY <1>w DEF Writing, Transacting, CommandTypes
<1>6. \A q \in Process : Own(q)'
  <2>1. \A q \in Process : retained[q] # paths + 1
    BY <1>n DEF Own
  <2>2. \A i \in DOMAIN versions : versions[i].path # paths + 1
    BY <1>n, RowPaths DEF Unmade, Path
  <2>3. CASE shared[p] # 0
    BY <1>0, <1>w, <1>n, <2>3 DEF Own, CommandTypes
  <2>4. CASE shared[p] = 0
    <3> TAKE q \in Process
    <3>1. CASE q = p
      BY <1>0, <1>w, <1>n, <2>1, <2>2, <2>4, <3>1 DEF Own, CommandTypes
    <3>2. CASE q # p
      BY <1>0, <1>w, <1>n, <2>1, <2>4, <3>2, SMTT(30) DEF Own, CommandTypes, Path
    <3> QED BY <3>1, <3>2
  <2> QED BY <2>3, <2>4
<1>7. \A q \in Process : Digested(q)'
  <2> TAKE q \in Process
  <2>1. CASE q # p
    <3>1. retained[q] # paths + 1 /\ retained[q] \in Path \cup {0}
      BY <1>n DEF Own, CommandTypes
    <3>2. retained[q] # 0 => copy'[retained[q]] = copy[retained[q]]
      BY <1>0, <3>1 DEF FileTypes
    <3>3. /\ import'[q] = import[q] /\ staged'[q] = staged[q]
          /\ digest'[q] = digest[q] /\ shared'[q] = shared[q]
          /\ retained'[q] = retained[q]
      BY <1>0, <1>w, <2>1 DEF CommandTypes
    <3> QED BY <1>w, <3>2, <3>3, StillDigested
  <2>2. CASE q = p
    <3>1. digest[p] \in Bytes /\ digest' = digest /\ shared' = shared
      BY <1>w DEF Digested, Transacting
    <3>2. CASE shared[p] # 0
      BY <1>0, <1>w, <1>n, <2>2, <3>1, <3>2 DEF Digested, CommandTypes, Transacting
    <3>3. CASE shared[p] = 0
      <4>1. retained'[p] = paths + 1 /\ copy'[paths + 1] = digest[p]
        BY <1>0, <3>3 DEF CommandTypes, FileTypes
      <4> QED BY <1>w, <1>n, <2>2, <3>1, <3>3, <4>1 DEF Digested, CommandTypes, Transacting
    <3> QED BY <3>2, <3>3
  <2> QED BY <2>1, <2>2
<1>8. \A q \in Process : Found(q)'
  <2> TAKE q \in Process
  <2>1. CASE q # p
    BY <1>w, <2>1, StillFound DEF CommandTypes
  <2>2. CASE q = p
    <3>1. ~UpToDate(p)'
      BY <1>w, SameRows
    <3> QED BY <1>w, <2>2, <3>1 DEF Found, CommandTypes, Transacting
  <2> QED BY <2>1, <2>2
<1>9. Unmade'
  <2>1. \A path \in Path : path \in Nat
    BY DEF Path, ImportConstants
  <2>2. CASE shared[p] # 0
    BY <1>0, <1>w, <2>2 DEF Unmade
  <2>3. CASE shared[p] = 0
    <3>1. \A path \in Path : path > paths + 1 => path > paths /\ path # paths + 1
      BY <1>n, <2>1
    <3>2. \A i \in DOMAIN versions : versions[i].path <= paths + 1
      BY <1>n, <2>1, RowPaths DEF Unmade
    <3> QED BY <1>0, <1>w, <2>3, <3>1, <3>2 DEF Unmade, FileTypes
  <2> QED BY <2>2, <2>3
<1>10. OneDigestPerCopy' /\ OneCopyPerDigest'
  BY <1>w DEF OneDigestPerCopy, OneCopyPerDigest, Rows
<1>11. CopiesStored'
  <2>1. \A i \in DOMAIN versions : versions[i].path # paths + 1
    BY <1>n, RowPaths DEF Unmade, Path
  <2>2. \A i \in DOMAIN versions : copy'[versions[i].path] = copy[versions[i].path]
    BY <1>0, <2>1, RowPaths DEF FileTypes
  <2> QED BY <1>w, <2>2 DEF CopiesStored, Rows
<1>12. NoStrayCopies'
  <2>1. \A path \in Path : path # 0
    BY <1>n
  <2> QED BY <1>0, <1>w, <1>n, <2>1, SMTT(30) DEF NoStrayCopies, Rows, CommandTypes, FileTypes
<1>13. RevisionsDiffer'
  BY <1>w DEF RevisionsDiffer, Rows
<1> QED BY <1>1, <1>2, <1>3, <1>4, <1>5, <1>6, <1>7, <1>8, <1>9, <1>10, <1>11,
           <1>12, <1>13

\* The new row shares a path exactly with the rows that have its bytes, and
\* differs from the row before it.
LEMMA InsertKeeps ==
  ASSUME ImportInvariant, ImportConstants, NEW p \in Process, Insert(p)
  PROVE  ImportInvariant'
<1> USE DEF ImportInvariant, ImportTypes, Commands, Rowed, Insert, At, Goto, Forget,
        rowVars, fileVars, outsideVars, localVars
<1>0. /\ import[p] = "insert" /\ Transacting(p) /\ writer' = NoProcess
      /\ import' = [import EXCEPT ![p] = "idle"]
      /\ UNCHANGED <<copy, paths, altered, abandoned, document, changes, imports>>
  BY DEF Transacting
<1> DEFINE n == Len(versions)
           s == request[p].source
           row == [source |-> IF s = NoSource THEN Len(sources') ELSE s,
                   bytes  |-> digest[p], path |-> StoredPath(p)]
<1>a. n \in Nat /\ Len(sources) \in Nat /\ MaxVersions \in Nat
  BY DEF RowTypes, ImportConstants
<1>b. DOMAIN versions = 1..n /\ DOMAIN sources = 1..Len(sources)
  BY DEF RowTypes
<1>c. /\ sources' \in Seq(Kind)
      /\ s = NoSource => Len(sources') = Len(sources) + 1
      /\ s # NoSource => sources' = sources
  <2>1. Format[request[p].document] \in Kind
    BY DEF CommandTypes, Request, Kind
  <2> QED BY <2>1, AppendProperties DEF RowTypes
<1>d. digest[p] \in Bytes /\ StoredPath(p) \in Path
  <2>1. shared[p] = 0 => retained[p] # 0
    BY <1>0 DEF Digested, At
  <2> QED BY <1>0, <2>1 DEF Digested, StoredPath, CommandTypes
<1>e. row.source \in 1..Len(sources') /\ Len(sources') <= n + 1
      /\ Len(sources) <= Len(sources') /\ Len(sources') \in Nat
  <2>1. s # NoSource => s \in 1..Len(sources)
    BY <1>b DEF CommandTypes
  <2> QED BY <1>a, <1>c, <2>1 DEF RowTypes
<1>f. row \in Version
  BY <1>a, <1>d, <1>e DEF Version, Source
<1>g. /\ versions' \in Seq(Version) /\ Len(versions') = n + 1
      /\ \A i \in 1..n : versions'[i] = versions[i]
      /\ versions'[n + 1] = row /\ DOMAIN versions' = 1..(n + 1)
  <2>1. versions' = Append(versions, row)
    OBVIOUS
  <2> HIDE DEF row
  <2> QED BY <1>f, <2>1, AppendProperties DEF RowTypes
<1>h. row.path = StoredPath(p) /\ row.bytes = digest[p]
  OBVIOUS
<1>i. IF shared[p] = 0
      THEN /\ row.path = retained[p] /\ retained[p] # 0
           /\ \A i \in 1..n : versions[i].bytes # digest[p] /\ versions[i].path # retained[p]
      ELSE \E i \in 1..n : versions[i].bytes = digest[p] /\ versions[i].path = row.path
  <2>1. shared[p] = 0 => retained[p] # 0
    BY <1>0 DEF Digested, At
  <2> QED BY <1>0, <1>b, <1>h, <2>1 DEF Found, Own, StoredPath
<1> HIDE DEF row
<1>j. \A i \in 1..(n + 1) : i \in 1..n \/ i = n + 1
  BY <1>a
<1>k. n + 1 \in 1..(n + 1) /\ \A i \in 1..n : i \in 1..(n + 1) /\ i < n + 1
  BY <1>a
<1>l. \A q \in Process \ {p} :
        /\ ~Transacting(q) /\ import'[q] = import[q] /\ staged'[q] = staged[q]
        /\ digest'[q] = digest[q] /\ shared'[q] = shared[q]
        /\ retained'[q] = retained[q] /\ request'[q] = request[q]
  BY <1>0 DEF Writing, CommandTypes
<1>m. /\ import'[p] = "idle" /\ retained'[p] = 0
  BY DEF CommandTypes
<1>1. RowTypes'
  <2>1. n + 1 <= MaxVersions
    BY <1>a
  <2>2. DOMAIN sources' = 1..Len(sources')
    BY <1>c
  <2>3. \A i \in 1..n : versions[i].source \in 1..Len(sources)
    BY <1>b DEF RowTypes
  <2>4. \A i \in 1..(n + 1) : versions'[i].source \in 1..Len(sources')
    <3> HIDE DEF row
    <3> QED BY <1>a, <1>e, <1>g, <2>3
  <2> QED BY <1>c, <1>e, <1>g, <2>1, <2>2, <2>4 DEF RowTypes
<1>2. FileTypes'
  BY SMTT(30) DEF FileTypes, CommandTypes
<1>3. CommandTypes'
  <2>1. NoRequest \in Request /\ NoRequest.source = NoSource
    BY NoRequestIs
  <2>2. DOMAIN sources \subseteq DOMAIN sources'
    <3>1. DOMAIN sources' = 1..Len(sources')
      BY <1>c
    <3> QED BY <1>a, <1>b, <1>e, <3>1
  <2> HIDE DEF NoRequest
  <2> QED BY <2>1, <2>2, SMTT(30) DEF CommandTypes, Places
<1>4. Counted'
  <2>1. Waiting' \subseteq Waiting
    BY DEF Waiting, CommandTypes
  <2> QED BY <2>1, FewerWaiting
<1>5. Writing'
  BY SMTT(30) DEF Writing, Transacting, CommandTypes
<1>6. \A q \in Process : Own(q)'
  <2> TAKE q \in Process
  <2>1. CASE q # p
    <3>1. retained[q] # 0 => row.path # retained[q]
      <4>1. shared[p] = 0 => row.path = retained[p] /\ retained[p] # 0
        BY <1>i
      <4> QED BY <1>b, <1>i, <2>1, <4>1 DEF Own
    <3>2. retained[q] # 0 => \A i \in DOMAIN versions' : versions'[i].path # retained[q]
      BY <1>b, <1>g, <1>j, <3>1 DEF Own
    <3>3. \A r \in Process \ {q} : retained[q] # 0 => retained'[r] # retained[q]
      BY <1>l, <1>m DEF Own
    <3> QED BY <1>0, <1>l, <2>1, <3>2, <3>3 DEF Own
  <2>2. CASE q = p
    BY <1>m, <2>2 DEF Own
  <2> QED BY <2>1, <2>2
<1>7. \A q \in Process : Digested(q)'
  <2> TAKE q \in Process
  <2>1. CASE q # p
    BY <2>1, StillDigested DEF CommandTypes
  <2>2. CASE q = p
    BY <2>2, SMTT(30) DEF Digested, CommandTypes, Transacting
  <2> QED BY <2>1, <2>2
<1>8. \A q \in Process : Found(q)'
  <2> TAKE q \in Process
  <2>1. ~Transacting(q)'
    BY <1>l, <1>m DEF Transacting
  <2> QED BY <2>1 DEF Found, Transacting
<1>9. Unmade'
  <2>1. row.path <= paths
    BY <1>b, <1>i DEF Unmade, Own
  <2> QED BY <1>0, <1>b, <1>g, <1>j, <2>1 DEF Unmade
<1>10. OneDigestPerCopy' /\ OneCopyPerDigest'
  <2>1. ASSUME NEW i \in 1..n
        PROVE  versions[i].path = row.path <=> versions[i].bytes = row.bytes
    BY <1>b, <1>h, <1>i, SMTT(30) DEF OneDigestPerCopy, OneCopyPerDigest, Rows
  <2> QED BY <1>b, <1>g, <1>j, <2>1 DEF OneDigestPerCopy, OneCopyPerDigest, Rows
<1>11. CopiesStored'
  <2>1. row.path \notin altered => copy[row.path] = row.bytes
    BY <1>0, <1>b, <1>h, <1>i DEF CopiesStored, Digested, At, Rows
  <2> QED BY <1>0, <1>b, <1>g, <1>j, <2>1 DEF CopiesStored, Rows
<1>12. NoStrayCopies'
  <2> SUFFICES ASSUME NEW path \in Path, copy[path] # NoBytes, path \notin abandoned
               PROVE  \/ \E i \in DOMAIN versions' : versions'[i].path = path
                      \/ \E q \in Process : retained'[q] = path
    BY <1>0 DEF NoStrayCopies, Rows
  <2>1. CASE \E i \in DOMAIN versions : versions[i].path = path
    BY <1>b, <1>g, <1>k, <2>1
  <2>2. CASE \E q \in Process \ {p} : retained[q] = path
    BY <1>l, <2>2
  <2>3. CASE retained[p] = path
    <3>1. shared[p] = 0
      BY <1>0, <2>3 DEF Digested, At, Path
    <3> QED BY <1>g, <1>i, <1>k, <2>3, <3>1
  <2> QED BY <2>1, <2>2, <2>3 DEF NoStrayCopies, Rows
<1>13. RevisionsDiffer'
  <2>z. RevisionsDiffer /\ RowTypes /\ Found(p)
    OBVIOUS
  <2> HIDE DEF Insert, ImportInvariant, ImportTypes, Commands, Rowed
  <2>1. SUFFICES ASSUME NEW i \in 1..(n + 1), NEW j \in 1..(n + 1), i < j,
                        versions'[i].source = versions'[j].source,
                        \A k \in (i + 1)..(j - 1) :
                          versions'[k].source # versions'[i].source
                 PROVE  versions'[i].bytes # versions'[j].bytes
    BY <1>g DEF RevisionsDiffer, Rows
  <2>2. i \in 1..n
    BY <1>a, <2>1
  <2>3. CASE j \in 1..n
    <3>1. \A k \in (i + 1)..(j - 1) : k \in 1..n
      BY <1>a, <2>2, <2>3
    <3>2. \A k \in (i + 1)..(j - 1) : versions[k].source # versions[i].source
      BY <1>g, <2>1, <2>2, <3>1
    <3>3. versions[i].source = versions[j].source
      BY <1>g, <2>1, <2>2, <2>3
    <3>4. versions[i].bytes # versions[j].bytes
      BY <1>b, <2>z, <2>1, <2>2, <2>3, <3>2, <3>3 DEF RevisionsDiffer, Rows
    <3> QED BY <1>g, <2>2, <2>3, <3>4
  <2>4. CASE j = n + 1
    <3>1. versions[i].source = row.source
      BY <1>g, <2>1, <2>2, <2>4
    <3>2. s # NoSource /\ row.source = s
      <4>1. versions[i].source \in 1..Len(sources)
        BY <1>b, <2>z, <2>2 DEF RowTypes
      <4> QED BY <1>a, <1>c, <3>1, <4>1 DEF row
    <3>3. i \in RowsOf(s) /\ RowsOf(s) \in SUBSET (1..n)
      BY <1>b, <2>2, <3>1, <3>2 DEF RowsOf, Rows
    <3>4. Latest(RowsOf(s)) \in RowsOf(s) /\ i <= Latest(RowsOf(s))
      BY <1>a, <3>3, LatestIs
    <3>5. ASSUME i # Latest(RowsOf(s)) PROVE FALSE
      <4> DEFINE l == Latest(RowsOf(s))
      <4>1. l \in 1..n /\ l \in (i + 1)..(j - 1)
        BY <1>a, <2>2, <2>4, <3>3, <3>4, <3>5
      <4>2. versions[l].source = s
        BY <3>4 DEF RowsOf
      <4> QED BY <1>g, <2>1, <2>2, <3>1, <3>2, <4>1, <4>2
    <3>6. versions[i].bytes # digest[p]
      <4>1. ~UpToDate(p)
        BY <1>0, <2>z DEF Found
      <4> QED BY <3>3, <3>5, <4>1 DEF UpToDate
    <3> QED BY <1>g, <1>h, <2>2, <2>4, <3>6
  <2> QED BY <1>j, <2>3, <2>4
<1> QED BY <1>1, <1>2, <1>3, <1>4, <1>5, <1>6, <1>7, <1>8, <1>9, <1>10, <1>11,
           <1>12, <1>13

\* The lock is given back; a path that was made is still known.
LEMMA FailKeeps ==
  ASSUME ImportInvariant, ImportConstants, NEW p \in Process, Fail(p)
  PROVE  ImportInvariant'
<1> USE DEF ImportInvariant, ImportTypes, Commands, Fail, At, Goto, Forget,
        rowVars, fileVars, outsideVars, localVars
<1>1. RowTypes' /\ FileTypes'
  BY DEF RowTypes, FileTypes
<1>2. CommandTypes'
  BY SMTT(30) DEF CommandTypes, RowTypes, Places, Request
<1>3. Counted'
  <2>1. Waiting' \subseteq Waiting
    BY DEF Waiting, CommandTypes
  <2> QED BY <2>1, FewerWaiting
<1>4. Writing'
  BY SMTT(30) DEF Writing, Transacting, CommandTypes
<1>5. (Own(p) /\ Digested(p) /\ Found(p))'
  BY SMTT(30) DEF Own, Digested, Found, CommandTypes, Transacting
<1>6. \A q \in Process \ {p} : (Own(q) /\ Digested(q) /\ Found(q))'
  BY OthersStay DEF Local, CommandTypes, Own
<1>7. Rowed'
  BY RowedStays DEF CommandTypes, Own
<1> QED BY <1>1, <1>2, <1>3, <1>4, <1>5, <1>6, <1>7

\* No row names the path that is removed.
LEMMA RemoveKeeps ==
  ASSUME ImportInvariant, ImportConstants, NEW p \in Process, Cleanup(p), Remove(p)
  PROVE  ImportInvariant'
<1> USE DEF ImportInvariant, ImportTypes, Commands, Rowed, Cleanup, Remove, At, Goto,
        Forget, rowVars, fileVars, outsideVars, localVars
<1>0. import[p] = "cleanup" /\ UNCHANGED <<versions, altered, paths>>
  OBVIOUS
<1>n. retained[p] \in Path \/ (retained[p] = 0 /\ copy' = copy)
  BY DEF CommandTypes, OwnPath
<1> USE DEF OwnPath
<1>1. RowTypes'
  BY SMTT(30) DEF RowTypes, Version, Source
<1>2. FileTypes'
  BY <1>n, SMTT(30) DEF FileTypes
<1>3. CommandTypes'
  <2>1. NoRequest \in Request /\ NoRequest.source = NoSource
    BY NoRequestIs
  <2> HIDE DEF NoRequest
  <2> QED BY <2>1, SMTT(30) DEF CommandTypes, Places
<1>4. Counted'
  <2>1. Waiting' \subseteq Waiting
    BY DEF Waiting, CommandTypes
  <2> QED BY <2>1, FewerWaiting
<1>5. Writing'
  BY SMTT(30) DEF Writing, Transacting, CommandTypes
<1>6. \A q \in Process : Own(q)'
  BY SMTT(30) DEF Own, CommandTypes
<1>7. \A q \in Process : Digested(q)'
  <2> TAKE q \in Process
  <2>1. CASE q # p
    <3>1. retained[q] # 0 /\ retained[p] # 0 => retained[q] # retained[p]
      BY <2>1 DEF Own
    <3>2. CASE retained[p] = 0 \/ retained[q] = retained[p]
      BY <2>1, <3>1, <3>2, <1>n, StillDigested DEF CommandTypes, Path
    <3>3. CASE retained[p] # 0 /\ retained[q] # retained[p]
      <4>1. copy'[retained[q]] = copy[retained[q]]
        BY <3>3, <1>n DEF FileTypes
      <4>2. /\ import'[q] = import[q] /\ staged'[q] = staged[q]
            /\ digest'[q] = digest[q] /\ shared'[q] = shared[q]
            /\ retained'[q] = retained[q]
        BY <2>1 DEF CommandTypes
      <4> QED BY <4>1, <4>2, StillDigested
    <3> QED BY <3>2, <3>3
  <2>2. CASE q = p
    BY <2>2, SMTT(30) DEF Digested, CommandTypes, Transacting
  <2> QED BY <2>1, <2>2
<1>8. \A q \in Process : Found(q)'
  <2> TAKE q \in Process
  <2>1. CASE q # p
    BY <2>1, StillFound DEF CommandTypes
  <2>2. CASE q = p
    BY <2>2 DEF Found, CommandTypes, Transacting
  <2> QED BY <2>1, <2>2
<1>9. Unmade'
  BY SMTT(30) DEF Unmade, FileTypes
<1>10. OneDigestPerCopy' /\ OneCopyPerDigest'
  BY SMTT(30) DEF OneDigestPerCopy, OneCopyPerDigest, Rows
<1>11. CopiesStored'
  <2>1. \A i \in DOMAIN versions : retained[p] # 0 => versions[i].path # retained[p]
    BY DEF Own
  <2>2. \A i \in DOMAIN versions : copy'[versions[i].path] = copy[versions[i].path]
    BY <1>n, <2>1, RowPaths DEF FileTypes
  <2> QED BY <1>0, <2>2 DEF CopiesStored, Rows
<1>12. NoStrayCopies'
  <2>1. SUFFICES ASSUME NEW path \in Path, copy'[path] # NoBytes,
                        \A i \in DOMAIN versions : versions[i].path # path,
                        path \notin abandoned
                 PROVE  \E q \in Process : retained'[q] = path
    BY DEF NoStrayCopies, Rows
  <2>2. path # retained[p] /\ copy'[path] = copy[path]
    BY <1>n, <2>1 DEF FileTypes, Path
  <2>3. PICK q \in Process : retained[q] = path
    BY <2>1, <2>2 DEF NoStrayCopies, Rows
  <2> QED BY <2>2, <2>3 DEF CommandTypes
<1>13. RevisionsDiffer'
  BY SMTT(30) DEF RevisionsDiffer, Rows
<1> QED BY <1>1, <1>2, <1>3, <1>4, <1>5, <1>6, <1>7, <1>8, <1>9, <1>10, <1>11,
           <1>12, <1>13

\* An import ends and leaves behind the path that it made.
Leaves(p) ==
  /\ ~At(p, "idle")
  /\ writer' = writer \/ (writer = p /\ writer' = NoProcess)
  /\ abandoned' = abandoned \cup ({retained[p]} \ {0})
  /\ Goto(p, "idle") /\ Forget(p)
  /\ UNCHANGED <<history, rowVars, copy, paths, altered, outsideVars, imports>>
LEMMA LeavesKeeps ==
  ASSUME ImportInvariant, ImportConstants, NEW p \in Process, Leaves(p)
  PROVE  ImportInvariant'
<1> USE DEF ImportInvariant, ImportTypes, Commands, Leaves, At, Goto, Forget,
        rowVars, fileVars, outsideVars, localVars
<1>1. RowTypes' /\ FileTypes'
  BY SMTT(30) DEF RowTypes, FileTypes, CommandTypes
<1>2. CommandTypes'
  <2>1. NoRequest \in Request /\ NoRequest.source = NoSource
    BY NoRequestIs
  <2> HIDE DEF NoRequest
  <2> QED BY <2>1, SMTT(30) DEF CommandTypes, Places
<1>3. Counted'
  <2>1. Waiting' \subseteq Waiting
    BY DEF Waiting, CommandTypes
  <2> QED BY <2>1, FewerWaiting
<1>4. Writing'
  BY SMTT(30) DEF Writing, Transacting, CommandTypes
<1>5. (Own(p) /\ Digested(p) /\ Found(p))'
  BY SMTT(30) DEF Own, Digested, Found, CommandTypes, Transacting
<1>6. \A q \in Process \ {p} : (Own(q) /\ Digested(q) /\ Found(q))'
  BY OthersStay DEF Local, CommandTypes, Own
<1>7. Rowed'
  BY RowedStays DEF CommandTypes, Own
<1> QED BY <1>1, <1>2, <1>3, <1>4, <1>5, <1>6, <1>7

\* ... as by a death, so by a removal that fails.
LEMMA DieKeeps ==
  ASSUME ImportInvariant, ImportConstants, NEW p \in Process, Die(p)
  PROVE  ImportInvariant'
<1>1. Leaves(p)
  BY DEF Die, Leaves
<1> QED BY <1>1, LeavesKeeps

\* The copy is removed, or left behind.
LEMMA CleanupKeeps ==
  ASSUME ImportInvariant, ImportConstants, NEW p \in Process, Cleanup(p)
  PROVE  ImportInvariant'
<1>1. CASE Remove(p)
  BY <1>1, RemoveKeeps
<1>2. CASE LeaveCopy(p)
  <2>1. import[p] # "idle"
    BY DEF Cleanup, At
  <2>2. Leaves(p)
    BY <1>2, <2>1 DEF Cleanup, LeaveCopy, Leaves, At
  <2> QED BY <2>2, LeavesKeeps
<1> QED BY <1>1, <1>2 DEF Cleanup


----------------------------------------------------------------------------
\* From outside: an edit touches no row and no copy, and a copy that is
\* altered is noted as such.
LEMMA EditKeeps ==
  ASSUME ImportInvariant, ImportConstants, NEW d \in Document, EditDocument(d)
  PROVE  ImportInvariant'
<1> USE DEF ImportInvariant, ImportTypes, Commands, Rowed, EditDocument, Change,
        rowVars, fileVars, localVars
<1>0. MaxChanges \in Nat
  BY DEF ImportConstants
<1>1. RowTypes' /\ FileTypes' /\ CommandTypes'
  BY <1>0, SMTT(30) DEF RowTypes, FileTypes, CommandTypes, Version, Source
<1>2. Counted'
  BY FewerWaiting DEF Waiting
<1>3. Writing'
  BY DEF Writing, Transacting
<1>4. ASSUME NEW q \in Process PROVE (Own(q) /\ Digested(q) /\ Found(q))'
  BY StillFound, StillDigested DEF Own
<1>5. Rowed'
  BY DEF Unmade, OneDigestPerCopy, OneCopyPerDigest, CopiesStored, NoStrayCopies,
         RevisionsDiffer, Rows
<1> QED BY <1>1, <1>2, <1>3, <1>4, <1>5

\* Only the copy that is noted as altered changes.
LEMMA AlterKeeps ==
  ASSUME ImportInvariant, ImportConstants, NEW path \in Path, AlterCopy(path)
  PROVE  ImportInvariant'
<1> USE DEF ImportInvariant, ImportTypes, Commands, AlterCopy, Change,
        rowVars, fileVars, localVars
<1>0. MaxChanges \in Nat /\ path <= paths
  <2>1. MaxChanges \in Nat /\ path \in Nat
    BY DEF ImportConstants, Path
  <2> QED BY <2>1 DEF Rowed, Unmade, Counted
<1>1. RowTypes' /\ FileTypes' /\ CommandTypes'
  BY <1>0, SMTT(30) DEF RowTypes, FileTypes, CommandTypes, Version, Source
<1>2. Counted'
  BY FewerWaiting DEF Waiting
<1>3. Writing'
  BY DEF Writing, Transacting
<1>4. ASSUME NEW q \in Process PROVE (Own(q) /\ Found(q))'
  BY StillFound DEF Own
<1>5. ASSUME NEW q \in Process PROVE Digested(q)'
  <2>1. retained[q] \in Path \cup {0}
    BY DEF CommandTypes
  <2>2. retained[q] # 0 /\ retained[q] # path => copy'[retained[q]] = copy[retained[q]]
    BY <2>1 DEF FileTypes
  <2> QED BY <2>2 DEF Digested, At, Transacting
<1>6. \A other \in Path \ {path} : copy'[other] = copy[other]
  BY DEF FileTypes
<1>7. Unmade'
  BY <1>0, <1>6 DEF Rowed, Unmade
<1>8. CopiesStored'
  BY <1>6, RowPaths DEF Rowed, CopiesStored, Rows
<1>9. NoStrayCopies'
  BY <1>6 DEF Rowed, NoStrayCopies, Rows
<1>10. OneDigestPerCopy' /\ OneCopyPerDigest' /\ RevisionsDiffer'
  BY DEF Rowed, OneDigestPerCopy, OneCopyPerDigest, RevisionsDiffer, Rows
<1> QED BY <1>1, <1>2, <1>3, <1>4, <1>5, <1>7, <1>8, <1>9, <1>10 DEF Rowed

----------------------------------------------------------------------------
\* Nothing is imported at first.
LEMMA NothingImported ==
  ASSUME ImportConstants, Init
  PROVE  ImportInvariant
<1> USE DEF Init
<1>1. RowTypes /\ FileTypes
  BY DEF RowTypes, FileTypes, ImportConstants
<1>2. CommandTypes
  <2>1. (CHOOSE d \in Document : TRUE) \in Document
    BY DEF ImportConstants
  <2>2. NoRequest \in Request /\ NoRequest.source = NoSource
    BY <2>1 DEF NoRequest, Request
  <2> HIDE DEF NoRequest
  <2> QED BY <2>2 DEF CommandTypes, Places
<1>3. Counted
  <2>1. Waiting = {}
    BY DEF Waiting
  <2> QED BY <2>1, FS_EmptySet DEF Counted, ImportConstants
<1>4. Commands
  BY DEF Commands, Writing, Transacting, Own, Digested, Found, At
<1>5. Rowed
  BY DEF Rowed, Unmade, OneDigestPerCopy, OneCopyPerDigest, CopiesStored,
         NoStrayCopies, RevisionsDiffer, Rows
<1> QED BY <1>1, <1>2, <1>3, <1>4, <1>5 DEF ImportInvariant, ImportTypes

\* A command of another kind may take the lock, or give it away, beside the
\* imports, but takes it from none of them.
LEMMA ImportBeside ==
  ASSUME ImportInvariant,
         UNCHANGED <<rowVars, fileVars, outsideVars, import, localVars, imports>>,
         \A q \in Process : import[q] # "idle" /\ writer = q => writer' = q
  PROVE  ImportInvariant'
<1> USE DEF ImportInvariant, ImportTypes, Commands, rowVars, fileVars,
        outsideVars, localVars
<1>1. RowTypes' /\ FileTypes' /\ CommandTypes'
  BY DEF RowTypes, FileTypes, CommandTypes
<1>2. Counted'
  BY FewerWaiting DEF Waiting
<1>3. Writing'
  BY DEF Writing, Transacting
<1>4. ASSUME NEW q \in Process PROVE (Own(q) /\ Digested(q) /\ Found(q))'
  BY StillFound, StillDigested DEF Own
<1>5. Rowed'
  BY DEF Rowed, Unmade, OneDigestPerCopy, OneCopyPerDigest, CopiesStored, NoStrayCopies,
         RevisionsDiffer, Rows
<1> QED BY <1>1, <1>2, <1>3, <1>4, <1>5

\* An import takes the lock from nobody, and its failures are counted.
LEMMA ImportLocks ==
  ASSUME ImportInvariant, ImportConstants, faults \in 0..MaxFaults, NEW p \in Process, ImportStep(p)
  PROVE  /\ writer' \in {writer, p, NoProcess}
         /\ writer' = writer \/ writer \in {p, NoProcess}
         /\ faults' \in 0..MaxFaults
<1>0. MaxFaults \in Nat
  BY DEF ImportConstants
<1>1. Transacting(p) => writer = p
  BY DEF ImportInvariant, Commands, Writing
<1>2. CASE StartImport(p) \/ Stage(p) \/ Digest(p) \/ Repair(p) \/ Retain(p)
  BY <1>0, <1>2 DEF StartImport, Stage, Digest, Repair, Retain
<1>3. CASE Begin(p)
  BY <1>3 DEF Begin
<1>4. CASE Unchanged(p) \/ Insert(p)
  BY <1>1, <1>4 DEF Unchanged, Insert, Transacting, At
<1>5. CASE Fail(p) \/ Die(p)
  BY <1>0, <1>5 DEF Fail, Die
<1>6. CASE Cleanup(p)
  BY <1>0, <1>6 DEF Cleanup, Remove, LeaveCopy
<1> QED BY <1>2, <1>3, <1>4, <1>5, <1>6 DEF ImportStep

\* Every step of an import, and every change from outside, keeps the invariant.
LEMMA ImportKeeps ==
  ASSUME ImportInvariant, ImportConstants, Next
  PROVE  ImportInvariant'
<1>1. ASSUME NEW p \in Process, ImportStep(p) PROVE ImportInvariant'
  BY <1>1, StartImportKeeps, StageKeeps, DigestKeeps, BeginKeeps, RepairKeeps,
     UnchangedKeeps, RetainKeeps, InsertKeeps, FailKeeps, CleanupKeeps, DieKeeps
     DEF ImportStep
<1>2. CASE Outside
  BY <1>2, EditKeeps, AlterKeeps DEF Outside
<1> QED BY <1>1, <1>2 DEF Next

\* The types that the run checks follow.
LEMMA ImportTyped ==
  ASSUME ImportInvariant, ImportConstants
  PROVE  ImportTypeOK
<1> USE DEF ImportInvariant, ImportTypes
<1>1. \A s \in DOMAIN sources : sources[s] \in {Format[d] : d \in Document}
  BY DEF RowTypes, Kind
<1>2. \A i \in Rows : versions[i] \in [source : DOMAIN sources, bytes : Bytes,
                                        path : Path]
  <2> TAKE i \in Rows
  <2>1. versions[i] \in Version /\ versions[i].source \in DOMAIN sources
    BY DEF RowTypes, Rows
  <2> QED BY <2>1 DEF Version
<1>3. paths \in 0..MaxImports
  <2>1. Cardinality(Waiting) \in Nat /\ MaxImports \in Nat
    BY FS_CardinalityType DEF Counted, ImportConstants
  <2> HIDE DEF Waiting
  <2> QED BY <2>1 DEF Counted
<1>4. imports \in 0..MaxImports
  BY DEF Counted
<1> QED BY <1>1, <1>2, <1>3, <1>4 DEF ImportTypeOK, FileTypes, CommandTypes, Places

\* The bytes of an import that ends in success are those of the latest version
\* of its source: it found them there under the lock, or has just added them.
LEMMA ImportEndsLatest ==
  ASSUME ImportInvariant, ImportConstants, NEW p \in Process,
         Unchanged(p) \/ Insert(p)
  PROVE  LET s == IF request[p].source = NoSource
                  THEN Len(sources') ELSE request[p].source
             rows == {i \in DOMAIN versions' : versions'[i].source = s}
         IN versions'[Latest(rows)].bytes = digest[p]
<1> DEFINE s == IF request[p].source = NoSource
                THEN Len(sources') ELSE request[p].source
           rows == {i \in DOMAIN versions' : versions'[i].source = s}
<1>0. RowTypes /\ DOMAIN versions = 1..Len(versions) /\ Len(versions) \in Nat
  BY DEF ImportInvariant, ImportTypes, RowTypes
<1>1. CASE Unchanged(p)
  <2>1. versions' = versions /\ sources' = sources /\ UpToDate(p)
    BY <1>1 DEF Unchanged, rowVars
  <2>2. request[p].source # NoSource
    <3>1. PICK i \in DOMAIN versions : versions[i].source = request[p].source
      BY <2>1 DEF UpToDate, RowsOf, Rows
    <3>2. versions[i] \in Version
      BY <1>0, <3>1 DEF RowTypes
    <3> QED BY <3>1, <3>2 DEF Version, ImportConstants
  <2>3. rows = RowsOf(request[p].source)
    BY <2>1, <2>2 DEF RowsOf, Rows
  <2> QED BY <2>1, <2>3 DEF UpToDate
<1>2. CASE Insert(p)
  <2> DEFINE n == Len(versions)
             row == [source |-> s, bytes |-> digest[p], path |-> StoredPath(p)]
  <2>1. versions' = Append(versions, row) /\ versions \in Seq(Version)
    BY <1>0, <1>2 DEF Insert, RowTypes
  <2>2. /\ Len(versions') = n + 1 /\ versions'[n + 1] = row
        /\ DOMAIN versions' = 1..(n + 1)
    <3> HIDE DEF row
    <3> QED BY <1>0, <2>1
  <2>3. n + 1 \in rows /\ rows \in SUBSET (1..(n + 1)) /\ n + 1 \in Nat
    BY <1>0, <2>2
  <2>4. Latest(rows) \in rows /\ n + 1 <= Latest(rows)
    <3> HIDE DEF rows
    <3> QED BY <2>3, LatestIs
  <2>5. Latest(rows) = n + 1
    <3>1. Latest(rows) \in 1..(n + 1)
      BY <2>3, <2>4
    <3> HIDE DEF rows
    <3> QED BY <1>0, <2>4, <3>1
  <2>6. versions'[Latest(rows)].bytes = digest[p]
    <3> HIDE DEF rows
    <3> QED BY <2>2, <2>5
  <2> QED BY <2>6
<1> QED BY <1>1, <1>2
=============================================================================
