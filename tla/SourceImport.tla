---------------------------- MODULE SourceImport ----------------------------
(***************************************************************************)
(* `kc import`: documents become sources with versions, and their bytes    *)
(* are retained under sources/, once per digest.  Several imports may run  *)
(* at the same time; they may fail or die anywhere, the documents may be   *)
(* edited while they are read, and somebody may remove or change a         *)
(* retained copy.                                                          *)
(*                                                                         *)
(* The rows are written in one transaction; the files are renamed and      *)
(* removed around it.                                                      *)
(***************************************************************************)
EXTENDS Integers, Sequences

CONSTANTS
  Process,      \* commands that may run at the same time
  Document,     \* files that people import
  Format,       \* [Document -> the source kind of its extension]
  Bytes,        \* contents; two contents have two digests
  Original,     \* [Document -> its bytes at first]
  MaxImports,   \* bound on the imports that start
  MaxVersions,  \* bound on the versions
  MaxChanges,   \* bound on edits, removals and alterations from outside
  MaxFaults,    \* bound on deaths and I/O errors
  Identities,   \* the migration that made source identities: 3
  NoProcess, NoBytes, NoSource

Source == 1..MaxVersions    \* in the order they are inserted
Path == 1..MaxImports       \* every import may make one path

\* What is assumed of the constants; Project, which instantiates this module,
\* assumes it.
ImportConstants ==
  /\ {MaxImports, MaxVersions, MaxChanges, MaxFaults, Identities} \subseteq Nat
  /\ Document # {} /\ DOMAIN Format = Document /\ Original \in [Document -> Bytes]
  /\ NoProcess \notin Process /\ NoBytes \notin Bytes
  /\ NoSource \notin Source

VARIABLES
  history,    \* the versions in schema_migrations
  writer,     \* the process in a write transaction
  document,   \* [Document -> its bytes now]
  sources,    \* the kinds of the sources, in order of insertion
  versions,   \* source_versions in order of rowid: source, bytes, path
  copy,       \* [Path -> the bytes retained there, or NoBytes]
  import,     \* [Process -> the step of an import it is about to take]
  request,    \* [Process -> the document, and the source to revise if any]
  staged,     \* [Process -> its private copy in cache/import-staging]
  digest,     \* [Process -> the digest it computed]
  shared,     \* [Process -> the path of an existing copy of these bytes, or 0]
  retained,   \* [Process -> the path it made itself, or 0]
  paths,      \* paths made so far
  imports,    \* imports started so far
  changes,    \* changes from outside so far
  faults,     \* faults so far
  altered,    \* history: paths changed from outside and not repaired
  abandoned   \* history: paths a death or an I/O error left behind

rowVars == <<sources, versions>>
fileVars == <<copy, paths, altered, abandoned>>
outsideVars == <<document, changes>>
localVars == <<request, staged, digest, shared, retained>>
vars == <<history, writer, rowVars, fileVars, outsideVars, import, localVars,
          imports, faults>>

Request == [document : Document, source : Source \cup {NoSource}]
NoRequest == [document |-> CHOOSE d \in Document : TRUE, source |-> NoSource]

Init ==
  /\ writer = NoProcess
  /\ document = Original
  /\ sources = <<>> /\ versions = <<>>
  /\ copy = [path \in Path |-> NoBytes] /\ paths = 0
  /\ import = [p \in Process |-> "idle"]
  /\ request = [p \in Process |-> NoRequest]
  /\ staged = [p \in Process |-> NoBytes]
  /\ digest = [p \in Process |-> NoBytes]
  /\ shared = [p \in Process |-> 0]
  /\ retained = [p \in Process |-> 0]
  /\ imports = 0 /\ changes = 0 /\ faults = 0
  /\ altered = {} /\ abandoned = {}

At(p, here) == import[p] = here
Goto(p, there) == import' = [import EXCEPT ![p] = there]

----------------------------------------------------------------------------
\* Before the transaction: a private copy and its digest.

\* The importer's constructor wants migration 003.  A revision names a
\* source; otherwise the document becomes a source of its own.
StartImport(p) ==
  /\ At(p, "idle")
  /\ imports < MaxImports
  /\ Identities \in history
  /\ imports' = imports + 1
  /\ \E r \in Request :
       /\ r.source # NoSource => r.source \in DOMAIN sources
       /\ request' = [request EXCEPT ![p] = r]
  /\ Goto(p, "stage")
  /\ UNCHANGED <<history, writer, rowVars, fileVars, outsideVars, staged,
                 digest, shared, retained, faults>>

Stage(p) ==
  /\ At(p, "stage")
  /\ staged' = [staged EXCEPT ![p] = document[request[p].document]]
  /\ Goto(p, "digest")
  /\ UNCHANGED <<history, writer, rowVars, fileVars, outsideVars, request,
                 digest, shared, retained, imports, faults>>

\* The digest is that of the private copy, not of the document, which may have
\* changed since.
Digest(p) ==
  /\ At(p, "digest")
  /\ digest' = [digest EXCEPT ![p] = staged[p]]
  /\ Goto(p, "begin")
  /\ UNCHANGED <<history, writer, rowVars, fileVars, outsideVars, request,
                 staged, shared, retained, imports, faults>>

----------------------------------------------------------------------------
\* Under the write lock.

Rows == DOMAIN versions
RowsOf(s) == {i \in Rows : versions[i].source = s}

\* Mutant: only copies of the source that is revised are reused.
CopiesOfSource(p) ==
  {i \in RowsOf(request[p].source) : versions[i].bytes = digest[p]}

\* find_version_by_hash looks at all sources.
Copies(p) == {i \in Rows : versions[i].bytes = digest[p]}

Latest(rows) == CHOOSE i \in rows : \A j \in rows : j <= i

Revisable(p) ==
  LET s == request[p].source IN
  s # NoSource => sources[s] = Format[request[p].document]

\* A copy that is there must have the bytes its rows say.
CopyMatches(path, bytes) == copy[path] \in {bytes, NoBytes}

\* BEGIN IMMEDIATE, find_source, find_version_by_hash, and the look at the
\* existing copy.
Begin(p) ==
  /\ At(p, "begin")
  /\ writer = NoProcess
  /\ Revisable(p)
  /\ LET path == IF Copies(p) = {} THEN 0
                 ELSE versions[Latest(Copies(p))].path IN
       /\ path # 0 => CopyMatches(path, digest[p])
       /\ shared' = [shared EXCEPT ![p] = path]
       /\ Goto(p, IF path # 0 /\ copy[path] = NoBytes THEN "repair" ELSE "decide")
  /\ writer' = p
  /\ UNCHANGED <<history, rowVars, fileVars, outsideVars, request, staged,
                 digest, retained, imports, faults>>

\* Put in place of a copy that is missing.
Repair(p) ==
  /\ At(p, "repair")
  /\ copy' = [copy EXCEPT ![shared[p]] = staged[p]]
  /\ altered' = altered \ {shared[p]}
  /\ staged' = [staged EXCEPT ![p] = NoBytes]
  /\ Goto(p, "decide")
  /\ UNCHANGED <<history, writer, rowVars, paths, abandoned, outsideVars,
                 request, digest, shared, retained, imports, faults>>

\* Mutant: any earlier version with these bytes will do.
ImportedBefore(p) ==
  \E i \in RowsOf(request[p].source) : versions[i].bytes = digest[p]
\* Mutant: the bytes are compared with the version imported last of all.
NewestOfAll(p) ==
  RowsOf(request[p].source) # {} /\ versions[Latest(Rows)].bytes = digest[p]

\* The bytes are those of the latest version of the source.
UpToDate(p) ==
  LET rows == RowsOf(request[p].source) IN
  rows # {} /\ versions[Latest(rows)].bytes = digest[p]

Forget(p) ==
  /\ request' = [request EXCEPT ![p] = NoRequest]
  /\ staged' = [staged EXCEPT ![p] = NoBytes]
  /\ digest' = [digest EXCEPT ![p] = NoBytes]
  /\ shared' = [shared EXCEPT ![p] = 0]
  /\ retained' = [retained EXCEPT ![p] = 0]

\* COMMIT without a new row.
Unchanged(p) ==
  /\ At(p, "decide")
  /\ UpToDate(p)
  /\ writer' = NoProcess
  /\ Goto(p, "idle")
  /\ Forget(p)
  /\ UNCHANGED <<history, rowVars, fileVars, outsideVars, imports, faults>>

\* The staged file becomes the copy, at a path nobody has used.
Retain(p) ==
  /\ At(p, "decide")
  /\ ~UpToDate(p)
  /\ IF shared[p] # 0
     THEN UNCHANGED <<copy, paths, staged, retained>>
     ELSE /\ paths' = paths + 1
          /\ copy' = [copy EXCEPT ![paths'] = staged[p]]
          /\ staged' = [staged EXCEPT ![p] = NoBytes]
          /\ retained' = [retained EXCEPT ![p] = paths']
  /\ Goto(p, "insert")
  /\ UNCHANGED <<history, writer, rowVars, altered, abandoned, outsideVars,
                 request, digest, shared, imports, faults>>

\* Mutant: the row always names a path of this import's own.
NewPath(p) == retained[p]

StoredPath(p) == IF shared[p] # 0 THEN shared[p] ELSE retained[p]

\* insert_source, insert_version, COMMIT.
Insert(p) ==
  LET s == request[p].source IN
  /\ At(p, "insert")
  /\ Len(versions) < MaxVersions
  /\ sources' = IF s = NoSource
                THEN Append(sources, Format[request[p].document]) ELSE sources
  /\ versions' = Append(versions,
       [source |-> IF s = NoSource THEN Len(sources') ELSE s,
        bytes  |-> digest[p],
        path   |-> StoredPath(p)])
  /\ writer' = NoProcess
  /\ Goto(p, "idle")
  /\ Forget(p)
  /\ UNCHANGED <<history, fileVars, outsideVars, imports, faults>>

----------------------------------------------------------------------------
\* Failures.

\* Mutant: the path of its row, though older versions may share it.
UsedPath(p) == StoredPath(p)

\* What a failed import removes after its ROLLBACK.
OwnPath(p) == retained[p]

Refused(p) ==
  /\ At(p, "begin")
  /\ writer = NoProcess
  /\ \/ ~Revisable(p)
     \/ Copies(p) # {}
        /\ ~CopyMatches(versions[Latest(Copies(p))].path, digest[p])

\* An exception: ROLLBACK gives the lock away before the file is removed.
Fail(p) ==
  /\ ~At(p, "idle") /\ ~At(p, "cleanup")
  /\ \/ Refused(p) /\ UNCHANGED faults
     \/ faults < MaxFaults /\ faults' = faults + 1
  /\ writer' = IF writer = p THEN NoProcess ELSE writer
  /\ Goto(p, "cleanup")
  /\ UNCHANGED <<history, rowVars, fileVars, outsideVars, localVars, imports>>

Remove(p) ==
  /\ copy' = IF OwnPath(p) = 0 THEN copy
             ELSE [copy EXCEPT ![OwnPath(p)] = NoBytes]
  /\ UNCHANGED <<abandoned, faults>>

\* The error of a removal is ignored, and the copy stays where it is.
LeaveCopy(p) ==
  /\ faults < MaxFaults
  /\ faults' = faults + 1
  /\ abandoned' = abandoned \cup ({retained[p]} \ {0})
  /\ UNCHANGED copy

Cleanup(p) ==
  /\ At(p, "cleanup")
  /\ Remove(p) \/ LeaveCopy(p)
  /\ Goto(p, "idle")
  /\ Forget(p)
  /\ UNCHANGED <<history, writer, rowVars, paths, altered, outsideVars, imports>>

\* The process dies; what it staged or retained stays where it is.
Die(p) ==
  /\ ~At(p, "idle")
  /\ faults < MaxFaults
  /\ faults' = faults + 1
  /\ writer' = IF writer = p THEN NoProcess ELSE writer
  /\ abandoned' = abandoned \cup ({retained[p]} \ {0})
  /\ Goto(p, "idle")
  /\ Forget(p)
  /\ UNCHANGED <<history, rowVars, copy, paths, altered, outsideVars, imports>>

----------------------------------------------------------------------------
\* From outside.

Change == changes < MaxChanges /\ changes' = changes + 1

EditDocument(d) ==
  /\ Change
  /\ \E bytes \in Bytes \ {document[d]} :
       document' = [document EXCEPT ![d] = bytes]
  /\ UNCHANGED <<history, writer, rowVars, fileVars, import, localVars,
                 imports, faults>>

\* A retained copy is read-only, which stops nobody.
AlterCopy(path) ==
  /\ Change
  /\ copy[path] # NoBytes
  /\ \E bytes \in (Bytes \cup {NoBytes}) \ {copy[path]} :
       copy' = [copy EXCEPT ![path] = bytes]
  /\ altered' = altered \cup {path}
  /\ UNCHANGED <<history, writer, rowVars, paths, abandoned, document, import,
                 localVars, imports, faults>>

Outside ==
  \/ \E d \in Document : EditDocument(d)
  \/ \E path \in Path : AlterCopy(path)

----------------------------------------------------------------------------
ImportStep(p) ==
  \/ StartImport(p) \/ Stage(p) \/ Digest(p) \/ Begin(p) \/ Repair(p)
  \/ Unchanged(p) \/ Retain(p) \/ Insert(p) \/ Fail(p) \/ Cleanup(p) \/ Die(p)

Next == (\E p \in Process : ImportStep(p)) \/ Outside

----------------------------------------------------------------------------
ImportTypeOK ==
  /\ document \in [Document -> Bytes]
  /\ \A s \in DOMAIN sources : sources[s] \in {Format[d] : d \in Document}
  /\ \A i \in Rows : versions[i] \in [source : DOMAIN sources, bytes : Bytes,
                                       path : Path]
  /\ copy \in [Path -> Bytes \cup {NoBytes}]
  /\ import \in [Process -> {"idle", "stage", "digest", "begin", "repair",
                             "decide", "insert", "cleanup"}]
  /\ request \in [Process -> Request]
  /\ staged \in [Process -> Bytes \cup {NoBytes}]
  /\ digest \in [Process -> Bytes \cup {NoBytes}]
  /\ shared \in [Process -> Path \cup {0}]
  /\ retained \in [Process -> Path \cup {0}]
  /\ paths \in 0..MaxImports /\ imports \in 0..MaxImports
  /\ changes \in 0..MaxChanges
  /\ altered \subseteq Path /\ abandoned \subseteq Path

\* However many imports of the same bytes overlap, for the same source or for
\* several, they are retained once (source_importer.cpp:414-455).
OneCopyPerDigest ==
  \A i, j \in Rows :
    versions[i].bytes = versions[j].bytes => versions[i].path = versions[j].path

\* The bytes a version records are at its path, unless somebody changed that
\* copy: not the edit of a document while it is read, not the failure or death
\* of another import that shares the copy (source_importer.cpp:391-405, 450-454
\* and 521-535).
CopiesStored ==
  \A i \in Rows :
    versions[i].path \notin altered => copy[versions[i].path] = versions[i].bytes

\* A copy without a version belongs to an import that is still running, or
\* was left by one that died: an import that fails removes what it retained,
\* though it no longer holds the lock (source_importer.cpp:521-535).
NoStrayCopies ==
  \A path \in Path :
    copy[path] # NoBytes =>
      \/ \E i \in Rows : versions[i].path = path
      \/ path \in abandoned
      \/ \E p \in Process : retained[p] = path

\* The retained files and the rows that name them agree.
CopiesMatch == CopiesStored /\ NoStrayCopies

\* Importing the latest bytes again adds nothing: two versions of a source in
\* a row never have the same bytes, whatever two imports do at the same time
\* (source_importer.cpp:459-468).
RevisionsDiffer ==
  \A i, j \in Rows :
    /\ i < j
    /\ versions[i].source = versions[j].source
    /\ \A k \in (i + 1)..(j - 1) : versions[k].source # versions[i].source
    => versions[i].bytes # versions[j].bytes

\* When an import ends in success, its bytes are the latest version of its
\* source: bytes that an older version had are imported again
\* (source_importer.cpp:459-470).
ImportedIsLatest ==
  [][\A p \in Process :
       Unchanged(p) \/ Insert(p) =>
         LET s == IF request[p].source = NoSource
                  THEN Len(sources') ELSE request[p].source
             rows == {i \in DOMAIN versions' : versions'[i].source = s}
         IN versions'[Latest(rows)].bytes = digest[p]]_vars
=============================================================================
