------------------------- MODULE ProjectSetup_proofs -------------------------
(***************************************************************************)
(* The migrations of ProjectSetup, for every number of processes, inits,   *)
(* releases and faults: no script runs twice on one database.              *)
(*                                                                         *)
(* AppliedOnce alone is not inductive: a transaction must draft from the   *)
(* committed state (Drafted), and it does because whoever is inside one is *)
(* the writer (Writing).                                                   *)
(***************************************************************************)
EXTENDS ProjectSetup, TLAPS

InTransaction(p) == init[p] \in {"script", "record"}

Types ==
  /\ effects \in [Migration -> Nat]
  /\ DOMAIN init = Process /\ DOMAIN release = Process
  /\ DOMAIN applied = Process

\* A process inside a migration's transaction holds the write lock.
Writing == \A p \in Process : InTransaction(p) => writer = p

\* The script that has run, and nothing else, sets the draft apart from what
\* is committed.
Fresh == draft = [effects |-> effects, history |-> history]
Scripted(p) ==
  draft = [effects |-> [effects EXCEPT ![NextMigration(p)] = @ + 1],
           history |-> history]
Drafted ==
  \A p \in Process :
    /\ At(p, "script") => Fresh
    /\ At(p, "record") => Scripted(p)

\* The inductive invariant.
SetupInvariant == Types /\ Writing /\ Drafted /\ AppliedOnce

\* It holds of a new directory and of the project of an older release.
LEMMA Initially == Init => SetupInvariant
<1> SUFFICES ASSUME Init PROVE SetupInvariant
  OBVIOUS
<1> USE DEF Init
<1>1. Types
  <2> PICK n \in {0} \cup {r - 1 : r \in Release} :
         effects = [v \in Migration |-> IF v <= n THEN 1 ELSE 0]
    OBVIOUS
  <2> QED BY DEF Types
<1>2. \A p \in Process : init[p] = "idle"
  OBVIOUS
<1>3. Writing /\ Drafted
  BY <1>2 DEF Writing, InTransaction, Drafted, At
<1>4. AppliedOnce
  <2> PICK n \in {0} \cup {r - 1 : r \in Release} :
         /\ history = 1..n
         /\ effects = [v \in Migration |-> IF v <= n THEN 1 ELSE 0]
    OBVIOUS
  <2>1. n \in Int
    OBVIOUS
  <2> QED BY <2>1 DEF AppliedOnce, Migration
<1> QED BY <1>1, <1>3, <1>4 DEF SetupInvariant

\* What a step of p leaves alone of a process q that is inside a transaction.
LEMMA Others ==
  ASSUME SetupInvariant, NEW p \in Process, NEW q \in Process, q # p,
         UNCHANGED <<effects, history, draft>>,
         init'[q] = init[q], release'[q] = release[q], applied'[q] = applied[q]
  PROVE  /\ At(q, "script")' => Fresh'
         /\ At(q, "record")' => Scripted(q)'
<1>1. Pending(q)' = Pending(q)
  BY DEF Pending
<1>2. NextMigration(q)' = NextMigration(q)
  BY <1>1 DEF NextMigration
<1> QED BY <1>2 DEF SetupInvariant, Drafted, At, Fresh, Scripted

\* Every process but p stays where it is.
OnlyMoves(p) ==
  \A q \in Process \ {p} :
    init'[q] = init[q] /\ release'[q] = release[q] /\ applied'[q] = applied[q]

\* A step that ends outside a transaction and publishes nothing: it gives
\* back the lock, or leaves lock and draft alone.
LEMMA Leaves ==
  ASSUME SetupInvariant, NEW p \in Process, OnlyMoves(p), Types',
         ~InTransaction(p)', UNCHANGED <<effects, history>>,
         writer = p \/ UNCHANGED <<draft, writer>>
  PROVE  SetupInvariant'
<1>1. ASSUME NEW q \in Process, InTransaction(q)'
      PROVE  q # p /\ InTransaction(q) /\ UNCHANGED <<draft, writer>>
  BY <1>1 DEF SetupInvariant, Writing, InTransaction, OnlyMoves
<1>2. Writing'
  <2> SUFFICES ASSUME NEW q \in Process, InTransaction(q)' PROVE writer' = q
    BY DEF Writing
  <2> QED BY <1>1 DEF SetupInvariant, Writing
<1>3. Drafted'
  <2> SUFFICES ASSUME NEW q \in Process, InTransaction(q)'
               PROVE  /\ At(q, "script")' => Fresh'
                      /\ At(q, "record")' => Scripted(q)'
    BY DEF Drafted, InTransaction, At
  <2>1. q # p /\ UNCHANGED <<draft, writer>>
    BY <1>1
  <2> QED BY <2>1, Others DEF OnlyMoves
<1>4. AppliedOnce'
  BY DEF SetupInvariant, AppliedOnce, Migration
<1> QED BY <1>2, <1>3, <1>4 DEF SetupInvariant

\* A step inside a transaction: p is the writer, so nobody else is in one.
LEMMA Alone ==
  ASSUME SetupInvariant, SetupConstants, NEW p \in Process, OnlyMoves(p),
         \/ InTransaction(p)
         \/ writer = NoProcess
  PROVE  \A q \in Process \ {p} : ~InTransaction(q)'
BY DEF SetupInvariant, SetupConstants, Writing, InTransaction, OnlyMoves

\* Every step keeps the invariant.
LEMMA StepKeeps ==
  ASSUME SetupInvariant, SetupConstants, [Next]_vars
  PROVE  SetupInvariant'
<1>1. CASE UNCHANGED vars
  <2> USE <1>1 DEF vars, projectVars, databaseVars, localVars
  <2>1. \A p \in Process : NextMigration(p)' = NextMigration(p)
    BY DEF NextMigration, Pending
  <2>2. Drafted'
    BY <2>1 DEF SetupInvariant, Drafted, At, Fresh, Scripted
  <2> QED BY <2>2 DEF SetupInvariant, Types, Writing, InTransaction,
                      AppliedOnce, Migration
<1>2. ASSUME NEW p \in Process, InitStep(p) PROVE SetupInvariant'
  <2> USE DEF projectVars, databaseVars, localVars
  <2>0. Types
    BY DEF SetupInvariant
  <2>1. CASE StartInit(p)
    <3>1. OnlyMoves(p) /\ Types' /\ ~InTransaction(p)'
      BY <2>0, <2>1 DEF StartInit, Goto, OnlyMoves, Types, InTransaction, Migration
    <3> QED BY <2>1, <3>1, Leaves DEF StartInit
  <2>2. CASE CreateDirectories(p)
    <3>1. OnlyMoves(p) /\ Types' /\ ~InTransaction(p)'
      BY <2>0, <2>2 DEF CreateDirectories, Goto, OnlyMoves, Types,
                        InTransaction, Migration
    <3> QED BY <2>2, <3>1, Leaves DEF CreateDirectories
  <2>3. CASE WriteConfig(p)
    <3>1. OnlyMoves(p) /\ Types' /\ ~InTransaction(p)'
      BY <2>0, <2>3 DEF WriteConfig, Goto, OnlyMoves, Types, InTransaction,
                        Migration
    <3> QED BY <2>3, <3>1, Leaves DEF WriteConfig
  <2>4. CASE ReadApplied(p)
    <3>1. OnlyMoves(p) /\ Types' /\ ~InTransaction(p)'
      BY <2>0, <2>4 DEF ReadApplied, Goto, OnlyMoves, Types, InTransaction,
                        Migration
    <3> QED BY <2>4, <3>1, Leaves DEF ReadApplied
  <2>5. CASE BeginMigration(p)
    <3>1. OnlyMoves(p) /\ Types' /\ At(p, "script")' /\ Fresh'
      BY <2>0, <2>5 DEF BeginMigration, Goto, At, OnlyMoves, Types, Fresh,
                        Migration
    <3>2. \A q \in Process \ {p} : ~InTransaction(q)'
      BY <2>5, <3>1, Alone DEF BeginMigration
    <3>3. Writing' /\ Drafted'
      BY <2>5, <3>1, <3>2 DEF BeginMigration, Writing, Drafted, InTransaction, At
    <3>4. AppliedOnce'
      BY <2>5 DEF BeginMigration, SetupInvariant, AppliedOnce, Migration
    <3> QED BY <3>1, <3>3, <3>4 DEF SetupInvariant
  <2>6. CASE RunScript(p)
    <3>1. OnlyMoves(p) /\ Types' /\ At(p, "record")'
      BY <2>0, <2>6 DEF RunScript, Goto, At, OnlyMoves, Types, Migration
    <3>2. InTransaction(p) /\ writer = p /\ Fresh
      BY <2>6 DEF RunScript, SetupInvariant, Writing, Drafted, InTransaction, At
    <3>3. \A q \in Process \ {p} : ~InTransaction(q)'
      BY <3>1, <3>2, Alone
    <3>4. NextMigration(p)' = NextMigration(p)
      BY <2>6 DEF RunScript, NextMigration, Pending
    <3>5. Scripted(p)'
      BY <2>6, <3>2, <3>4 DEF RunScript, Fresh, Scripted
    <3>6. Writing' /\ Drafted'
      BY <2>6, <3>1, <3>2, <3>3, <3>5
         DEF RunScript, Writing, Drafted, InTransaction, At
    <3>7. AppliedOnce'
      BY <2>6 DEF RunScript, SetupInvariant, AppliedOnce, Migration
    <3> QED BY <3>1, <3>6, <3>7 DEF SetupInvariant
  <2>7. CASE CommitMigration(p)
    <3> DEFINE v == NextMigration(p)
    <3>1. InTransaction(p) /\ Scripted(p) /\ v \notin history
      BY <2>7 DEF CommitMigration, SetupInvariant, Drafted, InTransaction, At,
                  Scripted, RecordFails
    <3>2. /\ effects' = [effects EXCEPT ![v] = @ + 1]
          /\ history' = history \cup {v}
      BY <2>7, <3>1 DEF CommitMigration, Scripted
    <3>3. AppliedOnce'
      <4> HIDE DEF v
      <4> SUFFICES ASSUME NEW w \in Migration
                   PROVE  effects'[w] = IF w \in history' THEN 1 ELSE 0
        BY DEF AppliedOnce, Migration
      <4>1. effects[w] = IF w \in history THEN 1 ELSE 0
        BY DEF SetupInvariant, AppliedOnce
      <4>2. effects'[w] = IF w = v THEN effects[w] + 1 ELSE effects[w]
        BY <2>0, <3>2 DEF Types
      <4> QED BY <3>1, <3>2, <4>1, <4>2
    <3>4. OnlyMoves(p) /\ ~InTransaction(p)'
      BY <2>0, <2>7 DEF CommitMigration, Goto, OnlyMoves, Types, InTransaction
    <3>5. Types'
      <4> HIDE DEF v
      <4>1. \A w \in Migration :
              effects'[w] = IF w = v THEN effects[w] + 1 ELSE effects[w]
        BY <2>0, <3>2 DEF Types
      <4>2. effects \in [Migration -> Nat] /\ DOMAIN effects' = Migration
        BY <2>0, <3>2 DEF Types
      <4>3. \A w \in Migration : effects'[w] \in Nat
        BY <4>1, <4>2
      <4>4. effects' = [w \in Migration |-> effects'[w]]
        BY <4>2, <3>2
      <4>5. effects' \in [Migration -> Nat]
        BY <4>3, <4>4
      <4> QED BY <2>0, <2>7, <4>5 DEF CommitMigration, Goto, Types, Migration
    <3>6. \A q \in Process \ {p} : ~InTransaction(q)'
      BY <3>1, <3>4, Alone
    <3>7. Writing' /\ Drafted'
      BY <3>4, <3>6 DEF Writing, Drafted, InTransaction, At
    <3> QED BY <3>3, <3>5, <3>7 DEF SetupInvariant
  <2>8. CASE FinishInit(p)
    <3>1. OnlyMoves(p) /\ Types' /\ ~InTransaction(p)'
      BY <2>0, <2>8 DEF FinishInit, End, Goto, OnlyMoves, Types, InTransaction,
                        Migration
    <3> QED BY <2>8, <3>1, Leaves DEF FinishInit
  <2>9. CASE MigrationFails(p) \/ InitFault(p)
    <3>1. Abort(p)
      BY <2>9 DEF MigrationFails, InitFault
    <3>2. OnlyMoves(p) /\ Types' /\ ~InTransaction(p)'
      BY <2>0, <3>1 DEF Abort, End, Goto, OnlyMoves, Types, InTransaction,
                        Migration
    <3> QED BY <3>1, <3>2, Leaves DEF Abort
  <2> QED BY <1>2, <2>1, <2>2, <2>3, <2>4, <2>5, <2>6, <2>7, <2>8, <2>9
          DEF InitStep
<1> QED BY <1>1, <1>2 DEF Next

\* However many inits of however many releases run at the same time, fail or
\* die, the committed effects of a migration and its history row are never
\* apart and no script runs twice (migration_runner.cpp:132-157), under what
\* Project assumes of the constants.
THEOREM MigratedOnce == ASSUME SetupConstants PROVE Spec => []AppliedOnce
<1>1. Init => SetupInvariant
  BY Initially
<1>2. SetupInvariant /\ [Next]_vars => SetupInvariant'
  BY StepKeeps
<1>3. SetupInvariant => AppliedOnce
  BY DEF SetupInvariant
<1> QED BY <1>1, <1>2, <1>3, PTL DEF Spec

----------------------------------------------------------------------------
(***************************************************************************)
(* What an init reports.  The history is a prefix because every list an    *)
(* init read is a prefix of it (Prefixes): the least migration that is     *)
(* missing from the list is the next of the history, or there already.     *)
(* The configuration names created directories as soon as some init has    *)
(* opened the database (Configured).                                       *)
(***************************************************************************)
Prefix(S) == \E n \in 0..LastMigration : S = 1..n
Prefixes ==
  /\ Prefix(history)
  /\ \A p \in Process : Prefix(applied[p]) /\ applied[p] \subseteq history
  /\ \A n \in ready : 1..n \subseteq history
  /\ \A p \in Process : InTransaction(p) => Pending(p) # {}

Opened(p) == init[p] \in {"open", "migrate", "script", "record"}
Configured ==
  /\ \A p \in Process :
       ~At(p, "idle") => mine[p] \in Vault /\ release[p] \in Release
  /\ \A p \in Process : At(p, "write") => mine[p] \in directories
  /\ \A p \in Process :
       At(p, "directories") => config = mine[p] \/ config \in directories
  /\ history # {} \/ ready # {} \/ (\E p \in Process : Opened(p))
       => config \in directories

\* The inductive invariant of this part.
ReadyInvariant == SetupInvariant /\ SetupTypeOK /\ Prefixes /\ Configured

\* The migration an init takes next is the one after its list.
LEMMA NextIs ==
  ASSUME NEW p, NEW m \in Nat, release[p] \in Nat, applied[p] = 1..m,
         Pending(p) # {}
  PROVE  NextMigration(p) = m + 1 /\ m + 1 <= release[p]
<1>1. Pending(p) = (m + 1)..release[p]
  BY DEF Pending
<1>2. m + 1 \in Pending(p) /\ \A w \in Pending(p) : w \in Int /\ m + 1 <= w
  BY <1>1
<1>3. \A v \in Pending(p) : (\A w \in Pending(p) : v <= w) => v = m + 1
  BY <1>2
<1>4. Least(Pending(p)) = m + 1
  <2> HIDE DEF Pending
  <2> QED BY <1>2, <1>3 DEF Least
<1> QED BY <1>1, <1>4 DEF NextMigration

\* It holds of a new directory and of the project of an older release.
LEMMA ReadyInitially ==
  ASSUME SetupConstants, Init
  PROVE  ReadyInvariant
<1> USE DEF Init, SetupConstants
<1>1. PICK n \in {0} \cup {r - 1 : r \in Release} :
        /\ history = 1..n
        /\ effects = [v \in Migration |-> IF v <= n THEN 1 ELSE 0]
        /\ config \in IF n = 0 THEN {NoVault} ELSE Vault
  OBVIOUS
<1>2. n \in 0..LastMigration
  BY DEF Migration
<1>3. SetupInvariant
  BY Initially
<1>4. SetupTypeOK
  BY <1>1, <1>2 DEF SetupTypeOK, Migration
<1>5. Prefixes
  BY <1>1, <1>2 DEF Prefixes, Prefix, InTransaction
<1>6. Configured
  BY <1>1, <1>2 DEF Configured, Opened, At
<1> QED BY <1>3, <1>4, <1>5, <1>6 DEF ReadyInvariant

\* A step that leaves history and reports alone keeps the prefixes when the
\* list of p is one.
LEMMA PrefixesStay ==
  ASSUME Prefixes, UNCHANGED <<history, ready>>, NEW p \in Process, OnlyMoves(p),
         applied'[p] \in {{}, history, applied[p]}, LastMigration \in Nat,
         InTransaction(p)' => Pending(p)' # {}
  PROVE  Prefixes'
<1>1. Prefix({})
  BY DEF Prefix
<1>2. ASSUME NEW q \in Process PROVE Prefix(applied'[q]) /\ applied'[q] \subseteq history
  BY <1>1 DEF Prefixes, OnlyMoves
<1>3. ASSUME NEW q \in Process, InTransaction(q)' PROVE Pending(q)' # {}
  BY <1>3 DEF Prefixes, OnlyMoves, InTransaction, Pending
<1> QED BY <1>2, <1>3 DEF Prefixes, Prefix

\* Every step of an init keeps it.
LEMMA ReadyKeeps ==
  ASSUME ReadyInvariant, SetupConstants, NEW p \in Process, InitStep(p)
  PROVE  ReadyInvariant'
<1> USE DEF ReadyInvariant, projectVars, databaseVars, localVars
<1>0. SetupInvariant'
  BY StepKeeps DEF Next
<1>n. LastMigration \in Nat \ {0} /\ NoVault \notin Vault
  BY DEF SetupConstants
<1>1. CASE StartInit(p)
  <2> USE <1>1 DEF StartInit, Goto, At
  <2>1. SetupTypeOK'
    BY <1>n DEF SetupTypeOK, SetupConstants
  <2>2. Prefixes'
    BY <1>n, PrefixesStay DEF SetupTypeOK, OnlyMoves, InTransaction
  <2>3. Configured'
    BY DEF SetupTypeOK, Configured, Opened
  <2> QED BY <1>0, <2>1, <2>2, <2>3
<1>2. CASE CreateDirectories(p)
  <2> USE <1>2 DEF CreateDirectories, Goto, At
  <2>1. mine[p] \in Vault
    BY DEF Configured
  <2>2. SetupTypeOK'
    BY <2>1 DEF SetupTypeOK
  <2>3. Prefixes'
    BY <1>n, PrefixesStay DEF SetupTypeOK, OnlyMoves, InTransaction
  <2>4. Configured'
    BY DEF SetupTypeOK, Configured, Opened
  <2> QED BY <1>0, <2>2, <2>3, <2>4
<1>3. CASE WriteConfig(p)
  <2> USE <1>3 DEF WriteConfig, Goto, At
  <2>1. SetupTypeOK'
    BY DEF SetupTypeOK, Configured
  <2>2. Prefixes'
    BY <1>n, PrefixesStay DEF SetupTypeOK, OnlyMoves, InTransaction
  <2>3. Configured'
    BY DEF SetupTypeOK, Configured, Opened
  <2> QED BY <1>0, <2>1, <2>2, <2>3
<1>4. CASE ReadApplied(p)
  <2> USE <1>4 DEF ReadApplied, Goto, At
  <2>1. SetupTypeOK'
    BY DEF SetupTypeOK
  <2>2. Prefixes'
    BY <1>n, PrefixesStay DEF SetupTypeOK, OnlyMoves, InTransaction
  <2>3. Configured'
    BY DEF SetupTypeOK, Configured, Opened
  <2> QED BY <1>0, <2>1, <2>2, <2>3
<1>5. CASE BeginMigration(p)
  <2> USE <1>5 DEF BeginMigration, Goto, At
  <2>1. SetupTypeOK'
    BY DEF SetupTypeOK
  <2>2. Prefixes'
    BY <1>n, PrefixesStay DEF SetupTypeOK, OnlyMoves, InTransaction, Pending
  <2>3. Configured'
    BY DEF SetupTypeOK, Configured, Opened
  <2> QED BY <1>0, <2>1, <2>2, <2>3
<1>6. CASE RunScript(p)
  <2> USE <1>6 DEF RunScript, Goto, At
  <2>1. SetupTypeOK'
    <3>1. draft' = [draft EXCEPT !.effects = [draft.effects EXCEPT ![NextMigration(p)] = @ + 1]]
      OBVIOUS
    <3>2. draft.effects \in [Migration -> Nat]
      BY DEF SetupTypeOK
    <3>3. [draft.effects EXCEPT ![NextMigration(p)] = @ + 1] \in [Migration -> Nat]
      <4> DEFINE v == NextMigration(p)
      <4> HIDE DEF v
      <4> DEFINE next == [draft.effects EXCEPT ![v] = @ + 1]
      <4>1. \A w \in Migration : next[w] \in Nat
        BY <3>2
      <4>2. next = [w \in Migration |-> next[w]]
        BY <3>2
      <4> HIDE DEF next
      <4>3. next \in [Migration -> Nat]
        BY <4>1, <4>2
      <4> QED BY <4>3 DEF next, v
    <3> QED BY <3>1, <3>2, <3>3, <1>6 DEF SetupTypeOK
  <2>2. Prefixes'
    BY <1>n, PrefixesStay DEF SetupTypeOK, OnlyMoves, InTransaction, Prefixes, Pending
  <2>3. Configured'
    BY DEF SetupTypeOK, Configured, Opened
  <2> QED BY <1>0, <2>1, <2>2, <2>3
<1>7. CASE CommitMigration(p)
  <2> DEFINE v == NextMigration(p)
  <2>1. /\ draft.history = history /\ v \notin history
        /\ effects' = draft.effects /\ history' = history \cup {v}
        /\ draft' = [effects |-> draft.effects, history |-> history \cup {v}]
    BY <1>7 DEF CommitMigration, SetupInvariant, Drafted, At, Scripted, RecordFails
  <2>2. PICK n \in 0..LastMigration : history = 1..n
    BY DEF Prefixes, Prefix
  <2>3. PICK m \in 0..LastMigration : applied[p] = 1..m /\ 1..m \subseteq history
    BY DEF Prefixes, Prefix
  <2>4. release[p] \in 1..LastMigration /\ Pending(p) # {}
    BY <1>7 DEF CommitMigration, At, SetupTypeOK, Migration, Prefixes, InTransaction
  <2>5. v = m + 1 /\ m + 1 <= LastMigration
    BY <1>n, <2>3, <2>4, NextIs
  <2>6. m = n
    BY <1>n, <2>1, <2>2, <2>3, <2>5
  <2>7. history' = 1..(n + 1) /\ n + 1 \in 0..LastMigration /\ v \in Migration
    BY <1>n, <2>1, <2>2, <2>5, <2>6 DEF Migration
  <2> HIDE DEF v
  <2>8. /\ writer' = NoProcess /\ init' = [init EXCEPT ![p] = "migrate"]
        /\ applied' = [applied EXCEPT ![p] = history']
        /\ UNCHANGED <<config, directories, mine, release, ready, inits, faults>>
    BY <1>7, <2>1, <2>2, <2>3, <2>6 DEF CommitMigration, Goto, v
  <2>9. SetupTypeOK'
    BY <2>1, <2>7, <2>8 DEF SetupTypeOK
  <2>10. Prefixes'
    <3>1. \A q \in Process : Prefix(applied'[q]) /\ applied'[q] \subseteq history'
      BY <2>1, <2>7, <2>8 DEF Prefixes, Prefix, SetupTypeOK
    <3>2. \A q \in Process : InTransaction(q)' => Pending(q)' # {}
      BY <2>8 DEF Prefixes, InTransaction, Pending, SetupTypeOK
    <3> QED BY <2>1, <2>7, <2>8, <3>1, <3>2 DEF Prefixes, Prefix
  <2>11. Configured'
    BY <1>7, <2>8 DEF CommitMigration, At, SetupTypeOK, Configured, Opened
  <2> QED BY <1>0, <2>9, <2>10, <2>11
<1>8. CASE FinishInit(p)
  <2> USE <1>8 DEF FinishInit, End, Goto, At
  <2>1. SetupTypeOK'
    <3>1. release[p] \in Release
      BY DEF Configured
    <3>2. ready' \subseteq Release
      BY <3>1 DEF SetupTypeOK
    <3>3. /\ mine' \in [Process -> Vault \cup {NoVault}]
          /\ release' \in [Process -> Migration]
          /\ applied' \in [Process -> SUBSET Migration]
          /\ init' = [init EXCEPT ![p] = "idle"]
      BY <1>n DEF SetupTypeOK, Migration
    <3> QED BY <3>2, <3>3 DEF SetupTypeOK
  <2>2. Prefixes'
    <3>1. 1..release[p] \subseteq history
      BY DEF Pending, Prefixes
    <3>2. \A q \in Process : Prefix(applied'[q]) /\ applied'[q] \subseteq history
      BY <1>n DEF Prefixes, Prefix, SetupTypeOK
    <3>3. \A q \in Process : InTransaction(q)' => Pending(q)' # {}
      BY DEF Prefixes, InTransaction, Pending, SetupTypeOK
    <3> QED BY <3>1, <3>2, <3>3 DEF Prefixes, Prefix
  <2>3. Configured'
    BY DEF SetupTypeOK, Configured, Opened
  <2> QED BY <1>0, <2>1, <2>2, <2>3
<1>9. CASE MigrationFails(p) \/ InitFault(p)
  <2>1. Abort(p) /\ faults' \in 0..MaxFaults
    BY <1>9 DEF MigrationFails, InitFault, SetupTypeOK, SetupConstants
  <2> USE <2>1 DEF Abort, End, Goto, At
  <2>2. SetupTypeOK'
    BY <1>n, SMTT(30) DEF SetupTypeOK, Migration
  <2>3. Prefixes'
    BY <1>n, PrefixesStay DEF SetupTypeOK, OnlyMoves, InTransaction
  <2>4. Configured'
    BY DEF SetupTypeOK, Configured, Opened
  <2> QED BY <1>0, <2>2, <2>3, <2>4
<1> QED BY <1>1, <1>2, <1>3, <1>4, <1>5, <1>6, <1>7, <1>8, <1>9 DEF InitStep

\* A command of another kind may take the lock, or give it away, beside the
\* inits, but takes it from none of them.
LEMMA SetupBeside ==
  ASSUME ReadyInvariant,
         UNCHANGED <<projectVars, databaseVars, init, localVars, ready, inits>>,
         writer' \in Process \cup {NoProcess}, faults' \in 0..MaxFaults,
         \A q \in Process : init[q] # "idle" /\ writer = q => writer' = q
  PROVE  ReadyInvariant'
<1> USE DEF ReadyInvariant, projectVars, databaseVars, localVars
<1>1. \A q \in Process : NextMigration(q)' = NextMigration(q)
  BY DEF NextMigration, Pending
<1>2. SetupInvariant'
  BY <1>1 DEF SetupInvariant, Types, Writing, InTransaction, Drafted, At, Fresh,
              Scripted, AppliedOnce, Migration
<1>3. Prefixes'
  BY DEF Prefixes, Prefix, InTransaction, Pending
<1>4. Configured' /\ SetupTypeOK'
  BY DEF Configured, Opened, At, SetupTypeOK
<1> QED BY <1>2, <1>3, <1>4

\* An init takes the lock from nobody.
LEMMA SetupLocks ==
  ASSUME ReadyInvariant, NEW p \in Process, InitStep(p)
  PROVE  writer' = writer \/ writer \in {p, NoProcess}
<1>1. InTransaction(p) => writer = p
  BY DEF ReadyInvariant, SetupInvariant, Writing
<1> QED BY <1>1 DEF InitStep, StartInit, CreateDirectories, WriteConfig, ReadApplied,
                    BeginMigration, RunScript, CommitMigration, FinishInit,
                    MigrationFails, InitFault, Abort, InTransaction, At

\* What an init reported is there, and the types.
LEMMA ReadyIs ==
  ASSUME ReadyInvariant
  PROVE  SetupTypeOK /\ AppliedOnce /\ ReadyProject
BY DEF ReadyInvariant, SetupInvariant, Prefixes, Prefix, Configured, ReadyProject
=============================================================================
