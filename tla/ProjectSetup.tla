---------------------------- MODULE ProjectSetup ----------------------------
(***************************************************************************)
(* `kc init`: the configuration file, the directories and the migrations   *)
(* of the state database, by commands of different releases that may run   *)
(* at the same time and die anywhere.                                      *)
(*                                                                         *)
(* Which migrations are applied is read before any lock is taken; each     *)
(* migration is then a transaction of its own.                             *)
(***************************************************************************)
EXTENDS Integers, FiniteSets

CONSTANTS
  Process,        \* commands that may run at the same time
  Vault,          \* the values of --vault
  LastMigration,  \* the newest migration there is
  Release,        \* the newest migrations of the installed releases
  Rebuilds,       \* migrations whose script succeeds a second time as well
  MaxInits,       \* bound on the inits that start
  MaxFaults,      \* bound on deaths, I/O errors and lock timeouts
  NoProcess, NoVault

Migration == 1..LastMigration

\* What is assumed of the constants; Project, which instantiates this module,
\* assumes it.
SetupConstants ==
  /\ LastMigration \in Nat \ {0}
  /\ Release \subseteq Migration /\ Rebuilds \subseteq Migration
  /\ MaxInits \in Nat /\ MaxFaults \in Nat
  /\ NoProcess \notin Process /\ NoVault \notin Vault

VARIABLES
  config,      \* the vault that kc.json names, or NoVault without the file
  directories, \* vaults whose project directories have been created
  effects,     \* [Migration -> how often its script has been committed]
  history,     \* the versions in schema_migrations
  writer,      \* the process in a write transaction
  draft,       \* what its transaction would commit
  init,        \* [Process -> the step of an init it is about to take]
  mine,        \* [Process -> the vault of its configuration]
  release,     \* [Process -> the release it belongs to]
  applied,     \* [Process -> the versions it takes for applied]
  ready,       \* releases whose init has reported success
  inits,       \* inits started so far
  faults       \* faults so far

databaseVars == <<effects, history, draft>>
projectVars == <<config, directories>>
localVars == <<mine, release, applied>>
vars == <<projectVars, databaseVars, writer, init, localVars, ready, inits,
          faults>>

\* A directory without a project, or the project of an older release.
Init ==
  /\ \E n \in {0} \cup {r - 1 : r \in Release} :
       /\ history = 1..n
       /\ effects = [v \in Migration |-> IF v <= n THEN 1 ELSE 0]
       /\ config \in IF n = 0 THEN {NoVault} ELSE Vault
  /\ directories = Vault \cap {config}
  /\ writer = NoProcess
  /\ draft = [effects |-> effects, history |-> history]
  /\ init = [p \in Process |-> "idle"]
  /\ mine = [p \in Process |-> NoVault]
  /\ release = [p \in Process |-> LastMigration]
  /\ applied = [p \in Process |-> {}]
  /\ ready = {} /\ inits = 0 /\ faults = 0

At(p, here) == init[p] = here
Goto(p, there) == init' = [init EXCEPT ![p] = there]

----------------------------------------------------------------------------
\* Configuration and directories.

\* An existing kc.json is read; otherwise the option makes the configuration.
StartInit(p) ==
  /\ At(p, "idle")
  /\ inits < MaxInits
  /\ inits' = inits + 1
  /\ \E vault \in Vault, r \in Release :
       /\ mine' = [mine EXCEPT ![p] = IF config = NoVault THEN vault ELSE config]
       /\ release' = [release EXCEPT ![p] = r]
  /\ Goto(p, IF config = NoVault THEN "create" ELSE "directories")
  /\ UNCHANGED <<projectVars, databaseVars, writer, applied, ready, faults>>

CreateDirectories(p) ==
  /\ init[p] \in {"create", "directories"}
  /\ directories' = directories \cup {mine[p]}
  /\ Goto(p, IF At(p, "create") THEN "write" ELSE "open")
  /\ UNCHANGED <<config, databaseVars, writer, localVars, ready, inits, faults>>

\* write_config: the temporary is renamed over whatever is there by now.
WriteConfig(p) ==
  /\ At(p, "write")
  /\ config' = mine[p]
  /\ Goto(p, "open")
  /\ UNCHANGED <<directories, databaseVars, writer, localVars, ready, inits,
                 faults>>

----------------------------------------------------------------------------
\* Migrations.

\* The database is opened, and created when it is not there.
ReadApplied(p) ==
  /\ At(p, "open")
  /\ applied' = [applied EXCEPT ![p] = history]
  /\ Goto(p, "migrate")
  /\ UNCHANGED <<projectVars, databaseVars, writer, mine, release, ready,
                 inits, faults>>

Pending(p) == (1..release[p]) \ applied[p]
Least(S) == CHOOSE v \in S : \A w \in S : v <= w
NextMigration(p) == Least(Pending(p))

BeginMigration(p) ==
  /\ At(p, "migrate")
  /\ Pending(p) # {}
  /\ writer = NoProcess
  /\ writer' = p
  /\ draft' = [effects |-> effects, history |-> history]
  /\ Goto(p, "script")
  /\ UNCHANGED <<projectVars, effects, history, localVars, ready, inits, faults>>

\* A table or a column that exists already ends most scripts.
ScriptFails(p) ==
  LET v == NextMigration(p) IN draft.effects[v] > 0 /\ v \notin Rebuilds

RunScript(p) ==
  /\ At(p, "script")
  /\ ~ScriptFails(p)
  /\ draft' = [draft EXCEPT !.effects[NextMigration(p)] = @ + 1]
  /\ Goto(p, "record")
  /\ UNCHANGED <<projectVars, effects, history, writer, localVars, ready,
                 inits, faults>>

\* Mutant: INSERT OR IGNORE instead of INSERT.
RecordIgnored(p) == FALSE

\* schema_migrations has the version as its key.
RecordFails(p) == NextMigration(p) \in draft.history

CommitMigration(p) ==
  LET v == NextMigration(p) IN
  /\ At(p, "record")
  /\ ~RecordFails(p)
  /\ draft' = [draft EXCEPT !.history = @ \cup {v}]
  /\ effects' = draft'.effects
  /\ history' = draft'.history
  /\ writer' = NoProcess
  /\ applied' = [applied EXCEPT ![p] = @ \cup {v}]
  /\ Goto(p, "migrate")
  /\ UNCHANGED <<projectVars, mine, release, ready, inits, faults>>

End(p) ==
  /\ mine' = [mine EXCEPT ![p] = NoVault]
  /\ release' = [release EXCEPT ![p] = LastMigration]
  /\ applied' = [applied EXCEPT ![p] = {}]
  /\ Goto(p, "idle")

FinishInit(p) ==
  /\ At(p, "migrate")
  /\ Pending(p) = {}
  /\ ready' = ready \cup {release[p]}
  /\ End(p)
  /\ UNCHANGED <<projectVars, databaseVars, writer, inits, faults>>

\* The exception of a failed statement, or the end of the process: SQLite
\* rolls back.
Abort(p) ==
  /\ writer' = IF writer = p THEN NoProcess ELSE writer
  /\ draft' = IF writer = p THEN [effects |-> effects, history |-> history] ELSE draft
  /\ End(p)
  /\ UNCHANGED <<projectVars, effects, history, ready, inits>>

\* Mutant: a migration that is there already ends the init in success.
AlreadyThere(p) ==
  /\ \/ At(p, "script") /\ ScriptFails(p)
     \/ At(p, "record") /\ RecordFails(p)
  /\ writer' = NoProcess
  /\ ready' = ready \cup {release[p]}
  /\ End(p)
  /\ UNCHANGED <<projectVars, databaseVars, inits, faults>>

MigrationFails(p) ==
  /\ \/ At(p, "script") /\ ScriptFails(p)
     \/ At(p, "record") /\ RecordFails(p)
  /\ Abort(p)
  /\ UNCHANGED faults

\* A death, an I/O error, a broken foreign key, or five seconds without the
\* lock.
InitFault(p) ==
  /\ ~At(p, "idle")
  /\ faults < MaxFaults
  /\ faults' = faults + 1
  /\ Abort(p)

----------------------------------------------------------------------------
InitStep(p) ==
  \/ StartInit(p) \/ CreateDirectories(p) \/ WriteConfig(p)
  \/ ReadApplied(p) \/ BeginMigration(p) \/ RunScript(p)
  \/ CommitMigration(p) \/ FinishInit(p) \/ MigrationFails(p)
  \/ InitFault(p)

Next == \E p \in Process : InitStep(p)

Spec == Init /\ [][Next]_vars

----------------------------------------------------------------------------
SetupTypeOK ==
  /\ config \in Vault \cup {NoVault}
  /\ directories \subseteq Vault
  /\ effects \in [Migration -> Nat]
  /\ history \subseteq Migration
  /\ writer \in Process \cup {NoProcess}
  /\ draft \in [effects : [Migration -> Nat], history : SUBSET Migration]
  /\ init \in [Process -> {"idle", "create", "directories", "write", "open",
                           "migrate", "script", "record"}]
  /\ mine \in [Process -> Vault \cup {NoVault}]
  /\ release \in [Process -> Migration]
  /\ applied \in [Process -> SUBSET Migration]
  /\ ready \subseteq Release
  /\ inits \in 0..MaxInits
  /\ faults \in 0..MaxFaults

\* The committed effects of a migration and its history row are never apart,
\* and no script runs twice on one database, although every init decides from
\* a list it read without a lock and migration 003 could run again
\* (migration_runner.cpp:132-157).
AppliedOnce ==
  \A v \in Migration : effects[v] = IF v \in history THEN 1 ELSE 0

\* Whatever init of an older or newer release fails or dies beside it: the
\* history is a prefix, a release that reported success finds all of its
\* migrations, and no state exists without a configuration whose directories
\* are there (project_initializer.cpp:106-124, migration_runner.cpp:135-167).
ReadyProject ==
  /\ \E n \in 0..LastMigration : history = 1..n
  /\ \A n \in ready : 1..n \subseteq history
  /\ ready # {} \/ history # {} => config \in directories
=============================================================================
