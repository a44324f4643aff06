-------------------------- MODULE SchemaMigrations --------------------------
(***************************************************************************)
(* The savings database and its version (storage/savings-repository.ts,    *)
(* storage/base-repository.ts, migrations/v2-add-savings-indexes.ts), and  *)
(* the runner that migrates a database step by step (storage/index.ts).    *)
(*                                                                         *)
(* An upgrade handler runs in a transaction of the database, external to   *)
(* the repository: if the handler throws, version, stores and indexes stay *)
(* as they were and opening fails.  What the migration finds under         *)
(* db.transaction is external as well: a browser has a method there, the   *)
(* stand-in of the repository's tests the upgrade's transaction.           *)
(***************************************************************************)
EXTENDS Integers, FiniteSets, FiniteSetsExt

CONSTANTS
    Environments,    \* among "browser" and "stand-in"
    Steps,           \* versions a MigrationRunner may have migrations for
    MaxAttempts      \* bound: times a database is opened

ASSUME MigrationAssumption ==
    /\ Environments \subseteq {"browser", "stand-in"}
    /\ Steps \subseteq Nat \ {0}
    /\ MaxAttempts \in Nat

VARIABLES
    environment,
    database,     \* its version (0: none), whether the store exists, its indexes, rows
    opened,       \* how the last attempt to open it ended
    attempts,
    runner        \* a MigrationRunner: its migrations, and its last result, if any

migrationVars == <<environment, database, opened, attempts, runner>>

SavingsIndexes == {"by_merchant_timestamp", "by_timestamp", "by_merchant"}

NoDatabase == [version |-> 0, store |-> FALSE, indexes |-> {}, rows |-> 0]

NoResult == [success |-> TRUE, applied |-> {}, wanted |-> {}, down |-> FALSE]

\* a new installation, or one that has savings of an earlier release
MigrationInit ==
    /\ environment \in Environments
    /\ database \in {NoDatabase,
                     [version |-> 1, store |-> TRUE, indexes |-> {}, rows |-> 1]}
    /\ opened = "never" /\ attempts = 0
    /\ runner \in {[migrations |-> s, irreversible |-> i, result |-> NoResult] :
                    s \in SUBSET Steps, i \in SUBSET Steps}
    /\ runner.irreversible \subseteq runner.migrations

-----------------------------------------------------------------------------
\* addSavingsIndexesMigration.up: throws unless the store exists and
\* db.transaction has an objectStore
UpThrows(db) == ~db.store \/ environment = "browser"
AddSavingsIndexes(db) == [db EXCEPT !.indexes = SavingsIndexes]

\* onUpgrade of a SavingsRepository, before the migration
Created(db) == IF db.version < 1 THEN [db EXCEPT !.store = TRUE] ELSE db

\* mutant: the failure of the migration is swallowed
OpenSavings_Swallows ==
    /\ attempts < MaxAttempts /\ attempts' = attempts + 1
    /\ LET this == Created(database)
       IN  /\ database' = [(IF database.version < 2 /\ ~UpThrows(this)
                            THEN AddSavingsIndexes(this) ELSE this) EXCEPT !.version = 2]
           /\ opened' = "open"
    /\ UNCHANGED <<environment, runner>>

\* openDb: the upgrade to version 2 creates the store if there was none, and
\* adds the indexes
OpenSavings ==
    /\ attempts < MaxAttempts /\ attempts' = attempts + 1
    /\ LET this == Created(database)
       IN  IF database.version < 2
           THEN IF UpThrows(this)
                THEN opened' = "failed" /\ UNCHANGED database
                ELSE /\ database' = [AddSavingsIndexes(this) EXCEPT !.version = 2]
                     /\ opened' = "open"
           ELSE opened' = "open" /\ UNCHANGED database
    /\ UNCHANGED <<environment, runner>>

\* put needs an open database
PutSaving ==
    /\ opened = "open" /\ database.rows < 2
    /\ database' = [database EXCEPT !.rows = @ + 1]
    /\ UNCHANGED <<environment, opened, attempts, runner>>

-----------------------------------------------------------------------------
(* MigrationRunner: any migration may throw                                *)

\* those before the first that throws
Before(wanted, v) == {w \in wanted : w < v}
After(wanted, v) == {w \in wanted : w > v}

\* migrate: in the order of versions, up to the first that throws
MigrateRunner ==
    \E from, to \in {0} \cup Steps :
        LET wanted == {v \in runner.migrations : v > from /\ v <= to}
        IN  \E throws \in SUBSET wanted :
            /\ Cardinality(throws) <= 1
            /\ runner' = [runner EXCEPT !.result =
                    [success |-> throws = {}, wanted |-> wanted, down |-> FALSE,
                     applied |-> IF throws = {} THEN wanted
                                 ELSE Before(wanted, CHOOSE v \in throws : TRUE)]]
            /\ UNCHANGED <<environment, database, opened, attempts>>

\* rollback: in reverse, up to the first that throws or has no down; a target
\* that is not lower is refused
RollbackRunner ==
    \E from, to \in {0} \cup Steps :
        LET wanted == {v \in runner.migrations : v > to /\ v <= from}
        IN  \E throws \in SUBSET wanted :
            LET fails == throws \cup (runner.irreversible \cap wanted)
            IN  /\ Cardinality(throws) <= 1
                /\ runner' = [runner EXCEPT !.result =
                        IF to >= from
                        THEN [NoResult EXCEPT !.success = FALSE, !.down = TRUE]
                        ELSE [success |-> fails = {}, wanted |-> wanted, down |-> TRUE,
                              applied |-> IF fails = {} THEN wanted
                                          ELSE After(wanted, Max(fails))]]
                /\ UNCHANGED <<environment, database, opened, attempts>>

MigrationNext == OpenSavings \/ PutSaving \/ MigrateRunner \/ RollbackRunner

MigrationSpec == MigrationInit /\ [][MigrationNext]_migrationVars

-----------------------------------------------------------------------------
(***************************************************************************)
(* Nothing is half-migrated: a savings database of version 2 has its store *)
(* and all its indexes, and one that could not be upgraded is what it was; *)
(* a runner that fails has applied a run of migrations from the first one  *)
(* on, in the direction it was going, and left out at least one.           *)
(***************************************************************************)
NeverHalfMigrated ==
    /\ database.version = 2 => database.store /\ database.indexes = SavingsIndexes
    /\ database.version = 1 => database.store /\ database.indexes = {} /\ database.rows = 1
    /\ database.version = 0 => database = NoDatabase
    /\ opened = "open" => database.version = 2
    /\ LET result == runner.result
       IN  /\ result.success => result.applied = result.wanted
           /\ ~result.success /\ result.wanted # {} => result.applied # result.wanted
           /\ \A v \in result.applied, w \in result.wanted \ result.applied :
                IF result.down THEN v > w ELSE v < w

(***************************************************************************)
(* What the migration's comments say: "In onupgradeneeded, the transaction *)
(* is already active", so opening the savings database upgrades it.        *)
(***************************************************************************)
UpgradeSucceeds == opened # "failed"
=============================================================================
