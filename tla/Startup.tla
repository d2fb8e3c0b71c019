------------------------------- MODULE Startup -------------------------------
(***************************************************************************)
(* The start of the server on a database file (crates/server/src/main.rs,  *)
(* crates/storage/src/{schema,bootstrap}.rs, config.rs): the tables are    *)
(* created one statement at a time, the version is marked last and only on *)
(* a file without tables, the version is compared, the first account made  *)
(* if the environment asks for it, and the YAML file imported when there   *)
(* is no channel. The process may be killed between any two statements;    *)
(* SQLite keeps what was committed and forgets an open transaction. Each   *)
(* start finds its own environment: the variable CHENNIX_ADMIN_PASSWORD    *)
(* set or not, the file there or not, all of its rows acceptable or one    *)
(* refused.                                                                *)
(***************************************************************************)
EXTENDS Integers

CONSTANTS
    Tables,     \* CREATE statements of init_db; the first makes models
    Version,    \* CURRENT_SCHEMA_VERSION
    Older,      \* the version another release left, 0 when there is no mark
    Rows,       \* of the YAML file: models, channels, keys, bindings
    MaxCrashes  \* bound on kills

StartupAssumption ==
    /\ Tables \in Nat \ {0} /\ Version \in Nat \ {0} /\ Older \in Nat \ {Version}
    /\ Rows \in Nat \ {0} /\ MaxCrashes \in Nat

VARIABLES
    at,         \* where the process is
    tables,     \* statements that ran on the file
    marker,     \* schema_meta.schema_version, 0 when absent
    users,      \* accounts
    imported,   \* rows of the YAML file that are committed
    fresh,      \* is_fresh_db, of the process
    inserted,   \* rows inserted in the open transaction
    crashes,
    foreign     \* the file is another release's

file == <<tables, marker, users, imported>>
vars == <<at, file, fresh, inserted, crashes, foreign>>

Places == {"off", "create", "mark", "check", "admin", "empty", "import", "serve", "refused"}

TypeOK ==
    /\ at \in Places
    /\ tables \in 0..Tables
    /\ marker \in {0, Version, Older}
    /\ users \in Nat
    /\ imported \in 0..Rows
    /\ fresh \in BOOLEAN
    /\ inserted \in 0..Rows
    /\ crashes \in 0..MaxCrashes
    /\ foreign \in BOOLEAN

\* A new file, or one that a release with another schema left behind in full.
Init ==
    /\ at = "off" /\ imported = 0 /\ fresh = FALSE /\ inserted = 0 /\ crashes = 0
    /\ \/ foreign = FALSE /\ tables = 0 /\ marker = 0 /\ users = 0
       \/ foreign = TRUE /\ tables = Tables /\ marker = Older /\ users = 1

Start ==
    /\ at = "off"
    /\ fresh' = (tables = 0)
    /\ at' = "create"
    /\ UNCHANGED <<file, inserted, crashes, foreign>>

\* CREATE ... IF NOT EXISTS, each committed by itself.
CreateTable ==
    /\ at = "create" /\ tables < Tables
    /\ tables' = tables + 1
    /\ UNCHANGED <<at, marker, users, imported, fresh, inserted, crashes, foreign>>

Created ==
    /\ at = "create" /\ tables = Tables
    /\ at' = IF fresh THEN "mark" ELSE "check"
    /\ UNCHANGED <<file, fresh, inserted, crashes, foreign>>

Mark ==
    /\ at = "mark"
    /\ marker' = Version
    /\ at' = "check"
    /\ UNCHANGED <<tables, users, imported, fresh, inserted, crashes, foreign>>

RunMigrations ==
    /\ at = "check"
    /\ at' = IF marker = Version THEN "admin" ELSE "refused"
    /\ UNCHANGED <<file, fresh, inserted, crashes, foreign>>

\* CHENNIX_ADMIN_PASSWORD is set, or not.
EnsureDefaultAdmin ==
    /\ at = "admin"
    /\ \E wanted \in BOOLEAN : users' = IF users = 0 /\ wanted THEN 1 ELSE users
    /\ at' = "empty"
    /\ UNCHANGED <<tables, marker, imported, fresh, inserted, crashes, foreign>>

\* The file exists, or not.
IsDbEmpty ==
    /\ at = "empty"
    /\ \E there \in BOOLEAN : at' = IF imported = 0 /\ there THEN "import" ELSE "serve"
    /\ UNCHANGED <<file, fresh, inserted, crashes, foreign>>

\* Mutant: without the transaction each row is committed by itself.
InsertRowByItself ==
    /\ at = "import" /\ inserted < Rows
    /\ inserted' = inserted + 1
    /\ imported' = inserted'
    /\ UNCHANGED <<at, tables, marker, users, fresh, crashes, foreign>>
InsertRow ==
    /\ at = "import" /\ inserted < Rows
    /\ inserted' = inserted + 1
    /\ UNCHANGED <<at, file, fresh, crashes, foreign>>

Commit ==
    /\ at = "import" /\ inserted = Rows
    /\ imported' = Rows
    /\ inserted' = 0
    /\ at' = "serve"
    /\ UNCHANGED <<tables, marker, users, fresh, crashes, foreign>>

\* An error drops the transaction, is logged, and the server starts without rows.
ImportFails ==
    /\ at = "import" /\ inserted < Rows
    /\ inserted' = 0
    /\ at' = "serve"
    /\ UNCHANGED <<file, fresh, crashes, foreign>>

\* Killed at any place, and stopped by hand when it serves or was refused.
Crash ==
    /\ at # "off" /\ crashes < MaxCrashes
    /\ at' = "off" /\ inserted' = 0
    /\ crashes' = crashes + 1
    /\ UNCHANGED <<file, fresh, foreign>>

Run ==
    \/ Start \/ CreateTable \/ Created \/ Mark \/ RunMigrations
    \/ EnsureDefaultAdmin \/ IsDbEmpty \/ InsertRow \/ Commit \/ ImportFails

Next == Run \/ Crash

Spec == Init /\ [][Next]_vars
----------------------------------------------------------------------------
(* Properties.                                                             *)

\* A server that serves has all tables, the version it was built for, and the whole
\* YAML file or nothing of it, wherever earlier starts were killed.
ServesWholeFile ==
    at = "serve" => tables = Tables /\ marker = Version /\ imported \in {0, Rows}

\* A file of another release is refused and left as it was.
ForeignIsUntouched == foreign => at # "serve" /\ marker = Older /\ users = 1 /\ imported = 0

\* No number of starts makes more than one account.
OneAdmin == users <= 1

\* A file whose mark was written is never refused, also when an import fails.
MarkedIsAccepted == marker = Version => at # "refused"

(* What the sources say and the code does not keep.                        *)

\* A file that only this release wrote to passes the check of the version.
OwnFileIsAccepted == ~foreign => at # "refused"
=============================================================================
