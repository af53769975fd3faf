----------------------------- MODULE Migrations -----------------------------
(***************************************************************************)
(* RunMigrations of internal/db/migrations.go, as every start of the       *)
(* server and every ca create and ca rotate runs it, each a process with a *)
(* connection of its own to the one SQLite file.  Every statement is a     *)
(* step; a process may die between any two, which rolls its transaction    *)
(* back.                                                                   *)
(*                                                                         *)
(* Of SQLite (external, in WAL mode): a transaction takes the only write   *)
(* lock with its first statement that writes, others read what has been    *)
(* committed meanwhile, and who waits for the lock beyond busy_timeout     *)
(* gets an error.                                                          *)
(***************************************************************************)
EXTENDS Integers, FiniteSets, FiniteSetsExt

CONSTANTS
  Process, \* processes that run the migrations
  Latest,  \* how many migrations getMigrations knows; there is one so far
  MaxKills \* bound on the number of processes that die

ASSUME MigrationAssumption == Latest \in Nat /\ MaxKills \in Nat

VARIABLES
  schemaMigrations, \* the table schema_migrations exists
  applied,          \* its rows: the versions recorded as applied
  schema,           \* the migrations that have taken effect
  writer,           \* the process that has SQLite's write lock, if any
  phase,            \* of each process: the statement it is at
  version,          \*   its loop variable,
  currentVersion,   \*   what it has read the applied version to be,
  executed,         \*   and the migration its transaction has executed
  kills             \* the number of processes that died

database == <<schemaMigrations, applied, schema, writer>>
local == <<version, currentVersion, executed>>
migrationVars == <<database, phase, local, kills>>

Version == 1..Latest
Phase == {"down", "ensure", "read", "loop", "exec", "insert", "commit", "done"}

MigrationTypeOK ==
  /\ schemaMigrations \in BOOLEAN
  /\ applied \subseteq Version /\ schema \subseteq Version
  /\ writer \subseteq Process
  /\ phase \in [Process -> Phase]
  /\ version \in [Process -> 1..(Latest + 1)]
  /\ currentVersion \in [Process -> 0..Latest]
  /\ executed \in [Process -> SUBSET Version]
  /\ kills \in 0..MaxKills

MigrationInit ==
  /\ schemaMigrations = FALSE /\ applied = {} /\ schema = {} /\ writer = {}
  /\ phase = [p \in Process |-> "down"]
  /\ version = [p \in Process |-> 1] /\ currentVersion = [p \in Process |-> 0]
  /\ executed = [p \in Process |-> {}]
  /\ kills = 0

Goto(p, at) == phase' = [phase EXCEPT ![p] = at] /\ UNCHANGED kills

(* The end of a process, also by an error it returns: its connection is    *)
(* closed, what was not committed is gone.                                 *)
Exit(p) ==
  /\ phase' = [phase EXCEPT ![p] = "down"]
  /\ version' = [version EXCEPT ![p] = 1]
  /\ currentVersion' = [currentVersion EXCEPT ![p] = 0]
  /\ executed' = [executed EXCEPT ![p] = {}]
  /\ writer' = writer \ {p}
  /\ UNCHANGED <<schemaMigrations, applied, schema>>

CanWrite(p) == writer \subseteq {p}

----------------------------------------------------------------------------
Begin(p) ==
  phase[p] = "down" /\ Goto(p, "ensure") /\ UNCHANGED <<database, local>>

(* CREATE TABLE IF NOT EXISTS, a transaction of its own; nobody has the    *)
(* lock before this is done.                                               *)
ensureMigrationsTable(p) ==
  /\ phase[p] = "ensure"
  /\ schemaMigrations' = TRUE
  /\ Goto(p, "read") /\ UNCHANGED <<applied, schema, writer, local>>

BugReadNext == Max({0} \cup applied) + 1

BugReadMin == IF applied = {} THEN 0 ELSE Min(applied)

(* SELECT COALESCE(MAX(version), 0).                                       *)
AppliedVersion == Max({0} \cup applied)

ReadVersion(p) ==
  /\ phase[p] = "read"
  /\ currentVersion' = [currentVersion EXCEPT ![p] = AppliedVersion]
  /\ Goto(p, "loop") /\ UNCHANGED <<database, version, executed>>

BugSkipNext(p) == version[p] <= currentVersion[p] + 1

AlreadyApplied(p) == version[p] <= currentVersion[p]

(* The head of the loop, and Begin, which takes no lock yet.               *)
NextVersion(p) ==
  /\ phase[p] = "loop" /\ version[p] \in Version
  /\ IF AlreadyApplied(p)
       THEN version' = [version EXCEPT ![p] = @ + 1] /\ Goto(p, "loop")
       ELSE version' = version /\ Goto(p, "exec")
  /\ UNCHANGED <<database, currentVersion, executed>>

BugExecAtOnce(p) ==
  /\ phase[p] = "exec" /\ CanWrite(p)
  /\ schema' = schema \cup {version[p]}
  /\ Goto(p, "insert")
  /\ UNCHANGED <<schemaMigrations, applied, writer, local>>

(* The migration, another CREATE TABLE IF NOT EXISTS: it writes, and takes *)
(* the lock, unless its effect is there already.                           *)
ExecMigration(p) ==
  /\ phase[p] = "exec"
  /\ IF version[p] \in schema
       THEN UNCHANGED <<writer, executed>>
       ELSE /\ CanWrite(p) /\ writer' = {p}
            /\ executed' = [executed EXCEPT ![p] = {version[p]}]
  /\ Goto(p, "insert")
  /\ UNCHANGED <<schemaMigrations, applied, schema, version, currentVersion>>

InsertVersion(p) ==
  /\ phase[p] = "insert" /\ CanWrite(p) /\ version[p] \notin applied
  /\ writer' = {p} /\ Goto(p, "commit")
  /\ UNCHANGED <<schemaMigrations, applied, schema, local>>

(* The primary key: another process has recorded that version since.       *)
InsertConflicts(p) ==
  /\ phase[p] = "insert" /\ CanWrite(p) /\ version[p] \in applied
  /\ Exit(p) /\ UNCHANGED kills

CommitMigration(p) ==
  /\ phase[p] = "commit"
  /\ applied' = applied \cup {version[p]} /\ schema' = schema \cup executed[p]
  /\ writer' = {}
  /\ version' = [version EXCEPT ![p] = @ + 1]
  /\ executed' = [executed EXCEPT ![p] = {}]
  /\ Goto(p, "loop") /\ UNCHANGED <<schemaMigrations, currentVersion>>

(* RunMigrations returns nil.                                              *)
UpToDate(p) ==
  /\ phase[p] = "loop" /\ version[p] \notin Version
  /\ Goto(p, "done") /\ UNCHANGED <<database, local>>

(* Another process has the write lock for longer than busy_timeout.        *)
Busy(p) ==
  /\ ~CanWrite(p)
  /\ \/ phase[p] = "insert"
     \/ phase[p] = "exec" /\ version[p] \notin schema
  /\ Exit(p) /\ UNCHANGED kills

Kill(p) ==
  /\ phase[p] # "down" /\ kills < MaxKills
  /\ kills' = kills + 1 /\ Exit(p)

RunMigrations(p) ==
  \/ ensureMigrationsTable(p) \/ ReadVersion(p) \/ NextVersion(p)
  \/ ExecMigration(p) \/ InsertVersion(p) \/ InsertConflicts(p)
  \/ CommitMigration(p) \/ UpToDate(p) \/ Busy(p)

(* What comes after the migrations, for a process that they are all of.    *)
Leave(p) == phase[p] = "done" /\ Exit(p) /\ UNCHANGED kills

MigrationNext == \E p \in Process : Begin(p) \/ RunMigrations(p) \/ Kill(p) \/ Leave(p)

MigrationSpec == MigrationInit /\ [][MigrationNext]_migrationVars

----------------------------------------------------------------------------
(* Properties.                                                             *)

(* "Apply pending migrations inside a transaction" (migrations.go:59): the *)
(* versions recorded are those that took effect, and have no gap, however  *)
(* processes race and die.  Without it COALESCE(MAX(version), 0) means     *)
(* nothing.                                                                *)
SchemaIsVersioned == applied = schema /\ applied = 1..AppliedVersion

(* "Ensure the schema is up to date" (ca.go:53): whoever RunMigrations has *)
(* returned nil to can use every table, whoever else created them.         *)
DoneHasSchema == \A p \in Process : phase[p] = "done" => schema = Version

(* A process that loses the race of two first runs fails (InsertConflicts),*)
(* but only as long as there is something to be applied: with no more than *)
(* finitely many kills, running it again gets it past the migrations.      *)
RetrySucceeds == \A p \in Process : []<>(phase[p] = "done")
=============================================================================
