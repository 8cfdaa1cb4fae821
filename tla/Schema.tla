------------------------------- MODULE Schema -------------------------------
(***************************************************************************)
(* What a starting process does to the schema before it serves: db.init,   *)
(* under the migration lock of its backend. Servers and CLI commands both  *)
(* run it, before any check for peers.                                     *)
(*                                                                         *)
(*   sqlite    no lock; statements outside a transaction, since            *)
(*             executescript commits the BEGIN before it                   *)
(*   postgres  an advisory lock of the session; one transaction            *)
(*   mongo     a lease document, which others wait for and may take over   *)
(*                                                                         *)
(* Rebuilt tables (tags, metadata, external_ids) each go through create,   *)
(* copy, drop and rename. Two added columns stand for the eight: one on a  *)
(* table that is not rebuilt (owner_id), and profile_hash on external_ids. *)
(***************************************************************************)
EXTENDS Naturals, FiniteSets

CONSTANTS
    Starter,    \* processes, each started once
    Elsewhere,  \* those on another host, where no SQLite file is shared
    Slow,       \* those whose index build may outlast the lease
    Nobody

ASSUME StarterAssumption ==
    /\ Elsewhere \subseteq Starter /\ Slow \subseteq Starter
    /\ Nobody \notin Starter

VARIABLES
    backend,
    table,      \* shape of each rebuilt table: absent, old or new
    labelled,   \* tables that hold the rows of the old database
    temp,       \* its copy under construction: none, empty or full
    column,     \* added columns that are there
    index,      \* Mongo's index on (source_sha, profile_hash)
    lock,       \* holder of the advisory lock or of the lease
    overdue,    \* the lease is older than 120 s
    starting,   \* where each process is
    knew,       \* the tables it found
    stmt,       \* its next statement of the rebuild
    held,       \* processes that won the lease
    torn,       \* on SQLite, a rebuild that was cut short or a start that
                \* had company, for properties
    lapsed      \* a lease that was not waited for, for properties

schemaVars == <<backend, table, labelled, temp, column, index, lock, overdue,
                starting, knew, stmt, held, torn, lapsed>>
rebuildVars == <<table, labelled, temp, column>>
leaseVars   == <<index, lock, overdue, held, lapsed>>

Rebuilt == <<"tags", "metadata", "external_ids">>
Tables  == {"tags", "metadata", "external_ids"}
Columns == {"owner_id", "profile_hash"}
Current == [t \in Tables |-> "new"]

SchemaTypeOK ==
    /\ backend \in {"sqlite", "postgres", "mongo"}
    /\ table \in [Tables -> {"absent", "old", "new"}]
    /\ labelled \subseteq Tables
    /\ temp \in [Tables -> {"none", "empty", "full"}]
    /\ column \subseteq Columns
    /\ index \in {"none", "plain", "unique"}
    /\ lock \in Starter \union {Nobody}
    /\ overdue \in BOOLEAN
    /\ starting \in [Starter -> {"down", "waiting", "stealing", "tables",
         "columns", "altering", "rebuild", "script", "info", "dropping",
         "creating", "serving", "failed", "dead"}]
    /\ knew \in [Starter -> SUBSET Tables]
    /\ stmt \in [Starter -> 1..12]
    /\ held \subseteq Starter
    /\ torn \in BOOLEAN
    /\ lapsed \in BOOLEAN

\* A database from before tenants, one that is current, or a new one. What
\* came before tenants was always SQLite.
SchemaInit ==
    /\ backend \in {"sqlite", "postgres", "mongo"}
    /\ \/ /\ backend = "sqlite"
          /\ table = [t \in Tables |-> "old"]
          /\ labelled = Tables
          /\ column = {}
       \/ /\ table = Current
          /\ labelled = Tables
          /\ column \in {{}, Columns}
       \/ /\ table = [t \in Tables |-> "absent"]
          /\ labelled = {}
          /\ column = {}
    /\ temp = [t \in Tables |-> "none"]
    /\ index \in IF backend = "mongo" THEN {"none", "plain"} ELSE {"none"}
    /\ lock = Nobody
    /\ overdue = FALSE
    /\ starting = [p \in Starter |-> "down"]
    /\ knew = [p \in Starter |-> {}]
    /\ stmt = [p \in Starter |-> 1]
    /\ held = {}
    /\ torn = FALSE
    /\ lapsed = FALSE

-----------------------------------------------------------------------------

Stands(p, pc) == starting[p] = pc
Step(p, pc)   == starting' = [starting EXCEPT ![p] = pc]

NextStmt(p)    == stmt' = [stmt EXCEPT ![p] = @ + 1]

InSchema == {p \in Starter : starting[p] \in
    {"tables", "columns", "altering", "rebuild", "script", "info", "dropping",
     "creating"}}
Rebuilding == {p \in Starter : starting[p] = "rebuild"}

\* A process starts and asks for the lock; SQLite's is none.
Launch(p) ==
    /\ Stands(p, "down")
    /\ backend = "sqlite" => p \notin Elsewhere
    /\ Step(p, IF backend = "sqlite" THEN "tables" ELSE "waiting")
    /\ torn' = (torn \/ (backend = "sqlite" /\ InSchema # {}))
    /\ UNCHANGED <<backend, rebuildVars, leaseVars, knew, stmt>>

\* pg_advisory_lock returns.
Lock(p) ==
    /\ backend = "postgres" /\ Stands(p, "waiting")
    /\ lock = Nobody
    /\ lock' = p
    /\ Step(p, "tables")
    /\ UNCHANGED <<backend, rebuildVars, index, overdue, held, lapsed, knew, stmt, torn>>

\* Mutant: the lease document is written over another's.
TakeLeaseAnyway(p) ==
    /\ backend = "mongo" /\ Stands(p, "waiting")
    /\ lock' = p
    /\ overdue' = FALSE
    /\ held' = held \union {p}
    /\ Step(p, "info")
    /\ UNCHANGED <<backend, rebuildVars, index, lapsed, knew, stmt, torn>>

\* The lease document is inserted: nobody holds one.
TakeLease(p) ==
    /\ backend = "mongo" /\ Stands(p, "waiting")
    /\ lock = Nobody
    /\ lock' = p
    /\ overdue' = FALSE
    /\ held' = held \union {p}
    /\ Step(p, "info")
    /\ UNCHANGED <<backend, rebuildVars, index, lapsed, knew, stmt, torn>>

\* Its holder is gone, or takes long: time alone decides what follows.
Unattended == lock # Nobody /\ (lock \in Slow \/ starting[lock] = "dead")

LeaseAges ==
    /\ backend = "mongo" /\ Unattended
    /\ overdue' = TRUE
    /\ lapsed' = TRUE
    /\ UNCHANGED <<backend, rebuildVars, index, lock, starting, knew, stmt, held, torn>>

\* A lease older than 120 s is read in one call and deleted in the next.
SeeOverdue(p) ==
    /\ backend = "mongo" /\ Stands(p, "waiting")
    /\ lock # Nobody /\ overdue
    /\ Step(p, "stealing")
    /\ UNCHANGED <<backend, rebuildVars, leaseVars, knew, stmt, torn>>

DeleteOverdue(p) ==
    /\ Stands(p, "stealing")
    /\ lock' = Nobody
    /\ overdue' = FALSE
    /\ Step(p, "waiting")
    /\ UNCHANGED <<backend, rebuildVars, index, held, lapsed, knew, stmt, torn>>

\* Sixty seconds of waiting are over; the work is done without the lease.
GiveUpWaiting(p) ==
    /\ backend = "mongo" /\ Stands(p, "waiting")
    /\ Unattended
    /\ lapsed' = TRUE
    /\ Step(p, "info")
    /\ UNCHANGED <<backend, rebuildVars, index, lock, overdue, held, knew, stmt, torn>>

-----------------------------------------------------------------------------
(* The finally of migration_lock, and how a start ends. *)

\* Mutant: the lock is kept by the session that serves.
UnlocksNot(p) == IF p \in held THEN Nobody ELSE lock

Unlocks(p) ==
    CASE backend = "postgres" -> IF lock = p THEN Nobody ELSE lock
      [] backend = "mongo"    -> IF p \in held THEN Nobody ELSE lock
      [] OTHER                -> lock

Release(p) ==
    /\ lock' = Unlocks(p)
    /\ overdue' = (overdue /\ lock' # Nobody)
    /\ held' = held \ {p}
    /\ UNCHANGED lapsed

End(p, pc) == Step(p, pc) /\ Release(p) /\ UNCHANGED index
Fail(p)    == End(p, "failed")

\* A process dies anywhere before it serves. A session takes its advisory
\* lock along; the lease stays.
StarterDies(p) ==
    /\ starting[p] \notin {"down", "serving", "failed", "dead"}
    /\ Step(p, "dead")
    /\ lock' = IF backend = "postgres" /\ lock = p THEN Nobody ELSE lock
    /\ torn' = (torn \/ p \in Rebuilding)
    /\ UNCHANGED <<backend, rebuildVars, index, overdue, held, lapsed, knew, stmt>>

-----------------------------------------------------------------------------
(* SQL: migrate, then the schema script. *)

Added == <<"owner_id", "profile_hash">>

\* jobs is there in every database that is not new.
Expected(p, k) == Added[k] = "profile_hash" => "external_ids" \in knew[p]
Alterable(k)   == Added[k] = "profile_hash" => table["external_ids"] # "absent"
Without(t)     == IF t = "external_ids" THEN column \ {"profile_hash"} ELSE column

Empty == \A t \in Tables : table[t] = "absent" /\ temp[t] = "none"

\* Mutant: the schema script comes first.
ReadTablesNot(p) ==
    /\ Stands(p, "tables")
    /\ knew' = [knew EXCEPT ![p] = {t \in Tables : table[t] # "absent"}]
    /\ Step(p, "script")
    /\ UNCHANGED <<backend, rebuildVars, leaseVars, stmt, torn>>

ReadTables(p) ==
    /\ Stands(p, "tables")
    /\ knew' = [knew EXCEPT ![p] = {t \in Tables : table[t] # "absent"}]
    /\ Step(p, IF Empty THEN "script" ELSE "columns")
    /\ UNCHANGED <<backend, rebuildVars, leaseVars, stmt, torn>>

\* On Postgres the columns and the commit are one transaction.
AddColumns(p) ==
    /\ backend = "postgres" /\ Stands(p, "columns")
    /\ column' = Columns
    /\ Step(p, "script")
    /\ UNCHANGED <<backend, table, labelled, temp, leaseVars, knew, stmt, torn>>

\* On SQLite each ALTER is on its own, after a look at the columns there are.
CheckColumn(p) ==
    /\ backend = "sqlite" /\ Stands(p, "columns") /\ stmt[p] <= 2
    /\ IF Added[stmt[p]] \in column \/ ~Expected(p, stmt[p])
       THEN NextStmt(p) /\ UNCHANGED starting
       ELSE Step(p, "altering") /\ UNCHANGED stmt
    /\ UNCHANGED <<backend, rebuildVars, leaseVars, knew, torn>>

\* A duplicate column, or no table to add it to, is an error and ends the start.
Alter(p) ==
    /\ Stands(p, "altering")
    /\ IF Added[stmt[p]] \in column \/ ~Alterable(stmt[p])
       THEN Fail(p) /\ UNCHANGED <<column, stmt>>
       ELSE /\ column' = column \union {Added[stmt[p]]}
            /\ NextStmt(p)
            /\ Step(p, "columns")
            /\ UNCHANGED leaseVars
    /\ UNCHANGED <<backend, table, labelled, temp, knew, torn>>

\* Only the shape of tags decides whether the three are rebuilt.
Decide(p) ==
    /\ backend = "sqlite" /\ Stands(p, "columns") /\ stmt[p] = 3
    /\ stmt' = [stmt EXCEPT ![p] = 1]
    /\ LET rebuild == "tags" \in knew[p] /\ table["tags"] # "new"
       IN  Step(p, IF rebuild THEN "rebuild" ELSE "script")
    /\ UNCHANGED <<backend, rebuildVars, leaseVars, knew, torn>>

-----------------------------------------------------------------------------
(* The script that rebuilds the three tables: statement stmt[p] of twelve. *)

Target(p) == Rebuilt[((stmt[p] - 1) \div 4) + 1]

\* Mutant: the old table makes room for the new one before it is copied.
KindDropFirst(p) == <<"create", "drop", "rename", "copy">>[((stmt[p] - 1) % 4) + 1]

Kind(p) == <<"create", "copy", "drop", "rename">>[((stmt[p] - 1) % 4) + 1]

\* The statement has worked; after the twelfth comes the schema script.
Ran(p) ==
    /\ stmt' = [stmt EXCEPT ![p] = IF @ = 12 THEN 12 ELSE @ + 1]
    /\ Step(p, IF stmt[p] = 12 THEN "script" ELSE "rebuild")
    /\ UNCHANGED <<backend, leaseVars, knew, torn>>

CreateCopy(p) ==
    /\ Stands(p, "rebuild") /\ Kind(p) = "create"
    /\ temp[Target(p)] = "none"
    /\ temp' = [temp EXCEPT ![Target(p)] = "empty"]
    /\ UNCHANGED <<table, labelled, column>>
    /\ Ran(p)

CopyRows(p) ==
    /\ Stands(p, "rebuild") /\ Kind(p) = "copy"
    /\ table[Target(p)] # "absent" /\ temp[Target(p)] = "empty"
    /\ temp' = [temp EXCEPT ![Target(p)] =
                   IF Target(p) \in labelled THEN "full" ELSE "empty"]
    /\ UNCHANGED <<table, labelled, column>>
    /\ Ran(p)

DropOld(p) ==
    /\ Stands(p, "rebuild") /\ Kind(p) = "drop"
    /\ table[Target(p)] # "absent"
    /\ table' = [table EXCEPT ![Target(p)] = "absent"]
    /\ labelled' = labelled \ {Target(p)}
    /\ column' = Without(Target(p))
    /\ UNCHANGED temp
    /\ Ran(p)

\* The new external_ids is declared without profile_hash.
Rename(p) ==
    /\ Stands(p, "rebuild") /\ Kind(p) = "rename"
    /\ table[Target(p)] = "absent" /\ temp[Target(p)] # "none"
    /\ table' = [table EXCEPT ![Target(p)] = "new"]
    /\ labelled' = IF temp[Target(p)] = "full" THEN labelled \union {Target(p)}
                   ELSE labelled
    /\ temp' = [temp EXCEPT ![Target(p)] = "none"]
    /\ UNCHANGED column
    /\ Ran(p)

\* A statement that cannot run ends the start; the rollback undoes nothing.
StatementFails(p) ==
    /\ Stands(p, "rebuild")
    /\ CASE Kind(p) = "create" -> temp[Target(p)] # "none"
         [] Kind(p) = "copy"   -> table[Target(p)] = "absent" \/ temp[Target(p)] # "empty"
         [] Kind(p) = "drop"   -> table[Target(p)] = "absent"
         [] Kind(p) = "rename" -> table[Target(p)] # "absent" \/ temp[Target(p)] = "none"
    /\ Fail(p)
    /\ UNCHANGED <<backend, rebuildVars, knew, stmt, torn>>

\* The schema script creates what is absent, in its order; the indexes on
\* tags and metadata need the tenant column and precede external_ids.
Script(p) ==
    /\ Stands(p, "script")
    /\ LET made   == [t \in Tables |-> IF table[t] = "absent" THEN "new" ELSE table[t]]
           broken == \E t \in {"tags", "metadata"} : made[t] = "old"
       IN  /\ table' = IF broken THEN [made EXCEPT !["external_ids"] = table["external_ids"]]
                       ELSE made
           /\ column' = column
                \union (IF Empty THEN {"owner_id"} ELSE {})
                \union (IF table'["external_ids"] # table["external_ids"]
                        THEN {"profile_hash"} ELSE {})
           /\ End(p, IF broken THEN "failed" ELSE "serving")
    /\ UNCHANGED <<backend, labelled, temp, knew, stmt, torn>>

-----------------------------------------------------------------------------
(* Mongo: the index that the dedup contract rests on. *)

\* An index that is there and not unique is dropped, by name, in a later call.
ReadIndex(p) ==
    /\ Stands(p, "info")
    /\ Step(p, IF index = "plain" THEN "dropping" ELSE "creating")
    /\ UNCHANGED <<backend, rebuildVars, leaseVars, knew, stmt, torn>>

DropIndex(p) ==
    /\ Stands(p, "dropping")
    /\ IF index = "none"
       THEN Fail(p)
       ELSE index' = "none" /\ Step(p, "creating")
            /\ UNCHANGED <<lock, overdue, held, lapsed>>
    /\ UNCHANGED <<backend, rebuildVars, knew, stmt, torn>>

CreateIndex(p) ==
    /\ Stands(p, "creating")
    /\ index' = "unique"
    /\ Step(p, "serving")
    /\ Release(p)
    /\ UNCHANGED <<backend, rebuildVars, knew, stmt, torn>>

-----------------------------------------------------------------------------

SchemaStep(p) ==
    \/ Launch(p) \/ Lock(p) \/ TakeLease(p) \/ SeeOverdue(p) \/ DeleteOverdue(p)
    \/ GiveUpWaiting(p) \/ ReadTables(p) \/ AddColumns(p) \/ CheckColumn(p)
    \/ Alter(p) \/ Decide(p) \/ CreateCopy(p) \/ CopyRows(p) \/ DropOld(p)
    \/ Rename(p) \/ StatementFails(p) \/ Script(p) \/ ReadIndex(p)
    \/ DropIndex(p) \/ CreateIndex(p)

SchemaNext == LeaseAges \/ \E p \in Starter : SchemaStep(p) \/ StarterDies(p)

\* A process that has been launched goes on; the clock does, too.
SchemaFairness ==
    /\ WF_schemaVars(LeaseAges)
    /\ \A p \in Starter :
          WF_schemaVars(starting[p] # "down" /\ SchemaStep(p))

SchemaSpec == SchemaInit /\ [][SchemaNext]_schemaVars /\ SchemaFairness

-----------------------------------------------------------------------------

\* Whatever dies where, and however many processes rebuild at once, the rows
\* of the old tables are in a table or in its copy (db_sql.migrate: the copy
\* is full before the original is dropped).
LabelsKept ==
    [][\A t \in Tables :
         t \in labelled \/ temp[t] = "full" => t \in labelled' \/ temp'[t] = "full"]_schemaVars

\* One process at a time works on a shared schema, unless somebody was tired
\* of waiting for the lease or took it over (migration_lock).
OneMigrator ==
    backend # "sqlite" /\ ~lapsed =>
        \A p, q \in InSchema : p = q

\* No start fails on a backend with a lock that was waited for, nor alone on
\* a SQLite file that no rebuild was interrupted on (db.init).
StartsSucceed ==
    ~lapsed /\ ~torn => \A p \in Starter : starting[p] # "failed"

\* Every process that starts comes to serve, fails or dies: locks are freed
\* by death, leases by time (migration_lock).
StartsEnd ==
    \A p \in Starter :
        (starting[p] = "waiting") ~> (starting[p] \in {"serving", "failed", "dead"})
=============================================================================
