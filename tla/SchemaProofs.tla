---------------------------- MODULE SchemaProofs ----------------------------
(***************************************************************************)
(* What db.init and its locks keep for any number of processes that start  *)
(* at once and any deaths among them: the labels of an old database, and   *)
(* one migrator at a time as long as leases are waited for.                *)
(***************************************************************************)
EXTENDS Schema, TLAPS

\* Which statement of the rebuild comes after which: a table is created,
\* filled, dropped and renamed before the next one's turn.
LEMMA Statements ==
    ASSUME NEW p \in Starter, stmt[p] \in 1..12
    PROVE  /\ Kind(p) \in {"create", "copy", "drop", "rename"}
           /\ Target(p) \in Tables
           /\ stmt[p] = 12 => Kind(p) = "rename"
           /\ stmt'[p] = stmt[p] + 1 /\ stmt[p] # 12 =>
                 /\ Kind(p) = "create" => Kind(p)' = "copy"
                 /\ Kind(p) = "copy"   => Kind(p)' = "drop"
                 /\ Kind(p) = "drop"   => Kind(p)' = "rename"
                 /\ Kind(p) = "rename" => Kind(p)' = "create"
                 /\ Kind(p) # "rename" => Target(p)' = Target(p)
<1> DEFINE r == (stmt[p] - 1) % 4
           t == (stmt[p] - 1) \div 4
<1>1. /\ r \in {0, 1, 2, 3} /\ t \in {0, 1, 2}
      /\ stmt[p] = 12 => r = 3
  OBVIOUS
<1>2. /\ Kind(p) = <<"create", "copy", "drop", "rename">>[r + 1]
      /\ Target(p) = <<"tags", "metadata", "external_ids">>[t + 1]
  BY DEF Kind, Target, Rebuilt
<1>3. /\ r = 0 => Kind(p) = "create"
      /\ r = 1 => Kind(p) = "copy"
      /\ r = 2 => Kind(p) = "drop"
      /\ r = 3 => Kind(p) = "rename"
      /\ Target(p) \in Tables
  BY <1>1, <1>2 DEF Tables
<1>4. ASSUME stmt'[p] = stmt[p] + 1, stmt[p] # 12
      PROVE  /\ r = 0 => r' = 1
             /\ r = 1 => r' = 2
             /\ r = 2 => r' = 3
             /\ r = 3 => r' = 0
             /\ r # 3 => t' = t
  BY <1>4
<1>5. /\ Kind(p)' = <<"create", "copy", "drop", "rename">>[r' + 1]
      /\ Target(p)' = <<"tags", "metadata", "external_ids">>[t' + 1]
  BY DEF Kind, Target, Rebuilt
<1>6. ASSUME stmt'[p] = stmt[p] + 1, stmt[p] # 12
      PROVE  /\ r' = 0 => Kind(p)' = "create"
             /\ r' = 1 => Kind(p)' = "copy"
             /\ r' = 2 => Kind(p)' = "drop"
             /\ r' = 3 => Kind(p)' = "rename"
  BY <1>5
<1> HIDE DEF r, t
<1>7. QED
  BY <1>1, <1>2, <1>3, <1>4, <1>5, <1>6

-----------------------------------------------------------------------------

\* The types, and how far a process's statements have come where it stands.
Shape ==
    /\ SchemaTypeOK
    /\ \A p \in Starter :
          /\ starting[p] \in {"down", "waiting", "stealing", "tables"} => stmt[p] = 1
          /\ starting[p] = "columns"  => stmt[p] <= 3
          /\ starting[p] = "altering" => stmt[p] <= 2

LEMMA InitShape == SchemaInit => Shape
<1> SUFFICES ASSUME SchemaInit PROVE Shape
  OBVIOUS
<1>1. table \in [Tables -> {"absent", "old", "new"}] /\ labelled \subseteq Tables
  BY DEF SchemaInit, Current
<1>2. column = {} \/ column = Columns
  BY DEF SchemaInit
<1>3. column \subseteq Columns
  BY <1>2
<1>4. index \in {"none", "plain", "unique"}
  <2>1. CASE backend = "mongo"
    BY <2>1 DEF SchemaInit
  <2>2. CASE backend # "mongo"
    BY <2>2 DEF SchemaInit
  <2>3. QED
    BY <2>1, <2>2
<1>5. /\ temp \in [Tables -> {"none", "empty", "full"}] /\ knew \in [Starter -> SUBSET Tables]
      /\ stmt \in [Starter -> 1..12] /\ \A p \in Starter : stmt[p] = 1 /\ starting[p] = "down"
      /\ starting \in [Starter -> {"down"}]
  BY DEF SchemaInit
<1>6. /\ backend \in {"sqlite", "postgres", "mongo"} /\ lock = Nobody /\ held = {}
      /\ overdue \in BOOLEAN /\ torn \in BOOLEAN /\ lapsed \in BOOLEAN
  BY DEF SchemaInit
<1>7. QED
  BY <1>1, <1>3, <1>4, <1>5, <1>6 DEF Shape, SchemaTypeOK

\* A statement that has worked leaves the rest in its type.
LEMMA RanShape ==
    ASSUME Shape, NEW p \in Starter, Stands(p, "rebuild"), Ran(p),
           table' \in [Tables -> {"absent", "old", "new"}], labelled' \subseteq Tables,
           temp' \in [Tables -> {"none", "empty", "full"}], column' \subseteq Columns
    PROVE  Shape'
BY DEF Shape, SchemaTypeOK, Ran, Step, Stands, leaseVars

\* A start that ends gives back what it holds.
LEMMA EndShape ==
    ASSUME Shape, NEW p \in Starter, NEW pc \in {"serving", "failed"}, End(p, pc),
           UNCHANGED <<backend, labelled, temp, knew, stmt, torn>>,
           table' \in [Tables -> {"absent", "old", "new"}], column' \subseteq Columns
    PROVE  Shape'
<1>1. lock' \in Starter \union {Nobody} /\ overdue' \in BOOLEAN /\ held' \subseteq Starter
  BY DEF Shape, SchemaTypeOK, End, Release, Unlocks
<1>2. starting' = [starting EXCEPT ![p] = pc] /\ UNCHANGED <<index, lapsed>>
  BY DEF End, Release, Step
<1>3. QED
  BY <1>1, <1>2 DEF Shape, SchemaTypeOK

LEMMA StepShape == Shape /\ [SchemaNext]_schemaVars => Shape'
<1> SUFFICES ASSUME Shape, [SchemaNext]_schemaVars PROVE Shape'
  OBVIOUS
<1> USE StarterAssumption DEF Stands, Step, NextStmt, rebuildVars, leaseVars
<1>1. CASE LeaseAges
  BY <1>1 DEF LeaseAges, Shape, SchemaTypeOK
<1>2. ASSUME NEW p \in Starter, SchemaStep(p) PROVE Shape'
  <2>1. CASE Launch(p)
    BY <2>1 DEF Launch, Shape, SchemaTypeOK
  <2>2. CASE Lock(p) \/ TakeLease(p)
    BY <2>2 DEF Lock, TakeLease, Shape, SchemaTypeOK
  <2>3. CASE SeeOverdue(p) \/ DeleteOverdue(p) \/ GiveUpWaiting(p)
    BY <2>3 DEF SeeOverdue, DeleteOverdue, GiveUpWaiting, Shape, SchemaTypeOK
  <2>4. CASE ReadTables(p)
    BY <2>4 DEF ReadTables, Shape, SchemaTypeOK
  <2>5. CASE AddColumns(p)
    BY <2>5 DEF AddColumns, Shape, SchemaTypeOK, Columns
  <2>6. CASE CheckColumn(p)
    BY <2>6 DEF CheckColumn, Shape, SchemaTypeOK
  <2>7. CASE Alter(p)
    <3>1. stmt[p] \in {1, 2} /\ Added[stmt[p]] \in Columns
      BY <2>7 DEF Alter, Shape, SchemaTypeOK, Added, Columns
    <3>2. CASE Fail(p) /\ UNCHANGED <<column, stmt>>
      BY <2>7, <3>2, EndShape DEF Alter, Fail, Shape, SchemaTypeOK
    <3>3. CASE ~(Fail(p) /\ UNCHANGED <<column, stmt>>)
      BY <2>7, <3>1, <3>3 DEF Alter, Shape, SchemaTypeOK
    <3>4. QED
      BY <3>2, <3>3
  <2>8. CASE Decide(p)
    BY <2>8 DEF Decide, Shape, SchemaTypeOK
  <2>9. CASE CreateCopy(p) \/ CopyRows(p) \/ DropOld(p) \/ Rename(p)
    <3>1. Stands(p, "rebuild") /\ Ran(p) /\ Target(p) \in Tables
      BY <2>9, Statements DEF CreateCopy, CopyRows, DropOld, Rename, Shape, SchemaTypeOK
    <3>2. /\ table' \in [Tables -> {"absent", "old", "new"}] /\ labelled' \subseteq Tables
          /\ temp' \in [Tables -> {"none", "empty", "full"}] /\ column' \subseteq Columns
      BY <2>9, <3>1 DEF CreateCopy, CopyRows, DropOld, Rename, Without, Shape, SchemaTypeOK
    <3>3. QED
      BY <3>1, <3>2, RanShape
  <2>10. CASE StatementFails(p)
    BY <2>10, EndShape DEF StatementFails, Fail, Shape, SchemaTypeOK
  <2>11. CASE Script(p)
    <3>1. table' \in [Tables -> {"absent", "old", "new"}]
      BY <2>11 DEF Script, Shape, SchemaTypeOK, Tables
    <3>2. column' \subseteq Columns
      BY <2>11 DEF Script, Shape, SchemaTypeOK, Columns
    <3>3. \E pc \in {"serving", "failed"} : End(p, pc)
      BY <2>11 DEF Script
    <3>4. QED
      BY <2>11, <3>1, <3>2, <3>3, EndShape DEF Script
  <2>12. CASE ReadIndex(p)
    BY <2>12 DEF ReadIndex, Shape, SchemaTypeOK
  <2>13. CASE DropIndex(p)
    BY <2>13, EndShape DEF DropIndex, Fail, Shape, SchemaTypeOK
  <2>14. CASE CreateIndex(p)
    BY <2>14 DEF CreateIndex, Release, Unlocks, Shape, SchemaTypeOK
  <2>15. QED
    BY <1>2, <2>1, <2>2, <2>3, <2>4, <2>5, <2>6, <2>7, <2>8, <2>9, <2>10, <2>11,
       <2>12, <2>13, <2>14 DEF SchemaStep
<1>3. ASSUME NEW p \in Starter, StarterDies(p) PROVE Shape'
  BY <1>3 DEF StarterDies, Shape, SchemaTypeOK
<1>4. CASE UNCHANGED schemaVars
  BY <1>4 DEF schemaVars, Shape, SchemaTypeOK
<1>5. QED
  BY <1>1, <1>2, <1>3, <1>4 DEF SchemaNext

-----------------------------------------------------------------------------
(* The labels *)

\* A process that has made the copy of a table and not yet renamed it.
Copying(p, t) == /\ starting[p] = "rebuild" /\ Target(p) = t
                 /\ Kind(p) \in {"copy", "drop", "rename"}

\* Each copy has one maker at a time, since a table is created only where there
\* is none; so what a process is about to drop is in the copy it has filled.
CopyOwned ==
    \A p \in Starter, t \in Tables : Copying(p, t) =>
        /\ temp[t] # "none"
        /\ \A q \in Starter : Copying(q, t) => q = p
        /\ Kind(p) = "drop" /\ t \in labelled => temp[t] = "full"

LEMMA InitCopyOwned == SchemaInit => CopyOwned
BY DEF SchemaInit, CopyOwned, Copying

\* A step that leaves the rebuilt tables alone makes nobody a maker.
LEMMA KeepsCopies ==
    ASSUME Shape, CopyOwned, UNCHANGED <<labelled, temp>>,
           \A q \in Starter : starting'[q] = "rebuild" =>
              \/ starting[q] = "rebuild" /\ stmt'[q] = stmt[q]
              \/ stmt'[q] = 1
    PROVE  CopyOwned'
<1>1. ASSUME NEW q \in Starter, NEW t \in Tables, Copying(q, t)' PROVE Copying(q, t) /\ Kind(q)' = Kind(q)
  <2>1. CASE stmt'[q] = stmt[q] /\ starting[q] = "rebuild"
    BY <1>1, <2>1 DEF Copying, Kind, Target
  <2>2. CASE stmt'[q] = 1
    <3>1. (1 - 1) % 4 = 0
      OBVIOUS
    <3>2. Kind(q)' = "create"
      BY <2>2, <3>1 DEF Kind
    <3>3. QED
      BY <1>1, <3>2 DEF Copying
  <2>3. QED
    BY <1>1, <2>1, <2>2 DEF Copying
<1>2. QED
  BY <1>1 DEF CopyOwned

\* After a statement, the process that ran it stands one further and all others
\* where they stood.
LEMMA RanOne ==
    ASSUME Shape, NEW p \in Starter, starting[p] = "rebuild", Ran(p)
    PROVE  /\ \A q \in Starter \ {p}, t \in Tables :
                 (Copying(q, t)' <=> Copying(q, t)) /\ Kind(q)' = Kind(q)
           /\ \A t \in Tables : Copying(p, t)' =>
                 \/ Kind(p) = "create" /\ Kind(p)' = "copy" /\ Target(p) = t
                 \/ Kind(p) = "copy" /\ Kind(p)' = "drop" /\ Copying(p, t)
                 \/ Kind(p) = "drop" /\ Kind(p)' = "rename" /\ Copying(p, t)
<1>1. ASSUME NEW q \in Starter \ {p}, NEW t \in Tables
      PROVE  (Copying(q, t)' <=> Copying(q, t)) /\ Kind(q)' = Kind(q)
  <2>1. stmt'[q] = stmt[q] /\ starting'[q] = starting[q]
    BY DEF Shape, SchemaTypeOK, Ran, Step
  <2>2. QED
    BY <2>1 DEF Copying, Kind, Target
<1>2. ASSUME NEW t \in Tables, Copying(p, t)'
      PROVE  \/ Kind(p) = "create" /\ Kind(p)' = "copy" /\ Target(p) = t
             \/ Kind(p) = "copy" /\ Kind(p)' = "drop" /\ Copying(p, t)
             \/ Kind(p) = "drop" /\ Kind(p)' = "rename" /\ Copying(p, t)
  <2>1. stmt[p] \in 1..12 /\ stmt[p] # 12 /\ stmt'[p] = stmt[p] + 1
    BY <1>2 DEF Shape, SchemaTypeOK, Ran, Step, Copying
  <2>2. QED
    BY <1>2, <2>1, Statements DEF Copying
<1>3. QED
  BY <1>1, <1>2

\* Each statement of the rebuild keeps the makers apart and the rows somewhere.
LEMMA RebuildKeepsCopies ==
    ASSUME Shape, CopyOwned, NEW p \in Starter,
           CreateCopy(p) \/ CopyRows(p) \/ DropOld(p) \/ Rename(p)
    PROVE  /\ CopyOwned'
           /\ \A t \in Tables :
                 t \in labelled \/ temp[t] = "full" => t \in labelled' \/ temp'[t] = "full"
<1> DEFINE t == Target(p)
<1>1. /\ starting[p] = "rebuild" /\ Ran(p) /\ t \in Tables
      /\ temp \in [Tables -> {"none", "empty", "full"}]
  BY Statements DEF CreateCopy, CopyRows, DropOld, Rename, Shape, SchemaTypeOK, Stands
<1>2. /\ \A q \in Starter \ {p}, u \in Tables :
           (Copying(q, u)' <=> Copying(q, u)) /\ Kind(q)' = Kind(q)
      /\ \A u \in Tables : Copying(p, u)' =>
           \/ Kind(p) = "create" /\ Kind(p)' = "copy" /\ t = u
           \/ Kind(p) = "copy" /\ Kind(p)' = "drop" /\ Copying(p, u)
           \/ Kind(p) = "drop" /\ Kind(p)' = "rename" /\ Copying(p, u)
  BY <1>1, RanOne
<1>3. \A u \in Tables : Copying(p, u) => u = t
  BY DEF Copying
<1> HIDE DEF t
<1>4. CASE CreateCopy(p)
  <2>1. /\ Kind(p) = "create" /\ temp[t] = "none" /\ UNCHANGED labelled
        /\ temp' = [temp EXCEPT ![t] = "empty"]
    BY <1>4 DEF CreateCopy, t
  <2>2. \A q \in Starter : ~Copying(q, t)
    BY <1>1, <2>1 DEF CopyOwned
  <2>3. QED
    BY <1>1, <1>2, <1>3, <2>1, <2>2 DEF CopyOwned
<1>5. CASE CopyRows(p)
  <2>1. /\ Kind(p) = "copy" /\ temp[t] = "empty" /\ UNCHANGED labelled /\ Copying(p, t)
        /\ temp' = [temp EXCEPT ![t] = IF t \in labelled THEN "full" ELSE "empty"]
    BY <1>5, <1>1 DEF CopyRows, Copying, t
  <2>2. QED
    BY <1>1, <1>2, <1>3, <2>1 DEF CopyOwned
<1>6. CASE DropOld(p)
  <2>1. /\ Kind(p) = "drop" /\ UNCHANGED temp /\ Copying(p, t)
        /\ labelled' = labelled \ {t}
    BY <1>6, <1>1 DEF DropOld, Copying, t
  <2>2. QED
    BY <1>1, <1>2, <1>3, <2>1 DEF CopyOwned
<1>7. CASE Rename(p)
  <2>1. /\ Kind(p) = "rename" /\ Copying(p, t)
        /\ temp' = [temp EXCEPT ![t] = "none"]
        /\ labelled' = IF temp[t] = "full" THEN labelled \union {t} ELSE labelled
    BY <1>7, <1>1 DEF Rename, Copying, t
  <2>2. \A q \in Starter, u \in Tables : Copying(q, u)' => q # p /\ u # t /\ Copying(q, u)
    BY <1>1, <1>2, <1>3, <2>1 DEF CopyOwned
  <2>3. QED
    BY <1>1, <1>2, <2>1, <2>2 DEF CopyOwned
<1>8. QED
  BY <1>4, <1>5, <1>6, <1>7

LEMMA StepCopyOwned ==
    Shape /\ CopyOwned /\ [SchemaNext]_schemaVars =>
        /\ CopyOwned'
        /\ \A t \in Tables :
              t \in labelled \/ temp[t] = "full" => t \in labelled' \/ temp'[t] = "full"
<1> SUFFICES ASSUME Shape, CopyOwned, [SchemaNext]_schemaVars
             PROVE  /\ CopyOwned'
                    /\ \A t \in Tables : t \in labelled \/ temp[t] = "full" =>
                          t \in labelled' \/ temp'[t] = "full"
  OBVIOUS
<1> DEFINE Aside == /\ UNCHANGED <<labelled, temp>>
                    /\ \A q \in Starter : starting'[q] = "rebuild" =>
                          \/ starting[q] = "rebuild" /\ stmt'[q] = stmt[q]
                          \/ stmt'[q] = 1
<1>1. ASSUME NEW p \in Starter,
             CreateCopy(p) \/ CopyRows(p) \/ DropOld(p) \/ Rename(p)
      PROVE  /\ CopyOwned'
             /\ \A t \in Tables :
                   t \in labelled \/ temp[t] = "full" => t \in labelled' \/ temp'[t] = "full"
  BY <1>1, RebuildKeepsCopies
<1>2. CASE LeaseAges \/ UNCHANGED schemaVars
  BY <1>2, KeepsCopies DEF LeaseAges, schemaVars, rebuildVars
<1>3. ASSUME NEW p \in Starter,
             \/ StarterDies(p) \/ Launch(p) \/ Lock(p) \/ TakeLease(p) \/ SeeOverdue(p)
             \/ DeleteOverdue(p) \/ GiveUpWaiting(p) \/ ReadTables(p) \/ AddColumns(p)
             \/ StatementFails(p) \/ ReadIndex(p) \/ DropIndex(p) \/ CreateIndex(p)
      PROVE  Aside
  <2>1. \E pc \in {"dead", "tables", "waiting", "info", "stealing", "script", "columns",
                   "failed", "dropping", "creating", "serving"} :
           starting' = [starting EXCEPT ![p] = pc]
    BY <1>3 DEF StarterDies, Launch, Lock, TakeLease, SeeOverdue, DeleteOverdue, GiveUpWaiting,
                ReadTables, AddColumns, StatementFails, ReadIndex, DropIndex, CreateIndex,
                Fail, End, Step
  <2>2. UNCHANGED <<labelled, temp, stmt>>
    BY <1>3 DEF StarterDies, Launch, Lock, TakeLease, SeeOverdue, DeleteOverdue, GiveUpWaiting,
                ReadTables, AddColumns, StatementFails, ReadIndex, DropIndex, CreateIndex,
                rebuildVars
  <2>3. QED
    BY <2>1, <2>2 DEF Shape, SchemaTypeOK
<1>4. ASSUME NEW p \in Starter, CheckColumn(p) PROVE Aside
  BY <1>4 DEF CheckColumn, Shape, SchemaTypeOK, rebuildVars, Stands, Step, NextStmt
<1>5. ASSUME NEW p \in Starter, Alter(p) PROVE Aside
  BY <1>5 DEF Alter, Fail, End, Shape, SchemaTypeOK, Stands, Step, NextStmt
<1>6. ASSUME NEW p \in Starter, Decide(p) PROVE Aside
  BY <1>6 DEF Decide, Shape, SchemaTypeOK, rebuildVars, Stands, Step
<1>7. ASSUME NEW p \in Starter, Script(p) PROVE Aside
  BY <1>7 DEF Script, End, Shape, SchemaTypeOK, Step
<1>8. Aside => CopyOwned' /\ \A t \in Tables :
         t \in labelled \/ temp[t] = "full" => t \in labelled' \/ temp'[t] = "full"
  BY KeepsCopies
<1>9. QED
  BY <1>1, <1>2, <1>3, <1>4, <1>5, <1>6, <1>7, <1>8 DEF SchemaNext, SchemaStep

-----------------------------------------------------------------------------
(* The locks *)

\* Whoever works on the schema holds the lock; a lease is overdue, or about to be
\* deleted by somebody who read that it is, only after it was not waited for.
Guarded ==
    /\ backend # "sqlite" /\ ~lapsed => \A p \in InSchema : lock = p
    /\ overdue \/ (\E p \in Starter : starting[p] = "stealing") => lapsed

LEMMA InitGuarded == SchemaInit => Guarded
BY DEF SchemaInit, Guarded, InSchema

\* Nobody enters the schema and no lock changes hands.
LEMMA KeepsGuard ==
    ASSUME Shape, Guarded, UNCHANGED <<backend, lock, overdue, lapsed>>,
           \A q \in Starter :
              \/ starting'[q] = starting[q]
              \/ starting'[q] # "stealing" /\ (q \in InSchema' => q \in InSchema)
    PROVE  Guarded'
BY DEF Guarded, InSchema

\* A start that ends frees its own lock only, unless a lease has lapsed.
LEMMA EndGuarded ==
    ASSUME Shape, Guarded, NEW p \in Starter, p \in InSchema, UNCHANGED backend, Release(p),
           NEW pc \in {"serving", "failed"}, Step(p, pc)
    PROVE  Guarded'
<1>1. \A q \in Starter : starting'[q] = IF q = p THEN pc ELSE starting[q]
  BY DEF Step, Shape, SchemaTypeOK
<1>2. overdue' => overdue
  BY DEF Release
<1>3. /\ UNCHANGED lapsed /\ p \notin InSchema'
      /\ \A q \in InSchema' : q \in InSchema /\ q # p
  BY <1>1 DEF Release, InSchema
<1>4. ASSUME backend # "sqlite", ~lapsed, NEW q \in InSchema' PROVE FALSE
  BY <1>3, <1>4 DEF Guarded
<1>5. QED
  BY <1>1, <1>2, <1>3, <1>4 DEF Guarded

LEMMA StepGuarded == Shape /\ Guarded /\ [SchemaNext]_schemaVars => Guarded'
<1> SUFFICES ASSUME Shape, Guarded, [SchemaNext]_schemaVars PROVE Guarded'
  OBVIOUS
<1> USE StarterAssumption DEF Stands, rebuildVars, leaseVars
<1>1. CASE LeaseAges
  BY <1>1 DEF LeaseAges, Guarded, InSchema
<1>2. ASSUME NEW p \in Starter, SchemaStep(p) PROVE Guarded'
  <2>0. p \in {q \in Starter : TRUE} /\ Nobody # p
    OBVIOUS
  <2>1. CASE Launch(p)
    <3>1. CASE backend = "sqlite"
      BY <2>1, <3>1 DEF Launch, Step, Guarded, Shape, SchemaTypeOK
    <3>2. CASE backend # "sqlite"
      BY <2>1, <3>2, KeepsGuard DEF Launch, Step, InSchema, Shape, SchemaTypeOK
    <3>3. QED
      BY <3>1, <3>2
  <2>2. CASE Lock(p) \/ TakeLease(p)
    <3>1. lock = Nobody /\ lock' = p /\ UNCHANGED <<backend, lapsed>> /\ (overdue' => overdue)
      BY <2>2 DEF Lock, TakeLease
    <3>2. \A q \in Starter : q # p => starting'[q] = starting[q]
      BY <2>2 DEF Lock, TakeLease, Step, Shape, SchemaTypeOK
    <3>3. starting'[p] # "stealing"
      BY <2>2 DEF Lock, TakeLease, Step, Shape, SchemaTypeOK
    <3>4. QED
      BY <3>1, <3>2, <3>3 DEF Guarded, InSchema
  <2>3. CASE SeeOverdue(p)
    BY <2>3 DEF SeeOverdue, Guarded
  <2>4. CASE DeleteOverdue(p)
    <3>1. lapsed /\ lapsed'
      BY <2>4 DEF DeleteOverdue, Guarded
    <3>2. QED
      BY <3>1 DEF Guarded
  <2>5. CASE GiveUpWaiting(p)
    BY <2>5 DEF GiveUpWaiting, Guarded
  <2>6. CASE ReadTables(p) \/ AddColumns(p) \/ CheckColumn(p) \/ Decide(p) \/ ReadIndex(p)
    BY <2>6, KeepsGuard DEF ReadTables, AddColumns, CheckColumn, Decide, ReadIndex, Step,
       InSchema, Shape, SchemaTypeOK
  <2>7. CASE Alter(p)
    <3>1. p \in InSchema /\ UNCHANGED backend
      BY <2>7 DEF Alter, InSchema
    <3>2. CASE Fail(p)
      BY <2>7, <3>1, <3>2, EndGuarded DEF Fail, End
    <3>3. CASE ~Fail(p)
      BY <2>7, <3>1, <3>3, KeepsGuard DEF Alter, Step, InSchema, Shape, SchemaTypeOK
    <3>4. QED
      BY <3>2, <3>3
  <2>8. CASE CreateCopy(p) \/ CopyRows(p) \/ DropOld(p) \/ Rename(p)
    <3>1. p \in InSchema /\ Ran(p)
      BY <2>8 DEF CreateCopy, CopyRows, DropOld, Rename, InSchema
    <3>2. QED
      BY <3>1, KeepsGuard DEF Ran, Step, InSchema, Shape, SchemaTypeOK
  <2>9. CASE StatementFails(p) \/ Script(p)
    <3>1. p \in InSchema /\ UNCHANGED backend /\ \E pc \in {"serving", "failed"} : End(p, pc)
      BY <2>9 DEF StatementFails, Fail, Script, InSchema
    <3>2. QED
      BY <3>1, EndGuarded DEF End
  <2>10. CASE DropIndex(p)
    <3>1. p \in InSchema /\ UNCHANGED backend
      BY <2>10 DEF DropIndex, InSchema
    <3>2. CASE Fail(p)
      BY <2>10, <3>1, <3>2, EndGuarded DEF Fail, End
    <3>3. CASE ~Fail(p)
      BY <2>10, <3>1, <3>3, KeepsGuard DEF DropIndex, Step, InSchema, Shape, SchemaTypeOK
    <3>4. QED
      BY <3>2, <3>3
  <2>11. CASE CreateIndex(p)
    <3>1. p \in InSchema
      BY <2>11 DEF CreateIndex, InSchema
    <3>2. QED
      BY <2>11, <3>1, EndGuarded DEF CreateIndex
  <2>12. QED
    BY <1>2, <2>1, <2>2, <2>3, <2>4, <2>5, <2>6, <2>7, <2>8, <2>9, <2>10, <2>11
       DEF SchemaStep
<1>3. ASSUME NEW p \in Starter, StarterDies(p) PROVE Guarded'
  <2>1. \A q \in Starter : starting'[q] = IF q = p THEN "dead" ELSE starting[q]
    BY <1>3 DEF StarterDies, Step, Shape, SchemaTypeOK
  <2>2. \A q \in InSchema' : q \in InSchema /\ q # p
    BY <2>1 DEF InSchema
  <2>3. UNCHANGED <<backend, overdue, lapsed>> /\ (lock' = lock \/ lock = p)
    BY <1>3 DEF StarterDies
  <2>4. QED
    BY <2>1, <2>2, <2>3 DEF Guarded
<1>4. CASE UNCHANGED schemaVars
  BY <1>4 DEF schemaVars, Guarded, InSchema
<1>5. QED
  BY <1>1, <1>2, <1>3, <1>4 DEF SchemaNext

-----------------------------------------------------------------------------
(* Starts that succeed *)

\* Which part of init each backend runs, and what a shared schema is made of.
Roles ==
    /\ \A p \in Starter :
          /\ starting[p] \in {"altering", "rebuild"} => backend = "sqlite"
          /\ starting[p] \in {"tables", "columns", "script"} => backend # "mongo"
          /\ starting[p] \in {"waiting", "stealing", "info", "dropping", "creating"}
                => backend # "sqlite"
    /\ backend # "sqlite" => \A t \in Tables : table[t] # "old"

\* Between rebuilds the three tables have one shape and no copies.
Resting ==
    \/ \A t \in Tables : temp[t] = "none" /\ table[t] = "old"
    \/ \A t \in Tables : temp[t] = "none" /\ table[t] = "new"
    \/ \A t \in Tables : temp[t] = "none" /\ table[t] = "absent"

\* The tables before statement s of the rebuild, where nobody else writes.
Before(s) ==
    /\ table["tags"] = IF s <= 3 THEN "old" ELSE IF s = 4 THEN "absent" ELSE "new"
    /\ table["metadata"] = IF s <= 7 THEN "old" ELSE IF s = 8 THEN "absent" ELSE "new"
    /\ table["external_ids"] = IF s <= 11 THEN "old" ELSE "absent"
    /\ temp["tags"] = "none" <=> s \notin 2..4
    /\ temp["metadata"] = "none" <=> s \notin 6..8
    /\ temp["external_ids"] = "none" <=> s \notin 10..12
    /\ s = 2 => temp["tags"] = "empty"
    /\ s = 6 => temp["metadata"] = "empty"
    /\ s = 10 => temp["external_ids"] = "empty"

\* As long as the lock was waited for, or SQLite's file was used by one start
\* at a time and no rebuild was cut short, whoever works on the schema is
\* alone and finds what its last look has found.
Undisturbed ==
    /\ \A p \in Starter : starting[p] # "failed"
    /\ \A p, q \in InSchema : p = q
    /\ Rebuilding = {} => Resting
    /\ \A p \in Rebuilding : Before(stmt[p])
    /\ \A p \in Starter :
          /\ starting[p] = "columns" \/ starting[p] = "altering" =>
                knew[p] = Tables /\ \A t \in Tables : table[t] # "absent"
          /\ starting[p] = "altering" => Added[stmt[p]] \notin column
          /\ starting[p] = "script"   => \A t \in Tables : table[t] # "old"
          /\ starting[p] = "dropping" => index = "plain"

Orderly == Roles /\ (~lapsed /\ ~torn => Undisturbed)

LEMMA InitOrderly == SchemaInit => Orderly
<1> SUFFICES ASSUME SchemaInit PROVE Orderly
  OBVIOUS
<1>1. /\ \A p \in Starter : starting[p] = "down"
      /\ \A t \in Tables : temp[t] = "none"
  BY DEF SchemaInit
<1>2. Roles
  BY <1>1 DEF Roles, SchemaInit, Current
<1>3. Resting
  <2>1. \/ table = [t \in Tables |-> "old"] \/ table = Current
        \/ table = [t \in Tables |-> "absent"]
    BY DEF SchemaInit
  <2>2. QED
    BY <1>1, <2>1 DEF Resting, Current
<1>4. Undisturbed
  BY <1>1, <1>3 DEF Undisturbed, InSchema, Rebuilding
<1>5. QED
  BY <1>2, <1>4 DEF Orderly

\* Which statement of which table number s is.
LEMMA StatementNumbers ==
    ASSUME NEW p \in Starter, stmt[p] \in 1..12
    PROVE  /\ Kind(p) = "create" <=> stmt[p] \in {1, 5, 9}
           /\ Kind(p) = "copy"   <=> stmt[p] \in {2, 6, 10}
           /\ Kind(p) = "drop"   <=> stmt[p] \in {3, 7, 11}
           /\ Kind(p) = "rename" <=> stmt[p] \in {4, 8, 12}
           /\ Kind(p) \in {"create", "copy", "drop", "rename"}
           /\ Target(p) = IF stmt[p] <= 4 THEN "tags"
                          ELSE IF stmt[p] <= 8 THEN "metadata" ELSE "external_ids"
<1> DEFINE s == stmt[p]
           r == (s - 1) % 4
           t == (s - 1) \div 4
<1>1. /\ r = 0 <=> s \in {1, 5, 9}
      /\ r = 1 <=> s \in {2, 6, 10}
      /\ r = 2 <=> s \in {3, 7, 11}
      /\ r = 3 <=> s \in {4, 8, 12}
      /\ t = 0 <=> s <= 4
      /\ t = 1 <=> s > 4 /\ s <= 8
      /\ r \in {0, 1, 2, 3} /\ t \in {0, 1, 2} /\ s \in Nat
  <2>1. \A k \in 1..12 : /\ (k - 1) % 4 = 0 <=> k \in {1, 5, 9}
                         /\ (k - 1) % 4 = 1 <=> k \in {2, 6, 10}
                         /\ (k - 1) % 4 = 2 <=> k \in {3, 7, 11}
                         /\ (k - 1) % 4 = 3 <=> k \in {4, 8, 12}
    OBVIOUS
  <2>2. \A k \in 1..12 : /\ (k - 1) \div 4 = 0 <=> k <= 4
                         /\ (k - 1) \div 4 = 1 <=> k > 4 /\ k <= 8
                         /\ (k - 1) \div 4 \in {0, 1, 2}
    OBVIOUS
  <2>3. \A k \in 1..12 : (k - 1) % 4 \in {0, 1, 2, 3} /\ k \in Nat
    OBVIOUS
  <2>4. QED
    BY <2>1, <2>2, <2>3
<1>2. /\ Kind(p) = <<"create", "copy", "drop", "rename">>[r + 1]
      /\ Target(p) = <<"tags", "metadata", "external_ids">>[t + 1]
  BY DEF Kind, Target, Rebuilt
<1> HIDE DEF r, t, s
<1>3. /\ r = 0 => Kind(p) = "create"
      /\ r = 1 => Kind(p) = "copy"
      /\ r = 2 => Kind(p) = "drop"
      /\ r = 3 => Kind(p) = "rename"
      /\ t = 0 => Target(p) = "tags"
      /\ t = 1 => Target(p) = "metadata"
      /\ t = 2 => Target(p) = "external_ids"
  BY <1>2
<1>4. QED
  BY <1>1, <1>3 DEF s

\* One process works on the schema, and the step is its own.
LEMMA WorkerKeeps ==
    ASSUME Shape, Undisturbed, NEW p \in InSchema,
           NEW pc, Step(p, pc), pc # "failed",
           pc # "rebuild" => Resting',
           pc = "rebuild" => Before(stmt[p])',
           pc = "columns" \/ pc = "altering" =>
               knew'[p] = Tables /\ \A t \in Tables : table'[t] # "absent",
           pc = "altering" => Added[stmt'[p]] \notin column',
           pc = "script"   => \A t \in Tables : table'[t] # "old",
           pc = "dropping" => index' = "plain"
    PROVE  Undisturbed'
<1>1. p \in Starter
  BY DEF InSchema
<1>2. \A q \in Starter : starting'[q] = IF q = p THEN pc ELSE starting[q]
  BY DEF Step, Shape, SchemaTypeOK
<1>3. \A q \in Starter : q \in InSchema => q = p
  BY DEF Undisturbed
<1>4. \A q \in Starter : starting'[q] \in {"columns", "altering", "script", "dropping", "rebuild"}
         => q = p
  BY <1>2, <1>3 DEF InSchema
<1>5. \A q, u \in InSchema' : q = u
  BY <1>2, <1>3 DEF InSchema
<1>6. \A q \in Starter : starting'[q] # "failed"
  BY <1>2 DEF Undisturbed
<1>7. Rebuilding' = {} => Resting'
  BY <1>1, <1>2 DEF Rebuilding
<1>8. \A q \in Rebuilding' : Before(stmt[q])'
  BY <1>1, <1>2, <1>4 DEF Rebuilding
<1>9. QED
  BY <1>1, <1>2, <1>4, <1>5, <1>6, <1>7, <1>8 DEF Undisturbed

\* The step of a process outside the schema, or its death there.
LEMMA OutsideKeeps ==
    ASSUME Shape, Undisturbed, UNCHANGED <<table, temp, column, index, knew, stmt>>,
           NEW p \in Starter \ Rebuilding,
           NEW pc \in {"waiting", "stealing", "tables", "info", "dead"}, Step(p, pc),
           \A q, u \in InSchema' : q = u
    PROVE  Undisturbed'
<1>1. \A q \in Starter : starting'[q] = IF q = p THEN pc ELSE starting[q]
  BY DEF Step, Shape, SchemaTypeOK
<1>2. Rebuilding' = Rebuilding
  BY <1>1 DEF Rebuilding
<1>3. (Resting' <=> Resting) /\ \A q \in Starter : Before(stmt[q])' <=> Before(stmt[q])
  BY DEF Resting, Before
<1>4. /\ \A q \in Starter : starting'[q] # "failed"
      /\ Rebuilding' = {} => Resting'
      /\ \A q \in Rebuilding' : Before(stmt[q])'
  BY <1>1, <1>2, <1>3 DEF Undisturbed, Rebuilding
<1>5. QED
  BY <1>1, <1>4 DEF Undisturbed

LEMMA StepRoles == Shape /\ Roles /\ [SchemaNext]_schemaVars => Roles'
<1> SUFFICES ASSUME Shape, Roles, [SchemaNext]_schemaVars PROVE Roles'
  OBVIOUS
<1> USE DEF Stands, Step, NextStmt, rebuildVars, leaseVars
<1>1. CASE LeaseAges
  BY <1>1 DEF LeaseAges, Roles
<1>2. ASSUME NEW p \in Starter, SchemaStep(p) PROVE Roles'
  <2>1. CASE Launch(p)
    BY <2>1 DEF Launch, Roles, Shape, SchemaTypeOK
  <2>2. CASE Lock(p) \/ TakeLease(p)
    BY <2>2 DEF Lock, TakeLease, Roles, Shape, SchemaTypeOK
  <2>3. CASE SeeOverdue(p) \/ DeleteOverdue(p) \/ GiveUpWaiting(p)
    BY <2>3 DEF SeeOverdue, DeleteOverdue, GiveUpWaiting, Roles, Shape, SchemaTypeOK
  <2>4. CASE ReadTables(p) \/ AddColumns(p)
    BY <2>4 DEF ReadTables, AddColumns, Roles, Shape, SchemaTypeOK
  <2>5. CASE CheckColumn(p) \/ Decide(p)
    BY <2>5 DEF CheckColumn, Decide, Roles, Shape, SchemaTypeOK
  <2>6. CASE Alter(p)
    BY <2>6 DEF Alter, Fail, End, Roles, Shape, SchemaTypeOK
  <2>7. CASE CreateCopy(p) \/ CopyRows(p) \/ DropOld(p) \/ Rename(p)
    <3>1. /\ backend = "sqlite" /\ UNCHANGED backend
          /\ \E pc \in {"script", "rebuild"} : starting' = [starting EXCEPT ![p] = pc]
      BY <2>7 DEF CreateCopy, CopyRows, DropOld, Rename, Ran, Roles
    <3>2. QED
      BY <3>1 DEF Roles, Shape, SchemaTypeOK
  <2>8. CASE StatementFails(p)
    BY <2>8 DEF StatementFails, Fail, End, Roles, Shape, SchemaTypeOK
  <2>9. CASE Script(p)
    <3>1. /\ UNCHANGED backend
          /\ \E pc \in {"failed", "serving"} : starting' = [starting EXCEPT ![p] = pc]
          /\ \A t \in Tables : table'[t] = "old" => table[t] = "old"
      BY <2>9 DEF Script, End, Shape, SchemaTypeOK, Tables
    <3>2. QED
      BY <3>1 DEF Roles, Shape, SchemaTypeOK
  <2>10. CASE ReadIndex(p) \/ DropIndex(p) \/ CreateIndex(p)
    BY <2>10 DEF ReadIndex, DropIndex, CreateIndex, Fail, End, Roles, Shape, SchemaTypeOK
  <2>11. QED
    BY <1>2, <2>1, <2>2, <2>3, <2>4, <2>5, <2>6, <2>7, <2>8, <2>9, <2>10 DEF SchemaStep
<1>3. ASSUME NEW p \in Starter, StarterDies(p) PROVE Roles'
  BY <1>3 DEF StarterDies, Roles, Shape, SchemaTypeOK
<1>4. CASE UNCHANGED schemaVars
  BY <1>4 DEF schemaVars, Roles
<1>5. QED
  BY <1>1, <1>2, <1>3, <1>4 DEF SchemaNext

\* Each statement of the rebuild finds the tables as the one before left them.
LEMMA RebuildKeeps ==
    ASSUME Shape, Undisturbed, NEW p \in Starter,
           CreateCopy(p) \/ CopyRows(p) \/ DropOld(p) \/ Rename(p)
    PROVE  Undisturbed'
<1>0. PICK s \in 1..12 : s = stmt[p]
  BY DEF Shape, SchemaTypeOK
<1>1. /\ p \in Rebuilding /\ p \in InSchema /\ s \in 1..12 /\ Before(s)
      /\ table \in [Tables -> {"absent", "old", "new"}]
      /\ temp \in [Tables -> {"none", "empty", "full"}]
  BY <1>0 DEF CreateCopy, CopyRows, DropOld, Rename, Stands, Rebuilding, InSchema,
              Undisturbed, Shape, SchemaTypeOK
<1>2. /\ s = 12 => Step(p, "script")
      /\ s # 12 => Step(p, "rebuild") /\ stmt'[p] = s + 1
  BY <1>0 DEF CreateCopy, CopyRows, DropOld, Rename, Ran, Shape, SchemaTypeOK
<1>3. /\ Kind(p) = "create" <=> s \in {1, 5, 9}
      /\ Kind(p) = "copy"   <=> s \in {2, 6, 10}
      /\ Kind(p) = "drop"   <=> s \in {3, 7, 11}
      /\ Kind(p) = "rename" <=> s \in {4, 8, 12}
      /\ Target(p) = IF s <= 4 THEN "tags" ELSE IF s <= 8 THEN "metadata" ELSE "external_ids"
  BY <1>0, StatementNumbers
<1>4. s # 12 => Before(s + 1)'
  <2>1. CASE CreateCopy(p)
    <3>1. s \in {1, 5, 9} /\ UNCHANGED table /\ temp' = [temp EXCEPT ![Target(p)] = "empty"]
      BY <1>3, <2>1 DEF CreateCopy
    <3>2. QED
      BY <1>1, <1>3, <3>1 DEF Before, Tables
  <2>2. CASE CopyRows(p)
    <3>1. /\ s \in {2, 6, 10} /\ UNCHANGED table
          /\ \E shape \in {"empty", "full"} : temp' = [temp EXCEPT ![Target(p)] = shape]
      BY <1>3, <2>2 DEF CopyRows
    <3>2. QED
      BY <1>1, <1>3, <3>1 DEF Before, Tables
  <2>3. CASE DropOld(p)
    <3>1. s \in {3, 7, 11} /\ UNCHANGED temp /\ table' = [table EXCEPT ![Target(p)] = "absent"]
      BY <1>3, <2>3 DEF DropOld
    <3>2. QED
      BY <1>1, <1>3, <3>1 DEF Before, Tables
  <2>4. CASE Rename(p)
    <3>1. /\ s \in {4, 8, 12} /\ table' = [table EXCEPT ![Target(p)] = "new"]
          /\ temp' = [temp EXCEPT ![Target(p)] = "none"]
      BY <1>3, <2>4 DEF Rename
    <3>2. QED
      BY <1>1, <1>3, <3>1 DEF Before, Tables
  <2>5. QED
    BY <2>1, <2>2, <2>3, <2>4
<1>5. s = 12 => \A t \in Tables : temp'[t] = "none" /\ table'[t] = "new"
  <2>1. ASSUME s = 12
        PROVE  /\ table' = [table EXCEPT !["external_ids"] = "new"]
               /\ temp' = [temp EXCEPT !["external_ids"] = "none"]
    BY <1>3, <2>1 DEF CreateCopy, CopyRows, DropOld, Rename
  <2>2. QED
    BY <1>1, <2>1 DEF Before, Tables
<1>6. CASE s = 12
  <2>1. Resting' /\ Step(p, "script") /\ \A t \in Tables : table'[t] # "old"
    BY <1>2, <1>5, <1>6 DEF Resting
  <2>2. QED
    BY <1>1, <2>1, WorkerKeeps
<1>7. CASE s # 12
  <2>1. Before(stmt[p])'
    BY <1>2, <1>4, <1>7
  <2>2. QED
    BY <1>1, <1>2, <1>7, <2>1, WorkerKeeps
<1>8. QED
  BY <1>6, <1>7

\* Where the lock was waited for and no rebuild was torn, it still is, and no
\* step fails.
LEMMA StepUndisturbed ==
    ASSUME Shape, Roles, Guarded, Guarded', [SchemaNext]_schemaVars,
           ~lapsed /\ ~torn => Undisturbed, ~lapsed', ~torn'
    PROVE  Undisturbed'
<1> USE DEF Stands, NextStmt, rebuildVars, leaseVars
<1>1. CASE LeaseAges
  BY <1>1 DEF LeaseAges
<1>2. ASSUME NEW p \in Starter, SchemaStep(p) PROVE Undisturbed'
  <2>0. ~lapsed /\ ~torn /\ Undisturbed
    <3>1. CASE Launch(p) \/ Lock(p) \/ TakeLease(p) \/ SeeOverdue(p) \/ DeleteOverdue(p)
               \/ GiveUpWaiting(p)
      <4>1. torn' = torn \/ Launch(p)
        BY <3>1 DEF Lock, TakeLease, SeeOverdue, DeleteOverdue, GiveUpWaiting
      <4>2. Launch(p) => torn' = (torn \/ (backend = "sqlite" /\ InSchema # {}))
        BY DEF Launch
      <4>3. ~torn
        BY <4>1, <4>2 DEF Shape, SchemaTypeOK
      <4>4. ~lapsed
        BY <3>1 DEF Launch, Lock, TakeLease, SeeOverdue, DeleteOverdue, GiveUpWaiting
      <4>5. QED
        BY <4>3, <4>4
    <3>2. CASE ReadTables(p) \/ AddColumns(p) \/ CheckColumn(p) \/ Decide(p)
      BY <3>2 DEF ReadTables, AddColumns, CheckColumn, Decide
    <3>3. CASE Alter(p) \/ StatementFails(p) \/ Script(p)
      <4>1. UNCHANGED torn
        BY <3>3 DEF Alter, StatementFails, Script
      <4>2. CASE Alter(p)
        BY <4>1, <4>2 DEF Alter, Fail, End, Release
      <4>3. CASE StatementFails(p)
        BY <4>1, <4>3 DEF StatementFails, Fail, End, Release
      <4>4. CASE Script(p)
        <5>1. \E pc \in {"failed", "serving"} : End(p, pc)
          BY <4>4 DEF Script
        <5>2. QED
          BY <4>1, <5>1 DEF End, Release
      <4>5. QED
        BY <3>3, <4>2, <4>3, <4>4
    <3>4. CASE CreateCopy(p) \/ CopyRows(p) \/ DropOld(p) \/ Rename(p)
      BY <3>4 DEF CreateCopy, CopyRows, DropOld, Rename, Ran
    <3>5. CASE ReadIndex(p) \/ DropIndex(p) \/ CreateIndex(p)
      BY <3>5 DEF ReadIndex, DropIndex, CreateIndex, Fail, End, Release
    <3>6. QED
      BY <1>2, <3>1, <3>2, <3>3, <3>4, <3>5 DEF SchemaStep
  <2>1. CASE Launch(p) \/ Lock(p) \/ TakeLease(p) \/ SeeOverdue(p) \/ DeleteOverdue(p)
             \/ GiveUpWaiting(p)
    <3>1. /\ UNCHANGED <<table, temp, column, index, knew, stmt, backend>>
          /\ starting[p] \in {"down", "waiting", "stealing"}
      BY <2>1 DEF Launch, Lock, TakeLease, SeeOverdue, DeleteOverdue, GiveUpWaiting
    <3>2. PICK pc \in {"waiting", "stealing", "tables", "info", "dead"} : Step(p, pc)
      BY <2>1 DEF Launch, Lock, TakeLease, SeeOverdue, DeleteOverdue, GiveUpWaiting
    <3>3. \A q, u \in InSchema' : q = u
      <4>1. CASE backend = "sqlite"
        <5>1. Launch(p)
          BY <2>1, <4>1, <3>1 DEF Launch, Lock, TakeLease, SeeOverdue, DeleteOverdue,
                                  GiveUpWaiting, Roles
        <5>2. InSchema = {}
          BY <4>1, <5>1 DEF Launch
        <5>3. \A q \in Starter : q # p => starting'[q] = starting[q]
          BY <3>2 DEF Step, Shape, SchemaTypeOK
        <5>4. QED
          BY <5>2, <5>3 DEF InSchema
      <4>2. CASE backend # "sqlite"
        BY <3>1, <4>2 DEF Guarded
      <4>3. QED
        BY <4>1, <4>2
    <3>4. p \notin Rebuilding
      BY <3>1 DEF Rebuilding
    <3>5. QED
      BY <2>0, <3>1, <3>2, <3>3, <3>4, OutsideKeeps
  <2>2. CASE ReadTables(p)
    <3>1. p \in InSchema /\ Rebuilding = {}
      <4>1. p \in InSchema
        BY <2>2 DEF ReadTables, InSchema
      <4>2. QED
        BY <2>0, <2>2, <4>1 DEF ReadTables, InSchema, Rebuilding, Undisturbed
    <3>2. /\ UNCHANGED <<table, temp, column, index>> /\ Resting
          /\ knew'[p] = {t \in Tables : table[t] # "absent"}
          /\ Empty => Step(p, "script")
          /\ ~Empty => Step(p, "columns")
      BY <2>0, <2>2, <3>1 DEF ReadTables, Shape, SchemaTypeOK, Undisturbed
    <3>3. Resting'
      BY <3>2 DEF Resting
    <3>4. CASE Empty
      <4>1. \A t \in Tables : table'[t] # "old"
        BY <3>2, <3>4 DEF Empty
      <4>2. QED
        BY <2>0, <3>1, <3>2, <3>3, <3>4, <4>1, WorkerKeeps
    <3>5. CASE ~Empty
      <4>1. \A t \in Tables : table[t] # "absent"
        BY <3>2, <3>5 DEF Empty, Resting
      <4>2. knew'[p] = Tables /\ \A t \in Tables : table'[t] # "absent"
        BY <3>2, <4>1
      <4>3. QED
        BY <2>0, <3>1, <3>2, <3>3, <3>5, <4>2, WorkerKeeps
    <3>6. QED
      BY <3>4, <3>5
  <2>3. CASE AddColumns(p)
    <3>1. p \in InSchema /\ Rebuilding = {}
      <4>1. p \in InSchema
        BY <2>3 DEF AddColumns, InSchema
      <4>2. QED
        BY <2>0, <2>3, <4>1 DEF AddColumns, InSchema, Rebuilding, Undisturbed
    <3>2. /\ UNCHANGED <<table, temp>> /\ Resting /\ Step(p, "script")
          /\ \A t \in Tables : table[t] # "old"
      BY <2>0, <2>3, <3>1 DEF AddColumns, Undisturbed, Roles
    <3>3. Resting'
      BY <3>2 DEF Resting
    <3>4. QED
      BY <2>0, <3>1, <3>2, <3>3, WorkerKeeps
  <2>4. CASE CheckColumn(p)
    <3>1. p \in InSchema /\ Rebuilding = {}
      <4>1. p \in InSchema
        BY <2>4 DEF CheckColumn, InSchema
      <4>2. QED
        BY <2>0, <2>4, <4>1 DEF CheckColumn, InSchema, Rebuilding, Undisturbed
    <3>2. /\ UNCHANGED <<table, temp, knew, column>> /\ Resting
          /\ knew[p] = Tables /\ \A t \in Tables : table[t] # "absent"
      BY <2>0, <2>4, <3>1 DEF CheckColumn, Undisturbed
    <3>3. Resting'
      BY <3>2 DEF Resting
    <3>4. CASE UNCHANGED starting
      <4>1. Step(p, "columns")
        BY <2>4, <3>4 DEF CheckColumn, Step, Shape, SchemaTypeOK
      <4>2. QED
        BY <2>0, <3>1, <3>2, <3>3, <4>1, WorkerKeeps
    <3>5. CASE Step(p, "altering") /\ UNCHANGED stmt /\ Added[stmt[p]] \notin column
      BY <2>0, <3>1, <3>2, <3>3, <3>5, WorkerKeeps
    <3>6. QED
      BY <2>4, <3>4, <3>5 DEF CheckColumn
  <2>5. CASE Alter(p)
    <3>1. p \in InSchema /\ Rebuilding = {}
      <4>1. p \in InSchema
        BY <2>5 DEF Alter, InSchema
      <4>2. QED
        BY <2>0, <2>5, <4>1 DEF Alter, InSchema, Rebuilding, Undisturbed
    <3>2. /\ UNCHANGED <<table, temp, knew>> /\ Resting
          /\ knew[p] = Tables /\ \A t \in Tables : table[t] # "absent"
          /\ Added[stmt[p]] \notin column
      BY <2>0, <2>5, <3>1 DEF Alter, Undisturbed
    <3>3. Resting'
      BY <3>2 DEF Resting
    <3>4. Alterable(stmt[p])
      BY <3>2 DEF Alterable, Tables
    <3>5. Step(p, "columns")
      BY <2>5, <3>2, <3>4 DEF Alter
    <3>6. QED
      BY <2>0, <3>1, <3>2, <3>3, <3>5, WorkerKeeps
  <2>6. CASE Decide(p)
    <3>1. p \in InSchema /\ Rebuilding = {}
      <4>1. p \in InSchema
        BY <2>6 DEF Decide, InSchema
      <4>2. QED
        BY <2>0, <2>6, <4>1 DEF Decide, InSchema, Rebuilding, Undisturbed
    <3>2. /\ UNCHANGED <<table, temp>> /\ Resting /\ stmt'[p] = 1
          /\ knew[p] = Tables /\ \A t \in Tables : table[t] # "absent"
      BY <2>0, <2>6, <3>1 DEF Decide, Undisturbed, Shape, SchemaTypeOK
    <3>3. Resting'
      BY <3>2 DEF Resting
    <3>4. CASE table["tags"] # "new"
      <4>1. Step(p, "rebuild")
        BY <2>6, <3>2, <3>4 DEF Decide, Tables
      <4>2. \A t \in Tables : temp[t] = "none" /\ table[t] = "old"
        BY <3>2, <3>4 DEF Resting, Tables
      <4>3. Before(1)'
        BY <3>2, <4>2 DEF Before, Tables
      <4>4. Before(stmt[p])'
        BY <3>2, <4>3 DEF Before
      <4>5. QED
        BY <2>0, <3>1, <4>1, <4>4, WorkerKeeps
    <3>5. CASE table["tags"] = "new"
      <4>1. Step(p, "script")
        BY <2>6, <3>5 DEF Decide
      <4>2. \A t \in Tables : table'[t] # "old"
        BY <3>2, <3>5 DEF Resting, Tables
      <4>3. QED
        BY <2>0, <3>1, <3>3, <4>1, <4>2, WorkerKeeps
    <3>6. QED
      BY <3>4, <3>5
  <2>7. CASE CreateCopy(p) \/ CopyRows(p) \/ DropOld(p) \/ Rename(p)
    BY <2>0, <2>7, RebuildKeeps
  <2>8. ASSUME StatementFails(p) PROVE FALSE
    <3>1. p \in Rebuilding /\ Before(stmt[p]) /\ stmt[p] \in 1..12
      BY <2>0, <2>8 DEF StatementFails, Rebuilding, Undisturbed, Shape, SchemaTypeOK
    <3>2. /\ Kind(p) = "create" <=> stmt[p] \in {1, 5, 9}
          /\ Kind(p) = "copy"   <=> stmt[p] \in {2, 6, 10}
          /\ Kind(p) = "drop"   <=> stmt[p] \in {3, 7, 11}
          /\ Kind(p) = "rename" <=> stmt[p] \in {4, 8, 12}
          /\ Target(p) = IF stmt[p] <= 4 THEN "tags"
                         ELSE IF stmt[p] <= 8 THEN "metadata" ELSE "external_ids"
          /\ Kind(p) \in {"create", "copy", "drop", "rename"}
      BY <3>1, StatementNumbers
    <3>3. CASE Kind(p) = "create"
      BY <2>8, <3>1, <3>2, <3>3 DEF StatementFails, Before
    <3>4. CASE Kind(p) = "copy"
      BY <2>8, <3>1, <3>2, <3>4 DEF StatementFails, Before
    <3>5. CASE Kind(p) = "drop"
      BY <2>8, <3>1, <3>2, <3>5 DEF StatementFails, Before
    <3>6. CASE Kind(p) = "rename"
      BY <2>8, <3>1, <3>2, <3>6 DEF StatementFails, Before
    <3>7. QED
      BY <3>2, <3>3, <3>4, <3>5, <3>6
  <2>9. CASE Script(p)
    <3>1. p \in InSchema /\ Rebuilding = {}
      <4>1. p \in InSchema
        BY <2>9 DEF Script, InSchema
      <4>2. QED
        BY <2>0, <2>9, <4>1 DEF Script, InSchema, Rebuilding, Undisturbed
    <3>2. Resting /\ UNCHANGED temp /\ \A t \in Tables : table[t] # "old"
      BY <2>0, <2>9, <3>1 DEF Script, Undisturbed
    <3>3. Step(p, "serving") /\ \A t \in Tables : table'[t] = "new"
      <4>1. \A t \in Tables : (IF table[t] = "absent" THEN "new" ELSE table[t]) = "new"
        BY <3>2 DEF Shape, SchemaTypeOK
      <4>2. QED
        BY <2>9, <4>1 DEF Script, End, Tables
    <3>4. Resting'
      BY <3>2, <3>3 DEF Resting
    <3>5. QED
      BY <2>0, <3>1, <3>3, <3>4, WorkerKeeps
  <2>10. CASE ReadIndex(p) \/ DropIndex(p) \/ CreateIndex(p)
    <3>1. p \in InSchema /\ Rebuilding = {}
      <4>1. p \in InSchema
        BY <2>10 DEF ReadIndex, DropIndex, CreateIndex, InSchema
      <4>2. QED
        BY <2>0, <2>10, <4>1 DEF ReadIndex, DropIndex, CreateIndex, InSchema, Rebuilding,
                                 Undisturbed
    <3>2. UNCHANGED <<table, temp>> /\ Resting
      BY <2>0, <2>10, <3>1 DEF ReadIndex, DropIndex, CreateIndex, Undisturbed
    <3>3. Resting'
      BY <3>2 DEF Resting
    <3>4. \E pc \in {"dropping", "creating", "serving"} :
             Step(p, pc) /\ (pc = "dropping" => index' = "plain")
      <4>1. CASE ReadIndex(p)
        BY <4>1 DEF ReadIndex
      <4>2. CASE DropIndex(p)
        <5>1. index = "plain"
          BY <2>0, <4>2 DEF DropIndex, Undisturbed
        <5>2. QED
          BY <4>2, <5>1 DEF DropIndex
      <4>3. CASE CreateIndex(p)
        BY <4>3 DEF CreateIndex
      <4>4. QED
        BY <2>10, <4>1, <4>2, <4>3
    <3>5. QED
      BY <2>0, <3>1, <3>3, <3>4, WorkerKeeps
  <2>11. QED
    BY <1>2, <2>1, <2>2, <2>3, <2>4, <2>5, <2>6, <2>7, <2>8, <2>9, <2>10 DEF SchemaStep
<1>3. ASSUME NEW p \in Starter, StarterDies(p) PROVE Undisturbed'
  <2>1. ~lapsed /\ ~torn /\ Undisturbed /\ p \notin Rebuilding /\ Step(p, "dead")
    BY <1>3 DEF StarterDies
  <2>2. UNCHANGED <<table, temp, column, index, knew, stmt>>
    BY <1>3 DEF StarterDies
  <2>3. \A q, u \in InSchema' : q = u
    <3>1. InSchema' \subseteq InSchema
      BY <2>1 DEF Step, InSchema, Shape, SchemaTypeOK
    <3>2. QED
      BY <2>1, <3>1 DEF Undisturbed
  <2>4. QED
    BY <2>1, <2>2, <2>3, OutsideKeeps
<1>4. CASE UNCHANGED schemaVars
  <2>1. Undisturbed /\ UNCHANGED <<table, temp, column, index, knew, stmt, starting>>
    BY <1>4 DEF schemaVars
  <2>2. QED
    BY <2>1 DEF Undisturbed, InSchema, Rebuilding, Resting, Before
<1>5. QED
  BY <1>1, <1>2, <1>3, <1>4 DEF SchemaNext

-----------------------------------------------------------------------------

\* Every variable of the migration stays in its type.
THEOREM SchemaTypeCorrect == SchemaSpec => []SchemaTypeOK
<1>1. Shape => SchemaTypeOK
  BY DEF Shape
<1>2. QED
  BY <1>1, InitShape, StepShape, PTL DEF SchemaSpec

\* Copies have one maker each, in every reachable state.
THEOREM CopyOwnedHolds == SchemaSpec => [](Shape /\ CopyOwned)
BY InitShape, StepShape, InitCopyOwned, StepCopyOwned, PTL DEF SchemaSpec

\* The rows of the old tables are in a table or in its copy, however many
\* processes rebuild at once and wherever they die.
THEOREM LabelsKeptHolds == SchemaSpec => LabelsKept
<1>1. Shape /\ CopyOwned /\ [SchemaNext]_schemaVars =>
         [\A t \in Tables : t \in labelled \/ temp[t] = "full" =>
                               t \in labelled' \/ temp'[t] = "full"]_schemaVars
  BY StepCopyOwned
<1>2. QED
  BY <1>1, CopyOwnedHolds, PTL DEF SchemaSpec, LabelsKept

\* One process at a time works on a shared schema, as long as leases are waited
\* for.
THEOREM OneMigratorHolds == SchemaSpec => []OneMigrator
<1>1. Guarded => OneMigrator
  BY DEF Guarded, OneMigrator
<1>2. QED
  BY <1>1, InitShape, StepShape, InitGuarded, StepGuarded, PTL DEF SchemaSpec

\* No start fails, as long as leases were waited for and, on SQLite, no start had
\* company and no rebuild was cut short: whatever an earlier start left behind
\* when it died in any other statement, the next one completes it.
THEOREM StartsSucceedHolds == SchemaSpec => []StartsSucceed
<1>1. Shape /\ Shape' /\ Guarded /\ Guarded' /\ Orderly /\ [SchemaNext]_schemaVars
         => Orderly'
  BY StepRoles, StepUndisturbed DEF Orderly
<1>2. Orderly => StartsSucceed
  BY DEF Orderly, Undisturbed, StartsSucceed
<1>3. QED
  BY <1>1, <1>2, InitShape, StepShape, InitGuarded, StepGuarded, InitOrderly, PTL
  DEF SchemaSpec
=============================================================================
