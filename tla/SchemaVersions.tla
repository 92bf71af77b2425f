---------------------------- MODULE SchemaVersions ----------------------------
(***************************************************************************)
(* How the database file gets the tables of the present version: what      *)
(* APSSEngine::initDatabase does at every start, the generated functions   *)
(* it reaches through ODB's schema catalog (external: the order of its     *)
(* calls), exceptions in any of them, and a program that ends or crashes   *)
(* anywhere and is started again.                                          *)
(*                                                                         *)
(* A file without tables, and one without rows of a version the code knows *)
(* are the files it may find.  One instance of the program is modelled.    *)
(***************************************************************************)
EXTENDS Naturals, Sequences

VARIABLES
    file,       \* committed: version of each table (0: no table), version row, rows
    copy,       \* the same as the open transaction sees it
    script,     \* calls the catalog has still to make
    step        \* where initDatabase is

schemaVars == <<file, copy, script, step>>

Tables == {"Event", "Prediction"}
Current == 2

File(v) == [table |-> [t \in Tables |-> v], version |-> v, migrating |-> FALSE,
            rows |-> [t \in Tables |-> FALSE]]

SchemaInit ==
    /\ file \in { File(v) : v \in 0 .. Current }
    /\ copy = file
    /\ script = <<>>
    /\ step = "off"
------------------------------------------------------------------------------
(* The generated functions, one call for each table and pass.              *)

DropTable(f, t) ==
    [f EXCEPT !.table[t] = 0, !.rows[t] = FALSE, !.version = 0, !.migrating = FALSE]

\* CREATE TABLE throws if there is one.
CreateTable(f, t) == [f EXCEPT !.table[t] = Current]

\* INSERT OR IGNORE
NoteVersion(f, t) == IF f.version = 0 THEN [f EXCEPT !.version = Current] ELSE f

\* Slip: the migration of a table drops it and creates it anew.
AddColumnAnew(f, t) == [f EXCEPT !.table[t] = Current, !.rows[t] = FALSE]

AddColumn(f, t) == [f EXCEPT !.table[t] = Current]

BeginMigration(f, t) == [f EXCEPT !.version = Current, !.migrating = TRUE]

EndMigration(f, t) == [f EXCEPT !.migrating = FALSE]

Call(f, c) ==
    CASE c.do = "drop" -> DropTable(f, c.table)
      [] c.do = "create" -> CreateTable(f, c.table)
      [] c.do = "note" -> NoteVersion(f, c.table)
      [] c.do = "add" -> AddColumn(f, c.table)
      [] c.do = "begin" -> BeginMigration(f, c.table)
      [] c.do = "end" -> EndMigration(f, c.table)

Throws(f, c) ==
    \/ c.do = "create" /\ f.table[c.table] # 0
    \/ c.do = "add" /\ f.table[c.table] # 1

\* The catalog goes pass by pass, through all tables in each.
Passes(names) ==
    [n \in 1 .. 2 * Len(names) |->
        [do |-> names[(n + 1) \div 2], table |-> IF n % 2 = 1 THEN "Event" ELSE "Prediction"]]

CreateSchema == Passes(<<"drop", "create", "note">>)
MigrateSchema == Passes(<<"add", "begin", "end">>)
------------------------------------------------------------------------------
(* initDatabase.                                                           *)

\* Slip: an older database counts as an empty one.
ReadVersionAnyOld ==
    /\ step = "off"
    /\ script' = IF file.version < Current THEN CreateSchema ELSE <<>>
    /\ step' = IF script' = <<>> THEN "running" ELSE "begin"
    /\ UNCHANGED <<file, copy>>

\* The version decides what to do, before the transaction begins.
ReadVersion ==
    /\ step = "off"
    /\ script' = IF file.version = 0 THEN CreateSchema
                 ELSE IF file.version < Current THEN MigrateSchema ELSE <<>>
    /\ step' = IF script' = <<>> THEN "running" ELSE "begin"
    /\ UNCHANGED <<file, copy>>

Begin ==
    /\ step = "begin"
    /\ copy' = file
    /\ step' = "calls"
    /\ UNCHANGED <<file, script>>

\* Slip: every statement is a transaction of its own.
MakeCallAtOnce ==
    /\ step = "calls" /\ script # <<>>
    /\ ~Throws(copy, Head(script))
    /\ copy' = Call(copy, Head(script))
    /\ file' = copy'
    /\ script' = Tail(script)
    /\ UNCHANGED step

MakeCall ==
    /\ step = "calls" /\ script # <<>>
    /\ ~Throws(copy, Head(script))
    /\ copy' = Call(copy, Head(script))
    /\ script' = Tail(script)
    /\ UNCHANGED <<file, step>>

\* Any statement may fail, the commit included: the transaction is rolled back, the
\* exception is logged, and the engine starts all the same.
Fails ==
    /\ step \in {"begin", "calls"}
    /\ script' = <<>>
    /\ step' = "running"
    /\ UNCHANGED <<file, copy>>

Commit ==
    /\ step = "calls" /\ script = <<>>
    /\ file' = copy
    /\ step' = "running"
    /\ UNCHANGED <<copy, script>>

\* The engine stores an object if the table is there.
StoreObject(t) ==
    /\ step = "running" /\ file.table[t] # 0
    /\ file' = [file EXCEPT !.rows[t] = TRUE]
    /\ UNCHANGED <<copy, script, step>>

\* The program ends or crashes; the file keeps what was committed.
End ==
    /\ step # "off"
    /\ step' = "off"
    /\ script' = <<>>
    /\ UNCHANGED <<file, copy>>

SchemaNext ==
    \/ ReadVersion \/ Begin \/ MakeCall \/ Fails \/ Commit
    \/ \E t \in Tables : StoreObject(t)
    \/ End

SchemaSpec == SchemaInit /\ [][SchemaNext]_schemaVars
------------------------------------------------------------------------------
(* Properties.                                                             *)

\* However starts are cut short, the version the file states is that of both its
\* tables, and no migration is under way in it: the next start does what is missing,
\* all of it and once.
VersionMatchesTables ==
    /\ \A t \in Tables : file.table[t] = file.version
    /\ ~file.migrating

\* No start loses rows, of whatever version the file was.
RowsKept == [][\A t \in Tables : file.rows[t] => file.rows'[t]]_schemaVars
=============================================================================
