------------------------------ MODULE Migration ------------------------------
(***************************************************************************)
(* Schema migrations.  Every process that opens the store renames the      *)
(* columns of an old release and then applies, file by file, what          *)
(* schema_migrations does not list yet.  Nothing locks: processes run this *)
(* at the same time, and crash between two statements.  SQLite executes a  *)
(* file statement by statement, PostgreSQL in one implicit transaction;    *)
(* an error ends the process on SQLite and is only logged on PostgreSQL.   *)
(***************************************************************************)
EXTENDS Naturals, FiniteSets, Sequences, Functions

CONSTANTS
  Processes,
  Tables,
  Files,       \* by dialect, the files in order: sequences of [op, on]
  MaxStarts,   \* bound on the starts of a process
  MaxFaults    \* bound on crashes and failing statements

VARIABLES
  dialect,     \* "sqlite" or "postgres"
  columns,     \* by table "none", "tenant_id" or "namespace_id"
  done,        \* indexes and altered columns that exist: [op, on]
  recorded,    \* rows of schema_migrations: indexes of files
  pc,          \* where a process stands
  renaming,    \* legacy tables a process has found and not handled yet
  at,          \* file and statement a process is at: [file, pos]
  swallowed,   \* history: processes a failing rename went unnoticed in
  disturbed,   \* history: processes a fault hit, or another's row overtook
  starts, faults

vars == <<dialect, columns, done, recorded, pc, renaming, at, swallowed, disturbed, starts, faults>>

Fault == faults < MaxFaults /\ faults' = faults + 1

Running(p) == pc[p] \notin {"off", "open", "failed"}
Goto(p, label) == pc' = [pc EXCEPT ![p] = label]
File(p) == Files[dialect][at[p].file]

----------------------------------------------------------------------------
(* Statements, on a schema [columns, done].  All of them but the ALTER     *)
(* say IF NOT EXISTS.                                                      *)

Schema == [columns |-> columns, done |-> done]

Possible(s, st) ==
  CASE st.op = "table" -> TRUE
    [] st.op = "index" -> s.columns[st.on] = "namespace_id"
    [] st.op = "alter" -> s.columns[st.on] # "none"

Executed(s, st) ==
  IF st.op = "table"
  THEN [s EXCEPT !.columns[st.on] = IF @ = "none" THEN "namespace_id" ELSE @]
  ELSE [s EXCEPT !.done = @ \union {st}]

\* The schemas after 0, 1, ... statements.
Schemas(s, stmts) ==
  LET created(t, n) == \E i \in 1 .. n : stmts[i] = [op |-> "table", on |-> t]
  IN [n \in 0 .. Len(stmts) |->
        [columns |-> [t \in Tables |-> IF s.columns[t] = "none" /\ created(t, n)
                                      THEN "namespace_id" ELSE s.columns[t]],
         done |-> s.done \union {st \in {stmts[i] : i \in 1 .. n} : st.op # "table"}]]

SetSchema(s) == columns' = s.columns /\ done' = s.done

----------------------------------------------------------------------------
\* The database is empty, or an older release has created the tables of its
\* first file, or some of them before it was interrupted.
Init ==
  /\ dialect \in {"sqlite", "postgres"}
  /\ \E old \in SUBSET Tables :
       /\ columns = [t \in Tables |-> IF t \in old THEN "tenant_id" ELSE "none"]
       /\ dialect = "postgres" => old \in {{}, Tables}
       /\ recorded \in IF old = Tables THEN {{}, {1}} ELSE {{}}
       /\ done = {st \in Range(Files[dialect][1]) : st.op # "table" /\ 1 \in recorded}
  /\ pc = [p \in Processes |-> "off"] /\ renaming = [p \in Processes |-> {}]
  /\ at = [p \in Processes |-> [file |-> 1, pos |-> 0]]
  /\ swallowed = {} /\ disturbed = {} /\ starts = [p \in Processes |-> 0] /\ faults = 0

\* The store is opened.
Start(p) ==
  /\ ~Running(p) /\ starts[p] < MaxStarts /\ starts' = [starts EXCEPT ![p] = @ + 1]
  /\ Goto(p, "ensure") /\ at' = [at EXCEPT ![p] = [file |-> 1, pos |-> 0]]
  /\ swallowed' = swallowed \ {p} /\ disturbed' = disturbed \ {p}
  /\ UNCHANGED <<dialect, columns, done, recorded, renaming, faults>>

\* The migration table is ensured and the tables with the old column listed.
ListLegacyTables(p) ==
  /\ pc[p] = "ensure"
  /\ renaming' = [renaming EXCEPT ![p] = {t \in Tables : columns[t] = "tenant_id"}]
  /\ Goto(p, "rename")
  /\ UNCHANGED <<dialect, columns, done, recorded, at, swallowed, disturbed, starts, faults>>

\* A rename that another process has done already fails, and is ignored.
RenameColumn(p, t) ==
  /\ pc[p] = "rename" /\ t \in renaming[p]
  /\ renaming' = [renaming EXCEPT ![p] = @ \ {t}]
  /\ columns' = [columns EXCEPT ![t] = "namespace_id"]
  /\ UNCHANGED <<dialect, done, recorded, pc, at, swallowed, disturbed, starts, faults>>

RenameError(p, t) ==
  /\ pc[p] = "rename" /\ t \in renaming[p] /\ Fault
  /\ renaming' = [renaming EXCEPT ![p] = @ \ {t}]
  /\ swallowed' = swallowed \union {p}
  /\ disturbed' = disturbed \union {p}
  /\ UNCHANGED <<dialect, columns, done, recorded, pc, at, starts>>

RenameDone(p) ==
  /\ pc[p] = "rename" /\ renaming[p] = {} /\ Goto(p, "check")
  /\ UNCHANGED <<dialect, columns, done, recorded, renaming, at, swallowed, disturbed, starts, faults>>

\* checkApplied of the next file, and the end of the loop.
NextFile(p) == [at EXCEPT ![p] = [file |-> @.file + 1, pos |-> 0]]

RecordBeforeExec(p) ==
  /\ pc[p] = "check" /\ at[p].file <= Len(Files[dialect])
  /\ recorded' = recorded \union {at[p].file}
  /\ IF at[p].file \in recorded THEN at' = NextFile(p) /\ UNCHANGED pc
     ELSE Goto(p, "exec") /\ UNCHANGED at
  /\ UNCHANGED <<dialect, columns, done, renaming, swallowed, disturbed, starts, faults>>

CheckApplied(p) ==
  /\ pc[p] = "check" /\ at[p].file <= Len(Files[dialect])
  /\ IF at[p].file \in recorded THEN at' = NextFile(p) /\ UNCHANGED pc
     ELSE Goto(p, "exec") /\ UNCHANGED at
  /\ UNCHANGED <<dialect, columns, done, recorded, renaming, swallowed, disturbed, starts, faults>>

Finish(p) ==
  /\ pc[p] = "check" /\ at[p].file > Len(Files[dialect]) /\ Goto(p, "open")
  /\ UNCHANGED <<dialect, columns, done, recorded, renaming, at, swallowed, disturbed, starts, faults>>

\* SQLite: each statement takes effect by itself.
ExecStatement(p) ==
  /\ dialect = "sqlite" /\ pc[p] = "exec" /\ at[p].pos < Len(File(p))
  /\ LET st == File(p)[at[p].pos + 1]
     IN IF Possible(Schema, st)
        THEN SetSchema(Executed(Schema, st)) /\ at' = [at EXCEPT ![p].pos = @ + 1] /\ UNCHANGED pc
        ELSE Goto(p, "failed") /\ UNCHANGED <<columns, done, at>>
  /\ UNCHANGED <<dialect, recorded, renaming, swallowed, disturbed, starts, faults>>

ExecDone(p) ==
  /\ dialect = "sqlite" /\ pc[p] = "exec" /\ at[p].pos = Len(File(p)) /\ Goto(p, "record")
  /\ UNCHANGED <<dialect, columns, done, recorded, renaming, at, swallowed, disturbed, starts, faults>>

\* PostgreSQL: all of the file or nothing.
ExecFile(p) ==
  /\ dialect = "postgres" /\ pc[p] = "exec"
  /\ LET after == Schemas(Schema, File(p))
     IN IF \A i \in DOMAIN File(p) : Possible(after[i - 1], File(p)[i])
        THEN SetSchema(after[Len(File(p))]) /\ Goto(p, "record")
        ELSE Goto(p, "failed") /\ UNCHANGED <<columns, done>>
  /\ UNCHANGED <<dialect, recorded, renaming, at, swallowed, disturbed, starts, faults>>

\* The primary key refuses the row another process has inserted meanwhile.
RecordMigration(p) ==
  /\ pc[p] = "record"
  /\ IF at[p].file \in recorded
     THEN Goto(p, "failed") /\ UNCHANGED <<recorded, at, disturbed>>
     ELSE /\ recorded' = recorded \union {at[p].file} /\ at' = NextFile(p) /\ Goto(p, "check")
          /\ disturbed' = disturbed \union {q \in Processes \ {p} : Running(q)}
  /\ UNCHANGED <<dialect, columns, done, renaming, swallowed, starts, faults>>

\* A statement fails (the database is busy, the connection breaks, two
\* processes create a table at once), or the process dies.
Error(p) ==
  /\ Running(p) /\ Fault /\ pc' \in {[pc EXCEPT ![p] = "failed"], [pc EXCEPT ![p] = "off"]}
  /\ disturbed' = disturbed \union {p}
  /\ UNCHANGED <<dialect, columns, done, recorded, renaming, at, swallowed, starts>>

Next ==
  \E p \in Processes :
    \/ Start(p) \/ ListLegacyTables(p) \/ RenameDone(p)
    \/ \E t \in Tables : RenameColumn(p, t) \/ RenameError(p, t)
    \/ CheckApplied(p) \/ Finish(p) \/ ExecStatement(p) \/ ExecDone(p) \/ ExecFile(p)
    \/ RecordMigration(p) \/ Error(p)

Spec == Init /\ [][Next]_vars

----------------------------------------------------------------------------
Complete ==
  /\ \A t \in Tables : columns[t] = "namespace_id"
  /\ \A f \in DOMAIN Files[dialect] : \A i \in DOMAIN Files[dialect][f] :
       Files[dialect][f][i].op # "table" => Files[dialect][f][i] \in done

\* RunMigrations, over whatever an earlier start left behind and whatever
\* other processes do meanwhile: without an error every statement of every
\* file is in effect and no table has the old column; and it "is idempotent",
\* so it only fails when one of its own statements does or another process
\* has recorded a file at the same time.
MigrationConverges ==
  \A p \in Processes :
    /\ pc[p] = "open" => Complete \/ p \in swallowed
    /\ pc[p] = "failed" => p \in disturbed
=============================================================================
