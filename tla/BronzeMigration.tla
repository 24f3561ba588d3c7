--------------------------- MODULE BronzeMigration ---------------------------
(***************************************************************************)
(* The migration of the canonical Bronze table to the quality schema       *)
(* (jobs/streaming/iceberg_bronze_migration.py): a one-shot command that   *)
(* owns a Spark session, classifies the exact schema, issues one additive  *)
(* ALTER on the legacy schema alone, and requires the exact quality schema *)
(* afterwards.  Several commands may run at once and be repeated; a call   *)
(* may raise although the catalog applied it; other tools may change the   *)
(* table between two statements.  The Iceberg catalog is external: a DDL   *)
(* statement is one atomic commit, or none.                                *)
(***************************************************************************)
EXTENDS Integers, Sequences

CONSTANTS Commands,        \* processes that may run the migration
          InitialSchemas,  \* schemas the table may start with
          MaxAttempts,     \* bound on migration commands
          MaxForeign       \* bound on schema changes by other tools

\* The thirteen trade columns count as one.
Columns == {"trade", "is_valid", "validation_errors", "other"}
Schemas == Seq(Columns)
Absent == <<>>
Legacy == <<"trade">>
QualityColumns == <<"is_valid", "validation_errors">>
Quality == Legacy \o QualityColumns

ASSUME MigrationAssumption ==
    /\ InitialSchemas \subseteq Schemas
    /\ MaxAttempts \in Nat /\ MaxForeign \in Nat

VARIABLES
    schema,     \* the columns of the table, in order
    run,        \* the state of each command
    attempts,   \* counters for the bounds
    foreign,
    verified    \* history: commands whose report no other tool has outdated

vars == <<schema, run, attempts, foreign, verified>>

Has(s, c) == \E i \in DOMAIN s : s[i] = c

\* inspect_bronze_schema_state: exact names and types, in order.
State(s) ==
    CASE s = Legacy -> "LEGACY_13_COLUMN"
      [] s = Quality -> "QUALITY_15_COLUMN"
      [] OTHER -> "INCOMPATIBLE"

\* ALTER TABLE ... ADD COLUMNS: both columns are new, or nothing is added.
CanAlter(s) == s # Absent /\ ~Has(s, "is_valid") /\ ~Has(s, "validation_errors")

\* A command that did not start: report, error and history of the last attempt.
\* changed: another tool changed the table since the command inspected it.
Fresh == [pc |-> "idle", report |-> "none", error |-> "none", spark |-> "none",
          stops |-> 0, altered |-> FALSE, rerun |-> FALSE, changed |-> FALSE]

Init ==
    /\ schema \in InitialSchemas
    /\ run = [p \in Commands |-> Fresh]
    /\ attempts = 0 /\ foreign = 0
    /\ verified = {}

-----------------------------------------------------------------------------
(* One migration command                                                   *)

Idle == {"idle", "ended", "killed"}

\* The command moves on to label.
Goto(p, label) == run' = [run EXCEPT ![p].pc = label]

\* The inspection found a table to alter.
ToAlter(p) == run' = [run EXCEPT ![p].pc = "alter", ![p].changed = FALSE]

\* An exception inside the try block goes to the cleanup.
Raise(p, e) == run' = [run EXCEPT ![p].pc = "stop", ![p].error = e]

\* rerun: the table had the quality schema when the attempt began.
Start(p) ==
    /\ run[p].pc \in Idle /\ attempts < MaxAttempts
    /\ attempts' = attempts + 1
    /\ run' = [run EXCEPT ![p] = [Fresh EXCEPT !.pc = "session",
                                               !.rerun = (schema = Quality)]]
    /\ verified' = verified \ {p}
    /\ UNCHANGED <<schema, foreign>>

\* Without a session the command fails, and there is nothing to stop.
BuildSession(p) ==
    /\ run[p].pc = "session"
    /\ \/ run' = [run EXCEPT ![p].pc = "inspect", ![p].spark = "running"]
       \/ run' = [run EXCEPT ![p].pc = "ended", ![p].error = "session"]
    /\ UNCHANGED <<schema, attempts, foreign, verified>>

\* Mutant: every schema that is not the quality schema is altered.
InspectLoosely(p) ==
    /\ run[p].pc = "inspect"
    /\ \/ Raise(p, "inspect") /\ UNCHANGED verified
       \/ /\ schema = Quality
          /\ run' = [run EXCEPT ![p].pc = "stop", ![p].report = "ALREADY_MIGRATED"]
          /\ verified' = verified \cup {p}
       \/ /\ schema \notin {Quality, Absent}
          /\ ToAlter(p) /\ UNCHANGED verified
    /\ UNCHANGED <<schema, attempts, foreign>>

\* Mutant: the quality schema is altered again.
InspectAltersAgain(p) ==
    /\ run[p].pc = "inspect"
    /\ \/ Raise(p, "inspect")
       \/ schema \in {Legacy, Quality} /\ ToAlter(p)
    /\ UNCHANGED <<schema, attempts, foreign, verified>>

\* DESCRIBE, and the three states; it raises for a table that is absent.
Inspect(p) ==
    /\ run[p].pc = "inspect"
    /\ \/ Raise(p, "inspect") /\ UNCHANGED verified
       \/ /\ schema # Absent /\ State(schema) = "QUALITY_15_COLUMN"
          /\ run' = [run EXCEPT ![p].pc = "stop", ![p].report = "ALREADY_MIGRATED"]
          /\ verified' = verified \cup {p}
       \/ /\ schema # Absent /\ State(schema) = "INCOMPATIBLE"
          /\ Raise(p, "incompatible") /\ UNCHANGED verified
       \/ /\ schema # Absent /\ State(schema) = "LEGACY_13_COLUMN"
          /\ ToAlter(p) /\ UNCHANGED verified
    /\ UNCHANGED <<schema, attempts, foreign>>

\* Mutant: a failed ALTER is taken for one another command has applied.
AlterErrorIgnored(p) ==
    /\ run[p].pc = "alter"
    /\ \/ /\ CanAlter(schema)
          /\ schema' = schema \o QualityColumns
          /\ run' = [run EXCEPT ![p].altered = TRUE, ![p].pc = "verify"]
       \/ Goto(p, "verify") /\ UNCHANGED schema
    /\ UNCHANGED <<attempts, foreign, verified>>

\* The one ALTER.  It is refused by the catalog, or applied; an applied one may
\* still raise here, its answer lost.
Alter(p) ==
    /\ run[p].pc = "alter"
    /\ \/ /\ CanAlter(schema)
          /\ schema' = schema \o QualityColumns
          /\ \/ run' = [run EXCEPT ![p].altered = TRUE, ![p].pc = "verify"]
             \/ run' = [run EXCEPT ![p].altered = TRUE, ![p].pc = "stop",
                                   ![p].error = "alter"]
       \/ Raise(p, "alter") /\ UNCHANGED schema
    /\ UNCHANGED <<attempts, foreign, verified>>

\* Mutant: the schema is not looked at again after the ALTER.
VerifyNothing(p) ==
    /\ run[p].pc = "verify"
    /\ run' = [run EXCEPT ![p].pc = "stop", ![p].report = "MIGRATED"]
    /\ verified' = verified \cup {p}
    /\ UNCHANGED <<schema, attempts, foreign>>

\* Mutant: the final state is reported in place of the result.
VerifyReportsState(p) ==
    /\ run[p].pc = "verify"
    /\ run' = [run EXCEPT ![p].pc = "stop", ![p].report = State(schema)]
    /\ verified' = verified \cup {p}
    /\ UNCHANGED <<schema, attempts, foreign>>

\* The schema is inspected again and must be the exact quality schema.
Verify(p) ==
    /\ run[p].pc = "verify"
    /\ \/ /\ schema # Absent /\ State(schema) = "QUALITY_15_COLUMN"
          /\ run' = [run EXCEPT ![p].pc = "stop", ![p].report = "MIGRATED"]
          /\ verified' = verified \cup {p}
       \/ /\ schema # Absent /\ State(schema) # "QUALITY_15_COLUMN"
          /\ Raise(p, "notExact") /\ UNCHANGED verified
       \/ Raise(p, "inspect") /\ UNCHANGED verified
    /\ UNCHANGED <<schema, attempts, foreign>>

\* spark.stop(), once.  If it raises, that is the error of a command without
\* one, and otherwise a note on the error there is.  Then the process ends,
\* and prints its report if there is no error.
Stop(p) ==
    /\ run[p].pc = "stop"
    /\ \/ run' = [run EXCEPT ![p].pc = "ended", ![p].stops = @ + 1,
                             ![p].spark = "stopped"]
       \/ run' = [run EXCEPT ![p].pc = "ended", ![p].stops = @ + 1,
                             ![p].error = IF @ = "none" THEN "cleanup" ELSE @]
    /\ UNCHANGED <<schema, attempts, foreign, verified>>

\* The process is lost, at any statement; a statement in flight is Alter's.
Kill(p) ==
    /\ run[p].pc \notin Idle
    /\ run' = [run EXCEPT ![p].pc = "killed", ![p].spark = "none"]
    /\ UNCHANGED <<schema, attempts, foreign, verified>>

-----------------------------------------------------------------------------
(* Around the commands                                                     *)

\* ensure_bronze_trade_table: CREATE TABLE IF NOT EXISTS, the legacy columns.  No job
\* calls this helper; whoever sets the warehouse up may, at any time.
EnsureTable ==
    /\ schema = Absent
    /\ schema' = Legacy
    /\ UNCHANGED <<run, attempts, foreign, verified>>

\* Another tool adds a column at the end, or drops the last one.
ForeignDDL ==
    /\ foreign < MaxForeign
    /\ foreign' = foreign + 1
    /\ \/ schema # Absent /\ schema' = Append(schema, "other")
       \/ Len(schema) > 1 /\ schema' = SubSeq(schema, 1, Len(schema) - 1)
    /\ run' = [p \in Commands |-> [run[p] EXCEPT !.rerun = FALSE, !.changed = TRUE]]
    /\ verified' = {}
    /\ UNCHANGED attempts

Step(p) ==
    BuildSession(p) \/ Inspect(p) \/ Alter(p) \/ Verify(p) \/ Stop(p)

Next ==
    \/ EnsureTable \/ ForeignDDL
    \/ \E p \in Commands : Start(p) \/ Step(p) \/ Kill(p)

Spec == Init /\ [][Next]_vars

-----------------------------------------------------------------------------
(* Properties                                                              *)

Errors == {"none", "session", "inspect", "incompatible", "alter", "notExact",
           "cleanup"}
Runs == [pc : Idle \cup {"session", "inspect", "alter", "verify", "stop"},
         report : {"none", "MIGRATED", "ALREADY_MIGRATED"}, error : Errors,
         spark : {"none", "running", "stopped"}, stops : Nat,
         altered : BOOLEAN, rerun : BOOLEAN, changed : BOOLEAN]

\* The type of every variable.
TypeOK ==
    /\ schema \in Schemas
    /\ run \in [Commands -> Runs]
    /\ attempts \in Nat /\ foreign \in Nat
    /\ verified \subseteq Commands

\* A report tells what this command did: MIGRATED that its own ALTER took
\* effect, ALREADY_MIGRATED that it issued none, also when two commands race or
\* another command's ALTER was applied and its answer lost.
ReportIsOwn ==
    \A p \in Commands :
        /\ run[p].report = "MIGRATED" => run[p].altered
        /\ run[p].report = "ALREADY_MIGRATED" => ~run[p].altered

\* While no other tool changes the table, a schema some command reported as
\* final stays exact, whatever the commands after it do.
ReportedSchemaStays == verified # {} => schema = Quality

\* Repeating the command on a migrated table is safe: it alters nothing and
\* none of its own checks fails, so that the retry after an ambiguous ALTER
\* ends as ALREADY_MIGRATED unless a call raises.
RerunIsNoop ==
    \A p \in Commands :
        run[p].rerun => /\ ~run[p].altered
                        /\ run[p].error \notin {"incompatible", "alter", "notExact"}
                        /\ run[p].report # "MIGRATED"

\* The inductive strengthening of the three: what is known of a command at each
\* of its statements, and that the ALTER is sent to a table that was legacy when it
\* was inspected and that commands can only have made quality since.
CommandInv(r) ==
    /\ r.pc \in {"session", "inspect", "alter"} => ~r.altered
    /\ r.pc \in {"session", "inspect", "alter", "verify"}
           => r.report = "none" /\ r.error = "none"
    /\ r.pc = "verify" => r.altered
    /\ r.pc = "alter" /\ ~r.changed => schema \in {Legacy, Quality}
    /\ r.rerun => schema = Quality /\ r.pc \notin {"alter", "verify"}
MigrationInv ==
    /\ TypeOK /\ ReportIsOwn /\ ReportedSchemaStays /\ RerunIsNoop
    /\ \A p \in Commands : CommandInv(run[p])

\* The commands change the schema in one way, from the exact legacy to the exact
\* quality columns, also after other tools have changed it: partial, reordered or
\* extended tables are untouched.  The one exception is the ALTER of a command whose
\* table another tool changed after the inspection, which nothing in the code or in
\* the catalog prevents; that one too only appends the two columns.
OnlyLegacyMigrates ==
    [][schema' # schema /\ foreign' = foreign
         => \/ schema = Legacy /\ schema' = Quality
            \/ schema = Absent /\ schema' = Legacy
            \/ /\ schema' = schema \o QualityColumns
               /\ \E p \in Commands : run[p].pc = "alter" /\ run[p].changed]_vars
=============================================================================
