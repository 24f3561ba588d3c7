----------------------- MODULE OneShotCommands_proofs -----------------------
(***************************************************************************)
(* Proofs about the Bronze migration, for every set of commands, every     *)
(* initial schema and every bound; and that the three one-shot commands    *)
(* keep their properties beside one another.                               *)
(***************************************************************************)
EXTENDS OneShotCommands, SequenceTheorems, TLAPS

-----------------------------------------------------------------------------
(* Schemas                                                                 *)

\* The three schemas the command knows are schemas, and different.
LEMMA KnownSchemas ==
  /\ Legacy \in Schemas /\ Quality \in Schemas
  /\ Legacy # Absent /\ Quality # Absent /\ Legacy # Quality
  BY DEF Legacy, Quality, QualityColumns, Absent, Schemas, Columns

\* inspect_bronze_schema_state tells the exact schemas apart from all others.
LEMMA StateIsExact ==
  ASSUME NEW s
  PROVE  /\ State(s) = "LEGACY_13_COLUMN" <=> s = Legacy
         /\ State(s) = "QUALITY_15_COLUMN" <=> s = Quality
  BY KnownSchemas DEF State

\* The ALTER is refused on the quality schema.
LEMMA QualityIsFinal == ~CanAlter(Quality)
<1>1. 2 \in DOMAIN Quality /\ Quality[2] = "is_valid"
  <2>1. Legacy \in Seq(Columns) /\ QualityColumns \in Seq(Columns)
    BY DEF Legacy, QualityColumns, Columns
  <2>2. /\ Quality \in Seq(Columns) /\ Len(Quality) = Len(Legacy) + Len(QualityColumns)
        /\ \A i \in 1 .. Len(Legacy) + Len(QualityColumns) :
              Quality[i] = IF i <= Len(Legacy) THEN Legacy[i]
                                               ELSE QualityColumns[i - Len(Legacy)]
    BY <2>1, ConcatProperties, Zenon DEF Quality
  <2>3. Len(Legacy) = 1 /\ Len(QualityColumns) = 2 /\ QualityColumns[1] = "is_valid"
    BY DEF Legacy, QualityColumns
  <2> QED
    BY <2>2, <2>3
<1> QED
  BY <1>1 DEF CanAlter, Has

\* Every way in which the schema changes gives a schema.
LEMMA SchemaType ==
  ASSUME NEW s \in Schemas
  PROVE  /\ s \o QualityColumns \in Schemas
         /\ Append(s, "other") \in Schemas
         /\ Len(s) > 1 => SubSeq(s, 1, Len(s) - 1) \in Schemas
<1>1. QualityColumns \in Schemas
  BY DEF QualityColumns, Schemas, Columns
<1>2. s \o QualityColumns \in Schemas
  BY <1>1 DEF Schemas
<1>3. Append(s, "other") \in Schemas
  BY DEF Schemas, Columns
<1>4. ASSUME Len(s) > 1 PROVE SubSeq(s, 1, Len(s) - 1) \in Schemas
  BY <1>4, SubSeqProperties DEF Schemas
<1> QED
  BY <1>2, <1>3, <1>4

-----------------------------------------------------------------------------
(* Steps of one command                                                    *)

\* What holds of one command's record, whatever the other commands did.
RecordInv(r) ==
    /\ r \in Runs
    /\ r.report = "MIGRATED" => r.altered
    /\ r.report = "ALREADY_MIGRATED" => ~r.altered
    /\ r.rerun => /\ ~r.altered
                  /\ r.error \notin {"incompatible", "alter", "notExact"}
                  /\ r.report # "MIGRATED"
    /\ CommandInv(r)

\* The invariant, command by command.
LEMMA InvByCommand ==
  MigrationInv <=>
    /\ schema \in Schemas /\ attempts \in Nat /\ foreign \in Nat
    /\ verified \subseteq Commands
    /\ verified # {} => schema = Quality
    /\ run = [p \in Commands |-> run[p]]
    /\ \A p \in Commands : RecordInv(run[p])
  BY DEF MigrationInv, TypeOK, ReportIsOwn, ReportedSchemaStays, RerunIsNoop,
         RecordInv

\* Initially no command runs and nothing was reported.
LEMMA MigrationInit == Init => MigrationInv
<1> SUFFICES ASSUME Init PROVE MigrationInv
  OBVIOUS
<1>1. RecordInv(Fresh)
  BY DEF Fresh, RecordInv, Runs, Idle, Errors, CommandInv
<1>2. \A p \in Commands : run[p] = Fresh
  BY DEF Init
<1>3. run = [p \in Commands |-> run[p]]
  BY DEF Init
<1>4. /\ schema \in Schemas /\ attempts \in Nat /\ foreign \in Nat
      /\ verified = {}
  BY MigrationAssumption DEF Init, MigrationAssumption
<1> QED
  BY <1>1, <1>2, <1>3, <1>4, InvByCommand

\* A statement of one command that leaves the others alone, keeps the schema and
\* leaves a good record keeps the invariant.
LEMMA OneCommand ==
  ASSUME MigrationInv, NEW p \in Commands, NEW r,
         run' = [run EXCEPT ![p] = r], UNCHANGED <<schema, foreign>>,
         RecordInv(r)', attempts' \in Nat,
         verified' \subseteq Commands, verified' # {} => schema = Quality
  PROVE  MigrationInv'
<1>1. \A q \in Commands : RecordInv(run[q])
  BY InvByCommand
<1>2. run = [q \in Commands |-> run[q]]
  BY InvByCommand
<1>3. \A q \in Commands : RecordInv(run[q])'
  BY <1>1, <1>2 DEF RecordInv, CommandInv
<1> QED
  BY <1>2, <1>3, InvByCommand DEF MigrationInv, TypeOK, ReportIsOwn,
     ReportedSchemaStays, RerunIsNoop, RecordInv

\* Starting and building a session.
LEMMA BeginSafe ==
  ASSUME MigrationInv, NEW p \in Commands, Start(p) \/ BuildSession(p)
  PROVE  MigrationInv'
<1>1. RecordInv(run[p]) /\ attempts \in Nat /\ verified \subseteq Commands
  BY InvByCommand
<1>2. CASE Start(p)
  <2>0. PICK r : /\ r = [Fresh EXCEPT !.pc = "session", !.rerun = (schema = Quality)]
                 /\ run' = [run EXCEPT ![p] = r]
    BY <1>2 DEF Start
  <2>1. RecordInv(r)'
    BY <1>2, <2>0 DEF Start, Fresh, RecordInv, Runs, Idle, Errors, CommandInv
  <2>2. verified' \subseteq Commands /\ (verified' # {} => schema = Quality)
    BY <1>1, <1>2, InvByCommand DEF Start
  <2>3. attempts' \in Nat /\ UNCHANGED <<schema, foreign>>
    BY <1>1, <1>2 DEF Start
  <2> QED
    BY <2>0, <2>1, <2>2, <2>3, OneCommand
<1>3. CASE BuildSession(p)
  <2>1. PICK r : /\ run' = [run EXCEPT ![p] = r]
                 /\ \/ r = [run[p] EXCEPT !.pc = "inspect", !.spark = "running"]
                    \/ r = [run[p] EXCEPT !.pc = "ended", !.error = "session"]
    BY <1>3, InvByCommand DEF BuildSession
  <2>2. RecordInv(r)'
    BY <1>1, <1>3, <2>1 DEF BuildSession, RecordInv, Runs, Idle, Errors, CommandInv
  <2> QED
    BY <1>1, <1>3, <2>1, <2>2, OneCommand
       DEF BuildSession, MigrationInv, ReportedSchemaStays
<1> QED
  BY <1>2, <1>3

\* The inspection raises, ends a command on the quality schema, or finds the
\* legacy schema.
LEMMA InspectSafe ==
  ASSUME MigrationInv, NEW p \in Commands, Inspect(p)
  PROVE  MigrationInv'
<1>1. RecordInv(run[p]) /\ attempts \in Nat /\ verified \subseteq Commands
      /\ (verified # {} => schema = Quality)
  BY InvByCommand
<1>2. PICK r :
        /\ run' = [run EXCEPT ![p] = r]
        /\ \/ r = [run[p] EXCEPT !.pc = "stop", !.error = "inspect"] /\ UNCHANGED verified
           \/ /\ r = [run[p] EXCEPT !.pc = "stop", !.report = "ALREADY_MIGRATED"]
              /\ schema = Quality /\ verified' = verified \cup {p}
           \/ /\ r = [run[p] EXCEPT !.pc = "stop", !.error = "incompatible"]
              /\ schema # Quality /\ UNCHANGED verified
           \/ /\ r = [run[p] EXCEPT !.pc = "alter", !.changed = FALSE]
              /\ schema = Legacy /\ schema # Quality /\ UNCHANGED verified
  <2>1. CASE Raise(p, "inspect") /\ UNCHANGED verified
    BY <2>1, InvByCommand DEF Raise
  <2>2. CASE schema # Absent /\ State(schema) = "QUALITY_15_COLUMN"
    BY <2>2, StateIsExact, InvByCommand DEF Inspect, Raise
  <2>3. CASE /\ schema # Absent /\ State(schema) = "INCOMPATIBLE"
             /\ Raise(p, "incompatible") /\ UNCHANGED verified
    BY <2>3, StateIsExact, InvByCommand DEF Raise
  <2>4. CASE /\ schema # Absent /\ State(schema) = "LEGACY_13_COLUMN"
             /\ ToAlter(p) /\ UNCHANGED verified
    BY <2>4, StateIsExact, KnownSchemas, InvByCommand DEF ToAlter
  <2> QED
    BY <2>1, <2>2, <2>3, <2>4 DEF Inspect
<1>3. RecordInv(r)'
  <2>1. run[p].pc = "inspect" /\ UNCHANGED <<schema, foreign>>
    BY DEF Inspect
  <2>2. CASE r = [run[p] EXCEPT !.pc = "stop", !.error = "inspect"]
    BY <1>1, <2>1, <2>2 DEF RecordInv, Runs, Idle, Errors, CommandInv
  <2>3. CASE r = [run[p] EXCEPT !.pc = "stop", !.report = "ALREADY_MIGRATED"]
    BY <1>1, <2>1, <2>3 DEF RecordInv, Runs, Idle, Errors, CommandInv
  <2>4. CASE r = [run[p] EXCEPT !.pc = "stop", !.error = "incompatible"] /\ schema # Quality
    BY <1>1, <2>1, <2>4 DEF RecordInv, Runs, Idle, Errors, CommandInv
  <2>5. CASE r = [run[p] EXCEPT !.pc = "alter", !.changed = FALSE] /\ schema = Legacy /\ schema # Quality
    BY <1>1, <2>1, <2>5 DEF RecordInv, Runs, Idle, Errors, CommandInv
  <2> QED
    BY <1>2, <2>2, <2>3, <2>4, <2>5
<1> QED
  BY <1>1, <1>2, <1>3, OneCommand DEF Inspect

\* The second inspection confirms the quality schema, or raises.
LEMMA VerifySafe ==
  ASSUME MigrationInv, NEW p \in Commands, Verify(p)
  PROVE  MigrationInv'
<1>1. RecordInv(run[p]) /\ attempts \in Nat /\ verified \subseteq Commands
      /\ (verified # {} => schema = Quality)
  BY InvByCommand
<1>2. PICK r :
        /\ run' = [run EXCEPT ![p] = r]
        /\ \/ /\ r = [run[p] EXCEPT !.pc = "stop", !.report = "MIGRATED"]
              /\ schema = Quality /\ verified' = verified \cup {p}
           \/ /\ \E e \in {"notExact", "inspect"} :
                    r = [run[p] EXCEPT !.pc = "stop", !.error = e]
              /\ UNCHANGED verified
  BY StateIsExact DEF Verify, Raise
<1>3. RecordInv(r)'
  <2>1. run[p].pc = "verify" /\ UNCHANGED <<schema, foreign>>
    BY DEF Verify
  <2>2. CASE r = [run[p] EXCEPT !.pc = "stop", !.report = "MIGRATED"]
    BY <1>1, <2>1, <2>2 DEF RecordInv, Runs, Idle, Errors, CommandInv
  <2>3. ASSUME NEW e \in {"notExact", "inspect"},
               r = [run[p] EXCEPT !.pc = "stop", !.error = e]
        PROVE  RecordInv(r)'
    BY <1>1, <2>1, <2>3 DEF RecordInv, Runs, Idle, Errors, CommandInv
  <2> QED
    BY <1>2, <2>2, <2>3
<1> QED
  BY <1>1, <1>2, <1>3, OneCommand DEF Verify

\* The end of a command.
LEMMA EndSafe ==
  ASSUME MigrationInv, NEW p \in Commands, Stop(p) \/ Kill(p)
  PROVE  MigrationInv'
<1>1. RecordInv(run[p]) /\ attempts \in Nat /\ verified \subseteq Commands
      /\ (verified # {} => schema = Quality)
  BY InvByCommand
<1>2. CASE Stop(p)
  <2>1. PICK r :
          /\ run' = [run EXCEPT ![p] = r]
          /\ \/ r = [run[p] EXCEPT !.pc = "ended", !.stops = @ + 1, !.spark = "stopped"]
             \/ r = [run[p] EXCEPT !.pc = "ended", !.stops = @ + 1,
                                   !.error = IF @ = "none" THEN "cleanup" ELSE @]
    BY <1>2, InvByCommand DEF Stop
  <2>2. /\ r \in Runs /\ r.pc = "ended" /\ r.report = run[p].report
        /\ r.altered = run[p].altered /\ r.rerun = run[p].rerun
        /\ r.error \in {run[p].error, "cleanup"}
    <3>1. PICK n \in Nat : n = run[p].stops + 1
      BY <1>1 DEF RecordInv, Runs
    <3>2. PICK e \in {run[p].error, "cleanup"} :
            e = IF run[p].error = "none" THEN "cleanup" ELSE run[p].error
      OBVIOUS
    <3>3. \/ r = [run[p] EXCEPT !.pc = "ended", !.stops = n, !.spark = "stopped"]
          \/ r = [run[p] EXCEPT !.pc = "ended", !.stops = n, !.error = e]
      BY <2>1, <3>1, <3>2
    <3> QED
      BY <1>1, <3>3 DEF RecordInv, Runs, Idle, Errors
  <2>3. RecordInv(r)'
    BY <1>1, <1>2, <2>2 DEF Stop, RecordInv, CommandInv
  <2> QED
    BY <1>1, <1>2, <2>1, <2>3, OneCommand DEF Stop
<1>3. CASE Kill(p)
  <2>1. PICK r : /\ run' = [run EXCEPT ![p] = r]
                 /\ r = [run[p] EXCEPT !.pc = "killed", !.spark = "none"]
    BY <1>3, InvByCommand DEF Kill
  <2>2. RecordInv(r)'
    BY <1>1, <1>3, <2>1 DEF Kill, RecordInv, Runs, Idle, Errors, CommandInv
  <2> QED
    BY <1>1, <1>3, <2>1, <2>2, OneCommand DEF Kill
<1> QED
  BY <1>2, <1>3

-----------------------------------------------------------------------------
(* Steps that change the schema                                            *)

\* A change of the schema that no command made, or of the table by the commands
\* alone, keeps what is known of each command that was not told otherwise.
LEMMA AlterSafe ==
  ASSUME MigrationInv, NEW p \in Commands, Alter(p)
  PROVE  MigrationInv'
<1>1. /\ schema \in Schemas /\ attempts \in Nat /\ foreign \in Nat
      /\ verified \subseteq Commands /\ (verified # {} => schema = Quality)
      /\ run = [q \in Commands |-> run[q]]
      /\ \A q \in Commands : RecordInv(run[q])
  BY InvByCommand
<1>a. /\ run[p] \in Runs /\ run[p].pc = "alter"
      /\ run[p].report = "none" /\ ~run[p].rerun /\ run[p].altered = FALSE
  BY <1>1 DEF Alter, RecordInv, Runs, CommandInv
<1>2. CASE UNCHANGED schema
  <2>1. PICK r :
          /\ run' = [run EXCEPT ![p] = r]
          /\ \/ r = [run[p] EXCEPT !.pc = "stop", !.error = "alter"]
             \/ r = [run[p] EXCEPT !.altered = TRUE, !.pc = "verify"] /\ CanAlter(schema)
             \/ /\ r = [run[p] EXCEPT !.altered = TRUE, !.pc = "stop", !.error = "alter"]
                /\ CanAlter(schema)
    BY <1>1, <1>2 DEF Alter, Raise
  <2>2. CASE r = [run[p] EXCEPT !.pc = "stop", !.error = "alter"]
    <3>1. RecordInv(r)'
      BY <1>a, <2>2 DEF RecordInv, Runs, Idle, Errors, CommandInv
    <3> QED
      BY <1>1, <1>2, <2>1, <3>1, OneCommand DEF Alter
  <2>3. CASE r = [run[p] EXCEPT !.altered = TRUE, !.pc = "verify"]
    <3>1. r \in Runs /\ r.altered /\ r.pc = "verify" /\ r.report = "none"
          /\ r.error = "none" /\ ~r.rerun
      BY <1>1, <1>a, <2>3 DEF RecordInv, CommandInv, Runs, Idle, Errors
    <3>2. RecordInv(r)'
      BY <3>1 DEF RecordInv, CommandInv
    <3> QED
      BY <1>1, <1>2, <2>1, <3>2, OneCommand DEF Alter
  <2>4. CASE r = [run[p] EXCEPT !.altered = TRUE, !.pc = "stop", !.error = "alter"]
    <3>1. r \in Runs /\ r.altered /\ r.pc = "stop" /\ r.report = "none" /\ ~r.rerun
      BY <1>a, <2>4 DEF Runs, Idle, Errors
    <3>2. RecordInv(r)'
      BY <3>1 DEF RecordInv, CommandInv
    <3> QED
      BY <1>1, <1>2, <2>1, <3>2, OneCommand DEF Alter
  <2> QED
    BY <2>1, <2>2, <2>3, <2>4
<1>3. CASE schema' # schema
  <2>1. CanAlter(schema) /\ schema' = schema \o QualityColumns /\ schema # Quality
    BY <1>3, QualityIsFinal DEF Alter, Raise
  <2>2. PICK r :
          /\ run' = [run EXCEPT ![p] = r]
          /\ \/ r = [run[p] EXCEPT !.altered = TRUE, !.pc = "verify"]
             \/ r = [run[p] EXCEPT !.altered = TRUE, !.pc = "stop", !.error = "alter"]
    BY <1>1, <1>3 DEF Alter, Raise
  <2>3. schema' \in Schemas /\ verified = {} /\ UNCHANGED <<attempts, foreign, verified>>
    BY <1>1, <2>1, SchemaType DEF Alter
  <2>4. schema \in {Legacy, Quality} => schema' = Quality
    BY <2>1 DEF Quality
  <2>5. RecordInv(r)'
    <3>1. /\ r \in Runs /\ r.altered /\ r.report = "none" /\ ~r.rerun
          /\ (r.pc = "verify" /\ r.error = "none") \/ r.pc = "stop"
      BY <1>1, <1>a, <2>2 DEF RecordInv, CommandInv, Runs, Idle, Errors
    <3> QED
      BY <3>1 DEF RecordInv, CommandInv
  <2>6. \A q \in Commands \ {p} : RecordInv(run[q])'
    BY <1>1, <2>1, <2>2, <2>3, <2>4 DEF RecordInv, CommandInv
  <2>7. \A q \in Commands : RecordInv(run[q])'
    BY <1>1, <2>2, <2>5, <2>6 DEF RecordInv, CommandInv
  <2>8. run' = [q \in Commands |-> run'[q]]
    BY <1>1, <2>2
  <2> QED
    BY <1>1, <2>3, <2>7, <2>8 DEF MigrationInv, TypeOK, ReportIsOwn,
       ReportedSchemaStays, RerunIsNoop, RecordInv
<1> QED
  BY <1>2, <1>3

\* The table is created, or another tool changes it; the second forgets what
\* was verified and which attempt is a repetition.
LEMMA AroundSafe ==
  ASSUME MigrationInv, EnsureTable \/ ForeignDDL
  PROVE  MigrationInv'
<1>1. /\ schema \in Schemas /\ attempts \in Nat /\ foreign \in Nat
      /\ verified \subseteq Commands /\ (verified # {} => schema = Quality)
      /\ run = [q \in Commands |-> run[q]]
      /\ \A q \in Commands : RecordInv(run[q])
  BY InvByCommand
<1>2. CASE EnsureTable
  <2>1. schema # Quality /\ schema' = Legacy /\ schema' \in Schemas
    BY <1>2, KnownSchemas DEF EnsureTable
  <2>2. \A q \in Commands : RecordInv(run[q])'
    BY <1>1, <1>2, <2>1 DEF EnsureTable, RecordInv, CommandInv
  <2> QED
    BY <1>1, <1>2, <2>1, <2>2 DEF EnsureTable, MigrationInv, TypeOK, ReportIsOwn,
       ReportedSchemaStays, RerunIsNoop, RecordInv
<1>3. CASE ForeignDDL
  <2>1. schema' \in Schemas
    BY <1>1, <1>3, SchemaType DEF ForeignDDL
  <2>2. foreign' \in Nat /\ UNCHANGED attempts /\ verified' = {}
    <3>1. foreign' = foreign + 1 /\ UNCHANGED attempts /\ verified' = {}
      BY ONLY <1>3 DEF ForeignDDL
    <3> QED
      BY <1>1, <3>1
  <2>3. ASSUME NEW q \in Commands PROVE RecordInv(run[q])'
    <3>1. run'[q] = [run[q] EXCEPT !.rerun = FALSE, !.changed = TRUE]
      BY <1>3 DEF ForeignDDL
    <3> QED
      BY <1>1, <2>2, <3>1 DEF RecordInv, Runs, CommandInv
  <2>4. run' = [q \in Commands |-> run'[q]]
    BY <1>3 DEF ForeignDDL
  <2> QED
    BY <2>1, <2>2, <2>3, <2>4 DEF MigrationInv, TypeOK, ReportIsOwn,
       ReportedSchemaStays, RerunIsNoop, RecordInv
<1> QED
  BY <1>2, <1>3

-----------------------------------------------------------------------------
(* Theorems                                                                *)

\* The invariant holds in every reachable state: the type of every variable,
\* what a command has done by each of its statements, and the three properties
\* below.
THEOREM MigrationSafe == Spec => []MigrationInv
<1>1. MigrationInv /\ [Next]_vars => MigrationInv'
  <2> SUFFICES ASSUME MigrationInv, [Next]_vars PROVE MigrationInv'
    OBVIOUS
  <2>1. CASE Next
    BY <2>1, BeginSafe, InspectSafe, AlterSafe, VerifySafe, EndSafe, AroundSafe
       DEF Next, Step
  <2>2. CASE UNCHANGED vars
    BY <2>2 DEF vars, MigrationInv, TypeOK, ReportIsOwn, ReportedSchemaStays,
       RerunIsNoop, CommandInv
  <2> QED
    BY <2>1, <2>2
<1> QED
  BY <1>1, MigrationInit, PTL DEF Spec

\* A report says what the command itself did to the schema.
THEOREM ReportsAreOwn == Spec => []ReportIsOwn
  BY MigrationSafe, PTL DEF MigrationInv

\* A schema that was reported as final stays, unless another tool changes it.
THEOREM ReportedSchemaIsFinal == Spec => []ReportedSchemaStays
  BY MigrationSafe, PTL DEF MigrationInv

\* A repeated migration alters nothing and fails on none of its own checks.
THEOREM RerunsAreNoops == Spec => []RerunIsNoop
  BY MigrationSafe, PTL DEF MigrationInv

\* Only an absent or an exactly legacy table changes, unless another tool changed it
\* between the inspection and the ALTER of a command.
THEOREM MigratesLegacyOnly == Spec => OnlyLegacyMigrates
<1> DEFINE Allowed == \/ schema = Legacy /\ schema' = Quality
                      \/ schema = Absent /\ schema' = Legacy
                      \/ /\ schema' = schema \o QualityColumns
                         /\ \E p \in Commands : run[p].pc = "alter" /\ run[p].changed
<1>1. MigrationInv /\ [Next]_vars =>
        [schema' # schema /\ foreign' = foreign => Allowed]_vars
  <2> SUFFICES ASSUME MigrationInv, Next, schema' # schema, foreign' = foreign
               PROVE  Allowed
    OBVIOUS
  <2>1. CASE EnsureTable
    BY <2>1 DEF EnsureTable
  <2>2. ~ForeignDDL
    <3>1. ForeignDDL => foreign' = foreign + 1
      BY ONLY DEF ForeignDDL
    <3>2. foreign \in Nat
      BY InvByCommand
    <3> QED
      BY <3>1, <3>2
  <2>3. ASSUME NEW p \in Commands, Alter(p) PROVE Allowed
    <3>1. CanAlter(schema) /\ schema' = schema \o QualityColumns /\ run[p].pc = "alter"
      BY <2>3 DEF Alter, Raise
    <3>2. run[p].changed \/ schema \in {Legacy, Quality}
      BY <3>1 DEF MigrationInv, CommandInv
    <3> QED
      BY <3>1, <3>2, QualityIsFinal DEF Quality
  <2> QED
    BY <2>1, <2>2, <2>3 DEF Next, Step, Start, BuildSession, Inspect, Verify, Stop, Kill
<1> QED
  BY <1>1, MigrationSafe, PTL DEF Spec, OnlyLegacyMigrates

-----------------------------------------------------------------------------
(* The three commands beside one another                                   *)

\* A behaviour of the three is a behaviour of each: no command writes what
\* another one keeps.
LEMMA CommandsAreIndependent ==
  CommandsSpec => Spec /\ Reader!Spec /\ Inspection!Spec
<1>1. CommandsInit => Init /\ Reader!Init /\ Inspection!Init
  BY DEF CommandsInit
<1>2. [CommandsNext]_allVars => /\ [Next]_vars
                                /\ [Reader!Next]_(Reader!vars)
                                /\ [Inspection!Next]_(Inspection!vars)
  BY DEF CommandsNext, MigrationNext, ReaderNext, InspectionNext, allVars,
         readerVars, inspectionVars, Reader!vars, Inspection!vars
<1> QED
  BY <1>1, <1>2, PTL DEF CommandsSpec, Spec, Reader!Spec, Inspection!Spec

\* The inductive invariants of the three hold together.
THEOREM CommandsSafe == CommandsSpec => []CommandsInv
<1>1. Reader!Spec => []Reader!ReaderInv
  BY Reader!ReaderSafe, CommandsAssumption
<1>2. Inspection!Spec => []Inspection!InspectionInv
  BY Inspection!InspectionSafe, CommandsAssumption
<1> QED
  BY <1>1, <1>2, MigrationSafe, CommandsAreIndependent, PTL DEF CommandsInv

\* An account that was reported works, whatever the other commands do.
THEOREM AccountsWork == CommandsSpec => []ProvisionedCanRead
<1>1. Reader!Spec => []Reader!ProvisionedCanRead
  BY Reader!ReportedAccountWorks, CommandsAssumption
<1> QED
  BY <1>1, CommandsAreIndependent, PTL DEF ProvisionedCanRead

\* No command closes the access of a dashboard that works.
THEOREM AccessIsKept == CommandsSpec => AccessKept
<1>1. Reader!Spec => Reader!AccessKept
  BY Reader!AccessStays, CommandsAssumption
<1> QED
  BY <1>1, CommandsAreIndependent, PTL DEF AccessKept

\* No listing is shorter than its total allows.
THEOREM ListingsCover == CommandsSpec => []ListingsCoverTotals
<1>1. Inspection!Spec => []Inspection!ListingsCoverTotals
  BY Inspection!ListingsAreComplete, CommandsAssumption
<1> QED
  BY <1>1, CommandsAreIndependent, PTL DEF ListingsCoverTotals
=============================================================================
