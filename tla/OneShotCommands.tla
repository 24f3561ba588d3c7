--------------------------- MODULE OneShotCommands ---------------------------
(***************************************************************************)
(* The one-shot commands beside one another: the Bronze migration, the     *)
(* provisioning of the BI reader and the inspection of a table.  They have *)
(* no state in common; a step is a step of one of the three, in any order. *)
(***************************************************************************)
EXTENDS BronzeMigration

CONSTANTS Passwords, Unset, NoAccount, MaxReaderAttempts, MaxDrops,
          MaxRows, MaxFiles, MaxCommits, MaxInspections

VARIABLES account, granted, readerPc, env, readerAttempts, drops, used,
          exists, files, loaded, counted, listed, inspectionPc, inspectionError,
          stops, inspectionAttempts, replaced

readerVars == <<account, granted, readerPc, env, readerAttempts, drops, used>>
inspectionVars == <<exists, files, loaded, counted, listed, inspectionPc,
                    inspectionError, stops, inspectionAttempts, replaced>>
allVars == <<vars, readerVars, inspectionVars>>

\* BIReader and IcebergInspection, with what is proved about them.
Reader == INSTANCE BIReader_proofs WITH
    Absent <- NoAccount, MaxAttempts <- MaxReaderAttempts,
    pc <- readerPc, attempts <- readerAttempts
Inspection == INSTANCE IcebergInspection_proofs WITH
    MaxAttempts <- MaxInspections,
    pc <- inspectionPc, error <- inspectionError, attempts <- inspectionAttempts

\* What the two assume of their constants; BronzeMigration has its own.
ASSUME CommandsAssumption == Reader!ReaderAssumption /\ Inspection!InspectionAssumption

CommandsInit == Init /\ Reader!Init /\ Inspection!Init

MigrationNext == Next /\ UNCHANGED <<readerVars, inspectionVars>>
ReaderNext == Reader!Next /\ UNCHANGED <<vars, inspectionVars>>
InspectionNext == Inspection!Next /\ UNCHANGED <<vars, readerVars>>

CommandsNext == MigrationNext \/ ReaderNext \/ InspectionNext

CommandsSpec == CommandsInit /\ [][CommandsNext]_allVars

-----------------------------------------------------------------------------
(* Properties of the three                                                 *)

\* The inductive invariants of the three, with the type of every variable.
CommandsInv == MigrationInv /\ Reader!ReaderInv /\ Inspection!InspectionInv

\* See BIReader: a reported account keeps working.
ProvisionedCanRead == Reader!ProvisionedCanRead

\* See BIReader: repeating the command never closes the access.
AccessKept == Reader!AccessKept

\* See IcebergInspection: no listing is shorter than its total allows, and the
\* snapshot whose rows were counted can be found.
ListingsCoverTotals == Inspection!ListingsCoverTotals
=============================================================================
