----------------------------- MODULE MCCommands -----------------------------
(***************************************************************************)
(* Small instances of the one-shot commands.  Since they have no state in  *)
(* common, a behaviour runs one of them, chosen at the beginning, and the  *)
(* others stay where they are: the states of the three are explored side   *)
(* by side and not in every combination.                                   *)
(***************************************************************************)
EXTENDS OneShotCommands, TLC

\* Migration: no table; the two states the command knows; a migration done by
\* half, one with the columns in the other order, an extended legacy table.
MCSchemas == {Absent, Legacy, Quality, <<"trade", "is_valid">>,
              <<"trade", "validation_errors", "is_valid">>, <<"trade", "other">>}

VARIABLE which

MCInit ==
    /\ which \in {"migration", "reader", "inspection"}
    /\ CommandsInit
    /\ which # "migration" => schema = Absent
    /\ which # "reader" => account = NoAccount
    /\ which # "inspection" => ~exists

MCNext ==
    \/ which = "migration" /\ MigrationNext /\ UNCHANGED which
    \/ which = "reader" /\ ReaderNext /\ UNCHANGED which
    \/ which = "inspection" /\ InspectionNext /\ UNCHANGED which

MCSpec == MCInit /\ [][MCNext]_<<which, allVars>>
=============================================================================
