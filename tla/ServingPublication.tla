------------------------- MODULE ServingPublication -------------------------
(***************************************************************************)
(* What the serving refresh promises to a ClickHouse reader, with none of  *)
(* the steps that keep the promise: the active table always shows one      *)
(* whole Silver snapshot, and it only ever moves forward in the Silver     *)
(* history.                                                                *)
(***************************************************************************)
EXTENDS Naturals, Sequences

CONSTANTS Contents,   \* row multisets a Silver build may produce
          Nothing     \* the row multiset of an empty table

VARIABLES history,    \* the Silver snapshots, oldest first
          served,     \* index of the snapshot published last, 0 before the first
          visible     \* what a query on the active table sees

vars == <<history, served, visible>>

Init == history = <<>> /\ served = 0 /\ visible = Nothing

\* Silver commits a new complete snapshot.
Commit == /\ \E c \in Contents : history' = Append(history, c)
          /\ UNCHANGED <<served, visible>>

\* Readers move, in one step, to a whole snapshot that is not older.
Publish == /\ \E s \in 1 .. Len(history) :
                 s >= served /\ served' = s /\ visible' = history[s]
           /\ UNCHANGED history

Next == Commit \/ Publish

Spec == Init /\ [][Next]_vars
=============================================================================
