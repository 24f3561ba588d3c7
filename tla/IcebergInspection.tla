-------------------------- MODULE IcebergInspection --------------------------
(***************************************************************************)
(* The read-only inspection of an Iceberg table                            *)
(* (jobs/streaming/iceberg_inspection.py): a dozen queries in a row, each  *)
(* on the snapshot its session has loaded by then, while the streaming     *)
(* query appends and rebuilds replace the table.  A section first prints a *)
(* total and then at most max_rows rows of a listing.                      *)
(***************************************************************************)
EXTENDS Integers, Sequences

CONSTANTS MaxRows,      \* --max-rows
          MaxFiles,     \* bound on the data files a commit adds
          MaxCommits,   \* bound on the snapshots of the table
          MaxAttempts   \* bound on inspections

\* Assumed by the instances TLC checks.
InspectionAssumption ==
    /\ MaxRows \in Nat \ {0}
    /\ {MaxFiles, MaxCommits, MaxAttempts} \subseteq Nat

VARIABLES
    exists,    \* the catalog can resolve the table
    files,     \* data files of each snapshot, in commit order
    loaded,    \* the snapshot (its number) the session loaded last
    counted,   \* per section, the snapshot its total was read from
    listed,    \* per section, the snapshot its listing was read from
    pc, error, stops, attempts,
    replaced   \* the snapshots that replaced the table

vars == <<exists, files, loaded, counted, listed, pc, error, stops, attempts,
          replaced>>

\* The sections with a total, in the order of the queries.
Sections == <<"rows", "snapshots", "history", "files", "partitions">>
SectionSet == {Sections[i] : i \in DOMAIN Sections}

NotYet == -1

FilesAt(v) == IF v = 0 THEN 0 ELSE files[v]

\* The rows of a metadata relation; an unpartitioned table that has files has
\* one aggregate row of partitions.
Size(section, v) ==
    CASE section \in {"snapshots", "history"} -> v
      [] section = "files" -> FilesAt(v)
      [] section = "partitions" -> IF FilesAt(v) = 0 THEN 0 ELSE 1

AtMost(n) == IF n < MaxRows THEN n ELSE MaxRows

Fresh == [s \in SectionSet |-> NotYet]

Init ==
    /\ exists \in BOOLEAN
    /\ files = <<>>
    /\ loaded = 0
    /\ counted = Fresh /\ listed = Fresh
    /\ pc = "idle" /\ error = "none" /\ stops = 0 /\ attempts = 0
    /\ replaced = {}

-----------------------------------------------------------------------------
(* The table                                                               *)

\* The streaming job creates the table.
Create ==
    /\ ~exists
    /\ exists' = TRUE
    /\ UNCHANGED <<files, loaded, counted, listed, pc, error, stops, attempts,
                   replaced>>

\* A micro-batch appends files, or none.
AppendCommit ==
    /\ exists /\ Len(files) < MaxCommits
    /\ \E n \in 0 .. MaxFiles : files' = Append(files, FilesAt(Len(files)) + n)
    /\ UNCHANGED <<exists, loaded, counted, listed, pc, error, stops, attempts,
                   replaced>>

\* A rebuild replaces the rows; the snapshots before it stay in the metadata.
ReplaceCommit ==
    /\ exists /\ Len(files) < MaxCommits
    /\ \E n \in 0 .. MaxFiles : files' = Append(files, n)
    /\ replaced' = replaced \cup {Len(files')}
    /\ UNCHANGED <<exists, loaded, counted, listed, pc, error, stops, attempts>>

-----------------------------------------------------------------------------
(* One inspection                                                          *)

Idle == {"idle", "ended"}

\* Identifier and arguments are checked before there is a session.
Start ==
    /\ pc \in Idle /\ attempts < MaxAttempts
    /\ attempts' = attempts + 1
    /\ counted' = Fresh /\ listed' = Fresh
    /\ loaded' = 0 /\ stops' = 0
    /\ \/ pc' = "session" /\ error' = "none"
       \/ pc' = "ended" /\ error' = "arguments"
    /\ UNCHANGED <<exists, files, replaced>>

BuildSession ==
    /\ pc = "session"
    /\ \/ pc' = "describe" /\ UNCHANGED error
       \/ pc' = "ended" /\ error' = "session"
    /\ UNCHANGED <<exists, files, loaded, counted, listed, stops, attempts, replaced>>

\* A query sees the newest snapshot, or one the catalog's table cache still
\* holds: none older than the query before it.
Load == exists /\ loaded' \in loaded .. Len(files)

\* DESCRIBE TABLE EXTENDED and DESCRIBE TABLE: the table must exist.
Describe ==
    /\ pc = "describe"
    /\ Load
    /\ pc' = "rows"
    /\ UNCHANGED <<exists, files, counted, listed, error, stops, attempts, replaced>>

\* COUNT(*) over the rows: there is no listing of them.
CountRows ==
    /\ pc = "rows"
    /\ Load
    /\ counted' = [counted EXCEPT !["rows"] = loaded']
    /\ listed' = [listed EXCEPT !["rows"] = loaded']
    /\ pc' = "snapshots"
    /\ UNCHANGED <<exists, files, error, stops, attempts, replaced>>

\* The total of a section.
Count(section) ==
    /\ pc = section /\ counted[section] = NotYet
    /\ Load
    /\ counted' = [counted EXCEPT ![section] = loaded']
    /\ UNCHANGED <<exists, files, listed, pc, error, stops, attempts, replaced>>

After(section) ==
    CASE section = "snapshots" -> "history" [] section = "history" -> "files"
      [] section = "files" -> "partitions" [] section = "partitions" -> "stop"

\* Mutant: the rows were fetched before the total.
ListFirst(section) ==
    /\ pc = section /\ counted[section] # NotYet
    /\ \E v \in counted["rows"] .. loaded : listed' = [listed EXCEPT ![section] = v]
    /\ pc' = After(section)
    /\ UNCHANGED <<exists, files, loaded, counted, error, stops, attempts, replaced>>

\* At most max_rows rows, by a later query.
List(section) ==
    /\ pc = section /\ counted[section] # NotYet
    /\ Load
    /\ listed' = [listed EXCEPT ![section] = loaded']
    /\ pc' = After(section)
    /\ UNCHANGED <<exists, files, counted, error, stops, attempts, replaced>>

\* A query raises, at once or while its rows are fetched, or an interrupt does.
Raise ==
    /\ pc \in SectionSet \cup {"describe"}
    /\ error' \in {"query", "interrupt"}
    /\ pc' = "stop"
    /\ UNCHANGED <<exists, files, loaded, counted, listed, stops, attempts, replaced>>

\* spark.stop() in every case; what it raises is a note on an earlier error.
Stop ==
    /\ pc = "stop"
    /\ pc' = "ended" /\ stops' = stops + 1
    /\ error' \in {error, IF error = "none" THEN "cleanup" ELSE error}
    /\ UNCHANGED <<exists, files, loaded, counted, listed, attempts, replaced>>

Step ==
    \/ BuildSession \/ Describe \/ CountRows \/ Raise \/ Stop
    \/ \E s \in SectionSet \ {"rows"} : Count(s) \/ List(s)

Next == Create \/ AppendCommit \/ ReplaceCommit \/ Start \/ Step

Spec == Init /\ [][Next]_vars

-----------------------------------------------------------------------------
(* Properties                                                              *)

Versions == {NotYet} \cup (0 .. Len(files))

\* The type of every variable; a printed snapshot is one of the table.
TypeOK ==
    /\ exists \in BOOLEAN
    /\ files \in Seq(Nat)
    /\ replaced \subseteq DOMAIN files
    /\ loaded \in 0 .. Len(files)
    /\ counted \in [SectionSet -> Versions]
    /\ listed \in [SectionSet -> Versions]
    /\ pc \in Idle \cup SectionSet \cup {"session", "describe", "stop"}
    /\ error \in {"none", "arguments", "session", "query", "interrupt", "cleanup"}
    /\ stops \in Nat /\ attempts \in Nat

\* A listing is never shorter than the total printed above it allows, whatever
\* was committed between the two queries; for data files, unless a rebuild
\* replaced them in between.  And the snapshot whose rows were counted first is
\* in the listings of snapshots and of history, unless max_rows newer ones have
\* pushed it out.
ListingsCoverTotals ==
    /\ \A s \in SectionSet \ {"rows"} :
          /\ listed[s] # NotYet
          /\ s \in {"files", "partitions"}
                => replaced \cap (counted[s] + 1 .. listed[s]) = {}
          => AtMost(Size(s, listed[s])) >= AtMost(Size(s, counted[s]))
    /\ \A s \in {"snapshots", "history"} :
          listed[s] # NotYet => counted["rows"] <= listed[s]

\* The inductive strengthening: a table no rebuild replaced only grows, every
\* query saw at least what the one before it saw, and nothing is listed before
\* it is counted.
FilesGrow ==
    \A i, j \in DOMAIN files :
        i <= j /\ replaced \cap (i + 1 .. j) = {} => files[i] <= files[j]
ReadInOrder ==
    /\ \A s \in SectionSet :
          /\ counted[s] <= loaded /\ listed[s] <= loaded
          /\ listed[s] # NotYet => counted[s] # NotYet /\ counted[s] <= listed[s]
    /\ pc \in {"session", "describe", "rows"} => listed = Fresh
    /\ \A s \in {"snapshots", "history"} :
          listed[s] # NotYet => counted["rows"] <= listed[s]
InspectionInv == TypeOK /\ FilesGrow /\ ReadInOrder
=============================================================================
