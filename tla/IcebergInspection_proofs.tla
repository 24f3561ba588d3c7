---------------------- MODULE IcebergInspection_proofs ----------------------
(***************************************************************************)
(* Proofs about the inspection of an Iceberg table, for every limit of the *)
(* listings, every number of commits and of files in each.                 *)
(***************************************************************************)
EXTENDS IcebergInspection, SequenceTheorems, TLAPS

\* The sections, as a set.
LEMMA FiveSections ==
  /\ SectionSet = {"rows", "snapshots", "history", "files", "partitions"}
  BY DEF SectionSet, Sections

\* The elements of the variables.
LEMMA Elements ==
  ASSUME TypeOK
  PROVE  /\ Len(files) \in Nat /\ DOMAIN files = 1 .. Len(files)
         /\ \A i \in DOMAIN files : files[i] \in Nat
         /\ loaded \in Nat /\ loaded <= Len(files)
         /\ \A s \in SectionSet : counted[s] \in Int /\ listed[s] \in Int
<1>1. \A s \in SectionSet : counted[s] \in Versions /\ listed[s] \in Versions
  BY DEF TypeOK
<1> QED
  BY <1>1, ElementOfSeq DEF TypeOK, Versions, NotYet

-----------------------------------------------------------------------------
(* Commits                                                                 *)

\* A commit adds a snapshot after those the session may have seen.
LEMMA CommitSafe ==
  ASSUME InspectionAssumption, InspectionInv, AppendCommit \/ ReplaceCommit
  PROVE  InspectionInv'
<1>1. PICK m \in Nat : /\ files' = Append(files, m)
                       /\ \/ /\ AppendCommit /\ FilesAt(Len(files)) <= m
                             /\ replaced' = replaced
                          \/ /\ ReplaceCommit
                             /\ replaced' = replaced \cup {Len(files) + 1}
  <2>1. FilesAt(Len(files)) \in Nat
    BY Elements DEF FilesAt, InspectionInv
  <2>2. CASE AppendCommit
    BY <2>1, <2>2 DEF AppendCommit, InspectionAssumption
  <2>3. CASE ReplaceCommit
    <3>1. PICK n \in 0 .. MaxFiles : files' = Append(files, n)
      BY <2>3 DEF ReplaceCommit
    <3>2. n \in Nat
      BY <3>1 DEF InspectionAssumption
    <3>3. Len(files') = Len(files) + 1
      BY <3>1, <3>2 DEF InspectionInv, TypeOK
    <3> QED
      BY <2>3, <3>1, <3>2, <3>3 DEF ReplaceCommit
  <2> QED
    BY <2>2, <2>3
<1>2. /\ Len(files) \in Nat /\ Len(files') = Len(files) + 1 /\ files' \in Seq(Nat)
      /\ DOMAIN files = 1 .. Len(files) /\ DOMAIN files' = 1 .. Len(files')
      /\ files'[Len(files) + 1] = m
      /\ \A i \in DOMAIN files : files'[i] = files[i] /\ files[i] \in Nat
  <2>1. files \in Seq(Nat)
    BY DEF InspectionInv, TypeOK
  <2> QED
    BY <1>1, <2>1, Elements DEF InspectionInv
<1>3. UNCHANGED <<exists, loaded, counted, listed, pc, error, stops, attempts>>
  BY <1>1 DEF AppendCommit, ReplaceCommit
<1>4. TypeOK'
  <2>1. Versions \subseteq Versions'
    BY <1>2 DEF Versions
  <2>2. /\ counted \in [SectionSet -> Versions'] /\ listed \in [SectionSet -> Versions']
    BY <2>1 DEF InspectionInv, TypeOK
  <2>3. replaced' \subseteq DOMAIN files'
    BY <1>1, <1>2 DEF InspectionInv, TypeOK
  <2>4. loaded' \in 0 .. Len(files')
    BY <1>2, <1>3 DEF InspectionInv, TypeOK
  <2> QED
    BY <1>2, <1>3, <2>2, <2>3, <2>4 DEF InspectionInv, TypeOK
<1>5. FilesGrow'
  <2> SUFFICES ASSUME NEW i \in DOMAIN files', NEW j \in DOMAIN files',
                      i <= j, replaced' \cap (i + 1 .. j) = {}
               PROVE  files'[i] <= files'[j]
    BY DEF FilesGrow
  <2>1. CASE j \in DOMAIN files
    <3>1. i \in DOMAIN files /\ replaced \cap (i + 1 .. j) = {}
      BY <1>1, <1>2, <2>1
    <3> QED
      BY <1>2, <2>1, <3>1 DEF InspectionInv, FilesGrow
  <2>2. CASE i = Len(files) + 1
    BY <1>2, <2>2
  <2>3. CASE i \in DOMAIN files /\ j = Len(files) + 1
    <3>1. Len(files) + 1 \notin replaced'
      BY <1>2, <2>3
    <3>2. FilesAt(Len(files)) <= m /\ replaced' = replaced
      BY <1>1, <3>1
    <3>3. Len(files) \in DOMAIN files /\ replaced \cap (i + 1 .. Len(files)) = {}
      BY <1>2, <2>3, <3>2
    <3>4. files[i] <= files[Len(files)]
      BY <1>2, <2>3, <3>3 DEF InspectionInv, FilesGrow
    <3> QED
      BY <1>2, <2>3, <3>2, <3>3, <3>4 DEF FilesAt
  <2> QED
    BY <1>2, <2>1, <2>2, <2>3
<1> QED
  BY <1>3, <1>4, <1>5 DEF InspectionInv, ReadInOrder

-----------------------------------------------------------------------------
(* Queries                                                                 *)

\* A query sees a snapshot that is not older than what was seen before.
LEMMA LoadType ==
  ASSUME InspectionInv, Load, UNCHANGED files
  PROVE  /\ loaded' \in 0 .. Len(files) /\ loaded' \in Versions
         /\ loaded' \in Nat /\ loaded <= loaded' /\ loaded' # NotYet
  BY Elements DEF InspectionInv, Load, Versions, NotYet

\* What remains to be shown for a step of an inspection.
LEMMA QueryStep ==
  ASSUME InspectionInv, UNCHANGED <<files, replaced>>,
         exists' \in BOOLEAN, loaded' \in 0 .. Len(files),
         counted' \in [SectionSet -> Versions], listed' \in [SectionSet -> Versions],
         pc' \in Idle \cup SectionSet \cup {"session", "describe", "stop"},
         error' \in {"none", "arguments", "session", "query", "interrupt", "cleanup"},
         stops' \in Nat, attempts' \in Nat, ReadInOrder'
  PROVE  InspectionInv'
  BY DEF InspectionInv, TypeOK, FilesGrow, Versions

\* Steps that query nothing.
LEMMA QuietSafe ==
  ASSUME InspectionInv, Create \/ BuildSession \/ Raise \/ Stop
  PROVE  InspectionInv'
<1>1. UNCHANGED <<files, replaced, loaded, counted, listed>>
  BY DEF Create, BuildSession, Raise, Stop
<1>2. ReadInOrder'
  BY <1>1 DEF Create, BuildSession, Raise, Stop, InspectionInv, ReadInOrder
<1>3. /\ pc' \in Idle \cup SectionSet \cup {"session", "describe", "stop"}
      /\ error' \in {"none", "arguments", "session", "query", "interrupt", "cleanup"}
      /\ exists' \in BOOLEAN /\ stops' \in Nat /\ attempts' \in Nat
  <2>1. CASE Create
    BY <2>1 DEF Create, InspectionInv, TypeOK
  <2>2. CASE BuildSession
    BY <2>2 DEF BuildSession, InspectionInv, TypeOK, Idle
  <2>3. CASE Raise
    BY <2>3 DEF Raise, InspectionInv, TypeOK
  <2>4. CASE Stop
    BY <2>4 DEF Stop, InspectionInv, TypeOK, Idle
  <2> QED
    BY <2>1, <2>2, <2>3, <2>4
<1> QED
  BY <1>1, <1>2, <1>3, QueryStep DEF InspectionInv, TypeOK

\* A new inspection has read nothing.
LEMMA StartSafe ==
  ASSUME InspectionInv, Start
  PROVE  InspectionInv'
<1>1. /\ counted' = Fresh /\ listed' = Fresh /\ loaded' = 0
      /\ Fresh \in [SectionSet -> Versions]
      /\ \A s \in SectionSet : Fresh[s] = NotYet
  BY DEF Start, Fresh, Versions
<1>2. ReadInOrder'
  BY <1>1, FiveSections DEF ReadInOrder, NotYet
<1> QED
  BY <1>1, <1>2, Elements, QueryStep DEF InspectionInv, TypeOK, Start, Idle

\* The two DESCRIBEs.
LEMMA DescribeSafe ==
  ASSUME InspectionInv, Describe
  PROVE  InspectionInv'
<1>1. UNCHANGED <<files, replaced, counted, listed>>
  BY DEF Describe
<1>2. loaded' \in 0 .. Len(files) /\ loaded' \in Nat /\ loaded <= loaded'
  BY <1>1, LoadType DEF Describe
<1>3. ReadInOrder'
  BY <1>1, <1>2, Elements DEF Describe, InspectionInv, ReadInOrder
<1> QED
  BY <1>1, <1>2, <1>3, QueryStep, FiveSections DEF InspectionInv, TypeOK, Describe

\* The count of the rows comes before every listing.
LEMMA CountRowsSafe ==
  ASSUME InspectionInv, CountRows
  PROVE  InspectionInv'
<1>1. /\ UNCHANGED <<files, replaced>> /\ listed = Fresh
      /\ loaded' \in 0 .. Len(files) /\ loaded' \in Versions
      /\ loaded' \in Nat /\ loaded <= loaded' /\ loaded' # NotYet
  BY LoadType DEF CountRows, InspectionInv, ReadInOrder
<1>2. /\ counted' \in [SectionSet -> Versions] /\ listed' \in [SectionSet -> Versions]
      /\ counted'["rows"] = loaded' /\ listed'["rows"] = loaded'
      /\ \A s \in SectionSet \ {"rows"} :
            counted'[s] = counted[s] /\ listed'[s] = NotYet
  BY <1>1, FiveSections DEF CountRows, InspectionInv, TypeOK, Fresh
<1>3. ReadInOrder'
  <2>1. pc' = "snapshots"
    BY DEF CountRows
  <2>2. \A s \in SectionSet : counted[s] \in Int /\ counted[s] <= loaded /\ loaded \in Nat
    BY Elements DEF InspectionInv, ReadInOrder
  <2> QED
    BY <1>1, <1>2, <2>1, <2>2, FiveSections DEF ReadInOrder, NotYet
<1> QED
  BY <1>1, <1>2, <1>3, QueryStep, FiveSections DEF InspectionInv, TypeOK, CountRows

\* A total is read once, and before the listing.
LEMMA CountSafe ==
  ASSUME InspectionInv, NEW s \in SectionSet \ {"rows"}, Count(s)
  PROVE  InspectionInv'
<1>1. /\ UNCHANGED <<files, replaced, listed>>
      /\ loaded' \in 0 .. Len(files) /\ loaded' \in Versions
      /\ loaded' \in Nat /\ loaded <= loaded' /\ loaded' # NotYet
  BY LoadType DEF Count
<1>2. /\ counted' \in [SectionSet -> Versions] /\ counted'[s] = loaded'
      /\ \A t \in SectionSet \ {s} : counted'[t] = counted[t]
  BY <1>1 DEF Count, InspectionInv, TypeOK
<1>3. listed[s] = NotYet
  BY DEF Count, InspectionInv, ReadInOrder
<1>4. ReadInOrder'
  <2>1. pc' = s /\ pc' \notin {"session", "describe", "rows"}
    BY FiveSections DEF Count
  <2>2. \A t \in SectionSet : /\ counted[t] \in Int /\ counted[t] <= loaded
                              /\ listed[t] \in Int /\ listed[t] <= loaded
                              /\ loaded \in Nat
    BY Elements DEF InspectionInv, ReadInOrder
  <2>3. "rows" \in SectionSet \ {s}
    BY FiveSections
  <2> QED
    BY <1>1, <1>2, <1>3, <2>1, <2>2, <2>3 DEF InspectionInv, ReadInOrder, NotYet
<1> QED
  BY <1>1, <1>2, <1>4, QueryStep DEF InspectionInv, TypeOK, Count

\* The listing sees what its total has seen, or more.
LEMMA ListSafe ==
  ASSUME InspectionInv, NEW s \in SectionSet \ {"rows"}, List(s)
  PROVE  InspectionInv'
<1>1. /\ UNCHANGED <<files, replaced, counted>>
      /\ loaded' \in 0 .. Len(files) /\ loaded' \in Versions
      /\ loaded' \in Nat /\ loaded <= loaded' /\ loaded' # NotYet
  BY LoadType DEF List
<1>2. /\ listed' \in [SectionSet -> Versions] /\ listed'[s] = loaded'
      /\ \A t \in SectionSet \ {s} : listed'[t] = listed[t]
  BY <1>1 DEF List, InspectionInv, TypeOK
<1>3. pc' \in {"history", "files", "partitions", "stop"}
  BY FiveSections DEF List, After
<1>4. ReadInOrder'
  <2>1. \A t \in SectionSet : /\ counted[t] \in Int /\ counted[t] <= loaded
                              /\ listed[t] \in Int /\ listed[t] <= loaded
                              /\ loaded \in Nat
    BY Elements DEF InspectionInv, ReadInOrder
  <2>2. "rows" \in SectionSet /\ counted[s] # NotYet
    BY FiveSections DEF List
  <2>3. \A t \in SectionSet :
          /\ counted'[t] <= loaded' /\ listed'[t] <= loaded'
          /\ listed'[t] # NotYet => counted'[t] # NotYet /\ counted'[t] <= listed'[t]
    BY <1>1, <1>2, <2>1, <2>2 DEF InspectionInv, ReadInOrder
  <2>4. \A t \in {"snapshots", "history"} :
          listed'[t] # NotYet => counted'["rows"] <= listed'[t]
    BY <1>1, <1>2, <2>1, <2>2, FiveSections DEF InspectionInv, ReadInOrder
  <2> QED
    BY <1>3, <2>3, <2>4 DEF ReadInOrder
<1> QED
  BY <1>1, <1>2, <1>3, <1>4, QueryStep, FiveSections DEF InspectionInv, TypeOK, List

-----------------------------------------------------------------------------
(* Theorems                                                                *)

\* What is printed comes from snapshots of the table, in the order they were
\* read, whatever was committed between the queries.
THEOREM InspectionSafe ==
  ASSUME InspectionAssumption
  PROVE  Spec => []InspectionInv
<1>1. Init => InspectionInv
  <2> SUFFICES ASSUME Init PROVE InspectionInv
    OBVIOUS
  <2>1. /\ files = <<>> /\ Len(files) = 0 /\ DOMAIN files = {} /\ files \in Seq(Nat)
    BY DEF Init
  <2>2. /\ counted \in [SectionSet -> Versions] /\ listed \in [SectionSet -> Versions]
        /\ \A s \in SectionSet : counted[s] = NotYet /\ listed[s] = NotYet
    BY DEF Init, Fresh, Versions
  <2> QED
    BY <2>1, <2>2, FiveSections
       DEF Init, InspectionInv, TypeOK, FilesGrow, ReadInOrder, NotYet, Idle
<1>2. InspectionInv /\ [Next]_vars => InspectionInv'
  <2> SUFFICES ASSUME InspectionInv, [Next]_vars PROVE InspectionInv'
    OBVIOUS
  <2>1. CASE Next
    BY <2>1, CommitSafe, QuietSafe, StartSafe, DescribeSafe, CountRowsSafe, CountSafe,
       ListSafe DEF Next, Step
  <2>2. CASE UNCHANGED vars
    BY <2>2 DEF vars, InspectionInv, TypeOK, Versions, FilesGrow, ReadInOrder
  <2> QED
    BY <2>1, <2>2
<1> QED
  BY <1>1, <1>2, PTL DEF Spec

\* A listing is never shorter than its total allows, and the snapshot whose rows
\* were counted is known to the listings of snapshots and of history.
THEOREM ListingsAreComplete ==
  ASSUME InspectionAssumption
  PROVE  Spec => []ListingsCoverTotals
<1>1. InspectionInv => ListingsCoverTotals
  <2> SUFFICES ASSUME InspectionInv PROVE ListingsCoverTotals
    OBVIOUS
  <2>1. ASSUME NEW s \in SectionSet \ {"rows"}, listed[s] # NotYet,
               s \in {"files", "partitions"}
                 => replaced \cap (counted[s] + 1 .. listed[s]) = {}
        PROVE  AtMost(Size(s, listed[s])) >= AtMost(Size(s, counted[s]))
    <3>1. PICK c, l \in Nat : /\ c = counted[s] /\ l = listed[s]
                              /\ c <= l /\ l <= Len(files)
      <4>1. /\ counted[s] # NotYet /\ counted[s] <= listed[s]
            /\ counted[s] \in Versions /\ listed[s] \in Versions
        BY <2>1 DEF InspectionInv, ReadInOrder, TypeOK
      <4> QED
        BY <2>1, <4>1, Elements DEF InspectionInv, Versions
    <3>2. ASSUME s \in {"files", "partitions"}
          PROVE  /\ FilesAt(c) \in Nat /\ FilesAt(l) \in Nat
                 /\ FilesAt(c) <= FilesAt(l)
      <4>1. /\ \A v \in 1 .. Len(files) : v \in DOMAIN files /\ files[v] \in Nat
            /\ Len(files) \in Nat
        BY Elements DEF InspectionInv
      <4>2. CASE c = 0
        BY <3>1, <4>1, <4>2 DEF FilesAt
      <4>3. CASE c # 0
        <5>1. c \in DOMAIN files /\ l \in DOMAIN files
          BY <3>1, <4>1, <4>3
        <5>2. files[c] <= files[l]
          BY <2>1, <3>1, <3>2, <5>1 DEF InspectionInv, FilesGrow
        <5> QED
          BY <3>1, <4>1, <4>3, <5>1, <5>2 DEF FilesAt
      <4> QED
        BY <4>2, <4>3
    <3>3. Size(s, c) \in Nat /\ Size(s, l) \in Nat /\ Size(s, c) <= Size(s, l)
      <4>1. CASE s \in {"snapshots", "history"}
        BY <3>1, <4>1 DEF Size
      <4>2. CASE s = "files"
        BY <3>2, <4>2 DEF Size
      <4>3. CASE s = "partitions"
        BY <3>2, <4>3 DEF Size
      <4> QED
        BY <4>1, <4>2, <4>3, FiveSections
    <3> QED
      BY <3>1, <3>3 DEF AtMost, InspectionAssumption
  <2> QED
    BY <2>1 DEF ListingsCoverTotals, InspectionInv, ReadInOrder
<1> QED
  BY <1>1, InspectionSafe, PTL
=============================================================================
