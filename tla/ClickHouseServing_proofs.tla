---------------------- MODULE ClickHouseServing_proofs ----------------------
(***************************************************************************)
(* Proofs about the serving refresh, for every set of rows, operators and  *)
(* bounds: first the invariant of a refresh with one command at a time and *)
(* without surviving inserts, and the publication it implements; then what *)
(* a report of success or failure means, and what several operators and    *)
(* inserts that end late or survive their client cannot take from readers. *)
(***************************************************************************)
EXTENDS ClickHouseServing, FiniteSetTheorems, TLAPS

-----------------------------------------------------------------------------
(* Row multisets                                                           *)

\* An empty table holds a row multiset.
LEMMA EmptyBagType == EmptyBag \in Bag
  BY DEF EmptyBag, Bag

\* Storing copies of a row, or taking away a copy that is there, gives a row
\* multiset.
LEMMA AddType ==
  ASSUME NEW b \in Bag, NEW r \in Rows
  PROVE  /\ \A n \in Nat : Add(b, r, n) \in Bag
         /\ b[r] > 0 => Add(b, r, -1) \in Bag
  BY DEF Add, Bag

\* SELECT count() of a row multiset is a natural number.
LEMMA RowCountType ==
  ASSUME NEW b \in Bag
  PROVE  RowCount(b) \in Nat
<1> DEFINE Copies == {{r} \X (1 .. b[r]) : r \in Rows}
      copiesOf == [r \in Rows |-> {r} \X (1 .. b[r])]
<1>1. IsFiniteSet(Copies)
  <2>1. copiesOf \in Surjection(Rows, Copies)
    BY DEF Surjection
  <2> QED
    BY <2>1, ServingAssumption, FS_Surjection DEF ServingAssumption
<1>2. ASSUME NEW c \in Copies PROVE IsFiniteSet(c)
  <2>1. PICK r \in Rows : c = {r} \X (1 .. b[r])
    OBVIOUS
  <2>2. IsFiniteSet({r})
    BY FS_Singleton
  <2>3. b[r] \in Nat
    BY DEF Bag
  <2>4. IsFiniteSet(1 .. b[r])
    BY <2>3, FS_Interval
  <2> QED
    BY ONLY <2>1, <2>2, <2>4, FS_Product
<1>3. IsFiniteSet(UNION Copies)
  BY <1>1, <1>2, FS_UNION
<1> QED
  BY <1>3, FS_CardinalityType DEF RowCount

-----------------------------------------------------------------------------
(* Types                                                                   *)

Phases == Active \cup Terminal

\* Moving a command on keeps pc in its type.
LEMMA GotoType ==
  ASSUME pc \in [Operators -> Phases], NEW p \in Operators, NEW from,
         NEW test \in BOOLEAN, NEW to \in Phases, Goto(p, from, test, to)
  PROVE  pc' \in [Operators -> Phases]
  BY DEF Goto, Phases, Terminal

\* Moving a command on that has no INSERT open leaves none open elsewhere.
LEMMA GotoInserts ==
  ASSUME TypeOK, NEW p \in Operators, pc[p] # "write" \/ insert'[p] = NoInsert,
         \E v : pc' = [pc EXCEPT ![p] = v],
         \E v : insert' = [insert EXCEPT ![p] = v], UNCHANGED insert \/ pc[p] = "write"
  PROVE  OnlyWritersInsert'
<1> SUFFICES ASSUME NEW q \in Operators, pc'[q] # "write"
             PROVE  insert'[q] = NoInsert
  BY DEF OnlyWritersInsert, NoInsert, EmptyBag
<1> QED
  BY DEF TypeOK, OnlyWritersInsert

\* A step that only reads keeps every type.
LEMMA CheckType ==
  ASSUME TypeOK, NEW p \in Operators, NEW from, NEW test \in BOOLEAN,
         NEW to \in Phases, Check(p, from, test, to),
         from # "write" \/ insert[p] = NoInsert
  PROVE  TypeOK'
<1>1. pc' \in [Operators -> Phases]
  BY GotoType DEF Check, TypeOK, Phases
<1>2. UNCHANGED insert
  BY DEF Check, cmdVars
<1>3. insert' = [insert EXCEPT ![p] = insert[p]]
  BY <1>2 DEF TypeOK
<1>4. OnlyWritersInsert'
  BY <1>2, <1>3, GotoInserts DEF Check, Goto
<1> QED
  BY <1>1, <1>4 DEF Check, TypeOK, Phases, cmdVars, countVars, histVars

\* Where the steps that only read may lead.
LEMMA PhaseType ==
  {"ensure", "count", "loaded", "metrics", "fingerprint", "preTarget",
   "preStaging", "exchange", "postTarget", "postStaging", "published",
   "failed", "truncate", "write", "source"} \subseteq Phases
  BY DEF Phases, Active, Terminal, Loading, Validating, Validated, Exchanged

\* The physical tables are closed under the swap of names.
LEMMA StagingType ==
  ASSUME target \in Tables
  PROVE  staging \in Tables /\ staging # target /\ Other(staging) = target
  BY DEF staging, Other, Tables

\* A bound snapshot that exists is a row multiset.
LEMMA SnapshotType ==
  ASSUME TypeOK, NEW s \in 1 .. Len(silver)
  PROVE  silver[s] \in Bag
  BY ServingAssumption DEF TypeOK, ServingAssumption

\* An active command has bound a snapshot that exists.
BoundExists == \A p \in Operators : pc[p] \in Active => bound[p] >= 1
TypeInv == TypeOK /\ BoundExists

\* Initially every variable has its type.
LEMMA TypeInit == Init => TypeInv
  BY EmptyBagType
     DEF Init, TypeInv, TypeOK, BoundExists, Tables, Phases, Active, Terminal,
         Loading, Validating, Validated, Exchanged, NoInsert, OnlyWritersInsert

\* A step of p that keeps the types keeps the bound snapshots; one outside the
\* JDBC write that opens no INSERT leaves none open.
LEMMA BoundStep ==
  ASSUME TypeInv, NEW p \in Operators, pc[p] \in Active,
         \E v : pc' = [pc EXCEPT ![p] = v], UNCHANGED bound
  PROVE  BoundExists' /\ (pc[p] # "write" /\ UNCHANGED insert => OnlyWritersInsert')
<1>1. BoundExists'
  <2> SUFFICES ASSUME NEW q \in Operators, pc'[q] \in Active
               PROVE  bound[q] >= 1
    BY DEF BoundExists, Active, Loading, Validating, Validated, Exchanged
  <2> QED
    BY DEF TypeInv, TypeOK, BoundExists
<1>2. ASSUME pc[p] # "write", UNCHANGED insert PROVE OnlyWritersInsert'
  <2>1. insert' = [insert EXCEPT ![p] = insert[p]]
    BY <1>2 DEF TypeInv, TypeOK
  <2> QED
    BY <1>2, <2>1, GotoInserts DEF TypeInv
<1> QED
  BY <1>1, <1>2

\* The phases in which a command executes statements are active.
LEMMA ActivePhases ==
  {"source", "ensure", "truncate", "write", "count", "metrics", "fingerprint",
   "preTarget", "preStaging", "exchange", "postTarget", "postStaging"} = Active
  BY DEF Active, Loading, Validating, Validated, Exchanged

\* An INSERT that ends leaves the rows of the others; it belongs to the write.
LEMMA EndInsertType ==
  ASSUME TypeOK, NEW p \in Operators, NEW t \in Tables, NEW r \in Rows,
         EndInsert(p, t, r)
  PROVE  insert' \in [Operators -> [Tables -> Bag]] /\ OnlyWritersInsert'
<1>1. insert[p][t] \in Bag /\ insert[p][t][r] > 0
  BY DEF EndInsert, TypeOK
<1>2. Add(insert[p][t], r, -1) \in Bag
  BY <1>1, AddType
<1>3. PICK b \in Bag : insert' = [insert EXCEPT ![p][t] = b]
  BY <1>2 DEF EndInsert
<1>4. insert' \in [Operators -> [Tables -> Bag]]
  BY <1>3 DEF TypeOK
<1>5. \A q \in Operators : pc'[q] # "write" => insert'[q] = insert[q] /\ pc[q] # "write"
  BY <1>3 DEF EndInsert, TypeOK
<1>6. OnlyWritersInsert'
  BY <1>5 DEF TypeOK, OnlyWritersInsert, NoInsert, EmptyBag
<1> QED
  BY <1>4, <1>6

\* However the driver stores the row of an INSERT, it takes no row away and changes
\* the table that INSERT was for.
LEMMA StoredRow ==
  ASSUME TypeOK, NEW p \in Operators, StoreRow(p) \/ WriteAnomaly(p)
  PROVE  \E t \in Tables, r \in Rows :
            /\ EndInsert(p, t, r)
            /\ \E b \in Bag : /\ content' = [content EXCEPT ![t] = b]
                            /\ \A x \in Rows : b[x] >= content[t][x]
<1>1. \A t \in Tables : content[t] \in Bag /\ content = [content EXCEPT ![t] = content[t]]
  BY DEF TypeOK
<1>2. ASSUME NEW t \in Tables, NEW w \in Rows, NEW n \in {1, 2}
      PROVE  Add(content[t], w, n) \in Bag /\ \A x \in Rows : Add(content[t], w, n)[x] >= content[t][x]
  <2>1. content[t] \in Bag
    BY <1>1
  <2>2. Add(content[t], w, n) \in Bag
    BY <2>1, AddType
  <2> QED
    BY <2>1, <2>2 DEF Add, Bag
<1>3. \A t \in Tables, x \in Rows : content[t][x] >= content[t][x]
  BY <1>1 DEF Bag
<1>4. CASE StoreRow(p)
  <2>1. PICK t \in Tables, r \in Rows :
          EndInsert(p, t, r) /\ content' = [content EXCEPT ![t] = Add(@, r, 1)]
    BY <1>4 DEF StoreRow
  <2> QED
    BY <1>2, <2>1
<1>5. CASE WriteAnomaly(p)
  <2>1. PICK t \in Tables, r \in Rows :
          /\ EndInsert(p, t, r)
          /\ \/ UNCHANGED content
             \/ content' = [content EXCEPT ![t] = Add(@, r, 2)]
             \/ \E w \in Rows \ {r} : content' = [content EXCEPT ![t] = Add(@, w, 1)]
    BY <1>5 DEF WriteAnomaly
  <2>2. CASE UNCHANGED content
    BY <1>1, <1>3, <2>1, <2>2
  <2>3. CASE content' = [content EXCEPT ![t] = Add(@, r, 2)]
    <3>1. /\ Add(content[t], r, 2) \in Bag
          /\ \A x \in Rows : Add(content[t], r, 2)[x] >= content[t][x]
      BY <1>2
    <3>2. content' = [content EXCEPT ![t] = Add(content[t], r, 2)]
      BY <2>3
    <3> QED
      BY <2>1, <3>1, <3>2
  <2>4. ASSUME NEW w \in Rows, content' = [content EXCEPT ![t] = Add(@, w, 1)]
        PROVE  \E b \in Bag : /\ content' = [content EXCEPT ![t] = b]
                            /\ \A x \in Rows : b[x] >= content[t][x]
    BY <1>2, <2>4
  <2> QED
    BY <2>1, <2>2, <2>3, <2>4
<1> QED
  BY <1>4, <1>5

\* A row stored, rightly or wrongly, keeps the types.
LEMMA StoreType ==
  ASSUME TypeInv, NEW p \in Operators, StoreRow(p) \/ WriteAnomaly(p)
  PROVE  TypeInv'
<1> USE DEF TypeInv, countVars, histVars
<1>1. PICK t \in Tables, r \in Rows, b \in Bag :
        EndInsert(p, t, r) /\ content' = [content EXCEPT ![t] = b]
  BY StoredRow
<1>2. content' \in [Tables -> Bag]
  BY <1>1 DEF TypeOK
<1>3. attempts' \in Nat /\ anomalies' \in Nat
  BY DEF StoreRow, WriteAnomaly, TypeOK
<1>4. insert' \in [Operators -> [Tables -> Bag]] /\ OnlyWritersInsert'
  BY <1>1, EndInsertType
<1> QED
  BY <1>1, <1>2, <1>3, <1>4 DEF EndInsert, TypeOK, BoundExists

\* Every statement of a command keeps the types.
LEMMA StepType ==
  ASSUME TypeInv, NEW p \in Operators, Step(p)
  PROVE  TypeInv'
<1> USE DEF TypeInv, cmdVars, countVars, histVars
<1>1. CASE ReadSource(p)
  BY <1>1, CheckType, BoundStep, PhaseType, ActivePhases
     DEF ReadSource, Check, Goto, NullFree
<1>2. CASE EnsureSchema(p)
  <2>1. pc' \in [Operators -> Phases]
    BY <1>2, GotoType, PhaseType DEF EnsureSchema, TypeOK, Phases
  <2> QED
    BY <1>2, <2>1, BoundStep, ActivePhases DEF EnsureSchema, Goto, TypeOK, Phases
<1>3. CASE TruncateStaging(p)
  <2>1. pc' \in [Operators -> Phases]
    BY <1>3, GotoType, PhaseType DEF TruncateStaging, TypeOK, Phases
  <2>2. bound[p] \in 1 .. Len(silver)
    BY <1>3, ActivePhases DEF TruncateStaging, Goto, TypeOK, BoundExists
  <2>3. content' \in [Tables -> Bag] /\ todo' \in [Operators -> Bag]
    BY <1>3, <2>2, SnapshotType, EmptyBagType DEF TruncateStaging, TypeOK
  <2> QED
    BY <1>3, <2>1, <2>3, BoundStep, ActivePhases
       DEF TruncateStaging, Goto, TypeOK, Phases
<1>4. CASE BeginInsert(p)
  <2>1. PICK r \in Rows :
          /\ todo[p][r] > 0
          /\ todo' = [todo EXCEPT ![p] = Add(@, r, -1)]
          /\ insert' = [insert EXCEPT ![p][staging] = Add(@, r, 1)]
    BY <1>4 DEF BeginInsert
  <2>2. todo' \in [Operators -> Bag]
    <3>1. Add(todo[p], r, -1) \in Bag
      BY <2>1, AddType DEF TypeOK
    <3> QED
      BY <2>1, <3>1 DEF TypeOK
  <2>3. insert' \in [Operators -> [Tables -> Bag]]
    <3>1. insert[p][staging] \in Bag
      BY StagingType DEF TypeOK
    <3>2. Add(insert[p][staging], r, 1) \in Bag
      BY <3>1, AddType
    <3> QED
      BY <2>1, <3>2 DEF TypeOK
  <2>4. OnlyWritersInsert'
    <3>1. \A q \in Operators :
             pc'[q] # "write" => pc[q] # "write" /\ insert'[q] = insert[q]
      BY <1>4, <2>1 DEF BeginInsert, TypeOK
    <3> QED
      BY <3>1 DEF TypeOK, OnlyWritersInsert, NoInsert, EmptyBag
  <2> QED
    BY <1>4, <2>2, <2>3, <2>4 DEF BeginInsert, TypeOK, BoundExists
<1>5. CASE WriteDone(p)
  BY <1>5, CheckType, BoundStep, PhaseType, ActivePhases DEF WriteDone, Check, Goto
<1>6. CASE CountStaging(p)
  <2> DEFINE to == IF kind[p] = "load" THEN "loaded" ELSE "metrics"
  <2>1. to \in Phases
    BY PhaseType
  <2> QED
    BY <1>6, <2>1, CheckType, BoundStep, ActivePhases DEF CountStaging, Check, Goto
<1>7. CASE CompareMetrics(p)
  <2> DEFINE test == /\ NullFree(content[staging])
                     /\ MetricsAgree(silver[bound[p]], content[staging])
  <2>1. test \in BOOLEAN
    BY DEF NullFree, MetricsAgree
  <2> QED
    BY <1>7, <2>1, CheckType, BoundStep, PhaseType, ActivePhases
       DEF CompareMetrics, Check, Goto
<1>8. CASE CompareFingerprints(p)
  <2>1. FingerprintsAgree(silver[bound[p]], content[staging]) \in BOOLEAN
    BY DEF FingerprintsAgree
  <2>2. pc' \in [Operators -> Phases]
    BY <1>8, <2>1, GotoType, PhaseType DEF CompareFingerprints, TypeOK, Phases
  <2> QED
    BY <1>8, <2>2, BoundStep, ActivePhases DEF CompareFingerprints, Goto, TypeOK, Phases
<1>9. CASE CountTargetBefore(p)
  <2>1. pc' \in [Operators -> Phases]
    BY <1>9, GotoType, PhaseType DEF CountTargetBefore, TypeOK, Phases
  <2>2. preTarget' \in [Operators -> Nat]
    BY <1>9, RowCountType DEF CountTargetBefore, TypeOK
  <2> QED
    BY <1>9, <2>1, <2>2, BoundStep, ActivePhases
       DEF CountTargetBefore, Goto, TypeOK, Phases
<1>10. CASE CountStagingBefore(p)
  <2>1. pc' \in [Operators -> Phases]
    BY <1>10, GotoType, PhaseType DEF CountStagingBefore, TypeOK, Phases
  <2>2. preStaging' \in [Operators -> Nat]
    BY <1>10, RowCountType, StagingType DEF CountStagingBefore, TypeOK
  <2> QED
    BY <1>10, <2>1, <2>2, BoundStep, ActivePhases
       DEF CountStagingBefore, Goto, TypeOK, Phases
<1>11. CASE Exchange(p)
  <2>1. pc' \in [Operators -> Phases]
    BY <1>11, GotoType, PhaseType DEF Exchange, TypeOK, Phases
  <2>2. /\ target' \in Tables /\ served' \in 0 .. Len(silver')
        /\ swapped' \in [Operators -> BOOLEAN]
        /\ intact' \subseteq Operators /\ sound' \in BOOLEAN
    BY <1>11, StagingType DEF Exchange, SwapNames, TypeOK
  <2>3. /\ BoundExists' /\ OnlyWritersInsert'
    BY <1>11, BoundStep, ActivePhases DEF Exchange, SwapNames, Goto
  <2> QED
    BY <1>11, <2>1, <2>2, <2>3 DEF Exchange, SwapNames, TypeOK, Phases
<1>12. CASE CountTargetAfter(p)
  BY <1>12, CheckType, BoundStep, PhaseType, ActivePhases
     DEF CountTargetAfter, Check, Goto
<1>13. CASE CountStagingAfter(p)
  BY <1>13, CheckType, BoundStep, PhaseType, ActivePhases
     DEF CountStagingAfter, Check, Goto
<1>14. CASE StoreRow(p)
  BY <1>14, StoreType
<1> QED
  BY <1>1, <1>2, <1>3, <1>4, <1>5, <1>6, <1>7, <1>8, <1>9, <1>10, <1>11,
     <1>12, <1>13, <1>14 DEF Step

\* A command that ends by failing keeps the types.
LEMMA FailType ==
  ASSUME TypeInv, NEW p \in Operators, Fail(p)
  PROVE  TypeInv'
<1> USE DEF TypeInv, cmdVars, countVars, histVars
<1>1. CASE FailQuietly(p)
  <2>1. Check(p, pc[p], FALSE, "failed") /\ pc[p] \in Active /\ pc[p] # "write"
    BY <1>1 DEF FailQuietly
  <2>2. TypeOK'
    BY <2>1, CheckType, PhaseType
  <2> QED
    BY <2>1, <2>2, BoundStep DEF Check, Goto
<1>2. CASE FailAfterCreate(p)
  <2>1. pc' \in [Operators -> Phases]
    BY <1>2, GotoType, PhaseType DEF FailAfterCreate, TypeOK, Phases
  <2> QED
    BY <1>2, <2>1, BoundStep, ActivePhases DEF FailAfterCreate, Goto, TypeOK, Phases
<1>3. CASE FailAfterTruncate(p)
  <2>1. pc' \in [Operators -> Phases]
    BY <1>3, GotoType, PhaseType DEF FailAfterTruncate, TypeOK, Phases
  <2>2. content' \in [Tables -> Bag]
    BY <1>3, EmptyBagType DEF FailAfterTruncate, TypeOK
  <2> QED
    BY <1>3, <2>1, <2>2, BoundStep, ActivePhases
       DEF FailAfterTruncate, Goto, TypeOK, Phases
<1>4. CASE FailWrite(p)
  <2>1. pc' \in [Operators -> Phases]
    BY <1>4, GotoType, PhaseType DEF FailWrite, TypeOK, Phases
  <2>2. orphan' \in [Tables -> Bag]
    <3>1. \A t \in Tables : orphan[t] \in Bag /\ insert[p][t] \in Bag
      BY DEF TypeOK
    <3>2. \A t \in Tables : [r \in Rows |-> orphan[t][r] + insert[p][t][r]] \in Bag
      BY <3>1 DEF Bag
    <3>3. CASE Orphans
      BY <1>4, <3>2, <3>3 DEF FailWrite
    <3>4. CASE ~Orphans
      BY <1>4, <3>4 DEF FailWrite, TypeOK
    <3> QED
      BY <3>3, <3>4
  <2>3. insert' \in [Operators -> [Tables -> Bag]]
    BY <1>4, EmptyBagType DEF FailWrite, NoInsert, TypeOK
  <2>4. OnlyWritersInsert'
    <3>1. pc[p] = "write" /\ insert'[p] = NoInsert
      BY <1>4 DEF FailWrite, Goto, TypeOK
    <3> QED
      BY <1>4, <3>1, GotoInserts DEF FailWrite, Goto
  <2> QED
    BY <1>4, <2>1, <2>2, <2>3, <2>4, BoundStep, ActivePhases
       DEF FailWrite, Goto, TypeOK, Phases
<1>5. CASE FailAfterExchange(p)
  <2>1. pc' \in [Operators -> Phases]
    BY <1>5, GotoType, PhaseType DEF FailAfterExchange, TypeOK, Phases
  <2>2. /\ target' \in Tables /\ served' \in 0 .. Len(silver')
        /\ swapped' \in [Operators -> BOOLEAN]
        /\ intact' \subseteq Operators /\ sound' \in BOOLEAN
    BY <1>5, StagingType DEF FailAfterExchange, SwapNames, TypeOK
  <2>3. /\ BoundExists' /\ OnlyWritersInsert'
    BY <1>5, BoundStep, ActivePhases DEF FailAfterExchange, SwapNames, Goto
  <2> QED
    BY <1>5, <2>1, <2>2, <2>3 DEF FailAfterExchange, SwapNames, TypeOK, Phases
<1> QED
  BY <1>1, <1>2, <1>3, <1>4, <1>5 DEF Fail

\* The start of a command keeps the types: a command without a snapshot to
\* bind is not active.
LEMMA StartType ==
  ASSUME TypeInv, NEW p \in Operators, Start(p)
  PROVE  TypeInv'
<1> USE DEF TypeInv
<1>1. Len(silver) \in Nat /\ (silver # <<>> => Len(silver) >= 1)
  BY DEF TypeOK
<1>2. pc' \in [Operators -> Phases]
  BY PhaseType DEF Start, TypeOK, Phases
<1>3. OnlyWritersInsert'
  <2>1. insert[p] = NoInsert
    BY DEF Start, Terminal, TypeOK, OnlyWritersInsert
  <2> QED
    BY <2>1 DEF Start, TypeOK, OnlyWritersInsert, NoInsert, EmptyBag
<1>4. TypeOK'
  BY <1>1, <1>2, <1>3 DEF Start, TypeOK, Phases
<1>5. ASSUME NEW q \in Operators, pc'[q] \in Active PROVE bound'[q] >= 1
  <2>1. "failed" \notin Active
    BY DEF Active, Loading, Validating, Validated, Exchanged
  <2> QED
    BY <1>1, <1>5, <2>1 DEF Start, TypeOK, BoundExists
<1> QED
  BY <1>4, <1>5 DEF BoundExists

\* What happens around the commands keeps the types.
LEMMA SurroundingsType ==
  ASSUME TypeInv, SilverRebuild \/ EnsureCommand \/ \E t \in Tables : OrphanEnds(t)
  PROVE  TypeInv'
<1> USE DEF TypeInv, cmdVars, countVars, histVars
<1>1. OnlyWritersInsert'
  BY DEF SilverRebuild, EnsureCommand, OrphanEnds, TypeOK, OnlyWritersInsert, NoInsert,
         EmptyBag
<1>2. CASE SilverRebuild
  <2>1. PICK c \in Contents : silver' = Append(silver, c)
    BY <1>2 DEF SilverRebuild
  <2>2. silver' \in Seq(Contents) /\ Len(silver') = Len(silver) + 1
    BY <2>1 DEF TypeOK
  <2>3. Len(silver) \in Nat
    BY DEF TypeOK
  <2> QED
    BY <1>1, <1>2, <2>2, <2>3 DEF SilverRebuild, TypeOK, BoundExists
<1>3. CASE EnsureCommand
  BY <1>1, <1>3 DEF EnsureCommand, TypeOK, BoundExists
<1>4. ASSUME NEW t \in Tables, OrphanEnds(t) PROVE TypeInv'
  <2>1. PICK r \in Rows :
          /\ orphan[t][r] > 0
          /\ orphan' = [orphan EXCEPT ![t] = Add(@, r, -1)]
          /\ content' \in {content, [content EXCEPT ![t] = Add(@, r, 1)]}
    BY <1>4 DEF OrphanEnds
  <2>2. Add(orphan[t], r, -1) \in Bag /\ Add(content[t], r, 1) \in Bag
    BY <2>1, AddType DEF TypeOK
  <2>3. orphan' \in [Tables -> Bag] /\ content' \in [Tables -> Bag]
    BY <2>1, <2>2 DEF TypeOK
  <2> QED
    BY <1>1, <1>4, <2>3 DEF OrphanEnds, TypeOK, BoundExists
<1> QED
  BY <1>2, <1>3, <1>4

\* Every step keeps the types.
LEMMA NextType ==
  ASSUME TypeInv, [Next]_vars
  PROVE  TypeInv'
<1>1. CASE UNCHANGED vars
  BY <1>1 DEF TypeInv, TypeOK, OnlyWritersInsert, NoInsert, EmptyBag, BoundExists, vars,
              cmdVars, countVars, histVars
<1> QED
  BY <1>1, StepType, StoreType, FailType, StartType, SurroundingsType DEF Next

\* The variables of the serving refresh keep their types, with any number of
\* concurrent commands and any failures.
THEOREM TypeCorrect == Spec => []TypeOK
<1>1. Init => TypeInv
  BY TypeInit
<1>2. TypeInv /\ [Next]_vars => TypeInv'
  BY NextType
<1>3. TypeInv => TypeOK
  BY DEF TypeInv
<1> QED
  BY <1>1, <1>2, <1>3, PTL DEF Spec

-----------------------------------------------------------------------------
(* Safety: one command at a time, and inserts that end with their client   *)

\* The strengthened invariant holds initially.
LEMMA ServingInit == Init => ServingInv
<1> SUFFICES ASSUME Init PROVE ServingInv
  OBVIOUS
<1>1. TypeOK
  BY TypeInit DEF TypeInv
<1>2. \A p \in Operators : pc[p] \notin Active
  BY DEF Init, Active, Loading, Validating, Validated, Exchanged
<1>3. OneActive /\ BoundIsRecent /\ StagingIsBound
  BY <1>2 DEF OneActive, BoundIsRecent, StagingIsBound, Active
<1>4. NoOrphan /\ InsertsToStaging /\ TargetIsSnapshot
  BY DEF Init, NoOrphan, InsertsToStaging, NoInsert, TargetIsSnapshot, SnapshotRows,
         Tables
<1> QED
  BY <1>1, <1>3, <1>4 DEF ServingInv

\* Only active commands take steps, and only to a phase of a command.
LEMMA StepPhases ==
  ASSUME NEW p \in Operators, Step(p) \/ WriteAnomaly(p) \/ Fail(p)
  PROVE  /\ pc[p] \in Active
         /\ \/ UNCHANGED pc
            \/ \E to \in Phases : pc' = [pc EXCEPT ![p] = to]
         /\ UNCHANGED <<silver, bound, before>>
<1> USE DEF Goto, Check, cmdVars, countVars, histVars
<1>1. CASE Step(p)
  BY <1>1, ActivePhases, PhaseType
     DEF Step, ReadSource, EnsureSchema, TruncateStaging, BeginInsert, StoreRow,
         EndInsert, WriteDone, CountStaging, CompareMetrics, CompareFingerprints, CountTargetBefore,
         CountStagingBefore, Exchange, CountTargetAfter, CountStagingAfter,
         SwapNames
<1>2. CASE WriteAnomaly(p)
  BY <1>2, ActivePhases DEF WriteAnomaly, EndInsert
<1>3. CASE Fail(p)
  BY <1>3, ActivePhases, PhaseType
     DEF Fail, FailQuietly, FailAfterCreate, FailAfterTruncate, FailWrite,
         FailAfterExchange, SwapNames
<1> QED
  BY <1>1, <1>2, <1>3

\* A step that changes no table and no name: p enters the validated phases
\* only with the exact copy in staging.
KeepsTables(p) ==
    /\ UNCHANGED <<content, target, served, orphan>>
    /\ pc'[p] \in Validated
          => pc[p] \in Validated \/ content[staging] = silver[bound[p]]

\* A step that writes staging before the validation: no other table changes.
WritesStaging(p) ==
    /\ \E b \in Bag : content' = [content EXCEPT ![staging] = b]
    /\ UNCHANGED <<target, served, orphan>>
    /\ pc'[p] \notin Validated

\* The exchange by a command that passed its validation.
Publishes(p) ==
    /\ pc[p] = "exchange"
    /\ SwapNames(p)
    /\ pc'[p] \notin Validated

\* An INSERT that only goes to staging stores its row there.
LEMMA StoredInStaging ==
  ASSUME TypeOK, InsertsToStaging, NEW p \in Operators, StoreRow(p) \/ WriteAnomaly(p)
  PROVE  /\ \E r \in Rows : EndInsert(p, staging, r)
         /\ \E b \in Bag : content' = [content EXCEPT ![staging] = b]
<1>1. PICK t \in Tables, r \in Rows, b \in Bag :
        EndInsert(p, t, r) /\ content' = [content EXCEPT ![t] = b]
  BY StoredRow
<1>2. insert[p][t][r] > 0 /\ insert[p][target][r] = 0
  BY <1>1 DEF EndInsert, InsertsToStaging, EmptyBag
<1>3. t = staging
  BY <1>2 DEF TypeOK, Tables, staging, Other
<1> QED
  BY <1>1, <1>3

\* Every step of a command is of one of the three kinds.
LEMMA StepKinds ==
  ASSUME TypeInv, InsertsToStaging, ~Orphans, NEW p \in Operators,
         Step(p) \/ WriteAnomaly(p) \/ Fail(p)
  PROVE  KeepsTables(p) \/ WritesStaging(p) \/ Publishes(p)
<1> USE DEF TypeInv, Goto, Check, cmdVars, countVars, histVars
<1>1. pc \in [Operators -> Phases]
  BY DEF TypeOK, Phases
<1>2. CASE Step(p)
  <2>1. CASE TruncateStaging(p)
    BY <1>1, <2>1, EmptyBagType DEF TruncateStaging, WritesStaging, Validated
  <2>2. CASE StoreRow(p)
    BY <2>2, StoredInStaging DEF EndInsert, WritesStaging, Validated
  <2>3. CASE CompareFingerprints(p)
    BY <1>1, <2>3
       DEF CompareFingerprints, FingerprintsAgree, KeepsTables, Validated
  <2>4. CASE Exchange(p)
    BY <1>1, <2>4 DEF Exchange, Publishes, Validated
  <2>5. CASE \/ ReadSource(p) \/ EnsureSchema(p) \/ WriteDone(p)
             \/ CountStaging(p) \/ CompareMetrics(p) \/ CountTargetBefore(p)
             \/ CountStagingBefore(p) \/ CountTargetAfter(p)
             \/ CountStagingAfter(p) \/ BeginInsert(p)
    BY <1>1, <2>5
       DEF ReadSource, EnsureSchema, WriteDone, CountStaging, CompareMetrics,
           CountTargetBefore, CountStagingBefore, CountTargetAfter, CountStagingAfter,
           BeginInsert, KeepsTables, Validated
  <2> QED
    BY <1>2, <2>1, <2>2, <2>3, <2>4, <2>5 DEF Step
<1>3. CASE WriteAnomaly(p)
  BY <1>3, StoredInStaging DEF EndInsert, WritesStaging, Validated
<1>4. CASE Fail(p)
  <2>1. CASE FailAfterTruncate(p)
    BY <1>1, <2>1, EmptyBagType DEF FailAfterTruncate, WritesStaging, Validated
  <2>2. CASE FailAfterExchange(p)
    BY <1>1, <2>2 DEF FailAfterExchange, Publishes, Validated
  <2>3. CASE FailQuietly(p) \/ FailAfterCreate(p) \/ FailWrite(p)
    BY <1>1, <2>3 DEF FailQuietly, FailAfterCreate, FailWrite, KeepsTables, Validated
  <2> QED
    BY <1>4, <2>1, <2>2, <2>3 DEF Fail
<1> QED
  BY <1>2, <1>3, <1>4

\* While p writes, what it inserts goes to staging; before and after it inserts
\* nothing.
LEMMA InsertsSafe ==
  ASSUME ServingInv, NEW p \in Operators, Step(p) \/ WriteAnomaly(p) \/ Fail(p),
         OnlyWritersInsert', target' \in Tables,
         \A q \in Operators : q # p => pc'[q] # "write"
  PROVE  InsertsToStaging'
<1> USE DEF Goto, Check, cmdVars, countVars, histVars
<1>1. SUFFICES ASSUME pc'[p] = "write" PROVE insert'[p][target'] = EmptyBag
  BY DEF OnlyWritersInsert, InsertsToStaging, NoInsert
<1>2. pc \in [Operators -> Phases] /\ insert[p] \in [Tables -> Bag]
  BY DEF ServingInv, TypeOK, Phases
<1>3. insert[p][target] = EmptyBag /\ staging # target /\ target \in Tables
  BY StagingType DEF ServingInv, InsertsToStaging, TypeOK
<1>4. CASE TruncateStaging(p)
  BY <1>3, <1>4 DEF TruncateStaging
<1>5. CASE BeginInsert(p)
  <2>1. target' = target /\ insert'[p][target] = insert[p][target]
    BY <1>2, <1>3, <1>5 DEF BeginInsert, ServingInv, TypeOK
  <2> QED
    BY <1>3, <2>1
<1>6. CASE StoreRow(p) \/ WriteAnomaly(p)
  <2>1. PICK r \in Rows : EndInsert(p, staging, r)
    BY <1>6, StoredInStaging DEF ServingInv
  <2>2. target' = target /\ insert'[p][target] = insert[p][target]
    BY <1>2, <1>3, <2>1 DEF EndInsert, ServingInv, TypeOK
  <2> QED
    BY <1>3, <2>2
<1>7. CASE ~(TruncateStaging(p) \/ BeginInsert(p) \/ StoreRow(p) \/ WriteAnomaly(p))
  BY <1>1, <1>2, <1>7
     DEF Step, ReadSource, EnsureSchema, WriteDone, CountStaging, CompareMetrics,
         CompareFingerprints, CountTargetBefore, CountStagingBefore, Exchange,
         CountTargetAfter, CountStagingAfter, Fail, FailQuietly, FailAfterCreate,
         FailAfterTruncate, FailWrite, FailAfterExchange
<1> QED
  BY <1>4, <1>5, <1>6, <1>7

\* A step of the active command keeps the invariant.
LEMMA CommandSafe ==
  ASSUME ServingInv, ~Orphans, NEW p \in Operators,
         Step(p) \/ WriteAnomaly(p) \/ Fail(p)
  PROVE  ServingInv'
<1>1. TypeInv
  BY DEF ServingInv, TypeInv, BoundExists, BoundIsRecent
<1>2. TypeOK' /\ BoundExists'
  BY <1>1, StepType, StoreType, FailType DEF TypeInv
<1>3. pc[p] \in Active /\ UNCHANGED <<silver, bound>>
  BY StepPhases
<1>4. \A q \in Operators : q # p => pc[q] \notin Active /\ pc'[q] = pc[q]
  BY <1>3, StepPhases DEF ServingInv, OneActive, TypeOK
<1>5. OneActive'
  BY <1>4 DEF OneActive, Active, Loading, Validating, Validated, Exchanged
<1>6. \A q \in Operators : pc'[q] \in Validated => q = p
  BY <1>4 DEF Active
<1>7. staging \in Tables /\ staging # target /\ Other(staging) = target
  BY StagingType DEF ServingInv, TypeOK
<1>8. InsertsToStaging'
  <2>1. \A q \in Operators : q # p => pc'[q] # "write"
    BY <1>4, ActivePhases
  <2> QED
    BY <1>2, <2>1, InsertsSafe DEF TypeOK
<1>9. CASE KeepsTables(p)
  <2>1. StagingIsBound'
    BY <1>3, <1>6, <1>9 DEF KeepsTables, ServingInv, StagingIsBound, staging
  <2>2. BoundIsRecent'
    BY <1>3, <1>4, <1>9 DEF KeepsTables, ServingInv, BoundIsRecent, Active,
                            Loading, Validating, Validated, Exchanged
  <2>3. TargetIsSnapshot' /\ NoOrphan'
    BY <1>3, <1>9 DEF KeepsTables, ServingInv, TargetIsSnapshot, SnapshotRows,
                      NoOrphan
  <2> QED
    BY <1>2, <1>5, <1>8, <2>1, <2>2, <2>3 DEF ServingInv
<1>10. CASE WritesStaging(p)
  <2>1. StagingIsBound'
    BY <1>6, <1>10 DEF WritesStaging, StagingIsBound, Validated
  <2>2. BoundIsRecent'
    BY <1>3, <1>4, <1>10 DEF WritesStaging, ServingInv, BoundIsRecent, Active,
                            Loading, Validating, Validated, Exchanged
  <2>3. content'[target'] = content[target]
    BY <1>7, <1>10 DEF WritesStaging, ServingInv, TypeOK
  <2>4. TargetIsSnapshot' /\ NoOrphan'
    BY <1>3, <1>10, <2>3 DEF WritesStaging, ServingInv, TargetIsSnapshot,
                            SnapshotRows, NoOrphan
  <2> QED
    BY <1>2, <1>5, <1>8, <2>1, <2>2, <2>4 DEF ServingInv
<1>11. CASE Publishes(p)
  <2>1. target' = staging /\ served' = bound[p] /\ UNCHANGED <<content, orphan>>
    BY <1>11 DEF Publishes, SwapNames
  <2>2. bound[p] \in 1 .. Len(silver) /\ bound[p] >= served
    BY <1>3 DEF ServingInv, BoundIsRecent, TypeOK
  <2>3. content[staging] = silver[bound[p]]
    BY <1>11 DEF Publishes, ServingInv, StagingIsBound, Validated
  <2>4. TargetIsSnapshot' /\ NoOrphan'
    BY <1>3, <2>1, <2>2, <2>3 DEF ServingInv, TargetIsSnapshot, SnapshotRows,
                                  NoOrphan
  <2>5. StagingIsBound'
    BY <1>6, <1>11 DEF Publishes, StagingIsBound, Validated
  <2>6. BoundIsRecent'
    <3> SUFFICES ASSUME NEW q \in Operators, pc'[q] \in Active
                 PROVE  bound'[q] >= 1 /\ bound'[q] >= served'
      BY DEF BoundIsRecent, Active, Loading, Validating, Validated, Exchanged
    <3>1. q = p
      BY <1>4
    <3> QED
      BY <1>3, <2>1, <2>2, <3>1 DEF ServingInv, TypeOK
  <2> QED
    BY <1>2, <1>5, <1>8, <2>4, <2>5, <2>6 DEF ServingInv
<1> QED
  BY <1>1, <1>9, <1>10, <1>11, StepKinds DEF ServingInv

\* The start of a command keeps the invariant: it binds the newest snapshot.
LEMMA StartSafe ==
  ASSUME ServingInv, Exclusive, NEW p \in Operators, Start(p)
  PROVE  ServingInv'
<1>1. TypeOK'
  BY StartType DEF ServingInv, TypeInv, BoundExists, BoundIsRecent
<1>2. \A q \in Operators : pc[q] \notin Active /\ pc[q] \notin Validated
  BY DEF Start, Active, Terminal, Loading, Validating, Validated, Exchanged
<1>3. UNCHANGED <<silver, content, target, orphan, served>>
  BY DEF Start
<1>4. /\ pc'[p] \in {"source", "failed"}
      /\ \A q \in Operators : q # p => pc'[q] = pc[q] /\ bound'[q] = bound[q]
  BY DEF Start, ServingInv, TypeOK
<1>5. OneActive' /\ StagingIsBound'
  BY <1>2, <1>4 DEF OneActive, StagingIsBound, Validated, Active, Loading,
                    Validating, Exchanged
<1>6. BoundIsRecent'
  <2>1. pc'[p] \in Active => silver # <<>> /\ bound'[p] = Len(silver)
    BY DEF Start, Active, Loading, Validating, Validated, Exchanged, ServingInv,
           TypeOK
  <2>2. Len(silver) \in Nat /\ (silver # <<>> => Len(silver) >= 1)
    BY DEF ServingInv, TypeOK
  <2> QED
    BY <1>2, <1>3, <1>4, <2>1, <2>2
       DEF BoundIsRecent, ServingInv, TypeOK, Active, Loading, Validating,
           Validated, Exchanged
<1>7. TargetIsSnapshot' /\ NoOrphan' /\ InsertsToStaging'
  BY <1>3 DEF Start, ServingInv, TargetIsSnapshot, SnapshotRows, NoOrphan,
              InsertsToStaging, EmptyBag
<1> QED
  BY <1>1, <1>5, <1>6, <1>7 DEF ServingInv

\* What happens around the commands keeps the invariant: a Silver rebuild adds
\* a snapshot and changes none that is bound or published.
LEMMA SurroundingsSafe ==
  ASSUME ServingInv, SilverRebuild \/ EnsureCommand \/ \E t \in Tables : OrphanEnds(t)
  PROVE  ServingInv'
<1> USE DEF cmdVars, countVars, histVars
<1>1. TypeOK'
  BY SurroundingsType DEF ServingInv, TypeInv, BoundExists, BoundIsRecent
<1>2. CASE SilverRebuild
  <2>1. PICK c \in Contents : silver' = Append(silver, c)
    BY <1>2 DEF SilverRebuild
  <2>2. \A s \in 1 .. Len(silver) : silver'[s] = silver[s]
    BY <2>1 DEF ServingInv, TypeOK
  <2>3. UNCHANGED <<content, target, orphan, pc, bound, served>>
    BY <1>2 DEF SilverRebuild
  <2>4. StagingIsBound'
    <3> SUFFICES ASSUME NEW q \in Operators, pc[q] \in Validated
                 PROVE  content[staging] = silver'[bound[q]]
      BY <2>3 DEF StagingIsBound, staging
    <3>1. bound[q] \in 1 .. Len(silver)
      BY DEF ServingInv, BoundIsRecent, TypeOK, Active
    <3> QED
      BY <2>2, <3>1 DEF ServingInv, StagingIsBound
  <2>5. TargetIsSnapshot'
    <3>1. served = 0 \/ served \in 1 .. Len(silver)
      BY DEF ServingInv, TypeOK
    <3>2. IF served = 0 THEN TRUE ELSE silver'[served] = silver[served]
      BY <2>2, <3>1
    <3> QED
      BY <2>3, <3>2 DEF ServingInv, TargetIsSnapshot, SnapshotRows
  <2>6. InsertsToStaging'
    BY <1>2 DEF SilverRebuild, ServingInv, InsertsToStaging, EmptyBag
  <2>7. NoOrphan'
    BY <2>3 DEF ServingInv, NoOrphan, NoInsert, EmptyBag
  <2> QED
    BY <1>1, <2>3, <2>4, <2>5, <2>6, <2>7 DEF ServingInv, OneActive, BoundIsRecent, Active
<1>3. CASE EnsureCommand
  BY <1>1, <1>3 DEF EnsureCommand, ServingInv, OneActive, NoOrphan, InsertsToStaging,
                    EmptyBag, BoundIsRecent, StagingIsBound, TargetIsSnapshot,
                    SnapshotRows, staging
<1>4. ASSUME NEW t \in Tables PROVE ~OrphanEnds(t)
  BY DEF OrphanEnds, ServingInv, NoOrphan, NoInsert, EmptyBag
<1> QED
  BY <1>2, <1>3, <1>4

\* With one command at a time and without surviving inserts, every step keeps the
\* invariant.
LEMMA NextSafe ==
  ASSUME Exclusive, ~Orphans, ServingInv, [Next]_vars
  PROVE  ServingInv'
<1>1. CASE UNCHANGED vars
  BY <1>1 DEF ServingInv, TypeOK, OnlyWritersInsert, NoInsert, EmptyBag, OneActive,
              NoOrphan, InsertsToStaging, BoundIsRecent, StagingIsBound, TargetIsSnapshot, SnapshotRows, staging, vars,
              cmdVars, countVars, histVars
<1> QED
  BY <1>1, CommandSafe, StartSafe, SurroundingsSafe DEF Next

\* Safety of the refresh: with one command at a time and inserts that end with
\* their client, the strengthened invariant holds in every state.
THEOREM ServingSafe ==
  ASSUME Exclusive, ~Orphans
  PROVE  Spec => []ServingInv
<1>1. Init => ServingInv
  BY ServingInit
<1>2. ServingInv /\ [Next]_vars => ServingInv'
  BY NextSafe
<1> QED
  BY <1>1, <1>2, PTL DEF Spec

\* Readers always see exactly one whole Silver snapshot.
THEOREM TargetAlwaysSnapshot ==
  ASSUME Exclusive, ~Orphans
  PROVE  Spec => []TargetIsSnapshot
<1>1. ServingInv => TargetIsSnapshot
  BY DEF ServingInv
<1> QED
  BY <1>1, ServingSafe, PTL

\* The published snapshot changes only by an exchange.
LEMMA ServedStep ==
  ASSUME TypeInv, InsertsToStaging, ~Orphans, Next
  PROVE  \/ UNCHANGED served
         \/ \E p \in Operators : Publishes(p) /\ pc[p] \in Active
<1> USE DEF cmdVars, countVars, histVars
<1>1. ASSUME NEW p \in Operators, Step(p) \/ WriteAnomaly(p) \/ Fail(p)
      PROVE  UNCHANGED served \/ (Publishes(p) /\ pc[p] \in Active)
  BY <1>1, StepKinds, StepPhases DEF KeepsTables, WritesStaging
<1> QED
  BY <1>1 DEF Next, SilverRebuild, EnsureCommand, OrphanEnds, Start

\* The published snapshot is never older than the one before it.
THEOREM NeverRollsBack ==
  ASSUME Exclusive, ~Orphans
  PROVE  Spec => NoRollback
<1>1. ServingInv /\ [Next]_vars => [served' >= served]_vars
  <2> SUFFICES ASSUME ServingInv, Next PROVE served' >= served
    OBVIOUS
  <2>1. TypeInv /\ InsertsToStaging
    BY DEF ServingInv, TypeInv, BoundExists, BoundIsRecent
  <2> QED
    BY <2>1, ServedStep DEF Publishes, SwapNames, ServingInv, BoundIsRecent, TypeOK
<1> QED
  BY <1>1, ServingSafe, PTL DEF Spec, NoRollback

\* A reader's view changes only with the published snapshot.
LEMMA VisibleStep ==
  ASSUME ServingInv, ServingInv', Next, UNCHANGED <<silver, served>>
  PROVE  UNCHANGED content[target]
  BY DEF ServingInv, TargetIsSnapshot, SnapshotRows

\* The refresh implements the atomic, forward-only publication of whole Silver
\* snapshots: every step is a Silver commit, a publication or invisible.
THEOREM ImplementsPublication ==
  ASSUME Exclusive, ~Orphans
  PROVE  Spec => PublicationSpec
<1>1. Init => Publication!Init
  BY DEF Init, Publication!Init, Tables
<1>2. ServingInv /\ ServingInv' /\ [Next]_vars => [Publication!Next]_(Publication!vars)
  <2> SUFFICES ASSUME ServingInv, ServingInv', Next
               PROVE  Publication!Next \/ UNCHANGED Publication!vars
    <3>1. UNCHANGED vars => UNCHANGED Publication!vars
      BY DEF Publication!vars, vars, histVars
    <3> QED
      BY <3>1
  <2>1. TypeInv /\ InsertsToStaging
    BY DEF ServingInv, TypeInv, BoundExists, BoundIsRecent
  <2>2. CASE SilverRebuild
    BY <2>2 DEF SilverRebuild, histVars, Publication!Next, Publication!Commit
  <2>3. CASE ~SilverRebuild /\ UNCHANGED served
    <3>1. UNCHANGED silver
      BY <2>3, StepPhases DEF Next, EnsureCommand, OrphanEnds, Start
    <3> QED
      BY <2>3, <3>1, VisibleStep DEF Publication!vars
  <2>4. CASE ~SilverRebuild /\ \E p \in Operators : Publishes(p) /\ pc[p] \in Active
    <3>1. PICK p \in Operators : Publishes(p) /\ pc[p] \in Active
      BY <2>4
    <3>2. served' = bound[p] /\ UNCHANGED silver
      BY <3>1 DEF Publishes, SwapNames
    <3>3. bound[p] \in 1 .. Len(silver) /\ bound[p] >= served
      BY <3>1 DEF ServingInv, BoundIsRecent, TypeOK
    <3>4. content'[target'] = silver[bound[p]]
      BY <3>2, <3>3 DEF ServingInv, TargetIsSnapshot, SnapshotRows
    <3> QED
      BY <3>2, <3>3, <3>4 DEF Publication!Next, Publication!Publish
  <2> QED
    BY <2>1, <2>2, <2>3, <2>4, ServedStep
<1> QED
  BY <1>1, <1>2, ServingSafe, PTL DEF Spec, PublicationSpec, Publication!Spec

-----------------------------------------------------------------------------
(* What one statement does to the tables                                   *)

\* The phases after the contract was required.
Required == {"truncate", "write", "count"} \cup Validating \cup Validated \cup Exchanged

\* A statement that changes neither table nor name.
Stays(p) ==
    /\ UNCHANGED <<content, target, served, swapped>>
    /\ contract' = contract \/ contract' = "exact"
    /\ pc'[p] \in Required => pc[p] \in Required \/ contract' = "exact"
    /\ pc'[p] \in Validated => pc[p] \in Validated \/ content[staging] = silver[bound[p]]
    /\ pc'[p] \in Exchanged => pc[p] \in Exchanged
    /\ pc'[p] = "published" => pc[p] \in Exchanged

\* A statement that changes the rows of staging.
Fills(p) ==
    /\ pc[p] \in {"truncate", "write"} /\ pc'[p] \in {"write", "failed"}
    /\ \E b \in Bag : content' = [content EXCEPT ![staging] = b]
    /\ UNCHANGED <<contract, target, served, swapped>>

\* The exchange, reported or not.
Swaps(p) ==
    /\ pc[p] = "exchange" /\ pc'[p] \in {"postTarget", "failed"}
    /\ SwapNames(p)

\* Every statement, applied, failed or wrongly applied, is one of the three.
LEMMA StepShape ==
  ASSUME TypeInv, InsertsToStaging, NEW p \in Operators, Step(p) \/ WriteAnomaly(p) \/ Fail(p)
  PROVE  Stays(p) \/ Fills(p) \/ Swaps(p)
<1> USE DEF TypeInv, Goto, Check, cmdVars, countVars, histVars
<1>1. pc \in [Operators -> Phases]
  BY DEF TypeOK, Phases
<1>2. CASE Step(p)
  <2>1. CASE TruncateStaging(p)
    BY <1>1, <2>1, EmptyBagType DEF TruncateStaging, Fills
  <2>2. CASE StoreRow(p)
    BY <2>2, StoredInStaging DEF EndInsert, Fills
  <2>3. CASE CompareFingerprints(p)
    BY <1>1, <2>3
       DEF CompareFingerprints, FingerprintsAgree, Stays, Required, Validating, Validated,
           Exchanged
  <2>4. CASE Exchange(p)
    BY <1>1, <2>4 DEF Exchange, Swaps
  <2>5. CASE EnsureSchema(p)
    BY <1>1, <2>5
       DEF EnsureSchema, Stays, TypeOK, Required, Validating, Validated, Exchanged
  <2>6. CASE CountStaging(p)
    BY <1>1, <2>6 DEF CountStaging, Stays, Required, Validating, Validated, Exchanged
  <2>7. CASE \/ ReadSource(p) \/ WriteDone(p) \/ CompareMetrics(p)
             \/ CountTargetBefore(p) \/ CountStagingBefore(p) \/ CountTargetAfter(p)
             \/ CountStagingAfter(p) \/ BeginInsert(p)
    BY <1>1, <2>7
       DEF ReadSource, WriteDone, CompareMetrics, CountTargetBefore,
           CountStagingBefore, CountTargetAfter, CountStagingAfter, BeginInsert, Stays, Required,
           Validating, Validated, Exchanged
  <2> QED
    BY <1>2, <2>1, <2>2, <2>3, <2>4, <2>5, <2>6, <2>7 DEF Step
<1>3. CASE WriteAnomaly(p)
  BY <1>3, StoredInStaging DEF EndInsert, Fills
<1>4. CASE Fail(p)
  <2>1. CASE FailAfterTruncate(p)
    BY <1>1, <2>1, EmptyBagType DEF FailAfterTruncate, Fills
  <2>2. CASE FailAfterExchange(p)
    BY <1>1, <2>2 DEF FailAfterExchange, Swaps
  <2>3. CASE FailQuietly(p) \/ FailAfterCreate(p) \/ FailWrite(p)
    BY <1>1, <2>3
       DEF FailQuietly, FailAfterCreate, FailWrite, Stays, Required, Validating,
           Validated, Exchanged
  <2> QED
    BY <1>4, <2>1, <2>2, <2>3 DEF Fail
<1> QED
  BY <1>2, <1>3, <1>4

\* Staging is written under another name than the one readers use.
LEMMA FillsStaging ==
  ASSUME TypeOK, NEW p \in Operators, Fills(p)
  PROVE  content'[target'] = content[target]
<1>1. staging # target /\ target \in Tables
  BY StagingType DEF TypeOK
<1> QED
  BY <1>1 DEF Fills, TypeOK

-----------------------------------------------------------------------------
(* What a report means                                                     *)

\* The strengthening the reports rest on: an active command that has not
\* exchanged left what it found in the active table; after its EXCHANGE staging
\* holds that, and the active table the snapshot it bound.  Past the schema
\* step the contract is the exact one.
ReportInv ==
    \A p \in Operators : pc[p] \in Active =>
        /\ pc[p] \in Required => contract = "exact"
        /\ IF pc[p] \in Exchanged
             THEN swapped[p] /\ served = bound[p] /\ content[staging] = before[p]
             ELSE ~swapped[p] /\ content[target] = before[p]

\* Under the invariant only p is active when p takes a step.
LEMMA AloneStep ==
  ASSUME ServingInv, NEW p \in Operators, Step(p) \/ WriteAnomaly(p) \/ Fail(p)
  PROVE  /\ TypeInv /\ pc[p] \in Active /\ UNCHANGED <<silver, bound, before>>
         /\ \A q \in Operators : q # p => pc[q] \notin Active /\ pc'[q] = pc[q]
<1>1. pc[p] \in Active /\ UNCHANGED <<silver, bound, before>>
  BY StepPhases
<1>2. \A q \in Operators : q # p => pc[q] \notin Active /\ pc'[q] = pc[q]
  BY <1>1, StepPhases DEF ServingInv, OneActive, TypeOK
<1> QED
  BY <1>1, <1>2 DEF ServingInv, TypeInv, BoundExists, BoundIsRecent

\* A statement keeps what is known of the command that executes it.
LEMMA ReportStep ==
  ASSUME ServingInv, ReportInv, NEW p \in Operators,
         Step(p) \/ WriteAnomaly(p) \/ Fail(p)
  PROVE  ReportInv'
<1>1. /\ TypeInv /\ pc[p] \in Active /\ UNCHANGED <<silver, bound, before>>
      /\ \A q \in Operators : q # p => pc[q] \notin Active /\ pc'[q] = pc[q]
  BY AloneStep
<1>2. SUFFICES ASSUME pc'[p] \in Active
               PROVE  /\ pc'[p] \in Required => contract' = "exact"
                      /\ IF pc'[p] \in Exchanged
                           THEN /\ swapped'[p] /\ served' = bound[p]
                                /\ content'[staging'] = before[p]
                           ELSE ~swapped'[p] /\ content'[target'] = before[p]
  <2>1. ASSUME NEW q \in Operators, pc'[q] \in Active PROVE q = p
    BY <1>1, <2>1 DEF Active, Loading, Validating, Validated, Exchanged
  <2> QED
    BY <1>1, <1>2, <2>1
       DEF ReportInv, Active, Loading, Validating, Validated, Exchanged, Required
<1>3. staging # target /\ Other(staging) = target /\ staging \in Tables
  BY StagingType DEF ServingInv, TypeOK
<1>4. CASE Stays(p)
  <2>1. staging' = staging
    BY <1>4 DEF Stays, staging
  <2>2. pc[p] \in Exchanged => pc'[p] \in Exchanged
    <3>1. ASSUME pc[p] \in Exchanged PROVE pc'[p] \in {"postStaging", "published", "failed"}
      BY <1>1, <3>1
         DEF Step, ReadSource, EnsureSchema, TruncateStaging, BeginInsert, StoreRow,
             EndInsert, WriteDone, CountStaging, CompareMetrics, CompareFingerprints,
             CountTargetBefore, CountStagingBefore, Exchange, CountTargetAfter,
             CountStagingAfter, WriteAnomaly, Fail, FailQuietly, FailAfterCreate,
             FailAfterTruncate, FailWrite, FailAfterExchange, Check, Goto, Exchanged, TypeInv, TypeOK
    <3> QED
      BY <1>2, <3>1 DEF Exchanged, Active, Loading, Validating, Validated
  <2> QED
    BY <1>1, <1>2, <1>4, <2>1, <2>2 DEF Stays, ReportInv
<1>5. CASE Fills(p)
  <2>1. pc[p] \in Required \ Exchanged /\ pc'[p] = "write"
    BY <1>2, <1>5
       DEF Fills, Required, Exchanged, Active, Loading, Validating, Validated
  <2>2. content'[target'] = content[target]
    BY <1>1, <1>5, FillsStaging DEF TypeInv
  <2> QED
    BY <1>1, <1>5, <2>1, <2>2 DEF Fills, ReportInv, Exchanged
<1>6. CASE Swaps(p)
  <2>1. pc[p] \in Required \ Exchanged /\ pc'[p] \in Exchanged
    BY <1>2, <1>6
       DEF Swaps, Required, Exchanged, Active, Loading, Validating, Validated
  <2>2. /\ target' = staging /\ served' = bound[p] /\ swapped'[p]
        /\ UNCHANGED <<contract, content>>
    BY <1>6 DEF Swaps, SwapNames, ServingInv, TypeOK
  <2>3. staging' = target
    BY <1>3, <2>2 DEF staging
  <2> QED
    BY <1>1, <2>1, <2>2, <2>3 DEF ReportInv
<1> QED
  BY <1>1, <1>4, <1>5, <1>6, StepShape DEF ServingInv

\* Every step keeps the strengthening.
LEMMA ReportNext ==
  ASSUME Exclusive, ~Orphans, ServingInv, ReportInv, [Next]_vars
  PROVE  ReportInv'
<1>1. CASE UNCHANGED vars
  BY <1>1 DEF ReportInv, vars, cmdVars, histVars, staging
<1>2. ASSUME NEW p \in Operators, Start(p) PROVE ReportInv'
  <2>1. \A q \in Operators : pc[q] \notin Active
    BY <1>2 DEF Start, Active, Terminal, Loading, Validating, Validated, Exchanged
  <2>2. /\ pc'[p] \in {"source", "failed"} /\ ~swapped'[p]
        /\ before'[p] = content[target] /\ UNCHANGED <<content, target>>
        /\ \A q \in Operators : q # p => pc'[q] = pc[q]
    BY <1>2 DEF Start, ServingInv, TypeOK
  <2> QED
    BY <2>1, <2>2
       DEF ReportInv, Required, Active, Loading, Validating, Validated, Exchanged
<1>3. CASE SilverRebuild \/ EnsureCommand
  BY <1>3 DEF SilverRebuild, EnsureCommand, cmdVars, histVars, ReportInv, staging
<1>4. ASSUME NEW t \in Tables PROVE ~OrphanEnds(t)
  BY DEF OrphanEnds, ServingInv, NoOrphan, NoInsert, EmptyBag
<1> QED
  BY <1>1, <1>2, <1>3, <1>4, ReportStep DEF Next

\* What the reports rest on holds in every state.
LEMMA ReportSafe ==
  ASSUME Exclusive, ~Orphans
  PROVE  Spec => [](ServingInv /\ ReportInv)
<1>1. Init => ReportInv
  BY DEF Init, ReportInv, Active, Loading, Validating, Validated, Exchanged
<1>2. ServingInv /\ ReportInv /\ [Next]_vars => ReportInv'
  BY ReportNext
<1> QED
  BY <1>1, <1>2, ServingSafe, PTL DEF Spec

\* A command that fails before its EXCHANGE was applied leaves the active table as
\* it found it, and tables with another contract are never touched.
THEOREM FailureLeavesTarget ==
  ASSUME Exclusive, ~Orphans
  PROVE  Spec => FailureKeepsTarget
<1>1. ServingInv /\ ReportInv /\ [Next]_vars
        => [/\ contract = "other" => UNCHANGED <<content, target>>
            /\ \A p \in Operators :
                  (pc[p] # "failed" /\ pc'[p] = "failed" /\ ~swapped'[p])
                      => content'[target'] = before'[p]]_vars
  <2> SUFFICES ASSUME ServingInv, ReportInv, Next
               PROVE  /\ contract = "other" => UNCHANGED <<content, target>>
                      /\ \A p \in Operators :
                            (pc[p] # "failed" /\ pc'[p] = "failed" /\ ~swapped'[p])
                                => content'[target'] = before'[p]
    OBVIOUS
  <2>1. CASE \/ SilverRebuild \/ EnsureCommand \/ \E t \in Tables : OrphanEnds(t)
    <3>1. \A t \in Tables : ~OrphanEnds(t)
      BY DEF OrphanEnds, ServingInv, NoOrphan, NoInsert, EmptyBag
    <3> QED
      BY <2>1, <3>1 DEF SilverRebuild, EnsureCommand
  <2>2. ASSUME NEW p \in Operators, Start(p)
        PROVE  /\ UNCHANGED <<content, target>>
               /\ \A q \in Operators :
                     pc[q] # "failed" /\ pc'[q] = "failed" => content[target] = before'[q]
    BY <2>2 DEF Start, ServingInv, TypeOK
  <2>3. ASSUME NEW p \in Operators, Step(p) \/ WriteAnomaly(p) \/ Fail(p)
        PROVE  /\ contract = "other" => UNCHANGED <<content, target>>
               /\ \A q \in Operators :
                     (pc[q] # "failed" /\ pc'[q] = "failed" /\ ~swapped'[q])
                         => content'[target'] = before'[q]
    <3>1. /\ TypeInv /\ pc[p] \in Active /\ UNCHANGED <<silver, bound, before>>
          /\ \A q \in Operators : q # p => pc[q] \notin Active /\ pc'[q] = pc[q]
      BY <2>3, AloneStep
    <3>2. CASE Stays(p)
      BY <3>1, <3>2 DEF Stays, ReportInv
    <3>3. CASE Fills(p)
      <4>1. content'[target'] = content[target]
        BY <3>1, <3>3, FillsStaging DEF TypeInv
      <4>2. pc[p] \in Required \ Exchanged
        BY <3>3 DEF Fills, Required, Exchanged
      <4> QED
        BY <3>1, <3>3, <4>1, <4>2 DEF Fills, ReportInv
    <3>4. CASE Swaps(p)
      <4>1. swapped'[p] /\ pc[p] \in Required
        BY <3>4 DEF Swaps, SwapNames, Required, Validated, ServingInv, TypeOK
      <4> QED
        BY <3>1, <4>1 DEF ReportInv
    <3> QED
      BY <2>3, <3>1, <3>2, <3>3, <3>4, StepShape DEF ServingInv
  <2> QED
    BY <2>1, <2>2, <2>3 DEF Next
<1> QED
  BY <1>1, ReportSafe, PTL DEF Spec, FailureKeepsTarget

\* "published" means that the active table holds the bound snapshot, and staging
\* what the active table held before.
THEOREM PublishedIsBound ==
  ASSUME Exclusive, ~Orphans
  PROVE  Spec => PublishedReport
<1>1. ServingInv /\ ReportInv /\ ServingInv' /\ [Next]_vars
        => [\A p \in Operators :
              (pc[p] # "published" /\ pc'[p] = "published")
                  => /\ served' = bound[p]
                     /\ content'[target'] = silver'[bound[p]]
                     /\ content'[Other(target')] = before[p]]_vars
  <2> SUFFICES ASSUME ServingInv, ReportInv, ServingInv', Next,
                      NEW p \in Operators, pc[p] # "published", pc'[p] = "published"
               PROVE  /\ served' = bound[p]
                      /\ content'[target'] = silver'[bound[p]]
                      /\ content'[Other(target')] = before[p]
    OBVIOUS
  <2>1. Step(p) \/ WriteAnomaly(p) \/ Fail(p)
    <3>1. \A q \in Operators : Start(q) => pc'[p] # "published"
      BY DEF Start, ServingInv, TypeOK
    <3>2. \A q \in Operators \ {p} : ~(Step(q) \/ WriteAnomaly(q) \/ Fail(q))
      BY AloneStep
    <3> QED
      BY <3>1, <3>2 DEF Next, SilverRebuild, EnsureCommand, OrphanEnds
  <2>2. TypeInv /\ pc[p] \in Active /\ UNCHANGED <<silver, bound, before>>
    BY <2>1, AloneStep
  <2>3. Stays(p) /\ pc[p] \in Exchanged
    BY <2>1, <2>2, StepShape DEF ServingInv, Fills, Swaps, Stays
  <2>4. served' = bound[p] /\ content'[staging'] = before[p]
    BY <2>2, <2>3 DEF Stays, ReportInv, staging
  <2>5. bound[p] >= 1 /\ bound[p] \in Nat
    BY <2>2 DEF ServingInv, BoundIsRecent, TypeOK
  <2>6. content'[target'] = silver'[bound[p]]
    BY <2>4, <2>5 DEF ServingInv, TargetIsSnapshot, SnapshotRows
  <2> QED
    BY <2>4, <2>6 DEF staging
<1> QED
  BY <1>1, ReportSafe, PTL DEF Spec, PublishedReport

-----------------------------------------------------------------------------
(* Several operators, and inserts that outlive their client                *)

\* Every command in intact bound a snapshot that exists, and staging holds no fewer
\* rows than that snapshot.
Covered(q) ==
    /\ bound[q] \in 1 .. Len(silver)
    /\ \A x \in Rows : content[staging][x] >= silver[bound[q]][x]
RaceInv == TypeInv /\ (\A q \in intact : Covered(q)) /\ CompleteUnlessRaced

\* A step that takes no row away and exchanges nothing: a command becomes intact
\* only by finding its exact snapshot in staging.
Grows ==
    /\ \A t \in Tables, x \in Rows : content'[t][x] >= content[t][x]
    /\ UNCHANGED <<target, served, sound>>
    /\ \A q \in intact' :
          /\ bound'[q] = bound[q]
          /\ \/ q \in intact
             \/ bound[q] \in 1 .. Len(silver) /\ content[staging] = silver[bound[q]]
    /\ Len(silver') >= Len(silver)
    /\ \A n \in 1 .. Len(silver) : silver'[n] = silver[n]

\* A step that empties staging.
Empties ==
    /\ content' = [content EXCEPT ![staging] = EmptyBag]
    /\ UNCHANGED <<target, served, sound, silver>>
    /\ intact' = {}

\* Every step of every command is of these kinds or an exchange, wherever its
\* INSERTs end up.
LEMMA RaceStep ==
  ASSUME TypeInv, NEW p \in Operators, Step(p) \/ WriteAnomaly(p) \/ Fail(p)
  PROVE  Grows \/ Empties \/ SwapNames(p)
<1> USE DEF TypeInv, Goto, Check, cmdVars, countVars, histVars
<1>1. \A t \in Tables, x \in Rows : content[t][x] \in Nat
  BY DEF TypeOK, Bag
<1>2. UNCHANGED content
        => \A t \in Tables, x \in Rows : content'[t][x] >= content[t][x]
  BY <1>1
<1>3. Len(silver) \in Nat
  BY DEF TypeOK
<1>4. CASE TruncateStaging(p) \/ FailAfterTruncate(p)
  BY <1>4 DEF TruncateStaging, FailAfterTruncate, Empties
<1>5. CASE StoreRow(p) \/ WriteAnomaly(p)
  <2>1. PICK t \in Tables, r \in Rows, b \in Bag :
          /\ EndInsert(p, t, r)
          /\ content' = [content EXCEPT ![t] = b]
          /\ \A x \in Rows : b[x] >= content[t][x]
    BY <1>5, StoredRow
  <2>2. ASSUME NEW u \in Tables, NEW x \in Rows PROVE content'[u][x] >= content[u][x]
    <3>1. u = t => content'[u] = b
      BY <2>1 DEF TypeOK
    <3>2. u # t => content'[u] = content[u]
      BY <2>1 DEF TypeOK
    <3> QED
      BY <1>1, <2>1, <3>1, <3>2
  <2> QED
    BY <1>3, <2>1, <2>2 DEF EndInsert, Grows
<1>6. CASE CompareFingerprints(p)
  <2>1. bound[p] \in 1 .. Len(silver)
    BY <1>6, ActivePhases DEF CompareFingerprints, TypeOK, BoundExists
  <2>2. \A q \in intact' :
           q \in intact \/ (q = p /\ content[staging] = silver[bound[p]])
    BY <1>6 DEF CompareFingerprints, FingerprintsAgree
  <2> QED
    BY <1>2, <1>3, <1>6, <2>1, <2>2 DEF CompareFingerprints, Grows
<1>7. CASE Exchange(p) \/ FailAfterExchange(p)
  BY <1>7 DEF Exchange, FailAfterExchange
<1>8. CASE \/ ReadSource(p) \/ EnsureSchema(p) \/ BeginInsert(p) \/ WriteDone(p)
           \/ CountStaging(p) \/ CompareMetrics(p) \/ CountTargetBefore(p)
           \/ CountStagingBefore(p) \/ CountTargetAfter(p) \/ CountStagingAfter(p)
           \/ FailQuietly(p) \/ FailAfterCreate(p) \/ FailWrite(p)
  <2>1. UNCHANGED <<silver, content, target, served, sound, bound, intact>>
    BY <1>8
       DEF ReadSource, EnsureSchema, BeginInsert, WriteDone, CountStaging,
           CompareMetrics, CountTargetBefore, CountStagingBefore, CountTargetAfter,
           CountStagingAfter, FailQuietly, FailAfterCreate, FailWrite
  <2> QED
    BY <1>2, <1>3, <2>1 DEF Grows
<1> QED
  BY <1>4, <1>5, <1>6, <1>7, <1>8 DEF Step, Fail

\* What happens around the statements takes no row away: an insert without a client
\* adds one or none, and a new command has compared nothing.
LEMMA RaceAround ==
  ASSUME TypeInv,
         \/ SilverRebuild \/ EnsureCommand
         \/ \E t \in Tables : OrphanEnds(t)
         \/ \E p \in Operators : Start(p)
  PROVE  Grows
<1> USE DEF TypeInv, cmdVars, countVars, histVars
<1>1. \A t \in Tables, x \in Rows : content[t][x] \in Nat
  BY DEF TypeOK, Bag
<1>2. UNCHANGED content
        => \A t \in Tables, x \in Rows : content'[t][x] >= content[t][x]
  BY <1>1
<1>3. Len(silver) \in Nat
  BY DEF TypeOK
<1>4. CASE SilverRebuild
  <2>1. PICK c \in Contents : silver' = Append(silver, c)
    BY <1>4 DEF SilverRebuild
  <2>2. Len(silver') >= Len(silver) /\ \A n \in 1 .. Len(silver) : silver'[n] = silver[n]
    BY <2>1 DEF TypeOK
  <2> QED
    BY <1>2, <1>4, <2>2 DEF SilverRebuild, Grows
<1>5. CASE EnsureCommand
  BY <1>2, <1>3, <1>5 DEF EnsureCommand, Grows
<1>6. ASSUME NEW t \in Tables, OrphanEnds(t) PROVE Grows
  <2>1. PICK r \in Rows : content' \in {content, [content EXCEPT ![t] = Add(@, r, 1)]}
    BY <1>6 DEF OrphanEnds
  <2>2. ASSUME NEW u \in Tables, NEW x \in Rows PROVE content'[u][x] >= content[u][x]
    <3>1. content[u] \in Bag
      BY DEF TypeOK
    <3>2. content'[u] = content[u] \/ content'[u] = Add(content[u], r, 1)
      BY <2>1 DEF TypeOK
    <3>3. content'[u][x] = content[u][x] \/ content'[u][x] = content[u][x] + 1
      BY <3>1, <3>2 DEF Add, Bag
    <3> QED
      BY <1>1, <3>3
  <2> QED
    BY <1>3, <1>6, <2>2 DEF OrphanEnds, Grows
<1>7. ASSUME NEW p \in Operators, Start(p) PROVE Grows
  <2>1. \A q \in intact' : q \in intact /\ bound'[q] = bound[q]
    BY <1>7 DEF Start, TypeOK
  <2> QED
    BY <1>2, <1>3, <1>7, <2>1 DEF Start, Grows
<1> QED
  BY <1>4, <1>5, <1>6, <1>7

\* A step that takes no row away keeps what was compared and what readers see.
LEMMA GrowsSafe ==
  ASSUME RaceInv, TypeInv', Grows
  PROVE  RaceInv'
<1>1. /\ \A t \in Tables, x \in Rows : content[t][x] \in Nat /\ content'[t][x] \in Nat
      /\ staging \in Tables /\ target \in Tables /\ staging' = staging /\ Len(silver) \in Nat
  BY StagingType DEF RaceInv, TypeInv, TypeOK, Bag, Grows, staging
<1>2. Len(silver') \in Nat
  BY DEF TypeInv, TypeOK
<1>3. ASSUME NEW q \in intact' PROVE Covered(q)'
  <2>1. q \in Operators /\ bound'[q] = bound[q]
    BY DEF Grows, TypeInv, TypeOK
  <2>2. bound[q] \in 1 .. Len(silver)
    BY DEF Grows, RaceInv, Covered
  <2>3. silver[bound[q]] \in Bag
    BY <2>2, SnapshotType DEF RaceInv, TypeInv
  <2>4. \A x \in Rows : content[staging][x] >= silver[bound[q]][x]
    <3>1. CASE q \in intact
      BY <3>1 DEF RaceInv, Covered
    <3>2. CASE content[staging] = silver[bound[q]]
      BY <2>3, <3>2 DEF Bag
    <3> QED
      BY <3>1, <3>2 DEF Grows
  <2>5. \A x \in Rows : content'[staging][x] >= silver[bound[q]][x]
    BY <1>1, <2>3, <2>4 DEF Grows, Bag
  <2>6. silver'[bound[q]] = silver[bound[q]] /\ bound[q] \in 1 .. Len(silver')
    BY <1>1, <1>2, <2>2 DEF Grows
  <2> QED
    BY <1>1, <2>1, <2>5, <2>6 DEF Covered
<1>4. CompleteUnlessRaced'
  <2> SUFFICES ASSUME sound', NEW x \in Rows
               PROVE  content'[target'][x] >= (SnapshotRows(served)')[x]
    BY DEF CompleteUnlessRaced, NoRowMissing
  <2>1. served \in 0 .. Len(silver) /\ SnapshotRows(served)' = SnapshotRows(served)
    BY <1>1 DEF RaceInv, TypeInv, TypeOK, Grows, SnapshotRows
  <2>2. SnapshotRows(served) \in Bag
    BY <2>1, SnapshotType, EmptyBagType DEF SnapshotRows, RaceInv, TypeInv
  <2>3. content[target][x] >= SnapshotRows(served)[x]
    BY DEF Grows, RaceInv, CompleteUnlessRaced, NoRowMissing
  <2>4. SnapshotRows(served)[x] \in Nat /\ target' = target
    BY <2>2 DEF Bag, Grows
  <2>5. content'[target][x] >= content[target][x]
    BY <1>1 DEF Grows
  <2> QED
    BY <1>1, <2>1, <2>3, <2>4, <2>5
<1> QED
  BY <1>3, <1>4 DEF RaceInv

\* Every step, of any number of commands, keeps the invariant.
LEMMA RaceNext ==
  ASSUME RaceInv, [Next]_vars
  PROVE  RaceInv'
<1>1. TypeInv'
  BY NextType DEF RaceInv
<1>2. staging \in Tables /\ target \in Tables /\ staging # target
  BY StagingType DEF RaceInv, TypeInv, TypeOK
<1>3. CASE UNCHANGED vars
  BY <1>1, <1>3
     DEF vars, cmdVars, histVars, RaceInv, Covered, CompleteUnlessRaced, NoRowMissing,
         SnapshotRows, staging
<1>4. CASE Empties
  <2>1. content'[target] = content[target] /\ UNCHANGED <<target, served, sound, silver>>
    BY <1>2, <1>4 DEF Empties, RaceInv, TypeInv, TypeOK
  <2>2. CompleteUnlessRaced'
    BY <2>1 DEF RaceInv, CompleteUnlessRaced, NoRowMissing, SnapshotRows
  <2> QED
    BY <1>1, <1>4, <2>2 DEF Empties, RaceInv
<1>5. ASSUME NEW p \in Operators, SwapNames(p) PROVE RaceInv'
  <2>1. /\ target' = staging /\ served' = bound[p] /\ intact' = {}
        /\ UNCHANGED <<content, silver>>
    BY <1>5 DEF SwapNames
  <2>2. sound' => p \in intact
    BY <1>5 DEF SwapNames
  <2>3. ASSUME p \in intact PROVE NoRowMissing'
    <3>1. Covered(p)
      BY <2>3 DEF RaceInv
    <3> QED
      BY <2>1, <3>1 DEF Covered, NoRowMissing, SnapshotRows
  <2> QED
    BY <1>1, <2>1, <2>2, <2>3 DEF RaceInv, CompleteUnlessRaced
<1> QED
  BY <1>1, <1>3, <1>4, <1>5, RaceStep, RaceAround, GrowsSafe DEF Next, RaceInv

\* The invariant holds in every state, for every number of operators and whatever
\* inserts survive their client.
LEMMA RaceSafe == Spec => []RaceInv
<1>1. Init => RaceInv
  <2> SUFFICES ASSUME Init PROVE RaceInv
    OBVIOUS
  <2>1. NoRowMissing
    BY DEF Init, NoRowMissing, SnapshotRows, Tables, EmptyBag
  <2> QED
    BY <2>1, TypeInit DEF Init, RaceInv, CompleteUnlessRaced
<1>2. RaceInv /\ [Next]_vars => RaceInv'
  BY RaceNext
<1> QED
  BY <1>1, <1>2, PTL DEF Spec

\* However many commands run at once and whatever their INSERTs do across an
\* EXCHANGE, a publication that no TRUNCATE and no other EXCHANGE came before since
\* its last comparison is complete for its readers.
THEOREM CompleteWithoutRace == Spec => []CompleteUnlessRaced
<1>1. RaceInv => CompleteUnlessRaced
  BY DEF RaceInv
<1> QED
  BY <1>1, RaceSafe, PTL

\* With one command at a time no publication is raced: a command past its
\* comparisons is intact.
AloneInv ==
    /\ OneActive /\ sound
    /\ \A p \in Operators : pc[p] \in Validated => p \in intact

\* A step of the one active command keeps this.
LEMMA AloneCommand ==
  ASSUME TypeInv, AloneInv, NEW p \in Operators, Step(p) \/ WriteAnomaly(p) \/ Fail(p)
  PROVE  AloneInv'
<1>1. pc[p] \in Active
  BY StepPhases
<1>2. \A q \in Operators : q # p => pc[q] \notin Active /\ pc'[q] = pc[q]
  BY <1>1, StepPhases DEF TypeInv, AloneInv, OneActive, TypeOK
<1>3. OneActive'
  BY <1>2 DEF OneActive, Active, Loading, Validating, Validated, Exchanged
<1>4. \A q \in Operators : pc'[q] \in Validated => q = p
  BY <1>2 DEF Active
<1>5. sound' /\ (pc'[p] \in Validated => p \in intact')
  <2> USE DEF Goto, Check, cmdVars, countVars, histVars
  <2>1. pc \in [Operators -> Phases] /\ sound
    BY DEF TypeInv, TypeOK, Phases, AloneInv
  <2>2. pc[p] \in Validated => p \in intact
    BY DEF AloneInv
  <2>3. CASE Exchange(p) \/ FailAfterExchange(p)
    <3>1. pc[p] \in Validated /\ pc'[p] \notin Validated
      BY <2>1, <2>3 DEF Exchange, FailAfterExchange, Validated
    <3> QED
      BY <2>2, <2>3, <3>1 DEF Exchange, FailAfterExchange, SwapNames
  <2>4. CASE CompareFingerprints(p)
    <3>1. pc'[p] \in Validated => p \in intact'
      BY <2>1, <2>4 DEF CompareFingerprints, Validated
    <3> QED
      BY <2>1, <2>4, <3>1 DEF CompareFingerprints
  <2>5. CASE TruncateStaging(p) \/ FailAfterTruncate(p)
    BY <2>1, <2>5 DEF TruncateStaging, FailAfterTruncate, Validated
  <2>6. CASE \/ ReadSource(p) \/ EnsureSchema(p) \/ BeginInsert(p) \/ StoreRow(p)
             \/ WriteDone(p) \/ CountStaging(p) \/ CompareMetrics(p)
             \/ CountTargetBefore(p) \/ CountStagingBefore(p) \/ CountTargetAfter(p)
             \/ CountStagingAfter(p) \/ WriteAnomaly(p) \/ FailQuietly(p)
             \/ FailAfterCreate(p) \/ FailWrite(p)
    <3>1. UNCHANGED <<sound, intact>>
      BY <2>6
         DEF ReadSource, EnsureSchema, BeginInsert, StoreRow, EndInsert, WriteDone,
             CountStaging, CompareMetrics, CountTargetBefore, CountStagingBefore,
             CountTargetAfter, CountStagingAfter, WriteAnomaly, FailQuietly,
             FailAfterCreate, FailWrite
    <3>2. pc'[p] \in Validated => pc[p] \in Validated
      BY <2>1, <2>6
         DEF ReadSource, EnsureSchema, BeginInsert, StoreRow, EndInsert, WriteDone,
             CountStaging, CompareMetrics, CountTargetBefore, CountStagingBefore,
             CountTargetAfter, CountStagingAfter, WriteAnomaly, FailQuietly,
             FailAfterCreate, FailWrite, Validated
    <3> QED
      BY <2>1, <2>2, <3>1, <3>2
  <2> QED
    BY <2>3, <2>4, <2>5, <2>6 DEF Step, Fail
<1> QED
  BY <1>3, <1>4, <1>5 DEF AloneInv

\* With one command at a time every step keeps it.
LEMMA AloneNext ==
  ASSUME Exclusive, TypeInv, AloneInv, [Next]_vars
  PROVE  AloneInv'
<1>1. CASE UNCHANGED vars
  BY <1>1 DEF vars, histVars, AloneInv, OneActive
<1>2. CASE SilverRebuild \/ EnsureCommand \/ \E t \in Tables : OrphanEnds(t)
  BY <1>2 DEF SilverRebuild, EnsureCommand, OrphanEnds, histVars, AloneInv, OneActive
<1>3. ASSUME NEW p \in Operators, Start(p) PROVE AloneInv'
  <2>1. \A q \in Operators : pc[q] \notin Active /\ pc[q] \notin Validated
    BY <1>3 DEF Start, Active, Terminal, Loading, Validating, Validated, Exchanged
  <2>2. /\ pc'[p] \in {"source", "failed"} /\ sound' = sound
        /\ \A q \in Operators : q # p => pc'[q] = pc[q]
    BY <1>3 DEF Start, TypeInv, TypeOK
  <2> QED
    BY <2>1, <2>2 DEF AloneInv, OneActive, Validated
<1> QED
  BY <1>1, <1>2, <1>3, AloneCommand DEF Next

\* Whatever a client that gave up left behind, readers miss no row of the
\* published snapshot, with one command at a time.
THEOREM NoRowIsMissing ==
  ASSUME Exclusive
  PROVE  Spec => []NoRowMissing
<1>1. Init => AloneInv
  BY DEF Init, AloneInv, OneActive, Active, Loading, Validating, Validated, Exchanged
<1>2. RaceInv /\ AloneInv /\ [Next]_vars => AloneInv'
  BY AloneNext DEF RaceInv
<1>3. RaceInv /\ AloneInv => NoRowMissing
  BY DEF RaceInv, AloneInv, CompleteUnlessRaced
<1> QED
  BY <1>1, <1>2, <1>3, RaceSafe, PTL DEF Spec
=============================================================================
