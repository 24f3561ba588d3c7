------------------------- MODULE ClickHouseServing -------------------------
(***************************************************************************)
(* The serving refresh (jobs/serving): one Silver snapshot is bound,       *)
(* loaded into the ClickHouse staging table through Spark JDBC, compared   *)
(* with the bound snapshot, and published by one EXCHANGE TABLES.          *)
(*                                                                         *)
(* A table's contents are a multiset of rows.  The two physical tables     *)
(* keep their identity across an EXCHANGE, which swaps only their names:   *)
(* an INSERT goes to the table its name meant when it began, also when its *)
(* rows are stored after an EXCHANGE.  Every other statement takes effect  *)
(* at one instant: the server serialises TRUNCATE and EXCHANGE of a name,  *)
(* and a SELECT reads one state of one table.                              *)
(***************************************************************************)
EXTENDS Integers, Sequences, FiniteSets

CONSTANTS Rows,          \* canonical Silver rows
          NullRows,      \* the rows with a NULL in a required column
          Symbols,
          SymbolOf,      \* the symbol column of a row
          Contents,      \* row multisets a Silver build may produce
          Operators,     \* processes that may run a serving command
          Exclusive,     \* operating assumption: one serving command at a time
          Orphans,       \* may the server finish an insert its client gave up?
          MaxSnapshots,  \* bound on Silver builds
          MaxAttempts,   \* bound on serving commands
          MaxAnomalies   \* bound on batches JDBC loses, repeats or alters

Bag == [Rows -> Nat]

ASSUME ServingAssumption ==
    /\ IsFiniteSet(Rows) /\ NullRows \subseteq Rows
    /\ SymbolOf \in [Rows -> Symbols]
    /\ Contents \subseteq Bag
    /\ Exclusive \in BOOLEAN /\ Orphans \in BOOLEAN
    /\ {MaxSnapshots, MaxAttempts, MaxAnomalies} \subseteq Nat

VARIABLES
    silver,      \* Silver snapshots in commit order (Iceberg history)
    contract,    \* the ClickHouse database and tables: absent, exact, other
    content,     \* rows of each physical table
    target,      \* the physical table now named silver_trades
    insert,      \* rows of the INSERTs each command has open, per table
    orphan,      \* inserts without a client the server may still apply
    pc,          \* where each operator's command is
    kind,        \* rebuild or load
    bound,       \* the Silver snapshot the command bound
    todo,        \* rows the JDBC write has still to send
    preTarget,   \* row counts read before the EXCHANGE
    preStaging,
    attempts, anomalies,          \* counters for the bounds
    served, before, swapped,      \* history: see the properties
    intact, sound

cmdVars == <<kind, bound, todo, insert, preTarget, preStaging>>
countVars == <<attempts, anomalies>>
histVars == <<served, before, swapped, intact, sound>>
vars == <<silver, contract, content, target, orphan, pc, cmdVars, countVars,
          histVars>>

-----------------------------------------------------------------------------
(* Multisets of rows and the comparisons the workflow makes on them.       *)

EmptyBag == [r \in Rows |-> 0]

\* SELECT count(): one element per copy of a row.
RowCount(b) == Cardinality(UNION {{r} \X (1 .. b[r]) : r \in Rows})

OfSymbol(b, s) == [r \in Rows |-> IF SymbolOf[r] = s THEN b[r] ELSE 0]

Add(b, r, n) == [b EXCEPT ![r] = @ + n]

\* validate_required_nulls
NullFree(b) == \A r \in NullRows : b[r] = 0

\* _compare_metrics: row count, symbol set, rows per symbol.
MetricsAgree(a, b) ==
    /\ RowCount(a) = RowCount(b)
    /\ \A s \in Symbols : RowCount(OfSymbol(a, s)) = RowCount(OfSymbol(b, s))

\* Mutant: the fingerprint of the distinct rows.
SameDistinctRows(a, b) ==
    {r \in Rows : a[r] > 0} = {r \in Rows : b[r] > 0}

\* Mutant: the fingerprint sees the multiplicities and not the rows.
CountsAgree(a, b) == RowCount(a) = RowCount(b)

\* The SHA-256 over the ordered (row hash, multiplicity) pairs separates
\* different multisets (SHA-256 is taken as injective).
FingerprintsAgree(a, b) == a = b

-----------------------------------------------------------------------------
Tables == {"t1", "t2"}

NoInsert == [t \in Tables |-> EmptyBag]

Other(t) == IF t = "t1" THEN "t2" ELSE "t1"

staging == Other(target)

Terminal == {"idle", "published", "loaded", "failed"}
Loading == {"source", "ensure", "truncate", "write", "count"}
Validating == {"metrics", "fingerprint"}
Validated == {"preTarget", "preStaging", "exchange"}
Exchanged == {"postTarget", "postStaging"}
Active == Loading \cup Validating \cup Validated \cup Exchanged

Init ==
    /\ silver = <<>>
    /\ contract \in {"absent", "exact", "other"}
    /\ content = [t \in Tables |-> EmptyBag]
    /\ target = "t1"
    /\ insert = [p \in Operators |-> NoInsert]
    /\ orphan = NoInsert
    /\ pc = [p \in Operators |-> "idle"]
    /\ kind = [p \in Operators |-> "rebuild"]
    /\ bound = [p \in Operators |-> 0]
    /\ todo = [p \in Operators |-> EmptyBag]
    /\ preTarget = [p \in Operators |-> 0]
    /\ preStaging = [p \in Operators |-> 0]
    /\ attempts = 0 /\ anomalies = 0
    /\ served = 0
    /\ before = [p \in Operators |-> EmptyBag]
    /\ swapped = [p \in Operators |-> FALSE]
    /\ intact = {} /\ sound = TRUE

-----------------------------------------------------------------------------
(* The surroundings of a command.                                          *)

\* createOrReplace commits one complete Silver snapshot, at any time.
SilverRebuild ==
    /\ Len(silver) < MaxSnapshots
    /\ \E c \in Contents : silver' = Append(silver, c)
    /\ UNCHANGED <<contract, content, target, orphan, pc, cmdVars, countVars,
                   histVars>>

\* `clickhouse_schema ensure` creates what is missing and loads nothing.
EnsureCommand ==
    /\ contract = "absent"
    /\ contract' = "exact"
    /\ UNCHANGED <<silver, content, target, orphan, pc, cmdVars, countVars,
                   histVars>>

\* The server applies, or drops, an insert whose client is gone.
OrphanEnds(t) ==
    /\ \E r \in Rows :
          /\ orphan[t][r] > 0
          /\ orphan' = [orphan EXCEPT ![t] = Add(@, r, -1)]
          /\ content' \in {content, [content EXCEPT ![t] = Add(@, r, 1)]}
    /\ UNCHANGED <<silver, contract, target, pc, cmdVars, countVars, histVars>>

-----------------------------------------------------------------------------
(* The command `rebuild`, and `load`, which is its first part alone.       *)

\* Move p's command on; a test that does not hold raises.
Goto(p, from, test, to) ==
    /\ pc[p] = from
    /\ pc' = [pc EXCEPT ![p] = IF test THEN to ELSE "failed"]

\* A step that only reads.
Check(p, from, test, to) ==
    /\ Goto(p, from, test, to)
    /\ UNCHANGED <<silver, contract, content, target, orphan, cmdVars,
                   countVars, histVars>>

\* The current snapshot is bound, once; without one the command fails.
Start(p) ==
    /\ pc[p] \in Terminal
    /\ Exclusive => \A q \in Operators : pc[q] \in Terminal
    /\ attempts < MaxAttempts
    /\ attempts' = attempts + 1
    /\ \E k \in {"rebuild", "load"} : kind' = [kind EXCEPT ![p] = k]
    /\ pc' = [pc EXCEPT ![p] = IF silver = <<>> THEN "failed" ELSE "source"]
    /\ bound' = [bound EXCEPT ![p] = Len(silver)]
    /\ before' = [before EXCEPT ![p] = content[target]]
    /\ swapped' = [swapped EXCEPT ![p] = FALSE]
    /\ intact' = intact \ {p}
    /\ UNCHANGED <<silver, contract, content, target, orphan, todo, insert,
                   preTarget, preStaging, anomalies, served, sound>>

\* Mutant: a source with NULLs is read again until it has none.
ReadSourceUntilValid(p) ==
    /\ pc[p] = "source" /\ NullFree(silver[bound[p]])
    /\ Check(p, "source", TRUE, "ensure")

\* The loader reads the bound snapshot and refuses NULLs.
ReadSource(p) == Check(p, "source", NullFree(silver[bound[p]]), "ensure")

\* Mutant: CREATE IF NOT EXISTS without the contract check.
EnsureWithoutValidation(p) ==
    /\ Goto(p, "ensure", TRUE, "truncate")
    /\ contract' = IF contract = "absent" THEN "exact" ELSE contract
    /\ UNCHANGED <<silver, content, target, orphan, cmdVars, countVars,
                   histVars>>

\* CREATE ... IF NOT EXISTS, then the exact contract is required.
EnsureSchema(p) ==
    /\ Goto(p, "ensure", contract # "other", "truncate")
    /\ contract' = IF contract = "absent" THEN "exact" ELSE contract
    /\ UNCHANGED <<silver, content, target, orphan, cmdVars, countVars,
                   histVars>>

TruncateStaging(p) ==
    /\ Goto(p, "truncate", TRUE, "write")
    /\ content' = [content EXCEPT ![staging] = EmptyBag]
    /\ todo' = [todo EXCEPT ![p] = silver[bound[p]]]
    /\ intact' = {}
    /\ UNCHANGED <<silver, contract, target, orphan, kind, bound, insert, preTarget,
                   preStaging, countVars, served, before, swapped, sound>>

\* Spark JDBC appends the snapshot, in INSERTs of any rows in any order.  The
\* server resolves the name when an INSERT begins: its rows go to the table that
\* was staging then, whatever is exchanged before they are stored.
BeginInsert(p) ==
    /\ pc[p] = "write"
    /\ \E r \in Rows :
          /\ todo[p][r] > 0
          /\ todo' = [todo EXCEPT ![p] = Add(@, r, -1)]
          /\ insert' = [insert EXCEPT ![p][staging] = Add(@, r, 1)]
    /\ UNCHANGED <<silver, contract, content, target, orphan, pc, kind, bound,
                   preTarget, preStaging, countVars, histVars>>

\* p's INSERT of row r into table t is over.
EndInsert(p, t, r) ==
    /\ pc[p] = "write"
    /\ insert[p][t][r] > 0
    /\ insert' = [insert EXCEPT ![p][t] = Add(@, r, -1)]
    /\ UNCHANGED <<silver, contract, target, orphan, pc, kind, bound, todo,
                   preTarget, preStaging, histVars>>

StoreRow(p) ==
    \E t \in Tables, r \in Rows :
        /\ EndInsert(p, t, r)
        /\ content' = [content EXCEPT ![t] = Add(@, r, 1)]
        /\ UNCHANGED countVars

\* The driver stores a row zero times, twice, or as another row.
WriteAnomaly(p) ==
    /\ anomalies < MaxAnomalies
    /\ anomalies' = anomalies + 1 /\ UNCHANGED attempts
    /\ \E t \in Tables, r \in Rows :
          /\ EndInsert(p, t, r)
          /\ \/ UNCHANGED content
             \/ content' = [content EXCEPT ![t] = Add(@, r, 2)]
             \/ \E w \in Rows \ {r} : content' = [content EXCEPT ![t] = Add(@, w, 1)]

\* save() returns when every INSERT of every task has its answer.
WriteDone(p) ==
    /\ todo[p] = EmptyBag /\ insert[p] = NoInsert
    /\ Check(p, "write", TRUE, "count")

\* Mutant: the row count is taken for the whole validation.
CountStagingOnly(p) ==
    Check(p, "count",
          RowCount(content[staging]) = RowCount(silver[bound[p]]),
          IF kind[p] = "load" THEN "loaded" ELSE "preTarget")

\* Transport check; a standalone load ends here, a rebuild goes on.
CountStaging(p) ==
    Check(p, "count",
          RowCount(content[staging]) = RowCount(silver[bound[p]]),
          IF kind[p] = "load" THEN "loaded" ELSE "metrics")

\* Staging is read back: NULLs, row count, symbols, rows per symbol.
CompareMetrics(p) ==
    Check(p, "metrics",
          /\ NullFree(content[staging])
          /\ MetricsAgree(silver[bound[p]], content[staging]),
          "fingerprint")

\* Staging is read once more, for the fingerprint.
CompareFingerprints(p) ==
    LET exact == FingerprintsAgree(silver[bound[p]], content[staging])
    IN /\ Goto(p, "fingerprint", exact, "preTarget")
       /\ intact' = IF exact THEN intact \cup {p} ELSE intact
       /\ UNCHANGED <<silver, contract, content, target, orphan, cmdVars,
                      countVars, served, before, swapped, sound>>

\* exchange_serving_tables: contract and row counts of both names first.
CountTargetBefore(p) ==
    /\ Goto(p, "preTarget", contract = "exact", "preStaging")
    /\ preTarget' = [preTarget EXCEPT ![p] = RowCount(content[target])]
    /\ UNCHANGED <<silver, contract, content, target, orphan, kind, bound,
                   todo, insert, preStaging, countVars, histVars>>

CountStagingBefore(p) ==
    /\ Goto(p, "preStaging", TRUE, "exchange")
    /\ preStaging' = [preStaging EXCEPT ![p] = RowCount(content[staging])]
    /\ UNCHANGED <<silver, contract, content, target, orphan, kind, bound,
                   todo, insert, preTarget, countVars, histVars>>

\* EXCHANGE TABLES swaps the two names in one step.
SwapNames(p) ==
    /\ target' = staging
    /\ served' = bound[p]
    /\ swapped' = [swapped EXCEPT ![p] = TRUE]
    /\ sound' = (p \in intact) /\ intact' = {}
    /\ UNCHANGED <<silver, contract, content, orphan, cmdVars, countVars,
                   before>>

\* Mutant: EXCHANGE is sent again when its answer is lost.
ExchangeRetried(p) ==
    /\ pc[p] = "exchange"
    /\ pc' \in {pc, [pc EXCEPT ![p] = "postTarget"]}
    /\ SwapNames(p)

\* Mutant: an error of the EXCHANGE command is swallowed.
ExchangeErrorIgnored(p) ==
    /\ Goto(p, "exchange", TRUE, "postTarget")
    /\ \/ SwapNames(p)
       \/ UNCHANGED <<silver, contract, content, target, orphan, cmdVars,
                      countVars, histVars>>

Exchange(p) == Goto(p, "exchange", TRUE, "postTarget") /\ SwapNames(p)

CountTargetAfter(p) ==
    Check(p, "postTarget",
          contract = "exact" /\ RowCount(content[target]) = preStaging[p],
          "postStaging")

CountStagingAfter(p) ==
    Check(p, "postStaging", RowCount(content[staging]) = preTarget[p],
          "published")

-----------------------------------------------------------------------------
(* An exception, a lost answer or a killed process ends the command where  *)
(* it is.  Nothing is undone, and the statement in progress may have been  *)
(* applied by the server.                                                  *)

FailQuietly(p) == pc[p] \in Active \ {"write"} /\ Check(p, pc[p], FALSE, "failed")

\* CREATE was applied, the answer was lost.
FailAfterCreate(p) ==
    /\ contract = "absent"
    /\ contract' = "exact"
    /\ Goto(p, "ensure", FALSE, "failed")
    /\ UNCHANGED <<silver, content, target, orphan, cmdVars, countVars,
                   histVars>>

\* TRUNCATE was applied, the answer was lost.
FailAfterTruncate(p) ==
    /\ Goto(p, "truncate", FALSE, "failed")
    /\ content' = [content EXCEPT ![staging] = EmptyBag]
    /\ intact' = {}
    /\ UNCHANGED <<silver, contract, target, orphan, cmdVars, countVars,
                   served, before, swapped, sound>>

\* The JDBC write raised (spark.task.maxFailures=1, nothing is sent twice).  The
\* INSERTs it has open end with it, or the server keeps them.
FailWrite(p) ==
    /\ Goto(p, "write", FALSE, "failed")
    /\ insert' = [insert EXCEPT ![p] = NoInsert]
    /\ orphan' = IF Orphans
                 THEN [t \in Tables |-> [r \in Rows |-> orphan[t][r] + insert[p][t][r]]]
                 ELSE orphan
    /\ UNCHANGED <<silver, contract, content, target, kind, bound, todo, preTarget,
                   preStaging, countVars, histVars>>

\* EXCHANGE was applied, the answer was lost: the ambiguous publication.
FailAfterExchange(p) == Goto(p, "exchange", FALSE, "failed") /\ SwapNames(p)

-----------------------------------------------------------------------------
\* The statements of a command, in program order.
Step(p) ==
    \/ ReadSource(p) \/ EnsureSchema(p) \/ TruncateStaging(p)
    \/ BeginInsert(p) \/ StoreRow(p) \/ WriteDone(p) \/ CountStaging(p)
    \/ CompareMetrics(p) \/ CompareFingerprints(p)
    \/ CountTargetBefore(p) \/ CountStagingBefore(p) \/ Exchange(p)
    \/ CountTargetAfter(p) \/ CountStagingAfter(p)

Fail(p) ==
    \/ FailQuietly(p) \/ FailAfterCreate(p) \/ FailAfterTruncate(p)
    \/ FailWrite(p) \/ FailAfterExchange(p)

Next ==
    \/ SilverRebuild
    \/ EnsureCommand
    \/ \E t \in Tables : OrphanEnds(t)
    \/ \E p \in Operators : Start(p) \/ Step(p) \/ WriteAnomaly(p) \/ Fail(p)

Spec == Init /\ [][Next]_vars

\* A command is one synchronous sequence of bounded calls: it keeps going.
FairSpec == Spec /\ \A p \in Operators : WF_vars(Step(p))

-----------------------------------------------------------------------------
(* Properties                                                              *)

\* A command has INSERTs open during its JDBC write alone.
OnlyWritersInsert ==
    \A p \in Operators : pc[p] # "write" => insert[p] = NoInsert

\* The type of every variable (counts of rows are natural numbers, a bound
\* snapshot is a Silver snapshot).
TypeOK ==
    /\ silver \in Seq(Contents)
    /\ contract \in {"absent", "exact", "other"}
    /\ content \in [Tables -> Bag]
    /\ target \in Tables
    /\ insert \in [Operators -> [Tables -> Bag]]
    /\ OnlyWritersInsert
    /\ orphan \in [Tables -> Bag]
    /\ pc \in [Operators -> Active \cup Terminal]
    /\ kind \in [Operators -> {"rebuild", "load"}]
    /\ bound \in [Operators -> 0 .. Len(silver)]
    /\ todo \in [Operators -> Bag]
    /\ preTarget \in [Operators -> Nat]
    /\ preStaging \in [Operators -> Nat]
    /\ attempts \in Nat /\ anomalies \in Nat
    /\ served \in 0 .. Len(silver)
    /\ before \in [Operators -> Bag]
    /\ swapped \in [Operators -> BOOLEAN]
    /\ intact \subseteq Operators /\ sound \in BOOLEAN

SnapshotRows(s) == IF s = 0 THEN EmptyBag ELSE silver[s]

\* What a reader of silver_trades sees is, in every state, exactly the rows
\* (duplicates included) of the Silver snapshot published last, whatever a
\* running, failed or crashed rebuild did to staging and however often Silver
\* was rebuilt meanwhile.
TargetIsSnapshot == content[target] = SnapshotRows(served)

\* The inductive strengthening of TargetIsSnapshot for one command at a time and
\* inserts that end with their client: at most one command is active, it bound a
\* snapshot no older than the published one, and once its comparisons passed
\* staging holds exactly that snapshot until the EXCHANGE; what it inserts goes
\* to staging.
OneActive ==
    \A p, q \in Operators : pc[p] \in Active /\ pc[q] \in Active => p = q
NoOrphan == orphan = NoInsert
InsertsToStaging == \A p \in Operators : insert[p][target] = EmptyBag
BoundIsRecent ==
    \A p \in Operators :
        pc[p] \in Active => bound[p] >= 1 /\ bound[p] >= served
StagingIsBound ==
    \A p \in Operators :
        pc[p] \in Validated => content[staging] = silver[bound[p]]
ServingInv ==
    /\ TypeOK /\ OneActive /\ NoOrphan /\ InsertsToStaging /\ BoundIsRecent
    /\ StagingIsBound
    /\ TargetIsSnapshot

\* The published snapshot is never older than the one before it, whichever
\* commands failed in between and whenever Silver was rebuilt.  With
\* TargetIsSnapshot: readers never go back.
NoRollback == [][served' >= served]_vars

\* A command that fails before its EXCHANGE was applied leaves the active table
\* as it found it; and where the tables do not have the exact contract no command
\* ever empties, fills or exchanges one.
FailureKeepsTarget ==
    [][/\ contract = "other" => UNCHANGED <<content, target>>
       /\ \A p \in Operators :
             (pc[p] # "failed" /\ pc'[p] = "failed" /\ ~swapped'[p])
                 => content'[target'] = before'[p]]_vars

\* When rebuild reports "published", the active table holds the snapshot it
\* bound at its start and staging holds what the active table held then.
PublishedReport ==
    [][\A p \in Operators :
          (pc[p] # "published" /\ pc'[p] = "published")
              => /\ served' = bound[p]
                 /\ content'[target'] = silver'[bound[p]]
                 /\ content'[Other(target')] = before[p]]_vars

\* With inserts that outlive their client the published table may gain rows
\* after validation, but it never misses one of its snapshot.
NoRowMissing == \A r \in Rows : content[target][r] >= SnapshotRows(served)[r]

\* With any number of operators: what a command publishes stays complete for its
\* readers if no other command emptied staging or exchanged the tables between its
\* last comparison and its EXCHANGE.  Loads and INSERTs of others at any time, those
\* that cross the EXCHANGE and end in the active table, a TRUNCATE just after it and
\* failures anywhere take no row away.
CompleteUnlessRaced == sound => NoRowMissing

\* Every command comes to an end: published, loaded or failed.
CommandEnds ==
    \A p \in Operators : pc[p] \in Active ~> pc[p] \in Terminal

\* The refresh implements the atomic publication of whole snapshots, of which
\* NoRollback is a part.
Publication == INSTANCE ServingPublication WITH
    history <- silver, visible <- content[target], Nothing <- EmptyBag
PublicationSpec == Publication!Spec
=============================================================================
