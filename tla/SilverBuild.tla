----------------------------- MODULE SilverBuild -----------------------------
(***************************************************************************)
(* From Kafka records to Silver: the streaming query classifies every      *)
(* record into one Bronze row, and the one-shot rebuild                    *)
(* (jobs/streaming/iceberg_silver.py) replaces Silver with the valid rows  *)
(* of the Bronze snapshot it read.  Decimals are integers in units of the  *)
(* last digit: One units are 1.  Spark's result type for the product of    *)
(* two DECIMAL(38,18) keeps 6 of the 18 digits: Lost units are its last    *)
(* digit.                                                                  *)
(***************************************************************************)
EXTENDS BronzeQuality, FiniteSets

CONSTANTS Records,       \* Kafka records the classifier may be given
          Messages,      \* those of them the topic may hold
          History,       \* rows of Bronze before the quality contract
          Builders,      \* processes that may rebuild Silver
          One, Lost,     \* decimal units, see above
          DecimalLimit,  \* no DECIMAL(38, 18) reaches it
          MillisLimit,   \* timestamp_millis overflows beyond it
          MaxRows,       \* bound on the rows of Bronze
          MaxAttempts    \* bound on rebuilds

ASSUME SilverAssumption ==
    /\ \A m \in Records : Readable(m)
    /\ Messages \subseteq Records
    /\ History \in Seq({History[i] : i \in DOMAIN History})
    /\ Len(History) <= MaxRows
    /\ \A i \in DOMAIN History : IsNull(History[i].is_valid)
    /\ {One, Lost} \subseteq Nat \ {0}
    /\ DecimalLimit % Lost = 0
    /\ {DecimalLimit, MillisLimit, MaxRows, MaxAttempts} \subseteq Nat

VARIABLES
    schema,    \* BronzeSchemaState of canonical Bronze
    bronze,    \* its rows, in commit order
    silvers,   \* snapshots of Silver in commit order: rows, and their origin
    run,       \* the state of each rebuild command
    attempts,
    overlapped \* history: two rebuilds were running at the same time

vars == <<schema, bronze, silvers, run, attempts, overlapped>>

-----------------------------------------------------------------------------
(* The transformation of one row                                           *)

\* Mutant: everything that is not called invalid is taken.
SelectedNotFalse(row) == row.is_valid # <<FALSE>>

\* where(is_valid == TRUE): a NULL label is not selected.
Selected(row) == row.is_valid = <<TRUE>>

\* HALF_UP to the digits of the result type, and back to eighteen.
Rounded(x) == ((x + (One * Lost) \div 2) \div (One * Lost)) * Lost

\* Mutant: the digits beyond the result type are cut off.
NotionalTruncated(row) ==
    IF IsNull(row.price) \/ IsNull(row.quantity) THEN Null
    ELSE <<((row.price[1] * row.quantity[1]) \div (One * Lost)) * Lost>>

\* price * quantity, cast to DECIMAL(38, 18).
Notional(row) ==
    IF IsNull(row.price) \/ IsNull(row.quantity) THEN Null
    ELSE <<Rounded(row.price[1] * row.quantity[1])>>

\* Mutant: nothing raises.
RaisesNever(row) == FALSE

\* In ANSI mode, Spark's default, a product that does not fit raises; a time
\* beyond the timestamps always does.
Raises(row) ==
    \/ ~IsNull(Notional(row)) /\ Notional(row)[1] >= DecimalLimit
    \/ \E ms \in {row.event_time_ms, row.ingested_at_ms} :
          ~IsNull(ms) /\ ms[1] > MillisLimit

\* Mutant: a column of the contract is left out.
SilverRowShort(row) ==
    [exchange |-> row.exchange, symbol |-> row.symbol, trade_id |-> row.trade_id,
     price |-> row.price, quantity |-> row.quantity, notional |-> Notional(row),
     event_time |-> row.event_time_ms, ingested_at |-> row.ingested_at_ms,
     kafka_topic |-> row.kafka_topic, kafka_partition |-> row.kafka_partition,
     kafka_offset |-> row.kafka_offset]

SilverRow(row) ==
    [exchange |-> row.exchange, symbol |-> row.symbol, trade_id |-> row.trade_id,
     price |-> row.price, quantity |-> row.quantity, notional |-> Notional(row),
     event_time |-> row.event_time_ms, ingested_at |-> row.ingested_at_ms,
     latency_ms |-> IF IsNull(row.ingested_at_ms) \/ IsNull(row.event_time_ms)
                      THEN Null
                      ELSE <<row.ingested_at_ms[1] - row.event_time_ms[1]>>,
     kafka_topic |-> row.kafka_topic, kafka_partition |-> row.kafka_partition,
     kafka_offset |-> row.kafka_offset]

\* The positions of the selected rows among the first n.
SelectedIn(n) == {i \in 1 .. n : Selected(bronze[i])}

\* build_silver_trades_dataframe over the first n rows of Bronze.
Transformed(n) == Subsequence([i \in 1 .. n |-> SilverRow(bronze[i])], SelectedIn(n))

\* The rows a reader of Silver sees.
SilverRows == IF silvers = <<>> THEN <<>> ELSE silvers[Len(silvers)].rows

-----------------------------------------------------------------------------
Fresh == [pc |-> "idle", upTo |-> 0, count |-> 0, error |-> "none"]

Init ==
    /\ schema \in {"LEGACY_13_COLUMN", "QUALITY_15_COLUMN", "INCOMPATIBLE"}
    /\ bronze = History
    /\ silvers = <<>>
    /\ run = [p \in Builders |-> Fresh]
    /\ attempts = 0 /\ overlapped = FALSE

\* The stream appends; it runs on the quality schema only.
AppendRow ==
    /\ schema = "QUALITY_15_COLUMN" /\ Len(bronze) < MaxRows
    /\ \E m \in Messages : bronze' = Append(bronze, Classified(m))
    /\ UNCHANGED <<schema, silvers, run, attempts, overlapped>>

\* The migration leaves NULL labels in the rows there are.
Migrate ==
    /\ schema = "LEGACY_13_COLUMN"
    /\ schema' = "QUALITY_15_COLUMN"
    /\ UNCHANGED <<bronze, silvers, run, attempts, overlapped>>

Idle == {"idle", "ended", "killed"}

Raise(p, e) == run' = [run EXCEPT ![p].pc = "stop", ![p].error = e]

\* run_silver_rebuild builds its session, or fails with nothing to stop.
Start(p) ==
    /\ run[p].pc \in Idle /\ attempts < MaxAttempts
    /\ attempts' = attempts + 1
    /\ overlapped' = (overlapped \/ \E q \in Builders : run[q].pc \notin Idle)
    /\ \/ run' = [run EXCEPT ![p] = [Fresh EXCEPT !.pc = "inspect"]]
       \/ run' = [run EXCEPT ![p] = [Fresh EXCEPT !.pc = "ended", !.error = "session"]]
    /\ UNCHANGED <<schema, bronze, silvers>>

\* Mutant: the rebuild waits for the quality schema.
InspectWhenMigrated(p) ==
    /\ run[p].pc = "inspect" /\ schema = "QUALITY_15_COLUMN"
    /\ run' = [run EXCEPT ![p].pc = "read"]
    /\ UNCHANGED <<schema, bronze, silvers, attempts, overlapped>>

\* _validate_bronze_source
Inspect(p) ==
    /\ run[p].pc = "inspect"
    /\ \/ schema = "QUALITY_15_COLUMN" /\ run' = [run EXCEPT ![p].pc = "read"]
       \/ Raise(p, "inspect")
    /\ UNCHANGED <<schema, bronze, silvers, attempts, overlapped>>

\* Mutant: a snapshot the catalog has cached is read.
ReadCached(p) ==
    /\ run[p].pc = "read"
    /\ \/ \E n \in 0 .. Len(bronze) :
             run' = [run EXCEPT ![p].pc = "write", ![p].upTo = n]
       \/ Raise(p, "read")
    /\ UNCHANGED <<schema, bronze, silvers, attempts, overlapped>>

\* spark.table(bronze_table) resolves one snapshot of Bronze.
Read(p) ==
    /\ run[p].pc = "read"
    /\ \/ run' = [run EXCEPT ![p].pc = "write", ![p].upTo = Len(bronze)]
       \/ Raise(p, "read")
    /\ UNCHANGED <<schema, bronze, silvers, attempts, overlapped>>

\* Mutant: each build appends its rows to those of the last one.
WriteAppends(p) ==
    /\ run[p].pc = "write"
    /\ LET upTo == run[p].upTo IN
       \/ /\ \A i \in SelectedIn(upTo) : ~Raises(bronze[i])
          /\ silvers' = Append(silvers, [upTo |-> upTo,
                                        rows |-> SilverRows \o Transformed(upTo)])
          /\ run' = [run EXCEPT ![p].pc = "count"]
       \/ Raise(p, "write") /\ UNCHANGED silvers
    /\ UNCHANGED <<schema, bronze, attempts, overlapped>>

\* createOrReplace: all rows in one commit, or none; a committed build may
\* still raise here, its answer lost.
Write(p) ==
    /\ run[p].pc = "write"
    /\ LET upTo == run[p].upTo IN
       \/ /\ \A i \in SelectedIn(upTo) : ~Raises(bronze[i])
          /\ silvers' = Append(silvers, [upTo |-> upTo, rows |-> Transformed(upTo)])
          /\ \/ run' = [run EXCEPT ![p].pc = "count"]
             \/ Raise(p, "write")
       \/ Raise(p, "write") /\ UNCHANGED silvers
    /\ UNCHANGED <<schema, bronze, attempts, overlapped>>

\* Silver is read back and counted.
Count(p) ==
    /\ run[p].pc = "count"
    /\ \/ run' = [run EXCEPT ![p].pc = "stop", ![p].count = Len(SilverRows)]
       \/ Raise(p, "count")
    /\ UNCHANGED <<schema, bronze, silvers, attempts, overlapped>>

\* spark.stop(); its error counts if there is no other.  A command without an
\* error prints its count.
Stop(p) ==
    /\ run[p].pc = "stop"
    /\ \/ run' = [run EXCEPT ![p].pc = "ended"]
       \/ run' = [run EXCEPT ![p].pc = "ended",
                             ![p].error = IF @ = "none" THEN "cleanup" ELSE @]
    /\ UNCHANGED <<schema, bronze, silvers, attempts, overlapped>>

\* The process is lost at any statement.
Kill(p) ==
    /\ run[p].pc \notin Idle
    /\ run' = [run EXCEPT ![p].pc = "killed"]
    /\ UNCHANGED <<schema, bronze, silvers, attempts, overlapped>>

Step(p) == Inspect(p) \/ Read(p) \/ Write(p) \/ Count(p) \/ Stop(p)

Next ==
    \/ AppendRow \/ Migrate
    \/ \E p \in Builders : Start(p) \/ Step(p) \/ Kill(p)

Spec == Init /\ [][Next]_vars

-----------------------------------------------------------------------------
(* Properties                                                              *)

SilverColumns ==
    {"exchange", "symbol", "trade_id", "price", "quantity", "notional", "event_time",
     "ingested_at", "latency_ms", "kafka_topic", "kafka_partition", "kafka_offset"}

\* The type of every variable.
TypeOK ==
    /\ schema \in {"LEGACY_13_COLUMN", "QUALITY_15_COLUMN", "INCOMPATIBLE"}
    /\ Len(bronze) <= MaxRows
    /\ \A k \in DOMAIN silvers : silvers[k].upTo \in 0 .. Len(bronze)
    /\ \A i \in DOMAIN SilverRows : DOMAIN SilverRows[i] = SilverColumns
    /\ run \in [Builders ->
                  [pc : Idle \cup {"inspect", "read", "write", "count", "stop"},
                   upTo : 0 .. MaxRows, count : Nat,
                   error : {"none", "session", "inspect", "read", "write", "count",
                            "cleanup"}]]
    /\ attempts \in Nat

\* The classifier on every record it may be given.
RecordsLabelled ==
    \A m \in Records :
        LET row == Classified(m)
        IN /\ (row.is_valid = <<TRUE>>) = Complete(row)
           /\ \A group \in Exclusives : Cardinality(group \cap Errors(m)) <= 1
           /\ ~Parsed(m) => Len(row.validation_errors[1]) = 1

\* The label is right, on every record and in every row of Bronze: it says valid
\* exactly if every field Silver and serving need is there and positive, whatever
\* the text was and however the two JSON readings of it failed; and the errors
\* name each defect once: one error for a record that was not read, and no field
\* both missing and of a wrong value.
LabelMeansComplete ==
    /\ RecordsLabelled
    /\ \A i \in DOMAIN bronze :
          bronze[i].is_valid # Null
              => (bronze[i].is_valid = <<TRUE>>) = Complete(bronze[i])

\* Serving refuses a NULL in any of the twelve columns: no row that Bronze calls
\* valid may make a Silver build unservable, nor may a row of the time before
\* the quality contract.
SilverPassesGate ==
    \A i \in DOMAIN SilverRows : \A c \in SilverColumns : SilverRows[i][c] # Null

\* The positions of the complete classified rows among the first n.
CompleteIn(n) == {i \in 1 .. n : bronze[i].is_valid # Null /\ Complete(bronze[i])}

\* Every Silver snapshot has one row for each complete classified row of the
\* Bronze snapshot it was built from, whatever was appended since, however often
\* builds failed, were repeated, overlapped or lost their answer; and a rebuild
\* reports the count of the rows it wrote, unless another one was running too.
SilverIsComplete ==
    /\ \A k \in DOMAIN silvers :
          Len(silvers[k].rows) = Cardinality(CompleteIn(silvers[k].upTo))
    /\ ~overlapped =>
          \A p \in Builders :
              run[p].pc = "ended" /\ run[p].error = "none"
                  => run[p].count = Len(Transformed(run[p].upTo))

Distance(a, b) == IF a > b THEN a - b ELSE b - a

\* A notional is the nearest value the product type has: the error is half of
\* its last digit at most, and nothing that does not fit is in Silver.
NotionalNearest ==
    \A i \in DOMAIN SilverRows :
        LET r == SilverRows[i] IN
        /\ 2 * Distance(r.notional[1] * One, r.price[1] * r.quantity[1]) <= One * Lost
        /\ r.notional[1] < DecimalLimit

\* A row whose product or time no Silver column can hold.
Unrepresentable(row) ==
    \/ 2 * row.price[1] * row.quantity[1] + One * Lost >= 2 * DecimalLimit * One
    \/ row.event_time_ms[1] > MillisLimit \/ row.ingested_at_ms[1] > MillisLimit

\* One valid row that Silver cannot represent stops every later build: Silver
\* stays at a snapshot before it and no command that read it reports success.
PoisonStopsBuilds ==
    \A i \in DOMAIN bronze :
        bronze[i].is_valid = <<TRUE>> /\ Unrepresentable(bronze[i]) =>
            /\ \A k \in DOMAIN silvers : silvers[k].upTo < i
            /\ \A p \in Builders :
                  run[p].pc = "ended" /\ run[p].error = "none" => run[p].upTo < i

\* silver-clickhouse-dashboard-mvp.md:77 - notional is the exact decimal
\* price * quantity.
NotionalExact ==
    \A i \in DOMAIN SilverRows :
        LET r == SilverRows[i] IN r.notional[1] * One = r.price[1] * r.quantity[1]
=============================================================================
