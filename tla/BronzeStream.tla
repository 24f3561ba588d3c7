---------------------------- MODULE BronzeStream ----------------------------
(***************************************************************************)
(* The streaming job (jobs/streaming/iceberg_trade_streaming_job.py): one  *)
(* Python main thread that checks the checkpoint location and the Bronze   *)
(* schema, starts a Structured Streaming query from Kafka to Iceberg,      *)
(* polls it until it ends or a signal asks for shutdown, and then stops    *)
(* the query before Spark.  The query itself (Spark, Kafka, Iceberg, S3A)  *)
(* is external: offset log, idempotent append of a batch, commit log.      *)
(* The process may die anywhere and be started again.                      *)
(***************************************************************************)
EXTENDS Integers, Sequences

CONSTANTS Locations,   \* checkpoint locations the job is started with
          MaxOffset,   \* bound on the Kafka offsets of the one partition
          MaxStarts,   \* bound on starts of the job
          MaxSignals   \* bound on SIGINTs and SIGTERMs

ASSUME StreamAssumption ==
    /\ Locations \subseteq {"quality-v2", "quality-v1", "legacy", "legacy/"}
    /\ {MaxOffset, MaxStarts, MaxSignals} \subseteq Nat

VARIABLES
    pc,          \* where the main thread is
    location,    \* checkpoint_location
    handle,      \* `query` is not None
    guarded,     \* the shutdown handlers are installed
    shutdown,    \* shutdown_event
    error,       \* primary_error, or what is propagating
    stopFailed,  \* a cleanup call raised
    spark,       \* the Spark session
    query,       \* the streaming query inside Spark
    exit,        \* how the last process ended
    store,       \* directory -> what Spark keeps there
    table,       \* batches appended to Bronze, in order
    produced,    \* end offset of the Kafka partition
    schema,      \* BronzeSchemaState of the table
    starts, signals,  \* counters for the bounds
    sparkStops   \* history: spark.stop() calls of this process

mainVars == <<pc, location, handle, guarded, shutdown, error, stopFailed, exit,
              starts, signals, sparkStops>>
dataVars == <<store, table, produced, schema>>
vars == <<mainVars, spark, query, dataVars>>

Directories == {"quality-v2", "quality-v1", "legacy"}

\* The directory S3A opens: a trailing slash makes no difference there.
Directory(l) == IF l = "legacy/" THEN "legacy" ELSE l

None == -1   \* a checkpoint without an initial offset

\* The historical checkpoints hold progress of their own.
Init ==
    /\ pc = "down" /\ location = "quality-v2" /\ handle = FALSE /\ guarded = FALSE
    /\ shutdown = FALSE /\ error = "none" /\ stopFailed = FALSE
    /\ spark = "none" /\ query = "none" /\ exit = "none"
    /\ starts = 0 /\ signals = 0 /\ sparkStops = 0
    /\ store = [d \in Directories |->
                  IF d = "quality-v2" THEN [first |-> None, ends |-> <<>>, done |-> 0]
                                      ELSE [first |-> 0, ends |-> <<>>, done |-> 0]]
    /\ table = <<>> /\ produced = 0
    /\ schema \in {"legacy", "quality", "incompatible"}

-----------------------------------------------------------------------------
(* The main thread                                                         *)

\* Mutant: only the legacy checkpoint is refused.
RejectedLegacyOnly(l) == l = "legacy"

\* validate_quality_checkpoint_location compares strings.
Rejected(l) == l \in {"legacy", "quality-v1"}

\* The process is gone, and with it Spark and the query.
Die(how) ==
    /\ pc' = "down" /\ exit' = how
    /\ spark' = "none" /\ query' = "none"

Start ==
    /\ pc = "down" /\ starts < MaxStarts
    /\ starts' = starts + 1
    /\ location' \in Locations
    /\ handle' = FALSE /\ guarded' = FALSE /\ shutdown' = FALSE
    /\ error' = "none" /\ stopFailed' = FALSE /\ sparkStops' = 0
    /\ \/ pc' = "down" /\ exit' = "failed" /\ UNCHANGED spark
       \/ /\ ~Rejected(location')
          /\ pc' = "check" /\ exit' = "none" /\ spark' = "running"
    /\ UNCHANGED <<query, signals, dataVars>>

Raise(e) ==
    /\ error' = e /\ pc' = "stopQuery"
    /\ UNCHANGED <<location, handle, guarded, shutdown, stopFailed, exit, starts,
                   signals, sparkStops>>

Goto(label) ==
    /\ pc' = label
    /\ UNCHANGED <<location, handle, guarded, shutdown, error, stopFailed, exit,
                   starts, signals, sparkStops>>

\* Mutant: an incompatible schema is let through.
CheckSchemaLoosely ==
    /\ pc = "check"
    /\ \/ schema # "legacy" /\ Goto("creating")
       \/ Raise("start")
    /\ UNCHANGED <<spark, query, dataVars>>

\* require_quality_bronze_table_schema and the Kafka source, before any query.
CheckSchema ==
    /\ pc = "check"
    /\ \/ schema = "quality" /\ Goto("creating")
       \/ Raise("start")
    /\ UNCHANGED <<spark, query, dataVars>>

\* toTable() inside the JVM: the query runs before the call has returned.
CreateQuery ==
    /\ pc = "creating" /\ query = "none"
    /\ \/ query' = "active" /\ UNCHANGED mainVars
       \/ Raise("start") /\ UNCHANGED query
    /\ UNCHANGED <<spark, dataVars>>

QueryReturned ==
    /\ pc = "creating" /\ query # "none"
    /\ pc' = "started" /\ handle' = TRUE
    /\ UNCHANGED <<location, guarded, shutdown, error, stopFailed, exit, starts,
                   signals, sparkStops, spark, query, dataVars>>

\* Both handlers are installed, or neither.
InstallHandlers ==
    /\ pc = "started"
    /\ \/ /\ pc' = "poll" /\ guarded' = TRUE
          /\ UNCHANGED <<location, handle, shutdown, error, stopFailed, exit, starts,
                         signals, sparkStops>>
       \/ Raise("start")
    /\ UNCHANGED <<spark, query, dataVars>>

\* Mutant: the loop condition forgets the event.
PollQueryOnly ==
    /\ pc = "poll"
    /\ \/ Goto(IF query = "active" THEN "wait" ELSE "stopQuery")
       \/ Raise("await")
    /\ UNCHANGED <<spark, query, dataVars>>

\* while query.isActive and not shutdown_event.is_set(); the call may raise.
Poll ==
    /\ pc = "poll"
    /\ \/ Goto(IF query = "active" /\ ~shutdown THEN "wait" ELSE "stopQuery")
       \/ Raise("await")
    /\ UNCHANGED <<spark, query, dataVars>>

\* awaitTermination(1.0): back to the loop after the interval, or the failure
\* of the query, or of the call, is raised.
Await ==
    /\ pc = "wait"
    /\ \/ query = "active" /\ Goto("poll")
       \/ Raise("await")
    /\ UNCHANGED <<spark, query, dataVars>>

\* Mutant: the running query is left to spark.stop().
StopQueryNever ==
    /\ pc = "stopQuery"
    /\ Goto("stopSpark")
    /\ UNCHANGED <<spark, query, dataVars>>

\* query.stop() on an active query; it may raise.
StopQuery ==
    /\ pc = "stopQuery"
    /\ IF handle /\ query = "active"
         THEN /\ pc' = "stopSpark"
              /\ \/ query' = "stopped" /\ UNCHANGED stopFailed
                 \/ stopFailed' = TRUE /\ UNCHANGED query
              /\ UNCHANGED <<location, handle, guarded, shutdown, error, exit, starts,
                             signals, sparkStops>>
         ELSE Goto("stopSpark") /\ UNCHANGED query
    /\ UNCHANGED <<spark, dataVars>>

\* query.isActive itself raises: spark.stop() is not reached.
StopQueryUnreachable ==
    /\ pc = "stopQuery" /\ handle
    /\ pc' = "leave" /\ stopFailed' = TRUE
    /\ error' = IF error = "none" THEN "cleanup" ELSE error
    /\ UNCHANGED <<location, handle, guarded, shutdown, exit, starts, signals,
                   sparkStops, spark, query, dataVars>>

\* Mutant: the cleanup error replaces the error that led to the cleanup.
StopSparkOverrides ==
    /\ pc = "stopSpark"
    /\ sparkStops' = sparkStops + 1
    /\ \/ spark' = "stopped" /\ query' = "stopped" /\ UNCHANGED stopFailed
       \/ stopFailed' = TRUE /\ UNCHANGED <<spark, query>>
    /\ error' = IF stopFailed' THEN "cleanup" ELSE error
    /\ pc' = "leave"
    /\ UNCHANGED <<location, handle, guarded, shutdown, exit, starts, signals, dataVars>>

\* spark.stop(), whatever query.stop() did.  An error of the cleanup becomes
\* the primary error only if there is none; otherwise it is a note on it.
StopSpark ==
    /\ pc = "stopSpark"
    /\ sparkStops' = sparkStops + 1
    /\ \/ spark' = "stopped" /\ query' = "stopped" /\ UNCHANGED stopFailed
       \/ stopFailed' = TRUE /\ UNCHANGED <<spark, query>>
    /\ error' = IF stopFailed' /\ error = "none" THEN "cleanup" ELSE error
    /\ pc' = "leave"
    /\ UNCHANGED <<location, handle, guarded, shutdown, exit, starts, signals, dataVars>>

\* Mutant: cleanup_completed is never set, the outer handler cleans up again.
LeaveAndCleanAgain ==
    /\ pc = "leave"
    /\ IF guarded /\ error # "none"
         THEN pc' = "stopQuery" /\ guarded' = FALSE
              /\ UNCHANGED <<error, exit, spark, query>>
         ELSE /\ Die(IF error = "none" THEN "clean" ELSE "failed")
              /\ guarded' = FALSE /\ UNCHANGED error
    /\ UNCHANGED <<location, handle, shutdown, stopFailed, starts, signals,
                   sparkStops, dataVars>>

\* The previous handlers are restored, which may raise, and the process ends.
Leave ==
    /\ pc = "leave"
    /\ \/ UNCHANGED error
       \/ guarded /\ error = "none" /\ error' = "restore"
    /\ Die(IF error' = "none" THEN "clean" ELSE "failed")
    /\ guarded' = FALSE
    /\ UNCHANGED <<location, handle, shutdown, stopFailed, starts, signals,
                   sparkStops, dataVars>>

-----------------------------------------------------------------------------
(* Signals and crashes                                                     *)

Killed ==
    /\ Die("killed")
    /\ UNCHANGED <<location, handle, guarded, shutdown, error, stopFailed>>

SetShutdown ==
    /\ shutdown' = TRUE
    /\ UNCHANGED <<pc, location, handle, guarded, error, stopFailed, exit, spark, query>>

\* SIGTERM sets the event while the handlers are installed, and kills otherwise.
Sigterm ==
    /\ pc # "down" /\ signals < MaxSignals
    /\ signals' = signals + 1
    /\ IF guarded THEN SetShutdown ELSE Killed
    /\ UNCHANGED <<starts, sparkStops, dataVars>>

\* SIGINT sets the event too; before that it is a KeyboardInterrupt, which
\* goes to the cleanup.  In that cleanup it is one of the ways a call raises.
Sigint ==
    /\ signals < MaxSignals
    /\ signals' = signals + 1
    /\ \/ guarded /\ SetShutdown
       \/ /\ ~guarded /\ pc \in {"check", "creating", "started"}
          /\ error' = "interrupt" /\ pc' = "stopQuery"
          /\ UNCHANGED <<location, handle, guarded, shutdown, stopFailed, exit,
                         spark, query>>
    /\ UNCHANGED <<starts, sparkStops, dataVars>>

\* The process is lost: out of memory, SIGKILL, the host.
Crash ==
    /\ pc # "down"
    /\ Killed
    /\ UNCHANGED <<starts, signals, sparkStops, dataVars>>

-----------------------------------------------------------------------------
(* The query, and what is around the job                                   *)

Dir == Directory(location)
Here == store[Dir]
PlannedEnd(c) == IF c.ends = <<>> THEN c.first ELSE c.ends[Len(c.ends)]
Appended(d, b) == \E i \in DOMAIN table : table[i].dir = d /\ table[i].batch = b

\* startingOffsets counts only while the checkpoint holds no initial offset.
ResolveStart ==
    /\ query = "active" /\ Here.first = None
    /\ store' = [store EXCEPT ![Dir].first = produced]
    /\ UNCHANGED <<mainVars, spark, query, table, produced, schema>>

\* The offset log fixes the range of the next batch before it is run.
PlanBatch ==
    /\ query = "active" /\ Here.first # None
    /\ Here.done = Len(Here.ends) /\ PlannedEnd(Here) < produced
    /\ store' = [store EXCEPT ![Dir].ends = Append(@, produced)]
    /\ UNCHANGED <<mainVars, spark, query, table, produced, schema>>

Batch(c) == LET b == Len(c.ends) IN
    [dir |-> Dir, batch |-> b, to |-> c.ends[b],
     from |-> IF b = 1 THEN c.first ELSE c.ends[b - 1]]

\* The Iceberg sink appends a batch in one commit, and skips one it has.
AppendBatch ==
    /\ query = "active" /\ Here.done < Len(Here.ends)
    /\ ~Appended(Dir, Len(Here.ends))
    /\ table' = Append(table, Batch(Here))
    /\ UNCHANGED <<mainVars, spark, query, store, produced, schema>>

\* Mutant: progress is recorded when the batch is handed over.
FinishUnappended ==
    /\ query = "active" /\ Here.done < Len(Here.ends)
    /\ store' = [store EXCEPT ![Dir].done = Len(Here.ends)]
    /\ UNCHANGED <<mainVars, spark, query, table, produced, schema>>

FinishBatch ==
    /\ query = "active" /\ Here.done < Len(Here.ends)
    /\ Appended(Dir, Len(Here.ends))
    /\ store' = [store EXCEPT ![Dir].done = Len(Here.ends)]
    /\ UNCHANGED <<mainVars, spark, query, table, produced, schema>>

QueryFails ==
    /\ query = "active"
    /\ query' = "failed"
    /\ UNCHANGED <<mainVars, spark, dataVars>>

Produce ==
    /\ produced < MaxOffset
    /\ produced' = produced + 1
    /\ UNCHANGED <<mainVars, spark, query, store, table, schema>>

\* migrate_bronze_table_to_quality_contract alters exactly the legacy schema.
Migrate ==
    /\ schema = "legacy"
    /\ schema' = "quality"
    /\ UNCHANGED <<mainVars, spark, query, store, table, produced>>

-----------------------------------------------------------------------------
Main ==
    \/ CheckSchema \/ CreateQuery \/ QueryReturned \/ InstallHandlers \/ Poll
    \/ Await \/ StopQuery \/ StopQueryUnreachable \/ StopSpark \/ Leave

Engine ==
    \/ ResolveStart \/ PlanBatch \/ AppendBatch \/ FinishBatch \/ QueryFails

Next ==
    \/ Start \/ Main \/ Sigterm \/ Sigint \/ Crash \/ Engine \/ Produce \/ Migrate

Spec == Init /\ [][Next]_vars

\* The main thread goes on: polls are timed, and stop() calls return or raise.
FairSpec == Spec /\ WF_vars(Main)

-----------------------------------------------------------------------------
(* Properties                                                              *)

Batches == [dir : Directories, batch : Nat, from : Nat, to : Nat]

\* The type of every variable.
TypeOK ==
    /\ pc \in {"down", "check", "creating", "started", "poll", "wait", "stopQuery",
               "stopSpark", "leave"}
    /\ location \in Locations \cup {"quality-v2"}
    /\ {handle, guarded, shutdown, stopFailed} \subseteq BOOLEAN
    /\ error \in {"none", "start", "interrupt", "await", "cleanup", "restore"}
    /\ spark \in {"none", "running", "stopped"}
    /\ query \in {"none", "active", "failed", "stopped"}
    /\ exit \in {"none", "clean", "failed", "killed"}
    /\ store \in [Directories -> [first : Nat \cup {None}, ends : Seq(Nat), done : Nat]]
    /\ table \in Seq(Batches)
    /\ schema \in {"legacy", "quality", "incompatible"}
    /\ {produced, starts, signals, sparkStops} \subseteq Nat

\* Across crashes, failed queries and restarts every Kafka offset from the
\* first one on is in Bronze at most once and none is skipped.
AppendedOnce ==
    \A i \in 1 .. Len(table) - 1 : table[i + 1].from = table[i].to

\* What the checkpoint counts as done is in Bronze: a restart that resumes
\* after it loses nothing.
ProgressInTable ==
    \A d \in Directories : \A b \in 1 .. store[d].done : Appended(d, b)

\* The first start against a table that is not migrated leaves no initial
\* offset behind, so that `latest` is resolved when the pipeline is ready.
NoStartBeforeSchema == store["quality-v2"].first # None => schema = "quality"

\* spark.stop() is called once at most, whichever of the two cleanup paths
\* runs, and even if the cleanup or the restoration of the handlers failed.
CleanupOnce ==
    /\ sparkStops <= 1
    /\ pc \notin {"leave", "down"} => sparkStops = 0

\* The inductive strengthening of the safety properties.  The main thread: only
\* an accepted location gets as far as Spark, only the quality schema as far as
\* a query, none outlives the process, none that is known runs after its stop(),
\* and nothing has failed before the cleanup.
MainInv ==
    /\ pc # "down" => ~Rejected(location)
    /\ pc \in {"creating", "started", "poll", "wait"} \/ query = "active"
          => schema = "quality"
    /\ pc = "down" => query = "none"
    /\ pc = "stopSpark" /\ handle => query # "active" \/ stopFailed
    /\ pc \in {"check", "creating", "started", "poll", "wait"} => error = "none"

\* The row of the i-th batch of a checkpoint.
BatchRow(first, ends, i) ==
    [dir |-> "quality-v2", batch |-> i, to |-> ends[i],
     from |-> IF i = 1 THEN first ELSE ends[i - 1]]

\* The checkpoint and the table: Bronze holds the planned batches of the one
\* checkpoint in order, all but the last one at least.
BatchInv == LET c == store["quality-v2"] IN
    /\ c.first = None => c.ends = <<>>
    /\ c.done <= Len(table) /\ Len(table) <= Len(c.ends) /\ Len(c.ends) <= c.done + 1
    /\ \A i \in DOMAIN table : table[i] = BatchRow(c.first, c.ends, i)
    /\ \A d \in Directories \ {"quality-v2"} : store[d].done = 0

StreamInv ==
    /\ TypeOK /\ CleanupOnce /\ MainInv /\ BatchInv
    /\ AppendedOnce /\ ProgressInTable /\ NoStartBeforeSchema

\* A query the job knows of is stopped before Spark is, unless its stop() raised.
QueryStoppedFirst ==
    [][spark = "running" /\ spark' = "stopped" /\ handle
         => query # "active" \/ stopFailed]_vars

\* The first error is the one the process ends with: no cleanup error and no
\* late signal takes its place.
FirstErrorKept == [][error # "none" /\ pc # "down" => error' = error]_vars

\* A shutdown that was requested ends the process, also when the signal comes
\* between two polls or during the cleanup.
ShutdownEnds == shutdown ~> pc = "down"

\* README.md:199 - SIGINT or SIGTERM sets a shutdown event.
SignalSetsShutdown == [][signals' > signals /\ query = "active" => shutdown']_vars

\* architecture.md:182 - the legacy and quality-v1 checkpoints are explicitly
\* rejected by the quality-v2 job.
HistoricalCheckpointsRejected == query = "active" => Dir = "quality-v2"
=============================================================================
