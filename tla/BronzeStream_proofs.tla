------------------------ MODULE BronzeStream_proofs ------------------------
(***************************************************************************)
(* Proofs about the streaming job, for every number of offsets, starts and *)
(* signals.  Those about the table assume that the historical checkpoint   *)
(* is not written with a trailing slash, which the job would not refuse.   *)
(***************************************************************************)
EXTENDS BronzeStream, SequenceTheorems, TLAPS

\* What the theorems about the table assume.
PlainNames == "legacy/" \notin Locations

-----------------------------------------------------------------------------
(* What a step keeps                                                       *)

\* A step of the main thread touches neither checkpoint nor table.
LEMMA DataKept ==
  ASSUME StreamInv, UNCHANGED dataVars
  PROVE  BatchInv' /\ AppendedOnce' /\ ProgressInTable' /\ NoStartBeforeSchema'
  BY DEF StreamInv, BatchInv, AppendedOnce, ProgressInTable, NoStartBeforeSchema,
         Appended, dataVars

\* The types of the variables, one by one.
FlagType ==
    /\ handle \in BOOLEAN /\ guarded \in BOOLEAN
    /\ shutdown \in BOOLEAN /\ stopFailed \in BOOLEAN
CountType ==
    /\ starts \in Nat /\ signals \in Nat /\ sparkStops \in Nat /\ produced \in Nat
PhaseType ==
    /\ pc \in {"down", "check", "creating", "started", "poll", "wait", "stopQuery",
               "stopSpark", "leave"}
    /\ location \in Locations \cup {"quality-v2"}
    /\ error \in {"none", "start", "interrupt", "await", "cleanup", "restore"}
    /\ spark \in {"none", "running", "stopped"}
    /\ query \in {"none", "active", "failed", "stopped"}
    /\ exit \in {"none", "clean", "failed", "killed"}
DataType ==
    /\ store \in [Directories -> [first : Nat \cup {None}, ends : Seq(Nat), done : Nat]]
    /\ table \in Seq(Batches)
    /\ schema \in {"legacy", "quality", "incompatible"}
LEMMA TypeByParts == TypeOK <=> FlagType /\ CountType /\ PhaseType /\ DataType
  BY DEF TypeOK, FlagType, CountType, PhaseType, DataType

\* A running job works on the canonical checkpoint.
LEMMA CanonicalDirectory ==
  ASSUME PlainNames, StreamInv, query = "active"
  PROVE  Dir = "quality-v2" /\ schema = "quality"
<1>1. pc # "down" /\ ~Rejected(location) /\ schema = "quality"
  BY DEF StreamInv, MainInv
<1>2. location = "quality-v2"
  BY <1>1, StreamAssumption
     DEF PlainNames, StreamAssumption, StreamInv, TypeOK, Rejected
<1> QED
  BY <1>1, <1>2 DEF Dir, Directory

\* The invariant holds before the first start.
LEMMA StreamInit == Init => StreamInv
<1> SUFFICES ASSUME Init PROVE StreamInv
  OBVIOUS
<1>1. store \in [Directories -> [first : Nat \cup {None}, ends : Seq(Nat), done : Nat]]
  BY DEF Init, Directories, None
<1>2. TypeOK
  <2>1. FlagType /\ CountType /\ PhaseType
    BY DEF Init, FlagType, CountType, PhaseType
  <2>2. DataType
    BY <1>1 DEF Init, DataType
  <2> QED
    BY <2>1, <2>2 DEF TypeOK, FlagType, CountType, PhaseType, DataType
<1>3. CleanupOnce /\ MainInv
  BY DEF Init, CleanupOnce, MainInv
<1>4. BatchInv
  BY DEF Init, BatchInv, Directories
<1>5. AppendedOnce /\ NoStartBeforeSchema
  BY DEF Init, AppendedOnce, NoStartBeforeSchema, Directories
<1>6. ProgressInTable
  BY DEF Init, ProgressInTable
<1> QED
  BY <1>2, <1>3, <1>4, <1>5, <1>6 DEF StreamInv

-----------------------------------------------------------------------------
(* The main thread                                                         *)

\* A start: only an accepted location gets a session.
LEMMA StartSafe ==
  ASSUME StreamInv, Start
  PROVE  StreamInv'
<1>1. TypeOK'
  <2>1. FlagType'
    BY TypeByParts DEF Start, StreamInv, FlagType
  <2>2. CountType'
    BY TypeByParts DEF Start, StreamInv, CountType, dataVars
  <2>3. PhaseType'
    BY TypeByParts DEF Start, StreamInv, PhaseType
  <2>4. DataType'
    BY TypeByParts DEF Start, StreamInv, DataType, dataVars
  <2> QED
    BY <2>1, <2>2, <2>3, <2>4 DEF TypeOK, FlagType, CountType, PhaseType, DataType
<1>2. CleanupOnce' /\ MainInv'
  BY DEF Start, StreamInv, CleanupOnce, MainInv, Rejected, dataVars
<1> QED
  BY <1>1, <1>2, DataKept DEF Start, StreamInv

\* From the schema check to the last poll.
LEMMA QuerySafe ==
  ASSUME StreamInv,
         \/ CheckSchema \/ CreateQuery \/ QueryReturned \/ InstallHandlers \/ Poll
         \/ Await
  PROVE  StreamInv'
<1> USE DEF Goto, Raise, mainVars
<1>1. UNCHANGED dataVars
  BY DEF CheckSchema, CreateQuery, QueryReturned, InstallHandlers, Poll, Await
<1>2. CASE CheckSchema
  <2>1. TypeOK'
    BY <1>2 DEF CheckSchema, StreamInv, TypeOK, dataVars
  <2>2. CleanupOnce' /\ MainInv'
    BY <1>2 DEF CheckSchema, StreamInv, CleanupOnce, MainInv, Rejected, dataVars
  <2> QED
    BY <1>1, <2>1, <2>2, DataKept DEF StreamInv
<1>3. CASE CreateQuery
  <2>1. TypeOK'
    BY <1>3 DEF CreateQuery, StreamInv, TypeOK, dataVars
  <2>2. CleanupOnce' /\ MainInv'
    BY <1>3 DEF CreateQuery, StreamInv, CleanupOnce, MainInv, Rejected, dataVars
  <2> QED
    BY <1>1, <2>1, <2>2, DataKept DEF StreamInv
<1>4. CASE QueryReturned
  <2>1. TypeOK'
    BY <1>4 DEF QueryReturned, StreamInv, TypeOK, dataVars
  <2>2. CleanupOnce' /\ MainInv'
    BY <1>4 DEF QueryReturned, StreamInv, CleanupOnce, MainInv, Rejected, dataVars
  <2> QED
    BY <1>1, <2>1, <2>2, DataKept DEF StreamInv
<1>5. CASE InstallHandlers
  <2>1. TypeOK'
    BY <1>5 DEF InstallHandlers, StreamInv, TypeOK, dataVars
  <2>2. CleanupOnce' /\ MainInv'
    BY <1>5 DEF InstallHandlers, StreamInv, CleanupOnce, MainInv, Rejected, dataVars
  <2> QED
    BY <1>1, <2>1, <2>2, DataKept DEF StreamInv
<1>6. CASE Poll
  <2>1. TypeOK'
    BY <1>6 DEF Poll, StreamInv, TypeOK, dataVars
  <2>2. CleanupOnce' /\ MainInv'
    BY <1>6 DEF Poll, StreamInv, CleanupOnce, MainInv, Rejected, dataVars
  <2> QED
    BY <1>1, <2>1, <2>2, DataKept DEF StreamInv
<1>7. CASE Await
  <2>1. TypeOK'
    BY <1>7 DEF Await, StreamInv, TypeOK, dataVars
  <2>2. CleanupOnce' /\ MainInv'
    BY <1>7 DEF Await, StreamInv, CleanupOnce, MainInv, Rejected, dataVars
  <2> QED
    BY <1>1, <2>1, <2>2, DataKept DEF StreamInv
<1> QED
  BY <1>2, <1>3, <1>4, <1>5, <1>6, <1>7

\* The cleanup calls spark.stop() once, and the end takes the query along.
LEMMA CleanupSafe ==
  ASSUME StreamInv, StopQuery \/ StopQueryUnreachable \/ StopSpark \/ Leave
  PROVE  StreamInv'
<1> USE DEF Goto, Die, mainVars
<1>1. UNCHANGED dataVars
  BY DEF StopQuery, StopQueryUnreachable, StopSpark, Leave
<1>2. CASE StopQuery
  <2>1. TypeOK'
    BY <1>2 DEF StopQuery, StreamInv, TypeOK, dataVars
  <2>2. CleanupOnce' /\ MainInv'
    BY <1>2 DEF StopQuery, StreamInv, CleanupOnce, MainInv, Rejected, dataVars
  <2> QED
    BY <1>1, <2>1, <2>2, DataKept DEF StreamInv
<1>3. CASE StopQueryUnreachable
  <2>1. TypeOK'
    BY <1>3 DEF StopQueryUnreachable, StreamInv, TypeOK, dataVars
  <2>2. CleanupOnce' /\ MainInv'
    BY <1>3 DEF StopQueryUnreachable, StreamInv, CleanupOnce, MainInv, Rejected, dataVars
  <2> QED
    BY <1>1, <2>1, <2>2, DataKept DEF StreamInv
<1>4. CASE StopSpark
  <2>1. TypeOK'
    <3>1. FlagType'
      BY <1>4, TypeByParts DEF StopSpark, StreamInv, FlagType
    <3>2. CountType'
      BY <1>4, TypeByParts DEF StopSpark, StreamInv, CountType, dataVars
    <3>3. PhaseType'
      BY <1>4, TypeByParts DEF StopSpark, StreamInv, PhaseType
    <3>4. DataType'
      BY <1>4, TypeByParts DEF StopSpark, StreamInv, DataType, dataVars
    <3> QED
      BY <3>1, <3>2, <3>3, <3>4 DEF TypeOK, FlagType, CountType, PhaseType, DataType
  <2>2. CleanupOnce' /\ MainInv'
    BY <1>4 DEF StopSpark, StreamInv, CleanupOnce, MainInv, Rejected, dataVars
  <2> QED
    BY <1>1, <2>1, <2>2, DataKept DEF StreamInv
<1>5. CASE Leave
  <2>1. TypeOK'
    BY <1>5 DEF Leave, StreamInv, TypeOK, dataVars
  <2>2. CleanupOnce' /\ MainInv'
    BY <1>5 DEF Leave, StreamInv, TypeOK, CleanupOnce, MainInv, dataVars
  <2> QED
    BY <1>1, <2>1, <2>2, DataKept DEF StreamInv
<1> QED
  BY <1>2, <1>3, <1>4, <1>5

\* Signals and crashes: the process goes on, unwinds, or is gone with its query.
LEMMA SignalSafe ==
  ASSUME StreamInv, Sigterm \/ Sigint \/ Crash
  PROVE  StreamInv'
<1> USE DEF SetShutdown, Killed, Die
<1>1. UNCHANGED dataVars
  BY DEF Sigterm, Sigint, Crash
<1>2. CASE Sigterm
  <2>1. TypeOK'
    <3>1. FlagType'
      BY <1>2, TypeByParts DEF Sigterm, StreamInv, FlagType
    <3>2. CountType'
      BY <1>2, TypeByParts DEF Sigterm, StreamInv, CountType, dataVars
    <3>3. PhaseType'
      BY <1>2, TypeByParts DEF Sigterm, StreamInv, PhaseType
    <3>4. DataType'
      BY <1>2, TypeByParts DEF Sigterm, StreamInv, DataType, dataVars
    <3> QED
      BY <3>1, <3>2, <3>3, <3>4 DEF TypeOK, FlagType, CountType, PhaseType, DataType
  <2>2. CleanupOnce' /\ MainInv'
    BY <1>2 DEF Sigterm, StreamInv, CleanupOnce, MainInv, Rejected, dataVars
  <2> QED
    BY <1>1, <2>1, <2>2, DataKept DEF StreamInv
<1>3. CASE Sigint
  <2>1. TypeOK'
    <3>1. FlagType'
      BY <1>3, TypeByParts DEF Sigint, StreamInv, FlagType
    <3>2. CountType'
      BY <1>3, TypeByParts DEF Sigint, StreamInv, CountType, dataVars
    <3>3. PhaseType'
      BY <1>3, TypeByParts DEF Sigint, StreamInv, PhaseType
    <3>4. DataType'
      BY <1>3, TypeByParts DEF Sigint, StreamInv, DataType, dataVars
    <3> QED
      BY <3>1, <3>2, <3>3, <3>4 DEF TypeOK, FlagType, CountType, PhaseType, DataType
  <2>2. CleanupOnce' /\ MainInv'
    BY <1>3 DEF Sigint, StreamInv, CleanupOnce, MainInv, Rejected, dataVars
  <2> QED
    BY <1>1, <2>1, <2>2, DataKept DEF StreamInv
<1>4. CASE Crash
  <2>1. TypeOK'
    BY <1>4 DEF Crash, StreamInv, TypeOK, dataVars
  <2>2. CleanupOnce' /\ MainInv'
    BY <1>4 DEF Crash, StreamInv, CleanupOnce, MainInv, Rejected, dataVars
  <2> QED
    BY <1>1, <2>1, <2>2, DataKept DEF StreamInv
<1> QED
  BY <1>2, <1>3, <1>4

-----------------------------------------------------------------------------
(* The query                                                               *)

\* What is known of the checkpoint the query works on.
LEMMA CheckpointType ==
  ASSUME StreamInv
  PROVE  /\ store["quality-v2"] \in [first : Nat \cup {None}, ends : Seq(Nat), done : Nat]
         /\ produced \in Nat /\ table \in Seq(Batches) /\ Len(table) \in Nat
         /\ "quality-v2" \in Directories
  BY DEF StreamInv, TypeOK, Directories

\* The initial offset is resolved when nothing is planned.
LEMMA ResolveSafe ==
  ASSUME PlainNames, StreamInv, ResolveStart
  PROVE  StreamInv'
<1> DEFINE c == store["quality-v2"]
           d == store'["quality-v2"]
<1>1. Dir = "quality-v2" /\ schema = "quality"
  BY CanonicalDirectory DEF ResolveStart
<1>2. /\ store' = [store EXCEPT !["quality-v2"].first = produced]
      /\ c.first = None /\ c.ends = <<>>
  BY <1>1 DEF ResolveStart, Here, StreamInv, BatchInv
<1>3. /\ d = [c EXCEPT !.first = produced] /\ d.ends = <<>> /\ d.done = c.done
      /\ d.first = produced
  BY <1>2, CheckpointType DEF StreamInv, TypeOK
<1>4. \A e \in Directories \ {"quality-v2"} : store'[e] = store[e]
  BY <1>2 DEF StreamInv, TypeOK
<1>5. table = <<>> /\ c.done = 0
  BY <1>2, CheckpointType DEF StreamInv, BatchInv
<1>6. TypeOK'
  <2>1. c.first \in Nat \cup {None} /\ d \in [first : Nat \cup {None}, ends : Seq(Nat), done : Nat]
    BY <1>3, CheckpointType
  <2>2. DataType'
    BY <1>2, <2>1, TypeByParts DEF ResolveStart, StreamInv, DataType
  <2>3. FlagType' /\ CountType' /\ PhaseType'
    BY TypeByParts DEF ResolveStart, StreamInv, FlagType, CountType, PhaseType, mainVars
  <2> QED
    BY <2>2, <2>3 DEF TypeOK, FlagType, CountType, PhaseType, DataType
<1>7. CleanupOnce' /\ MainInv'
  BY DEF ResolveStart, StreamInv, CleanupOnce, MainInv, Rejected, mainVars
<1>8. BatchInv'
  BY <1>3, <1>4, <1>5, CheckpointType DEF ResolveStart, StreamInv, BatchInv, None
<1>9. AppendedOnce' /\ NoStartBeforeSchema'
  BY <1>1, <1>5 DEF ResolveStart, AppendedOnce, NoStartBeforeSchema
<1>10. ProgressInTable'
  BY <1>3, <1>4, <1>5 DEF ResolveStart, StreamInv, BatchInv, ProgressInTable
<1> QED
  BY <1>6, <1>7, <1>8, <1>9, <1>10 DEF StreamInv

\* A batch is planned when all planned ones are done.
LEMMA PlanSafe ==
  ASSUME PlainNames, StreamInv, PlanBatch
  PROVE  StreamInv'
<1> DEFINE c == store["quality-v2"]
           d == store'["quality-v2"]
<1>1. Dir = "quality-v2" /\ schema = "quality"
  BY CanonicalDirectory DEF PlanBatch
<1>2. /\ store' = [store EXCEPT !["quality-v2"].ends = Append(@, produced)]
      /\ c.first # None /\ c.done = Len(c.ends)
  BY <1>1 DEF PlanBatch, Here
<1>3. /\ d.ends = Append(c.ends, produced) /\ d.done = c.done /\ d.first = c.first
      /\ d \in [first : Nat \cup {None}, ends : Seq(Nat), done : Nat]
  <2>1. d = [c EXCEPT !.ends = Append(c.ends, produced)]
    BY <1>2, CheckpointType DEF StreamInv, TypeOK
  <2>2. Append(c.ends, produced) \in Seq(Nat)
    BY CheckpointType
  <2> QED
    BY <2>1, <2>2, CheckpointType
<1>4. \A e \in Directories \ {"quality-v2"} : store'[e] = store[e]
  BY <1>2 DEF StreamInv, TypeOK
<1>5. /\ Len(d.ends) = Len(c.ends) + 1 /\ Len(c.ends) \in Nat
      /\ \A i \in 1 .. Len(c.ends) : d.ends[i] = c.ends[i]
  BY <1>3, CheckpointType
<1>6. Len(table) = Len(c.ends) /\ DOMAIN table = 1 .. Len(table)
  BY <1>2, <1>5, CheckpointType DEF StreamInv, BatchInv
<1>7. TypeOK'
  <2>1. DataType'
    BY <1>2, <1>3, TypeByParts DEF PlanBatch, StreamInv, DataType
  <2>2. FlagType' /\ CountType' /\ PhaseType'
    BY TypeByParts DEF PlanBatch, StreamInv, FlagType, CountType, PhaseType, mainVars
  <2> QED
    BY <2>1, <2>2 DEF TypeOK, FlagType, CountType, PhaseType, DataType
<1>8. CleanupOnce' /\ MainInv'
  BY DEF PlanBatch, StreamInv, CleanupOnce, MainInv, Rejected, mainVars
<1>9. BatchInv'
  <2>1. /\ d.first # None
        /\ d.done <= Len(table) /\ Len(table) <= Len(d.ends) /\ Len(d.ends) <= d.done + 1
    BY <1>2, <1>3, <1>5, <1>6
  <2>2. ASSUME NEW i \in DOMAIN table
        PROVE  table[i] = BatchRow(d.first, d.ends, i)
    <3>1. table[i] = BatchRow(c.first, c.ends, i)
      BY DEF StreamInv, BatchInv
    <3>2. d.ends[i] = c.ends[i] /\ (i # 1 => d.ends[i - 1] = c.ends[i - 1])
      <4>1. PICK n \in Nat : n = Len(c.ends)
        BY <1>5
      <4>2. i \in 1 .. n /\ (i # 1 => i - 1 \in 1 .. n)
        BY <1>6, <4>1
      <4> QED
        BY <1>5, <4>1, <4>2
    <3> QED
      BY <1>3, <3>1, <3>2 DEF BatchRow
  <2>3. \A e \in Directories \ {"quality-v2"} : store'[e].done = 0
    BY <1>4 DEF StreamInv, BatchInv
  <2> QED
    BY <2>1, <2>2, <2>3 DEF PlanBatch, BatchInv
<1>10. AppendedOnce' /\ NoStartBeforeSchema'
  BY <1>1 DEF PlanBatch, StreamInv, AppendedOnce, NoStartBeforeSchema
<1>11. ProgressInTable'
  <2>1. \A e \in Directories : store'[e].done = store[e].done
    BY <1>3, <1>4
  <2> QED
    BY <2>1 DEF PlanBatch, StreamInv, ProgressInTable, Appended
<1> QED
  BY <1>7, <1>8, <1>9, <1>10, <1>11 DEF StreamInv

\* The planned batch is appended once: its range follows that of the one before.
LEMMA AppendSafe ==
  ASSUME PlainNames, StreamInv, AppendBatch
  PROVE  StreamInv'
<1>1. Dir = "quality-v2" /\ schema = "quality"
  BY CanonicalDirectory DEF AppendBatch
<1>2. PICK c \in [first : Nat \cup {None}, ends : Seq(Nat), done : Nat] :
        c = store["quality-v2"]
  BY CheckpointType
<1>3. PICK n \in Nat : n = Len(c.ends)
  OBVIOUS
<1>4. /\ table' = Append(table, BatchRow(c.first, c.ends, n))
      /\ c.done < n /\ ~Appended("quality-v2", n)
  BY <1>1, <1>2, <1>3 DEF AppendBatch, Here, Batch, BatchRow
<1>5. /\ c.done <= Len(table) /\ Len(table) <= n /\ n <= c.done + 1
      /\ c.first = None => c.ends = <<>>
      /\ \A i \in DOMAIN table : table[i] = BatchRow(c.first, c.ends, i)
  BY <1>2, <1>3 DEF StreamInv, BatchInv
<1>6. DOMAIN table = 1 .. Len(table) /\ Len(table) \in Nat
  BY CheckpointType
<1>7. Len(table) # n
  <2> SUFFICES ASSUME Len(table) = n PROVE FALSE
    OBVIOUS
  <2>1. n \in DOMAIN table
    BY <1>4, <1>6
  <2>2. table[n].dir = "quality-v2" /\ table[n].batch = n
    BY <1>5, <2>1 DEF BatchRow
  <2> QED
    BY <1>4, <2>1, <2>2 DEF Appended
<1>8. Len(table) = n - 1 /\ n \in Nat \ {0} /\ c.first \in Nat
  <2>1. c.done \in Nat /\ c.first \in Nat \cup {None}
    BY <1>2
  <2>2. n > 0
    BY <1>4, <2>1
  <2>3. c.ends # <<>>
    BY <1>3, <2>2
  <2>4. Len(table) = n - 1
    <3>1. PICK m \in Nat : m = Len(table)
      BY <1>6
    <3>2. PICK k \in Nat : k = c.done
      BY <2>1
    <3>3. k <= m /\ m <= n /\ n <= k + 1 /\ m # n /\ k < n
      BY <1>4, <1>5, <1>7, <3>1, <3>2
    <3>4. m = n - 1
      BY <3>3
    <3> QED
      BY <3>1, <3>4
  <2> QED
    BY <1>5, <2>1, <2>2, <2>3, <2>4
<1>9. /\ table' \in Seq(Batches) /\ DOMAIN table' = 1 .. n /\ Len(table') = n
      /\ \A i \in 1 .. n : table'[i] = BatchRow(c.first, c.ends, i)
      /\ \A i \in 1 .. n - 1 : table'[i + 1].from = table'[i].to
      /\ \A i \in 1 .. n - 1 : table'[i] = table[i]
  <2>1. PICK t \in Seq(Batches) : t = table
    BY CheckpointType
  <2>2. PICK u : u = table'
    OBVIOUS
  <2>3. PICK ends \in Seq(Nat) : ends = c.ends /\ Len(ends) = n
    BY <1>2, <1>3
  <2>4. PICK first \in Nat : first = c.first
    BY <1>8
  <2>5. /\ Len(t) = n - 1 /\ u = Append(t, BatchRow(first, ends, n))
        /\ \A i \in 1 .. n - 1 : t[i] = BatchRow(first, ends, i)
    BY <1>4, <1>5, <1>6, <1>8, <2>1, <2>2, <2>3, <2>4
  <2>6. \A i \in 1 .. n : ends[i] \in Nat
    BY <2>3
  <2>7. BatchRow(first, ends, n) \in Batches
    <3>1. n # 1 => n - 1 \in 1 .. n
      BY <1>8
    <3> QED
      BY <1>8, <2>6, <3>1 DEF BatchRow, Batches, Directories
  <2>8. /\ u \in Seq(Batches) /\ Len(u) = Len(t) + 1
        /\ \A i \in 1 .. Len(t) : u[i] = t[i]
        /\ u[Len(t) + 1] = BatchRow(first, ends, n)
    BY ONLY t \in Seq(Batches), <2>5, <2>7
  <2>9. Len(u) = n /\ DOMAIN u = 1 .. n
    BY <1>8, <2>5, <2>8
  <2>10. \A i \in 1 .. n : u[i] = BatchRow(first, ends, i)
    BY <1>8, <2>5, <2>8
  <2>11. ASSUME NEW i \in 1 .. n - 1 PROVE u[i + 1].from = u[i].to
    <3>1. u[i + 1] = BatchRow(first, ends, i + 1) /\ u[i] = BatchRow(first, ends, i)
      BY <1>8, <2>10
    <3>2. i + 1 # 1 /\ (i + 1) - 1 = i
      BY <1>8
    <3> QED
      BY <3>1, <3>2 DEF BatchRow
  <2>12. \A i \in 1 .. n - 1 : u[i] = t[i]
    BY <2>5, <2>8
  <2> QED
    BY <2>1, <2>2, <2>3, <2>4, <2>8, <2>9, <2>10, <2>11, <2>12
<1>10. TypeOK'
  <2>1. DataType'
    BY <1>9, TypeByParts DEF AppendBatch, StreamInv, DataType
  <2>2. FlagType' /\ CountType' /\ PhaseType'
    BY TypeByParts DEF AppendBatch, StreamInv, FlagType, CountType, PhaseType, mainVars
  <2> QED
    BY <2>1, <2>2 DEF TypeOK, FlagType, CountType, PhaseType, DataType
<1>11. CleanupOnce' /\ MainInv'
  BY DEF AppendBatch, StreamInv, CleanupOnce, MainInv, Rejected, mainVars
<1>12. BatchInv'
  BY <1>2, <1>3, <1>4, <1>5, <1>9 DEF AppendBatch, StreamInv, BatchInv
<1>13. AppendedOnce'
  BY <1>9 DEF AppendedOnce
<1>14. NoStartBeforeSchema' /\ ProgressInTable'
  <2>1. ASSUME NEW e \in Directories, NEW b, Appended(e, b) PROVE Appended(e, b)'
    <3>1. PICK i \in DOMAIN table : table[i].dir = e /\ table[i].batch = b
      BY <2>1 DEF Appended
    <3>2. i \in 1 .. n - 1 /\ i \in 1 .. n
      BY <1>6, <1>8
    <3> QED
      BY <1>9, <3>1, <3>2 DEF Appended
  <2> QED
    BY <2>1 DEF AppendBatch, StreamInv, NoStartBeforeSchema, ProgressInTable
<1> QED
  BY <1>10, <1>11, <1>12, <1>13, <1>14 DEF StreamInv

\* Progress is recorded for a batch that is in the table.
LEMMA FinishSafe ==
  ASSUME PlainNames, StreamInv, FinishBatch
  PROVE  StreamInv'
<1>1. Dir = "quality-v2" /\ schema = "quality"
  BY CanonicalDirectory DEF FinishBatch
<1>2. PICK c \in [first : Nat \cup {None}, ends : Seq(Nat), done : Nat] :
        c = store["quality-v2"]
  BY CheckpointType
<1>3. PICK n \in Nat : n = Len(c.ends)
  OBVIOUS
<1>4. /\ store' = [store EXCEPT !["quality-v2"].done = n]
      /\ c.done < n /\ Appended("quality-v2", n)
  BY <1>1, <1>2, <1>3 DEF FinishBatch, Here
<1>5. /\ store'["quality-v2"] = [c EXCEPT !.done = n]
      /\ \A e \in Directories \ {"quality-v2"} : store'[e] = store[e]
  BY <1>2, <1>4 DEF StreamInv, TypeOK, Directories
<1>6. /\ Len(table) <= n
      /\ c.first = None => c.ends = <<>>
      /\ \A i \in DOMAIN table : table[i] = BatchRow(c.first, c.ends, i)
      /\ \A e \in Directories \ {"quality-v2"} : store[e].done = 0
  BY <1>2, <1>3 DEF StreamInv, BatchInv
<1>7. DOMAIN table = 1 .. Len(table) /\ Len(table) \in Nat
  BY CheckpointType
<1>8. Len(table) = n
  <2>1. PICK i \in DOMAIN table : table[i].batch = n
    BY <1>4 DEF Appended
  <2>2. table[i].batch = i
    BY <1>6 DEF BatchRow
  <2>3. n \in 1 .. Len(table)
    BY <1>7, <2>1, <2>2
  <2>4. PICK m \in Nat : m = Len(table)
    BY <1>7
  <2>5. m <= n /\ n \in 1 .. m
    BY <1>6, <2>3, <2>4
  <2> QED
    BY <2>4, <2>5
<1>9. TypeOK'
  <2>1. [c EXCEPT !.done = n] \in [first : Nat \cup {None}, ends : Seq(Nat), done : Nat]
    OBVIOUS
  <2>2. DataType'
    BY <1>4, <1>5, <2>1, TypeByParts DEF FinishBatch, StreamInv, DataType
  <2>3. FlagType' /\ CountType' /\ PhaseType'
    BY TypeByParts DEF FinishBatch, StreamInv, FlagType, CountType, PhaseType, mainVars
  <2> QED
    BY <2>2, <2>3 DEF TypeOK, FlagType, CountType, PhaseType, DataType
<1>10. CleanupOnce' /\ MainInv'
  BY DEF FinishBatch, StreamInv, CleanupOnce, MainInv, Rejected, mainVars
<1>11. BatchInv'
  <2> DEFINE d == store'["quality-v2"]
  <2>1. d.done = n /\ d.ends = c.ends /\ d.first = c.first
    BY <1>2, <1>5
  <2>2. d.first = None => d.ends = <<>>
    BY <1>6, <2>1
  <2>3. d.done <= Len(table) /\ Len(table) <= Len(d.ends) /\ Len(d.ends) <= d.done + 1
    BY <1>3, <1>8, <2>1
  <2>4. \A i \in DOMAIN table : table[i] = BatchRow(d.first, d.ends, i)
    BY <1>6, <2>1
  <2>5. \A e \in Directories \ {"quality-v2"} : store'[e].done = 0
    BY <1>5, <1>6
  <2> HIDE DEF d
  <2> QED
    BY <2>2, <2>3, <2>4, <2>5 DEF FinishBatch, BatchInv, d
<1>12. AppendedOnce' /\ NoStartBeforeSchema'
  BY <1>1 DEF FinishBatch, StreamInv, AppendedOnce, NoStartBeforeSchema
<1>13. ProgressInTable'
  <2>1. ASSUME NEW b \in 1 .. n PROVE Appended("quality-v2", b)
    <3>1. b \in DOMAIN table
      BY <1>7, <1>8
    <3>2. table[b].dir = "quality-v2" /\ table[b].batch = b
      BY <1>6, <3>1 DEF BatchRow
    <3> QED
      BY <3>1, <3>2 DEF Appended
  <2>2. /\ store'["quality-v2"].done = n
        /\ \A e \in Directories \ {"quality-v2"} : store'[e].done = 0
    BY <1>2, <1>5, <1>6
  <2>3. \A e \in Directories : \A b \in 1 .. store'[e].done : Appended(e, b)
    BY <2>1, <2>2
  <2> QED
    BY <2>3 DEF FinishBatch, ProgressInTable, Appended
<1> QED
  BY <1>9, <1>10, <1>11, <1>12, <1>13 DEF StreamInv

\* A failed query, new records and the migration disturb nothing.
LEMMA AroundSafe ==
  ASSUME StreamInv, QueryFails \/ Produce \/ Migrate
  PROVE  StreamInv'
<1> USE DEF mainVars, dataVars
<1>1. TypeOK'
  BY DEF QueryFails, Produce, Migrate, StreamInv, TypeOK
<1>2. CleanupOnce' /\ MainInv'
  BY DEF QueryFails, Produce, Migrate, StreamInv, CleanupOnce, MainInv, Rejected
<1>3. UNCHANGED <<store, table>> /\ (schema = "quality" => schema' = "quality")
  BY DEF QueryFails, Produce, Migrate
<1>4. BatchInv' /\ AppendedOnce' /\ ProgressInTable' /\ NoStartBeforeSchema'
  BY <1>3 DEF StreamInv, BatchInv, AppendedOnce, ProgressInTable, NoStartBeforeSchema,
              Appended
<1> QED
  BY <1>1, <1>2, <1>4 DEF StreamInv

-----------------------------------------------------------------------------
(* Theorems                                                                *)

\* Every step keeps the invariant.
LEMMA NextSafe ==
  ASSUME PlainNames, StreamInv, [Next]_vars
  PROVE  StreamInv'
<1>1. CASE UNCHANGED vars
  <2>1. TypeOK' /\ CleanupOnce' /\ MainInv'
    BY <1>1 DEF vars, mainVars, dataVars, StreamInv, TypeOK, CleanupOnce, MainInv, Rejected
  <2> QED
    BY <1>1, <2>1, DataKept DEF vars, StreamInv
<1>2. CASE Next
  BY <1>2, StartSafe, QuerySafe, CleanupSafe, SignalSafe, ResolveSafe, PlanSafe,
     AppendSafe, FinishSafe, AroundSafe DEF Next, Main, Engine
<1> QED
  BY <1>1, <1>2

\* The invariant holds across signals, crashes, restarts and failed queries.
THEOREM StreamSafe ==
  ASSUME PlainNames
  PROVE  Spec => []StreamInv
  BY StreamInit, NextSafe, PTL DEF Spec

\* Every offset from the first one on is appended once, and none is skipped.
THEOREM OffsetsAppendedOnce ==
  ASSUME PlainNames
  PROVE  Spec => []AppendedOnce
<1>1. StreamInv => AppendedOnce
  BY DEF StreamInv
<1> QED
  BY <1>1, StreamSafe, PTL

\* What the checkpoint counts as done is in the table.
THEOREM ProgressIsInTable ==
  ASSUME PlainNames
  PROVE  Spec => []ProgressInTable
<1>1. StreamInv => ProgressInTable
  BY DEF StreamInv
<1> QED
  BY <1>1, StreamSafe, PTL

\* A known query is stopped before Spark is.
THEOREM QueriesStopFirst ==
  ASSUME PlainNames
  PROVE  Spec => QueryStoppedFirst
<1>1. StreamInv /\ [Next]_vars
        => [spark = "running" /\ spark' = "stopped" /\ handle
              => query # "active" \/ stopFailed]_vars
  <2> SUFFICES ASSUME StreamInv, Next, spark = "running", spark' = "stopped", handle
               PROVE  query # "active" \/ stopFailed
    OBVIOUS
  <2>1. StopSpark
    BY DEF Next, Start, Main, CheckSchema, CreateQuery, QueryReturned, InstallHandlers,
       Poll, Await, StopQuery, StopQueryUnreachable, Leave, Die, Sigterm, Sigint,
       Crash, Killed, SetShutdown, Engine, ResolveStart, PlanBatch, AppendBatch,
       FinishBatch, QueryFails, Produce, Migrate
  <2> QED
    BY <2>1 DEF StopSpark, StreamInv, MainInv
<1> QED
  BY <1>1, StreamSafe, PTL DEF Spec, QueryStoppedFirst

\* The first error is the one the process ends with.
THEOREM FirstErrorStays ==
  ASSUME PlainNames
  PROVE  Spec => FirstErrorKept
<1>1. StreamInv /\ [Next]_vars => [error # "none" /\ pc # "down" => error' = error]_vars
  <2> SUFFICES ASSUME StreamInv, Next, error # "none", pc # "down"
               PROVE  error' = error
    OBVIOUS
  <2>1. pc \in {"stopQuery", "stopSpark", "leave"}
    BY DEF StreamInv, TypeOK, MainInv
  <2> QED
    BY <2>1 DEF Next, Start, Main, CheckSchema, CreateQuery, QueryReturned,
       InstallHandlers, Poll, Await, StopQuery, StopQueryUnreachable, StopSpark, Leave,
       Goto, Sigterm, Sigint, Crash, Killed, SetShutdown, Engine, ResolveStart,
       PlanBatch, AppendBatch, FinishBatch, QueryFails, Produce, Migrate, mainVars
<1> QED
  BY <1>1, StreamSafe, PTL DEF Spec, FirstErrorKept

\* No initial offset is resolved before the table has the quality schema.
THEOREM NoEarlyStart ==
  ASSUME PlainNames
  PROVE  Spec => []NoStartBeforeSchema
<1>1. StreamInv => NoStartBeforeSchema
  BY DEF StreamInv
<1> QED
  BY <1>1, StreamSafe, PTL
=============================================================================
