----------------------- MODULE BinanceProducer_proofs -----------------------
(***************************************************************************)
(* Proofs about the Binance producer, for every delay, every buffer size   *)
(* and every bound.                                                        *)
(***************************************************************************)
EXTENDS BinanceProducer, Recursion, SequenceTheorems, TLAPS

-----------------------------------------------------------------------------
(* What a step keeps                                                       *)

\* A step that appends and confirms nothing keeps what Kafka holds.
LEMMA TopicKept ==
  ASSUME ProducerInv, UNCHANGED <<log, acked>>
  PROVE  LogInOrder' /\ NoGapInSession' /\ AckedInLog'
  BY DEF ProducerInv, LogInOrder, NoGapInSession, AckedInLog, NotAfter

\* A step of a live process that does not end it promises nothing yet.
LEMMA StillRunning ==
  ASSUME ProducerInv, pc # "exited", UNCHANGED exit
  PROVE  NothingHalfPublished' /\ SigtermExitDrained'
  BY DEF ProducerInv, UnwindInv, NothingHalfPublished, SigtermExitDrained

\* A step that touches no message and does not begin or end a publication keeps
\* what is known of the current trade.
LEMMA TradeKept ==
  ASSUME ProducerInv, UNCHANGED <<queued, wire, copies, log, acked, session, received>>,
         ~failed' => ~failed,
         \/ pc' = pc
         \/ pc # "publish" /\ pc' # "publish" /\ (pc' = "recv" => pc = "recv")
  PROVE  PublishInv'
  BY DEF ProducerInv, PublishInv, NotAfter

\* In a session that goes on, a trade stays a trade.
LEMMA SameTrades ==
  ASSUME ProducerInv, UNCHANGED <<session, queued, wire, log, acked>>
  PROVE  /\ queued' \subseteq Trades' /\ wire' \subseteq Trades' /\ acked' \subseteq Trades'
         /\ log' \in Seq(Trades')
  BY DEF ProducerInv, TypeOK, Trades

\* An incident counts one more attempt.
LEMMA DisconnectedType ==
  ASSUME ProducerInv, Disconnected
  PROVE  delay' \in Nat \ {0} /\ awaiting' \in BOOLEAN /\ attempt' \in Nat /\ losses' \in Nat
  BY DEF Disconnected, ProducerInv, TypeOK

\* The counters are natural numbers.
LEMMA CounterType ==
  ASSUME ProducerInv
  PROVE  /\ term \in Nat /\ intr \in Nat /\ terms \in Nat /\ ints \in Nat
         /\ connects \in Nat
  BY DEF ProducerInv, TypeOK

\* The smaller of two positive delays is a positive delay.
LEMMA SmallerType ==
  ASSUME NEW a \in Nat \ {0}, NEW b \in Nat \ {0}
  PROVE  Smaller(a, b) \in Nat \ {0}
  BY DEF Smaller

\* The invariant holds when the process starts.
LEMMA ProducerInit == Init => ProducerInv
<1> SUFFICES ASSUME Init PROVE ProducerInv
  OBVIOUS
<1>1. TypeOK
  <2>1. InitialDelay \in Nat \ {0} /\ log \in Seq(Trades)
    BY ProducerAssumption DEF ProducerAssumption, Init
  <2>2. /\ queued \subseteq Trades /\ wire \subseteq Trades /\ acked \subseteq Trades
        /\ open \subseteq 1 .. session
    BY DEF Init
  <2>3. {term, intr, terms, ints, connects} \subseteq Nat
    BY DEF Init
  <2>4. awaiting \in BOOLEAN /\ requested \in BOOLEAN /\ failed \in BOOLEAN
    BY DEF Init
  <2> QED
    BY <2>1, <2>2, <2>3, <2>4 DEF Init, TypeOK
<1>2. OneSession /\ UnwindInv
  BY DEF Init, OneSession, UnwindInv
<1>3. PublishInv
  BY DEF Init, PublishInv
<1>4. LogInOrder /\ NoGapInSession /\ AckedInLog
  BY DEF Init, LogInOrder, NoGapInSession, AckedInLog
<1>5. NothingHalfPublished /\ SigtermExitDrained
  BY DEF Init, NothingHalfPublished, SigtermExitDrained
<1> QED
  BY <1>1, <1>2, <1>3, <1>4, <1>5 DEF ProducerInv

-----------------------------------------------------------------------------
(* Sessions and reconnect                                                  *)

\* Setting up, and every step of a session that receives nothing.
LEMMA SessionSafe ==
  ASSUME ProducerInv,
         \/ StartRuntime \/ ConnectSucceeds \/ ConnectFails \/ FramesArrive
         \/ SessionLost \/ CloseDone \/ Wake
  PROVE  ProducerInv'
<1> USE DEF wsVars, backoffVars, kafkaVars, signalVars, endVars
<1>1. CASE StartRuntime
  <2>1. TypeOK'
    BY <1>1 DEF StartRuntime, ProducerInv, TypeOK, UnwindInv, PublishInv, Trades
  <2>2. OneSession'
    BY <1>1 DEF StartRuntime, ProducerInv, TypeOK, OneSession
  <2>3. UnwindInv'
    BY <1>1 DEF StartRuntime, ProducerInv, TypeOK, UnwindInv
  <2>4. PublishInv'
    BY <1>1, TradeKept DEF StartRuntime, ProducerInv, UnwindInv
  <2> QED
    BY <1>1, <2>1, <2>2, <2>3, <2>4, TopicKept, StillRunning DEF StartRuntime, ProducerInv
<1>2. CASE ConnectSucceeds
  <2>1. session \in Nat /\ session' = session + 1 /\ open' = {session'}
    BY <1>2 DEF ConnectSucceeds, OpenSession, ProducerInv, TypeOK, OneSession
  <2>3. TypeOK'
    <3>1. Trades \subseteq Trades'
      BY <2>1 DEF Trades
    <3>2. log \in Seq(Trades')
      BY <3>1 DEF ProducerInv, TypeOK
    <3> QED
      BY <1>2, <2>1, <3>1, <3>2 DEF ConnectSucceeds, OpenSession, ProducerInv, TypeOK
  <2>4. OneSession' /\ UnwindInv'
    BY <1>2, <2>1 DEF ConnectSucceeds, OpenSession, ProducerInv, OneSession, UnwindInv
  <2>2. PublishInv'
    <3>1. /\ pc' = "recv" /\ received' = 0 /\ wire = {} /\ queued = {}
          /\ UNCHANGED <<queued, wire, log, acked, failed>>
      BY <1>2 DEF ConnectSucceeds, OpenSession, ProducerInv, UnwindInv, PublishInv
    <3>2. ASSUME NEW i \in DOMAIN log PROVE NotAfter(log[i], <<session + 1, 0>>)
      <4>1. log[i][1] \in 1 .. session /\ log[i][2] \in Nat
        <5>1. log \in Seq(Trades)
          BY DEF ProducerInv, TypeOK
        <5>2. log[i] \in Trades
          BY <5>1, ElementOfSeq
        <5> QED
          BY <5>2 DEF Trades
      <4> QED
        BY <2>1, <4>1 DEF NotAfter
    <3> QED
      BY <2>1, <3>1, <3>2 DEF PublishInv
  <2> QED
    BY <1>2, <2>2, <2>3, <2>4, TopicKept, StillRunning
       DEF ConnectSucceeds, OpenSession, ProducerInv
<1>3. CASE ConnectFails
  <2>1. TypeOK'
    <3>1. connects' \in Nat
      BY <1>3, CounterType DEF ConnectFails
    <3>2. delay' \in Nat \ {0} /\ awaiting' \in BOOLEAN /\ attempt' \in Nat /\ losses' \in Nat
      BY <1>3, DisconnectedType DEF ConnectFails, ProducerInv, TypeOK
    <3>3. /\ pc' \in {"sleep", "finalize"} /\ exc' \in {exc, "fatal"}
          /\ failed' \in {failed, TRUE}
      BY <1>3 DEF ConnectFails
    <3>4. UNCHANGED <<wsVars, kafkaVars, signalVars, endVars>>
      BY <1>3 DEF ConnectFails
    <3>5. /\ pc' \in {"start", "connect", "recv", "publish", "closing", "sleep",
                     "finalize", "exited"}
          /\ exc' \in {"none", "transport", "fatal", "cancelled"}
          /\ failed' \in BOOLEAN
      BY <3>3 DEF ProducerInv, TypeOK
    <3>6. UNCHANGED Trades
      BY <3>4 DEF Trades
    <3> QED
      BY <3>1, <3>2, <3>4, <3>5, <3>6 DEF ProducerInv, TypeOK
  <2>2. OneSession'
    BY <1>3 DEF ConnectFails, Disconnected, ProducerInv, TypeOK, OneSession
  <2>3. UnwindInv'
    BY <1>3 DEF ConnectFails, Disconnected, ProducerInv, TypeOK, UnwindInv
  <2>4. PublishInv'
    BY <1>3, TradeKept DEF ConnectFails, Disconnected, ProducerInv, UnwindInv
  <2> QED
    BY <1>3, <2>1, <2>2, <2>3, <2>4, TopicKept, StillRunning DEF ConnectFails, ProducerInv
<1>4. CASE FramesArrive
  <2>1. TypeOK'
    <3>1. buffered' \in Nat
      BY <1>4, ProducerAssumption DEF ProducerAssumption, FramesArrive
    <3> QED
      BY <1>4, <3>1, SameTrades DEF FramesArrive, ProducerInv, TypeOK
  <2>2. OneSession'
    BY <1>4, ProducerAssumption DEF ProducerAssumption, FramesArrive, ProducerInv, TypeOK, OneSession
  <2>3. UnwindInv'
    BY <1>4, ProducerAssumption DEF ProducerAssumption, FramesArrive, ProducerInv, TypeOK, UnwindInv
  <2>4. PublishInv'
    BY <1>4, ProducerAssumption, TradeKept DEF ProducerAssumption, FramesArrive, ProducerInv, UnwindInv
  <2> QED
    BY <1>4, <2>1, <2>2, <2>3, <2>4, TopicKept, StillRunning DEF FramesArrive, ProducerInv
<1>5. CASE SessionLost
  <2>1. TypeOK'
    BY <1>5 DEF SessionLost, ProducerInv, TypeOK, UnwindInv, PublishInv, Trades
  <2>2. OneSession'
    BY <1>5 DEF SessionLost, ProducerInv, TypeOK, OneSession
  <2>3. UnwindInv'
    BY <1>5 DEF SessionLost, ProducerInv, TypeOK, UnwindInv
  <2>4. PublishInv'
    BY <1>5, TradeKept DEF SessionLost, ProducerInv, UnwindInv
  <2> QED
    BY <1>5, <2>1, <2>2, <2>3, <2>4, TopicKept, StillRunning DEF SessionLost, ProducerInv
<1>6. CASE CloseDone
  <2>1. TypeOK'
    <3>1. /\ open' \subseteq 1 .. session' /\ buffered' = 0
          /\ UNCHANGED <<kafkaVars, signalVars, endVars, session, received, connects, failed>>
      BY <1>6 DEF CloseDone, ProducerInv, TypeOK
    <3>2. CASE exc = "transport"
      BY <1>6, <3>1, <3>2, SameTrades, DisconnectedType DEF CloseDone, ProducerInv, TypeOK
    <3>3. CASE exc # "transport"
      BY <1>6, <3>1, <3>3, SameTrades DEF CloseDone, ProducerInv, TypeOK
    <3> QED
      BY <3>2, <3>3
  <2>2. OneSession'
    BY <1>6 DEF CloseDone, Disconnected, ProducerInv, TypeOK, OneSession
  <2>3. UnwindInv'
    BY <1>6 DEF CloseDone, Disconnected, ProducerInv, TypeOK, UnwindInv
  <2>4. PublishInv'
    BY <1>6, TradeKept DEF CloseDone, Disconnected, ProducerInv, UnwindInv
  <2> QED
    BY <1>6, <2>1, <2>2, <2>3, <2>4, TopicKept, StillRunning DEF CloseDone, ProducerInv
<1>7. CASE Wake
  <2>1. delay' \in Nat \ {0}
    <3>1. delay \in Nat \ {0} /\ 2 * delay \in Nat \ {0}
      BY DEF ProducerInv, TypeOK
    <3> QED
      BY <1>7, <3>1, SmallerType, ProducerAssumption DEF ProducerAssumption, Wake
  <2>2. TypeOK' /\ OneSession' /\ UnwindInv' /\ PublishInv'
    BY <1>7, <2>1 DEF Wake, ProducerInv, TypeOK, OneSession, UnwindInv, PublishInv,
                      Trades, NotAfter
  <2> QED
    BY <1>7, <2>2, TopicKept, StillRunning DEF Wake, ProducerInv
<1> QED
  BY <1>1, <1>2, <1>3, <1>4, <1>5, <1>6, <1>7

-----------------------------------------------------------------------------
(* Receive and publish                                                     *)

\* A trade is received when all before it are confirmed; it becomes the current
\* one, and is handed to Kafka or fatal.
LEMMA ReceiveSafe ==
  ASSUME ProducerInv, Receive
  PROVE  ProducerInv'
<1> USE DEF wsVars, backoffVars, kafkaVars, signalVars, endVars
<1>1. /\ pc = "recv" /\ received' = received + 1 /\ buffered' = buffered - 1
      /\ buffered > 0 /\ wire = {} /\ queued = {} /\ session > 0
      /\ UNCHANGED <<session, open, log, acked, exit>>
      /\ \A k \in 1 .. received : <<session, k>> \in acked
      /\ received \in Nat /\ session \in Nat
  BY DEF Receive, TakeFrame, ProducerInv, TypeOK, UnwindInv, PublishInv
<1>a. /\ received' \in Nat /\ received' - 1 = received /\ received' > 0
      /\ \A i \in DOMAIN log' : NotAfter(log'[i], <<session', received'>>)
      /\ \A k \in 1 .. received' - 1 : <<session', k>> \in acked'
  <2>1. ASSUME NEW i \in DOMAIN log PROVE NotAfter(log[i], <<session, received + 1>>)
    <3>1. log[i][1] \in Nat /\ log[i][2] \in Nat
      BY ElementOfSeq DEF ProducerInv, TypeOK, Trades
    <3>2. NotAfter(log[i], <<session, received>>)
      BY DEF ProducerInv, PublishInv
    <3> QED
      BY <1>1, <3>1, <3>2 DEF NotAfter
  <2> QED
    BY <1>1, <2>1
<1>2. CASE Fatal /\ UNCHANGED <<queued, wire, copies>>
  <2>1. TypeOK' /\ OneSession' /\ UnwindInv'
    BY <1>1, <1>2 DEF Receive, TakeFrame, Fatal, ProducerInv, TypeOK, OneSession,
                      UnwindInv, Trades
  <2>2. PublishInv'
    BY <1>1, <1>2, <1>a DEF Fatal, PublishInv
  <2> QED
    BY <1>1, <2>1, <2>2, TopicKept, StillRunning DEF ProducerInv
<1>3. CASE ~Fatal
  <2>1. /\ pc' = "publish" /\ queued' = {<<session, received'>>} /\ wire' = queued'
        /\ copies' = 0 /\ UNCHANGED <<exc, failed>>
    BY <1>3 DEF Receive
  <2>2. TypeOK' /\ OneSession' /\ UnwindInv'
    BY <1>1, <2>1 DEF Receive, TakeFrame, ProducerInv, TypeOK, OneSession,
                      UnwindInv, Trades
  <2>3. PublishInv'
    BY <1>1, <1>a, <2>1 DEF PublishInv
  <2> QED
    BY <1>1, <2>2, <2>3, TopicKept, StillRunning DEF ProducerInv
<1> QED
  BY <1>2, <1>3 DEF Receive, Fatal

\* The broker appends the current trade or nothing: no order and no trade before
\* it is disturbed, whenever the copy arrives.
LEMMA BrokerSafe ==
  ASSUME ProducerInv, BrokerAppends
  PROVE  ProducerInv'
<1> USE DEF wsVars, backoffVars, kafkaVars, signalVars, endVars
<1> DEFINE m == <<session, received>>
<1>1. wire = {m} /\ log' = Append(log, m) /\ copies' = copies + 1
  BY DEF BrokerAppends, ProducerInv, PublishInv
<1>2. /\ m \in Trades /\ log \in Seq(Trades) /\ log' \in Seq(Trades)
      /\ Len(log') = Len(log) + 1 /\ log'[Len(log) + 1] = m
      /\ \A i \in DOMAIN log : log'[i] = log[i]
      /\ DOMAIN log' = DOMAIN log \cup {Len(log) + 1}
  BY <1>1 DEF ProducerInv, TypeOK
<1>3. UNCHANGED <<pc, exc, session, open, received, buffered, backoffVars, queued, wire,
                  acked, signalVars, endVars, connects, failed>>
  BY DEF BrokerAppends
<1> HIDE DEF m
<1>4. TypeOK' /\ OneSession' /\ UnwindInv'
  <2>1. copies' \in Nat
    BY <1>1 DEF ProducerInv, TypeOK
  <2>2. Trades' = Trades
    BY <1>3 DEF Trades
  <2>3. TypeOK'
    BY <1>2, <1>3, <2>1, <2>2 DEF ProducerInv, TypeOK
  <2> QED
    BY <1>3, <2>3 DEF ProducerInv, OneSession, UnwindInv
<1>5. \A i \in DOMAIN log : NotAfter(log[i], m)
  BY DEF m, ProducerInv, PublishInv
<1>6. NotAfter(m, m) /\ session \in Nat /\ received \in Nat
  BY DEF m, NotAfter, ProducerInv, TypeOK
<1>7. \A i \in DOMAIN log' : NotAfter(log'[i], m)
  BY <1>2, <1>5, <1>6
<1>8. PublishInv'
  <2>1. \E i \in DOMAIN log' : log'[i] = m
    BY <1>2
  <2> QED
    BY <1>3, <1>7, <2>1 DEF m, ProducerInv, PublishInv, NotAfter
<1>9. LogInOrder'
  BY <1>2, <1>5, <1>7 DEF ProducerInv, LogInOrder
<1>10. NoGapInSession'
  <2>1. \A k \in 1 .. m[2] - 1 : <<m[1], k>> \in acked
    BY DEF m, ProducerInv, PublishInv
  <2> QED
    BY <1>2, <1>3, <2>1 DEF ProducerInv, NoGapInSession
<1>11. AckedInLog'
  BY <1>2, <1>3 DEF ProducerInv, AckedInLog
<1>12. NothingHalfPublished' /\ SigtermExitDrained'
  BY <1>3 DEF ProducerInv, NothingHalfPublished, SigtermExitDrained
<1> QED
  BY <1>4, <1>8, <1>9, <1>10, <1>11, <1>12 DEF ProducerInv

\* A confirmed trade is in Kafka, and only then does the next one come.
LEMMA DeliveredSafe ==
  ASSUME ProducerInv, Delivered
  PROVE  ProducerInv'
<1> USE DEF wsVars, backoffVars, kafkaVars, signalVars, endVars
<1>1. /\ pc = "publish" /\ pc' = "recv" /\ queued = {<<session, received>>}
      /\ received > 0 /\ received \in Nat /\ session > 0 /\ session \in Nat
      /\ acked' = acked \cup {<<session, received>>} /\ queued' = {} /\ wire' = {}
      /\ \E i \in DOMAIN log : log[i] = <<session, received>>
      /\ UNCHANGED <<exc, failed, session, open, received, buffered, log, exit>>
  BY DEF Delivered, ProducerInv, TypeOK, PublishInv
<1>2. TypeOK'
  <2>1. delay' \in Nat \ {0} /\ awaiting' \in BOOLEAN /\ attempt' \in Nat /\ losses' \in Nat
    <3>1. InitialDelay \in Nat \ {0}
      BY ProducerAssumption DEF ProducerAssumption
    <3>2. OnSuccess /\ delay \in Nat \ {0} /\ awaiting \in BOOLEAN /\ attempt \in Nat
      BY DEF Delivered, ProducerInv, TypeOK
    <3>3. CASE awaiting
      <4>1. delay' = InitialDelay /\ awaiting' = FALSE /\ attempt' = 0 /\ losses' = 0
        BY <3>2, <3>3, Zenon DEF OnSuccess
      <4> QED
        BY <3>1, <4>1
    <3>4. CASE ~awaiting
      BY <3>2, <3>4 DEF OnSuccess
    <3> QED
      BY <3>3, <3>4
  <2>2. acked' \subseteq Trades' /\ log' \in Seq(Trades')
    BY <1>1 DEF ProducerInv, TypeOK, Trades
  <2> QED
    BY <1>1, <2>1, <2>2 DEF Delivered, ProducerInv, TypeOK
<1>5. OneSession' /\ UnwindInv'
  BY <1>1 DEF Delivered, ProducerInv, TypeOK, OneSession, UnwindInv
<1>3. PublishInv'
  BY <1>1 DEF ProducerInv, PublishInv, NotAfter
<1>4. LogInOrder' /\ NoGapInSession' /\ AckedInLog'
  BY <1>1 DEF ProducerInv, LogInOrder, NoGapInSession, AckedInLog, NotAfter
<1> QED
  BY <1>1, <1>2, <1>3, <1>4, <1>5, StillRunning DEF ProducerInv

\* A failed delivery leaves the current trade where it is, and is fatal.
LEMMA DeliveryFailsSafe ==
  ASSUME ProducerInv, DeliveryFails
  PROVE  ProducerInv'
<1> USE DEF wsVars, backoffVars, kafkaVars, signalVars, endVars
<1>1. TypeOK' /\ OneSession' /\ UnwindInv'
  BY DEF DeliveryFails, Fatal, ProducerInv, TypeOK, OneSession, UnwindInv, Trades
<1>2. PublishInv'
  BY DEF DeliveryFails, Fatal, ProducerInv, PublishInv, NotAfter
<1> QED
  BY <1>1, <1>2, TopicKept, StillRunning DEF DeliveryFails, ProducerInv

-----------------------------------------------------------------------------
(* Signals and the end                                                     *)

\* A signal that arrives, and the cancellation it leads to, cut no trade off:
\* the task is never suspended while it publishes.
LEMMA SignalSafe ==
  ASSUME ProducerInv, SigtermArrives \/ SigintArrives \/ Cancel
  PROVE  ProducerInv'
<1> USE DEF wsVars, backoffVars, kafkaVars, signalVars, endVars
<1>1. CASE SigtermArrives
  <2>1. TypeOK'
    BY <1>1, SameTrades, CounterType DEF SigtermArrives, ProducerInv, TypeOK
  <2>2. OneSession'
    BY <1>1 DEF SigtermArrives, ProducerInv, TypeOK, OneSession
  <2>3. UnwindInv'
    BY <1>1 DEF SigtermArrives, ProducerInv, TypeOK, UnwindInv
  <2>4. PublishInv'
    BY <1>1, TradeKept DEF SigtermArrives, ProducerInv, UnwindInv
  <2>5. NothingHalfPublished' /\ SigtermExitDrained'
    BY <1>1 DEF SigtermArrives, ProducerInv, UnwindInv, NothingHalfPublished,
                SigtermExitDrained
  <2> QED
    BY <1>1, <2>1, <2>2, <2>3, <2>4, <2>5, TopicKept DEF SigtermArrives, ProducerInv
<1>2. CASE SigintArrives
  <2>1. TypeOK'
    BY <1>2, SameTrades, CounterType DEF SigintArrives, ProducerInv, TypeOK
  <2>2. OneSession'
    BY <1>2 DEF SigintArrives, ProducerInv, TypeOK, OneSession
  <2>3. UnwindInv'
    BY <1>2 DEF SigintArrives, ProducerInv, TypeOK, UnwindInv
  <2>4. PublishInv'
    BY <1>2, TradeKept DEF SigintArrives, ProducerInv, UnwindInv
  <2> QED
    BY <1>2, <2>1, <2>2, <2>3, <2>4, TopicKept, StillRunning DEF SigintArrives, ProducerInv
<1>3. CASE Cancel
  <2>1. TypeOK'
    BY <1>3 DEF Cancel, Suspended, Calm, ProducerInv, TypeOK, UnwindInv, PublishInv, Trades
  <2>2. OneSession'
    BY <1>3 DEF Cancel, Suspended, Calm, ProducerInv, TypeOK, OneSession
  <2>3. UnwindInv'
    <3>1. exc' = "cancelled" /\ intr' = 0 /\ pc' \in {"closing", "finalize"}
          /\ UNCHANGED <<failed, exit, ints>> /\ pc # "exited"
      BY <1>3 DEF Cancel, Suspended
    <3>2. ASSUME ints = 0 PROVE requested'
      <4>1. intr = 0 /\ term # 0
        BY <1>3, <3>2 DEF Cancel, Calm, ProducerInv, UnwindInv
      <4> QED
        <5>1. term > 0
          BY <4>1, CounterType
        <5> QED
          BY <1>3, <5>1, Zenon DEF Cancel
    <3> QED
      BY <3>1, <3>2 DEF ProducerInv, UnwindInv
  <2>4. PublishInv'
    BY <1>3, TradeKept DEF Cancel, Suspended, Calm, ProducerInv, UnwindInv
  <2> QED
    BY <1>3, <2>1, <2>2, <2>3, <2>4, TopicKept, StillRunning DEF Cancel, Suspended, ProducerInv
<1> QED
  BY <1>1, <1>2, <1>3

\* The final flush: what it leaves behind shows in the exit status of a process
\* that was asked to stop by SIGTERM alone.
LEMMA FinalFlushSafe ==
  ASSUME ProducerInv, FinalFlush
  PROVE  ProducerInv'
<1> USE DEF wsVars, backoffVars, kafkaVars, signalVars, endVars
<1>1. TypeOK' /\ OneSession' /\ UnwindInv' /\ PublishInv'
  BY DEF FinalFlush, RuntimeError, ExitOf, ProducerInv, TypeOK, OneSession,
         UnwindInv, PublishInv, Trades, NotAfter
<1>2. NothingHalfPublished'
  BY DEF FinalFlush, ProducerInv, PublishInv, NothingHalfPublished
<1>3. SigtermExitDrained'
  BY DEF FinalFlush, RuntimeError, ExitOf, ProducerInv, TypeOK, UnwindInv,
         SigtermExitDrained
<1> QED
  BY <1>1, <1>2, <1>3, TopicKept DEF FinalFlush, ProducerInv

-----------------------------------------------------------------------------
(* Theorems                                                                *)

\* Every step keeps the invariant.
LEMMA NextSafe ==
  ASSUME ProducerInv, [Next]_vars
  PROVE  ProducerInv'
<1>1. CASE UNCHANGED vars
  <2> USE <1>1 DEF vars, wsVars, backoffVars, kafkaVars, signalVars, endVars
  <2>1. TypeOK'
    BY SameTrades DEF ProducerInv, TypeOK
  <2>2. OneSession' /\ UnwindInv' /\ NothingHalfPublished' /\ SigtermExitDrained'
    BY DEF ProducerInv, OneSession, UnwindInv, NothingHalfPublished, SigtermExitDrained
  <2> QED
    BY <2>1, <2>2, TopicKept, TradeKept DEF ProducerInv
<1>2. CASE Next
  BY <1>2, SessionSafe, ReceiveSafe, BrokerSafe, DeliveredSafe, DeliveryFailsSafe,
     SignalSafe, FinalFlushSafe DEF Next, Run
<1> QED
  BY <1>1, <1>2

\* The invariant holds in every state of the producer: one session at a time, one
\* trade under way, and all safety properties below.
THEOREM ProducerSafe == Spec => []ProducerInv
  BY ProducerInit, NextSafe, PTL DEF Spec

\* Kafka holds the trades in the order of reception.
THEOREM LogAlwaysInOrder == Spec => []LogInOrder
<1>1. ProducerInv => LogInOrder
  BY DEF ProducerInv
<1> QED
  BY <1>1, ProducerSafe, PTL

\* Within a session nothing is skipped.
THEOREM NoGaps == Spec => []NoGapInSession
<1>1. ProducerInv => NoGapInSession
  BY DEF ProducerInv
<1> QED
  BY <1>1, ProducerSafe, PTL

\* A confirmed trade is in Kafka.
THEOREM ConfirmedIsInKafka == Spec => []AckedInLog
<1>1. ProducerInv => AckedInLog
  BY DEF ProducerInv
<1> QED
  BY <1>1, ProducerSafe, PTL

\* A clean shutdown leaves no received trade unconfirmed.
THEOREM NothingIsHalfPublished == Spec => []NothingHalfPublished
<1>1. ProducerInv => NothingHalfPublished
  BY DEF ProducerInv
<1> QED
  BY <1>1, ProducerSafe, PTL

\* A clean exit after SIGTERM alone has emptied the Kafka queue.
THEOREM SigtermDrains == Spec => []SigtermExitDrained
<1>1. ProducerInv => SigtermExitDrained
  BY DEF ProducerInv
<1> QED
  BY <1>1, ProducerSafe, PTL

\* After a fatal error no session is opened and nothing is handed to Kafka.
THEOREM FailuresAreFinal == Spec => FailureIsFinal
<1>1. ProducerInv /\ [Next]_vars
        => [failed => open' \subseteq open /\ queued' \subseteq queued]_vars
  <2> SUFFICES ASSUME ProducerInv, Next, failed
               PROVE  open' \subseteq open /\ queued' \subseteq queued
    OBVIOUS
  <2>1. pc \in {"closing", "finalize", "exited"}
    BY DEF ProducerInv, TypeOK, UnwindInv
  <2> QED
    BY <2>1 DEF Next, Run, StartRuntime, CloseDone, Wake, Receive, TakeFrame,
       Delivered, DeliveryFails, Cancel, FinalFlush, ConnectSucceeds, OpenSession,
       ConnectFails, FramesArrive, SessionLost, BrokerAppends, SigtermArrives,
       SigintArrives, wsVars, kafkaVars
<1> QED
  BY <1>1, ProducerSafe, PTL DEF Spec, FailureIsFinal

-----------------------------------------------------------------------------
(* The backoff                                                             *)

\* The recursive definition of the delays defines them.
LEMMA BackoffValues ==
  /\ Backoff[1] = InitialDelay
  /\ \A n \in Nat : n >= 1 => Backoff[n + 1] = Smaller(2 * Backoff[n], MaxDelay)
<1> DEFINE Rule(f) == [n \in Nat |-> IF n <= 1 THEN InitialDelay
                                      ELSE Smaller(2 * f[n - 1], MaxDelay)]
<1>1. PICK G : G = [x \in Nat \X Nat |-> IF x[2] = 0 THEN InitialDelay
                                         ELSE Smaller(2 * x[1], MaxDelay)]
  OBVIOUS
<1>2. InitialDelay \in Nat /\ MaxDelay \in Nat
  BY ProducerAssumption DEF ProducerAssumption
<1>3. \A x, k \in Nat : G[<<x, k>>] \in Nat
  BY <1>1, <1>2 DEF Smaller
<1>4. PICK f : Recurs(f, Nat, InitialDelay, G)
  BY <1>2, <1>3, RecursiveFunction
<1>5. f = Rule(f)
  <2>1. ASSUME NEW n \in Nat PROVE f[n] = Rule(f)[n]
    <3>1. CASE n = 0
      BY <1>4, <3>1 DEF Recurs
    <3>2. CASE n # 0
      <4>1. n - 1 \in Nat /\ n = (n - 1) + 1
        BY <3>2
      <4>2. f[n] = G[<<f[n - 1], n - 1>>] /\ f[n - 1] \in Nat
        BY <1>4, <4>1 DEF Recurs
      <4> QED
        BY <1>1, <4>1, <4>2
    <3> QED
      BY <3>1, <3>2
  <2>2. f \in [Nat -> Nat]
    BY <1>4 DEF Recurs
  <2> QED
    BY <2>1, <2>2
<1>6. Backoff = Rule(Backoff)
  <2>1. Backoff = CHOOSE g : g = Rule(g)
    BY DEF Backoff
  <2> QED
    BY <1>5, <2>1
<1>7. PICK b : b = Backoff
  OBVIOUS
<1>8. b = [n \in Nat |-> IF n <= 1 THEN InitialDelay ELSE Smaller(2 * b[n - 1], MaxDelay)]
  BY <1>6, <1>7
<1>9. ASSUME NEW n \in Nat, n >= 1 PROVE b[n + 1] = Smaller(2 * b[n], MaxDelay)
  <2>1. n + 1 \in Nat /\ ~ (n + 1 <= 1) /\ (n + 1) - 1 = n
    BY <1>9
  <2> QED
    BY <1>8, <2>1
<1>10. b[1] = InitialDelay
  BY <1>8
<1> QED
  BY <1>7, <1>9, <1>10

\* The inductive strengthening: the producer sleeps in an incident only.
BackoffInv == BackoffFollowsLosses /\ (pc = "sleep" => awaiting)

\* Every step of the producer keeps delay, attempt and losses in step.
LEMMA BackoffStep ==
  ASSUME ProducerInv, BackoffInv, [Next]_vars
  PROVE  BackoffInv'
<1> USE DEF wsVars, backoffVars, kafkaVars, signalVars, endVars
<1>1. /\ losses \in Nat /\ delay \in Nat \ {0} /\ attempt \in Nat
      /\ awaiting \in BOOLEAN
  BY DEF ProducerInv, TypeOK
<1>2. /\ attempt = losses /\ (awaiting <=> losses > 0)
      /\ pc = "sleep" => losses > 0 /\ delay = Backoff[losses]
      /\ pc \notin {"sleep", "finalize", "exited"} => delay = Backoff[losses + 1]
  BY DEF BackoffInv, BackoffFollowsLosses
<1>3. ASSUME UNCHANGED backoffVars,
             \/ pc' = pc \/ pc' \in {"finalize", "exited"}
             \/ pc \notin {"sleep", "finalize", "exited"} /\ pc' # "sleep"
      PROVE  BackoffInv'
  BY <1>2, <1>3 DEF BackoffInv, BackoffFollowsLosses
<1>4. ASSUME Disconnected, pc' = "sleep", pc \notin {"sleep", "finalize", "exited"}
      PROVE  BackoffInv'
  <2>1. attempt' = losses + 1 /\ awaiting' /\ losses' = losses + 1 /\ delay' = delay
    <3>1. attempt' = losses + 1
      BY <1>1, <1>2, <1>4 DEF Disconnected
    <3>2. awaiting'
      BY <1>4, Zenon DEF Disconnected
    <3> QED
      BY <1>4, <3>1, <3>2 DEF Disconnected
  <2> QED
    BY <1>1, <1>2, <1>4, <2>1 DEF BackoffInv, BackoffFollowsLosses
<1>5. CASE Wake
  <2>1. /\ pc = "sleep" /\ pc' = "connect" /\ losses \in Nat /\ losses >= 1
        /\ delay' = Backoff[losses + 1]
    BY <1>1, <1>2, <1>5, BackoffValues DEF Wake
  <2> QED
    BY <1>2, <1>5, <2>1 DEF Wake, BackoffInv, BackoffFollowsLosses
<1>6. CASE Delivered
  <2>1. pc = "publish" /\ pc' = "recv" /\ OnSuccess
    BY <1>6 DEF Delivered
  <2>2. attempt' = 0 /\ losses' = 0 /\ ~awaiting' /\ delay' = Backoff[1]
    <3>1. CASE awaiting
      BY <2>1, <3>1, BackoffValues DEF OnSuccess
    <3>2. CASE ~awaiting
      BY <1>1, <1>2, <2>1, <3>2 DEF OnSuccess
    <3> QED
      BY <3>1, <3>2
  <2> QED
    BY <2>1, <2>2 DEF BackoffInv, BackoffFollowsLosses
<1>7. CASE ConnectFails \/ CloseDone
  BY <1>3, <1>4, <1>7 DEF ConnectFails, CloseDone
<1>8. CASE UNCHANGED vars
  BY <1>3, <1>8 DEF vars
<1>9. CASE StartRuntime \/ ConnectSucceeds \/ FramesArrive \/ SessionLost \/ Receive
  BY <1>3, <1>9 DEF StartRuntime, ConnectSucceeds, OpenSession, FramesArrive, SessionLost,
                    Receive, TakeFrame, Fatal
<1>10. CASE DeliveryFails \/ BrokerAppends \/ SigtermArrives \/ SigintArrives
  BY <1>3, <1>10 DEF DeliveryFails, Fatal, BrokerAppends, SigtermArrives, SigintArrives
<1>11. CASE Cancel \/ FinalFlush
  BY <1>3, <1>11 DEF Cancel, FinalFlush
<1> QED
  BY <1>5, <1>6, <1>7, <1>8, <1>9, <1>10, <1>11 DEF Next, Run

\* Through all reconnects, deliveries and signals, delay and attempt are what the
\* number of losses since the last delivery makes them.
THEOREM BackoffIsExact == Spec => []BackoffFollowsLosses
<1>1. Init => BackoffInv
  <2> SUFFICES ASSUME Init PROVE BackoffInv
    OBVIOUS
  <2>1. /\ pc = "start" /\ delay = InitialDelay /\ ~awaiting /\ attempt = 0
        /\ losses = 0
    BY DEF Init
  <2>2. delay = Backoff[losses + 1]
    BY <2>1, BackoffValues
  <2> QED
    BY <2>1, <2>2 DEF BackoffInv, BackoffFollowsLosses
<1>2. ProducerInv /\ BackoffInv /\ [Next]_vars => BackoffInv'
  BY BackoffStep
<1>3. BackoffInv => BackoffFollowsLosses
  BY DEF BackoffInv
<1> QED
  BY <1>1, <1>2, <1>3, ProducerSafe, PTL DEF Spec
=============================================================================
