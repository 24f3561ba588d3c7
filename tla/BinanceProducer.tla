-------------------------- MODULE BinanceProducer --------------------------
(***************************************************************************)
(* The Binance producer (jobs/producer): one asyncio task that opens a     *)
(* WebSocket session, receives trades, publishes each one synchronously to *)
(* Kafka, reconnects with backoff after a transport failure, and on        *)
(* SIGTERM or SIGINT unwinds, flushes Kafka once and exits.                *)
(*                                                                         *)
(* The task gives the event loop control only where an await suspends: a   *)
(* cancellation takes effect there and nowhere else.  A trade is the pair  *)
(* of its session and its place in that session.                           *)
(***************************************************************************)
EXTENDS Integers, Sequences

CONSTANTS InitialDelay, \* producer.reconnect_delay_seconds
          MaxDelay,     \* producer.max_reconnect_delay_seconds
          BufferSize,   \* frames the WebSocket library holds for recv()
          MaxConnects,  \* bound on connection attempts
          MaxTrades,    \* bound on the trades of one session
          MaxCopies,    \* bound on the broker's copies of one message
          MaxSigterms,  \* bound on SIGTERMs
          MaxSigints    \* bound on SIGINTs (a second one is not modelled)

ASSUME ProducerAssumption ==
    /\ InitialDelay \in Nat \ {0} /\ MaxDelay \in Nat \ {0}
    /\ {BufferSize, MaxConnects, MaxTrades, MaxCopies, MaxSigterms} \subseteq Nat
    /\ MaxSigints \in {0, 1}

VARIABLES
    pc,          \* where the task is
    exc,         \* the exception unwinding it
    session,     \* number of the session opened last
    open,        \* sessions whose socket is open
    received,    \* trades recv() returned in this session
    buffered,    \* frames waiting for recv()
    delay,       \* reconnect_delay
    awaiting,    \* awaiting_recovery
    attempt,     \* reconnect_attempt
    queued,      \* messages in the Kafka client's queue
    wire,        \* messages the broker may still append
    copies,      \* how often the broker appended the current one
    log,         \* the Kafka topic
    acked,       \* messages whose delivery callback reported success
    term, intr,  \* SIGTERMs and SIGINTs the loop has not handled yet
    requested,   \* state["requested"]
    exit,        \* how the process ended
    outward,     \* the exception run_configured_binance_producer raised
    connects, terms, ints,   \* counters for the bounds
    losses, failed           \* history: see the properties

wsVars == <<session, open, received, buffered>>
backoffVars == <<delay, awaiting, attempt, losses>>
kafkaVars == <<queued, wire, copies, log, acked>>
signalVars == <<term, intr, requested, terms, ints>>
endVars == <<exit, outward>>
vars == <<pc, exc, wsVars, backoffVars, kafkaVars, signalVars, endVars,
          connects, failed>>

Init ==
    /\ pc = "start" /\ exc = "none" /\ failed = FALSE
    /\ session = 0 /\ open = {} /\ received = 0 /\ buffered = 0
    /\ delay = InitialDelay /\ awaiting = FALSE /\ attempt = 0 /\ losses = 0
    /\ queued = {} /\ wire = {} /\ copies = 0 /\ log = <<>> /\ acked = {}
    /\ term = 0 /\ intr = 0 /\ requested = FALSE /\ terms = 0 /\ ints = 0
    /\ exit = "none" /\ outward = "none" /\ connects = 0

\* Mutant: publishing yields to the event loop before the trade is delivered.
SuspendedInPublish ==
    \/ pc \in {"connect", "sleep", "closing", "publish"}
    \/ pc = "recv" /\ buffered = 0

\* The awaits at which the task suspends; recv() only on an empty buffer.
Suspended ==
    \/ pc \in {"connect", "sleep", "closing"}
    \/ pc = "recv" /\ buffered = 0

\* With a signal pending, the loop cancels the task before it does anything else.
Calm == term = 0 /\ intr = 0

-----------------------------------------------------------------------------
(* Sessions and reconnect                                                  *)

Smaller(a, b) == IF a < b THEN a ELSE b

\* An incident starts or goes on: one more attempt, then the current delay.
Disconnected ==
    /\ attempt' = IF awaiting THEN attempt + 1 ELSE 1
    /\ awaiting' = TRUE
    /\ losses' = losses + 1
    /\ UNCHANGED delay

\* Client, publisher and SIGTERM handler are set up, or that fails.
StartRuntime ==
    /\ pc = "start"
    /\ \/ pc' = "connect" /\ UNCHANGED <<exc, failed>>
       \/ pc' = "finalize" /\ exc' = "fatal" /\ failed' = TRUE
    /\ UNCHANGED <<wsVars, backoffVars, kafkaVars, signalVars, endVars, connects>>

OpenSession ==
    /\ pc = "connect" /\ Calm
    /\ connects < MaxConnects
    /\ connects' = connects + 1
    /\ session' = session + 1
    /\ open' = open \cup {session'}
    /\ received' = 0 /\ buffered' = 0
    /\ pc' = "recv"
    /\ UNCHANGED <<exc, kafkaVars, signalVars, endVars, failed>>

\* Mutant: the incident ends when the socket opens.
ConnectRecovers ==
    /\ OpenSession
    /\ awaiting' = FALSE /\ attempt' = 0 /\ delay' = InitialDelay
    /\ UNCHANGED losses

ConnectSucceeds == OpenSession /\ UNCHANGED backoffVars

\* The handshake fails: a retryable error starts the backoff, another one
\* ends the producer.
ConnectFails ==
    /\ pc = "connect" /\ Calm
    /\ connects < MaxConnects
    /\ connects' = connects + 1
    /\ \/ pc' = "sleep" /\ Disconnected /\ UNCHANGED <<exc, failed>>
       \/ pc' = "finalize" /\ exc' = "fatal" /\ failed' = TRUE /\ UNCHANGED backoffVars
    /\ UNCHANGED <<wsVars, kafkaVars, signalVars, endVars>>

\* The socket delivers frames while the task is suspended in recv().
FramesArrive ==
    /\ pc = "recv" /\ buffered = 0 /\ Calm
    /\ buffered' \in {n \in 1 .. BufferSize : received + n <= MaxTrades}
    /\ UNCHANGED <<pc, exc, session, open, received, backoffVars, kafkaVars,
                   signalVars, endVars, connects, failed>>

\* Mutant: a lost session is left without closing its socket.
SessionAbandoned ==
    /\ pc = "recv" /\ buffered = 0 /\ Calm
    /\ pc' = "sleep" /\ Disconnected
    /\ UNCHANGED <<exc, wsVars, kafkaVars, signalVars, endVars, connects, failed>>

\* recv() raises ConnectionClosed, OSError or TimeoutError once the buffer is empty.
SessionLost ==
    /\ pc = "recv" /\ buffered = 0 /\ Calm
    /\ pc' = "closing" /\ exc' = "transport"
    /\ UNCHANGED <<wsVars, backoffVars, kafkaVars, signalVars, endVars, connects,
                   failed>>

\* The session's context exit has closed the socket; a transport failure goes
\* on to the backoff.  Only then may the peer have closed already, so that
\* the exit does not suspend.
CloseDone ==
    /\ pc = "closing"
    /\ Calm \/ exc = "transport"
    /\ open' = open \ {session} /\ buffered' = 0
    /\ IF exc = "transport"
         THEN pc' = "sleep" /\ exc' = "none" /\ Disconnected
         ELSE pc' = "finalize" /\ UNCHANGED <<exc, backoffVars>>
    /\ UNCHANGED <<session, received, kafkaVars, signalVars, endVars, connects,
                   failed>>

\* The delay doubles, up to the maximum, after it was slept.
Wake ==
    /\ pc = "sleep" /\ Calm
    /\ pc' = "connect"
    /\ delay' = Smaller(2 * delay, MaxDelay)
    /\ UNCHANGED <<exc, wsVars, awaiting, attempt, losses, kafkaVars, signalVars,
                   endVars, connects, failed>>

-----------------------------------------------------------------------------
(* Receive and publish                                                     *)

TakeFrame ==
    /\ pc = "recv" /\ buffered > 0
    /\ buffered' = buffered - 1 /\ received' = received + 1
    /\ UNCHANGED <<session, open, backoffVars, log, acked, signalVars, endVars,
                   connects>>

Fatal == pc' = "closing" /\ exc' = "fatal" /\ failed' = TRUE

\* Mutant: publish_message(flush=False), the next trade does not wait.
ReceiveWithoutFlush ==
    /\ TakeFrame
    /\ queued' = queued \cup {<<session, received'>>}
    /\ wire' = wire \cup {<<session, received'>>}
    /\ UNCHANGED <<pc, exc, copies, failed>>

\* recv() returns the next trade, which is parsed and handed to the Kafka
\* client; a frame that does not parse, or a refused send, is fatal.
Receive ==
    /\ TakeFrame
    /\ \/ /\ pc' = "publish"
          /\ queued' = {<<session, received'>>} /\ wire' = queued' /\ copies' = 0
          /\ UNCHANGED <<exc, failed>>
       \/ Fatal /\ UNCHANGED <<queued, wire, copies>>

\* The broker appends a message, again when the client retries after a lost
\* answer, and perhaps after the client gave up.
BrokerAppends ==
    /\ copies < MaxCopies
    /\ \E m \in wire : log' = Append(log, m)
    /\ copies' = copies + 1
    /\ UNCHANGED <<pc, exc, wsVars, backoffVars, queued, wire, acked, signalVars,
                   endVars, connects, failed>>

\* on_success: the first trade published after an incident ends it.
OnSuccess ==
    /\ IF awaiting
         THEN awaiting' = FALSE /\ attempt' = 0 /\ delay' = InitialDelay
         ELSE UNCHANGED <<awaiting, attempt, delay>>
    /\ losses' = 0

\* flush() returned and the callback reported success.
Delivered ==
    /\ pc = "publish" /\ copies > 0
    /\ acked' = acked \cup queued
    /\ queued' = {} /\ wire' = {}
    /\ OnSuccess
    /\ pc' = "recv"
    /\ UNCHANGED <<exc, wsVars, copies, log, signalVars, endVars, connects, failed>>

\* Mutant: a delivery error is taken for a delivery.
DeliveryErrorIgnored ==
    /\ pc = "publish"
    /\ acked' = acked \cup queued
    /\ queued' = {}
    /\ pc' = "recv"
    /\ UNCHANGED <<exc, wsVars, backoffVars, wire, copies, log, signalVars,
                   endVars, connects, failed>>

\* Mutant: a delivery failure is retried like a lost session.
DeliveryFailureReconnects ==
    /\ pc = "publish"
    /\ pc' = "closing" /\ exc' = "transport" /\ failed' = TRUE
    /\ queued' \in {queued, {}}
    /\ UNCHANGED <<wsVars, backoffVars, wire, copies, log, acked, signalVars,
                   endVars, connects>>

\* The callback reported an error, or was not observed and the message is
\* still queued; the broker may have, or may yet, append it all the same.
DeliveryFails ==
    /\ pc = "publish"
    /\ Fatal
    /\ queued' \in {queued, {}}
    /\ UNCHANGED <<wsVars, backoffVars, wire, copies, log, acked, signalVars,
                   endVars, connects>>

-----------------------------------------------------------------------------
(* Signals and the end                                                     *)

\* SIGTERM is kept for the loop while the handler is installed; before and
\* after that the default action kills the process.
SigtermArrives ==
    /\ pc # "exited" /\ terms < MaxSigterms
    /\ terms' = terms + 1
    /\ IF pc \in {"start", "finalize"}
         THEN pc' = "exited" /\ exit' = "killed" /\ UNCHANGED term
         ELSE term' = term + 1 /\ UNCHANGED <<pc, exit>>
    /\ UNCHANGED <<exc, wsVars, backoffVars, kafkaVars, intr, requested, ints,
                   outward, connects, failed>>

\* asyncio.run's own handler turns the first SIGINT into a cancellation.
SigintArrives ==
    /\ pc # "exited" /\ ints < MaxSigints
    /\ ints' = ints + 1 /\ intr' = intr + 1
    /\ UNCHANGED <<pc, exc, wsVars, backoffVars, kafkaVars, term, requested,
                   terms, endVars, connects, failed>>

\* Mutant: the sleep between two attempts swallows the cancellation.
CancelSwallowedInSleep ==
    /\ Suspended /\ ~Calm
    /\ requested' = (requested \/ term > 0)
    /\ term' = 0 /\ intr' = 0
    /\ IF pc = "sleep"
         THEN pc' = "connect" /\ UNCHANGED exc
         ELSE /\ exc' = "cancelled"
              /\ pc' = IF pc = "recv" THEN "closing" ELSE "finalize"
    /\ UNCHANGED <<wsVars, backoffVars, kafkaVars, terms, ints, endVars,
                   connects, failed>>

\* CancelledError is thrown into the suspended await and replaces whatever
\* exception was unwinding.  An open session is closed first; a cancelled
\* close is given up.
Cancel ==
    /\ Suspended /\ ~Calm
    /\ requested' = (requested \/ term > 0)
    /\ term' = 0 /\ intr' = 0
    /\ exc' = "cancelled"
    /\ pc' = IF pc = "recv" THEN "closing" ELSE "finalize"
    /\ UNCHANGED <<wsVars, backoffVars, kafkaVars, terms, ints, endVars,
                   connects, failed>>

\* The exception left after a requested cancellation was swallowed.
RuntimeError == IF exc = "cancelled" /\ requested THEN "none" ELSE exc

\* Process exit: KeyboardInterrupt is an expected end; a cancellation that
\* arrives after a swallowed one escapes asyncio.run.
ExitOf(error) ==
    CASE error = "none" -> IF intr = 0 THEN "clean" ELSE "failed"
      [] error = "cancelled" -> "clean"
      [] OTHER -> "failed"

\* Mutant: the number of messages flush() leaves behind is ignored.
FinalFlushUnchecked ==
    /\ pc = "finalize"
    /\ queued' \in SUBSET queued
    /\ outward' = RuntimeError
    /\ exit' = ExitOf(outward')
    /\ pc' = "exited"
    /\ UNCHANGED <<exc, wsVars, backoffVars, wire, copies, log, acked, signalVars,
                   connects, failed>>

\* One flush(5.0) whatever the outcome; what it leaves behind is an error of
\* its own only if no other is propagating.
FinalFlush ==
    /\ pc = "finalize"
    /\ queued' \in SUBSET queued
    /\ outward' = IF RuntimeError = "none" /\ queued' # {}
                    THEN "finalization" ELSE RuntimeError
    /\ exit' = ExitOf(outward')
    /\ pc' = "exited"
    /\ UNCHANGED <<exc, wsVars, backoffVars, wire, copies, log, acked, signalVars,
                   connects, failed>>

-----------------------------------------------------------------------------
\* What the process does by itself, and the calls it makes that end.
Run ==
    \/ StartRuntime \/ CloseDone \/ Wake \/ Receive \/ Delivered
    \/ DeliveryFails \/ Cancel \/ FinalFlush

Next ==
    \/ Run \/ ConnectSucceeds \/ ConnectFails \/ FramesArrive \/ SessionLost
    \/ BrokerAppends \/ SigtermArrives \/ SigintArrives

Spec == Init /\ [][Next]_vars

\* The loop runs as long as the process lives, a publication ends by delivery
\* or by the client's message timeout, close and flush are bounded.
FairSpec == Spec /\ WF_vars(Run)

-----------------------------------------------------------------------------
(* Properties                                                              *)

Trades == (1 .. session) \X Nat

\* The type of every variable.
TypeOK ==
    /\ pc \in {"start", "connect", "recv", "publish", "closing", "sleep",
               "finalize", "exited"}
    /\ exc \in {"none", "transport", "fatal", "cancelled"}
    /\ session \in Nat /\ open \subseteq 1 .. session
    /\ received \in Nat /\ buffered \in Nat
    /\ delay \in Nat \ {0} /\ awaiting \in BOOLEAN
    /\ attempt \in Nat /\ losses \in Nat
    /\ queued \subseteq Trades /\ wire \subseteq Trades /\ acked \subseteq Trades
    /\ copies \in Nat /\ log \in Seq(Trades)
    /\ {term, intr, terms, ints, connects} \subseteq Nat
    /\ requested \in BOOLEAN /\ failed \in BOOLEAN
    /\ exit \in {"none", "clean", "failed", "killed"}
    /\ outward \in {"none", "transport", "fatal", "cancelled", "finalization"}

\* At most one socket is open, and none while the next session is awaited.
OneSession ==
    /\ open \subseteq {session}
    /\ pc \in {"start", "connect", "sleep"} => open = {}

NotAfter(a, b) == a[1] < b[1] \/ (a[1] = b[1] /\ a[2] <= b[2])

\* Kafka holds the trades in the order of reception, across retries, lost
\* answers, failed deliveries and reconnects; a copy of a trade never comes
\* after a later trade.
LogInOrder ==
    \A i, j \in DOMAIN log : i <= j => NotAfter(log[i], log[j])

\* A trade is in Kafka only if every earlier trade of its session was
\* confirmed: within a session nothing is skipped.
NoGapInSession ==
    \A i \in DOMAIN log :
        \A k \in 1 .. log[i][2] - 1 : <<log[i][1], k>> \in acked

\* A trade the producer went past is in Kafka.
AckedInLog == \A m \in acked : \E i \in DOMAIN log : log[i] = m

Backoff[n \in Nat] ==
    IF n <= 1 THEN InitialDelay ELSE Smaller(2 * Backoff[n - 1], MaxDelay)

\* The reconnect state is a function of the sessions lost, or never opened, since
\* a trade was last delivered: a session that opens and dies without delivering
\* one neither ends the incident nor resets the delay.
BackoffFollowsLosses ==
    /\ attempt = losses /\ (awaiting <=> losses > 0)
    /\ pc \notin {"finalize", "exited"}
         => delay = Backoff[IF pc = "sleep" THEN losses ELSE losses + 1]

\* After a fatal error, a failed delivery above all, the producer opens no
\* session and hands nothing more to Kafka.
FailureIsFinal == [][failed => open' \subseteq open /\ queued' \subseteq queued]_vars

\* Shutdown by a signal never cuts a trade off between recv() and its delivery: a
\* clean exit without a fatal error leaves no received trade unconfirmed.
NothingHalfPublished ==
    exit = "clean" /\ ~failed => \A k \in 1 .. received : <<session, k>> \in acked

\* A process that ends by SIGTERM with status 0 has emptied the Kafka queue.
SigtermExitDrained == exit = "clean" /\ ints = 0 => queued = {}

\* A SIGTERM ends the process, whatever the task was doing.
SigtermEnds == term > 0 ~> pc = "exited"

\* The inductive strengthening of the safety properties but the backoff.
\* Unwinding: which exception is propagating where, and what a fatal one excludes.
UnwindInv ==
    /\ pc \in {"start", "connect", "recv", "publish", "sleep"} => exc = "none" /\ ~failed
    /\ exc = "transport" => pc = "closing" /\ ~failed
    /\ exit # "none" => pc = "exited"
    /\ ints = 0 => intr = 0 /\ (exc = "cancelled" => requested)

\* Publishing: Kafka holds nothing newer than the current trade, which alone can
\* be under way, and every trade before it was confirmed.
PublishInv ==
    /\ pc \in {"recv", "publish"} => session > 0
    /\ queued \subseteq wire /\ wire \subseteq {<<session, received>>}
    /\ pc = "publish" => queued = {<<session, received>>} /\ received > 0
    /\ pc # "publish" /\ ~failed => wire = {}
    /\ \A i \in DOMAIN log : NotAfter(log[i], <<session, received>>)
    /\ \A k \in 1 .. received - 1 : <<session, k>> \in acked
    /\ pc # "publish" /\ ~failed => \A k \in 1 .. received : <<session, k>> \in acked
    /\ pc = "publish" /\ copies > 0
          => \E i \in DOMAIN log : log[i] = <<session, received>>

ProducerInv ==
    /\ TypeOK /\ OneSession /\ UnwindInv /\ PublishInv
    /\ LogInOrder /\ NoGapInSession /\ AckedInLog
    /\ NothingHalfPublished /\ SigtermExitDrained

\* architecture.md:215 - if the runtime failed and finalization succeeded, the
\* runtime exception propagates.
RuntimeFailurePropagates ==
    failed /\ exit \in {"clean", "failed"} /\ queued = {} => outward = "fatal"

\* binance-kafka-e2e-smoke-check.md:115 - if messages remain queued after the
\* final flush the process exits as failed.
QueuedMeansFailed == exit = "clean" => queued = {}
=============================================================================
