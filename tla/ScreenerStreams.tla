--------------------------- MODULE ScreenerStreams ---------------------------
(***************************************************************************)
(* The ticker streams of the screener and the runtime that replaces them.  *)
(* Each ScreenerStreamWorker is a thread with an event loop of its own: it *)
(* resolves the symbol universe, lets a MultiExchangeWatcher stream every  *)
(* exchange, publishes what arrives, and closes its gateways when it ends. *)
(* AppRuntime never waits for one: reconnect_screener asks the old worker  *)
(* to stop, from the outside, at whatever point its thread has reached,    *)
(* and starts the next.                                                    *)
(*                                                                         *)
(* One step is what a coroutine does between two awaits.  Faults:          *)
(*   universe   the universe cannot be resolved                            *)
(*   empty      no symbol is listed on enough exchanges                    *)
(*   load       an exchange's markets cannot be loaded                     *)
(***************************************************************************)
EXTENDS Integers, FiniteSets

CONSTANTS
  Exchanges,
  MaxNonce,   \* bound: how often the screener is reconnected
  Faults

ASSUME StreamsAssumption == MaxNonce \in Nat /\ Faults \subseteq {"universe", "empty", "load"}

VARIABLES
  current,    \* the runtime's screener worker, by its nonce; -1 before start
  down,       \* the runtime was stopped
  phase,      \* phase[g]: where the thread of worker g stands
  flag,       \* flag[g]: _stop is set
  cancelling, \* cancelling[g]: the main task's cancellation is scheduled
  closing,    \* closing[g]: the watcher's _closing
  task,       \* task[g][e]: the watcher's task for exchange e
  open,       \* open[g]: the gateways that hold a client
  left,       \* left[g]: the gateways the running teardown has yet to close
  signalled,  \* signalled[g]: the watcher's queue is not empty
  cut         \* history: a cancellation hit the worker's last teardown

vars == <<current, down, phase, flag, cancelling, closing, task, open, left,
          signalled, cut>>

Workers == 0 .. MaxNonce
Phases == {"none", "started", "resolving", "streaming", "shutting", "closing", "dead"}
Tasks == {"none", "spawned", "loading", "watching", "failed", "done"}

Init ==
  /\ current = -1 /\ down = FALSE
  /\ phase = [g \in Workers |-> "none"]
  /\ flag = [g \in Workers |-> FALSE]
  /\ cancelling = [g \in Workers |-> FALSE]
  /\ closing = [g \in Workers |-> FALSE]
  /\ task = [g \in Workers |-> [e \in Exchanges |-> "none"]]
  /\ open = [g \in Workers |-> {}]
  /\ left = [g \in Workers |-> {}]
  /\ signalled = [g \in Workers |-> FALSE]
  /\ cut = [g \in Workers |-> FALSE]

streams == <<closing, task, signalled>>

-----------------------------------------------------------------------------
\* The runtime.

\* The cancellation reaches a loop that runs and has recorded its main task.
LoopRuns(g) == phase[g] \in {"resolving", "streaming", "shutting", "closing"}

Stopped(g) == [flag EXCEPT ![g] = TRUE]
Cancelled(g) == [cancelling EXCEPT ![g] = @ \/ LoopRuns(g)]

Start ==
  /\ current = -1 /\ ~down
  /\ current' = 0
  /\ phase' = [phase EXCEPT ![0] = "started"]
  /\ UNCHANGED <<down, flag, cancelling, streams, open, left, cut>>

Reconnect ==
  /\ current \in 0 .. MaxNonce - 1 /\ ~down
  /\ flag' = Stopped(current)
  /\ cancelling' = Cancelled(current)
  /\ current' = current + 1
  /\ phase' = [phase EXCEPT ![current'] = "started"]
  /\ UNCHANGED <<down, streams, open, left, cut>>

Stop ==
  /\ current >= 0 /\ ~down
  /\ down' = TRUE
  /\ flag' = Stopped(current)
  /\ cancelling' = Cancelled(current)
  /\ UNCHANGED <<current, phase, streams, open, left, cut>>

-----------------------------------------------------------------------------
\* The main task of a worker.

\* The loop and the task are recorded: from here on stop() can cancel.
Records(g) ==
  /\ phase[g] = "started"
  /\ phase' = [phase EXCEPT ![g] = "resolving"]
  /\ UNCHANGED <<current, down, flag, cancelling, streams, open, left, cut>>

\* Mutant: the thread ends without the finally.
Quits(g) ==
  /\ phase' = [phase EXCEPT ![g] = "dead"]
  /\ left' = left

\* The finally of _async_main: every gateway is closed, one await each.
Closes(g) ==
  /\ phase' = [phase EXCEPT ![g] = "closing"]
  /\ left' = [left EXCEPT ![g] = Exchanges]

\* A stale universe is read from the exchanges, which opens their gateways.
Resolves(g) ==
  /\ phase[g] = "resolving" /\ ~cancelling[g]
  /\ phase' = [phase EXCEPT ![g] = "streaming"]
  /\ task' = [task EXCEPT ![g] = [e \in Exchanges |-> "spawned"]]
  /\ \E asked \in {{}, Exchanges} : open' = [open EXCEPT ![g] = asked]
  /\ UNCHANGED <<current, down, flag, cancelling, closing, signalled, left, cut>>

\* No universe, or none worth streaming.
GivesUp(g) ==
  /\ phase[g] = "resolving" /\ ~cancelling[g]
  /\ Faults \cap {"universe", "empty"} # {}
  /\ \E asked \in SUBSET Exchanges : open' = [open EXCEPT ![g] = asked]
  /\ Closes(g)
  /\ UNCHANGED <<current, down, flag, cancelling, streams, cut>>

\* The watcher wakes: signals that piled up are dropped, the state is copied
\* and published.  Between two awaits, so nothing arrives in between.
Publishes(g) ==
  /\ phase[g] = "streaming" /\ signalled[g] /\ ~flag[g]
  /\ signalled' = [signalled EXCEPT ![g] = FALSE]
  /\ UNCHANGED <<current, down, phase, flag, cancelling, closing, task, open, left, cut>>

ShutsWatcher(g) ==
  /\ phase' = [phase EXCEPT ![g] = "shutting"]
  /\ closing' = [closing EXCEPT ![g] = TRUE]
  /\ left' = [left EXCEPT ![g] = Exchanges]

\* Mutant: the flag is not looked at between two snapshots.
SeesNoStop(g) == FALSE /\ UNCHANGED vars

\* The flag is seen when the next snapshot arrives.
SeesStop(g) ==
  /\ phase[g] = "streaming" /\ signalled[g] /\ flag[g]
  /\ signalled' = [signalled EXCEPT ![g] = FALSE]
  /\ ShutsWatcher(g)
  /\ UNCHANGED <<current, down, flag, cancelling, task, open, cut>>

\* The cancellation lands at the await the task stands at.  In the watcher's
\* teardown it skips what is left of it, its tasks uncancelled, and the finally of
\* _async_main closes every gateway; there it skips the gateways that are left.
CancelLands(g) ==
  /\ cancelling[g]
  /\ cancelling' = [cancelling EXCEPT ![g] = FALSE]
  /\ \/ /\ phase[g] = "resolving"
        /\ \E asked \in SUBSET Exchanges : open' = [open EXCEPT ![g] = asked]
        /\ Closes(g)
        /\ UNCHANGED <<closing, cut>>
     \/ /\ phase[g] = "streaming"
        /\ ShutsWatcher(g)
        /\ UNCHANGED <<open, cut>>
     \/ /\ phase[g] = "shutting"
        /\ Closes(g)
        /\ UNCHANGED <<closing, open, cut>>
     \/ /\ phase[g] = "closing"
        /\ phase' = [phase EXCEPT ![g] = "dead"]
        /\ left' = [left EXCEPT ![g] = {}]
        /\ cut' = [cut EXCEPT ![g] = TRUE]
        /\ UNCHANGED <<closing, open>>
  /\ UNCHANGED <<current, down, flag, task, signalled>>

ClosesGateway(g, e) ==
  /\ phase[g] \in {"shutting", "closing"} /\ e \in left[g]
  /\ open' = [open EXCEPT ![g] = @ \ {e}]
  /\ left' = [left EXCEPT ![g] = @ \ {e}]
  /\ UNCHANGED <<current, down, phase, flag, cancelling, streams, cut>>

\* _cancel_watchers, then the finally of _async_main.
CancelsTasks(g) ==
  /\ phase[g] = "shutting" /\ left[g] = {}
  /\ task' = [task EXCEPT ![g] = [e \in Exchanges |-> "done"]]
  /\ Closes(g)
  /\ UNCHANGED <<current, down, flag, cancelling, closing, signalled, open, cut>>

Dies(g) ==
  /\ phase[g] = "closing" /\ left[g] = {}
  /\ phase' = [phase EXCEPT ![g] = "dead"]
  /\ UNCHANGED <<current, down, flag, cancelling, streams, open, left, cut>>

Main(g) ==
  \/ Records(g) \/ Resolves(g) \/ GivesUp(g) \/ Publishes(g) \/ SeesStop(g)
  \/ CancelLands(g) \/ CancelsTasks(g) \/ Dies(g)
  \/ \E e \in Exchanges : ClosesGateway(g, e)

-----------------------------------------------------------------------------
\* The watcher's task for one exchange.  It runs on while gateways are being
\* closed, until the watcher's teardown cancels it or the loop ends.

Running(g) == phase[g] = "streaming" \/ (closing[g] /\ phase[g] # "dead")
At(g, e, label) == task' = [task EXCEPT ![g][e] = label]

OpensClient(g, e) ==
  /\ Running(g) /\ task[g][e] = "spawned"
  /\ IF closing[g] THEN At(g, e, "done") /\ open' = open
     ELSE At(g, e, "loading") /\ open' = [open EXCEPT ![g] = @ \cup {e}]
  /\ UNCHANGED <<current, down, phase, flag, cancelling, closing, left, signalled, cut>>

Loads(g, e) ==
  /\ Running(g) /\ task[g][e] = "loading"
  /\ At(g, e, "watching")
  /\ UNCHANGED <<current, down, phase, flag, cancelling, closing, open, left, signalled, cut>>

LoadFails(g, e) ==
  /\ "load" \in Faults /\ Running(g) /\ task[g][e] = "loading"
  /\ At(g, e, IF closing[g] THEN "done" ELSE "failed")
  /\ UNCHANGED <<current, down, phase, flag, cancelling, closing, open, left, signalled, cut>>

\* The failed gateway is closed and, unless the watcher closes, tried again.
TriesAgain(g, e) ==
  /\ Running(g) /\ task[g][e] = "failed"
  /\ open' = [open EXCEPT ![g] = @ \ {e}]
  /\ At(g, e, IF closing[g] THEN "done" ELSE "spawned")
  /\ UNCHANGED <<current, down, phase, flag, cancelling, closing, left, signalled, cut>>

Hears(g, e) ==
  /\ Running(g) /\ task[g][e] = "watching" /\ ~closing[g]
  /\ signalled' = [signalled EXCEPT ![g] = TRUE]
  /\ UNCHANGED <<current, down, phase, flag, cancelling, closing, task, open, left, cut>>

Watches(g, e) ==
  OpensClient(g, e) \/ Loads(g, e) \/ LoadFails(g, e) \/ TriesAgain(g, e) \/ Hears(g, e)

Next ==
  \/ Start \/ Reconnect \/ Stop
  \/ \E g \in Workers : Main(g) \/ \E e \in Exchanges : Watches(g, e)

\* Every thread runs; a market that can be loaded is loaded in the end and its
\* exchange goes on sending tickers.
Fairness ==
  /\ \A g \in Workers : WF_vars(Main(g))
  /\ \A g \in Workers, e \in Exchanges :
       WF_vars(OpensClient(g, e) \/ TriesAgain(g, e)) /\ SF_vars(Loads(g, e)) /\ WF_vars(Hears(g, e))

Spec == Init /\ [][Next]_vars
FairSpec == Spec /\ Fairness

-----------------------------------------------------------------------------
\* Properties.

TypeOK ==
  /\ current \in -1 .. MaxNonce /\ down \in BOOLEAN
  /\ phase \in [Workers -> Phases] /\ task \in [Workers -> [Exchanges -> Tasks]]
  /\ flag \in [Workers -> BOOLEAN] /\ cancelling \in [Workers -> BOOLEAN]
  /\ closing \in [Workers -> BOOLEAN] /\ signalled \in [Workers -> BOOLEAN]
  /\ cut \in [Workers -> BOOLEAN]
  /\ open \in [Workers -> SUBSET Exchanges] /\ left \in [Workers -> SUBSET Exchanges]

\* A thread that has ended holds no connection, wherever stop() met it and
\* whichever exchange was being reopened, also when the stop cut its watcher's
\* teardown short.  The one worker that may is one that gave up before it had a
\* watcher, and was stopped while it closed its gateways.
GatewaysReleased ==
  \A g \in Workers : phase[g] = "dead" /\ open[g] # {} => cut[g] /\ ~closing[g]

\* Once the runtime has done its last reconnect, every worker it replaced or
\* stopped ends and stays so, also when stop() came before its loop existed and
\* could not cancel anything: no two generations of streams run beside each
\* other for good.
StoppedWorkersDie == <>[](\A g \in Workers : flag[g] => phase[g] = "dead")
=============================================================================
