-------------------------- MODULE OpportunityWindow --------------------------
(***************************************************************************)
(* One /ws/opportunity connection in paper mode: the push loop, the task   *)
(* that receives the trader's commands, and the stream worker, a thread of *)
(* its own, whose books the loop reads.  The loop reads the books and the  *)
(* account at its top, sends two messages, and only then looks whether to  *)
(* trade by itself: commands are obeyed in between.  One step is what a    *)
(* coroutine does between two awaits.                                      *)
(*                                                                         *)
(* A price is the best bid of a book and its ask lies one above it, so     *)
(* that the spread of a close lies two above that of an open.              *)
(* Of a paper trade only the number of open pairs is kept (PaperDesk has   *)
(* the ledger).  Live mode is left out: its service has no keys and places *)
(* no order.  Faults:                                                      *)
(*   stream     a consumer of the stream worker raises                     *)
(*   malformed  a command carries a number that is none                    *)
(***************************************************************************)
EXTENDS Integers, FiniteSets

CONSTANTS
  BookPrices,   \* best bids, positive
  OpenAt,       \* open_spread_threshold_pct
  CloseAt,      \* close_spread_threshold_pct
  MaxPairs,     \* bound: open paper pairs
  Cooldown,     \* pushes that take as long as auto_cooldown_ms
  WindowFaults

ASSUME WindowAssumption ==
  /\ BookPrices \subseteq Nat \ {0} /\ OpenAt \in Int /\ CloseAt \in Int
  /\ MaxPairs \in Nat /\ Cooldown \in Nat
  /\ WindowFaults \subseteq {"stream", "malformed"}

VARIABLES
  stage,      \* where the loop stands
  seen,       \* the spread, the account and the session as the loop's top met them
  since,      \* pushes since the last automatic trade, up to Cooldown
  session,    \* the parameters commands change
  listening,  \* the task that receives commands runs
  gone,       \* the client has closed the connection
  pairs,      \* open paper pairs
  real,       \* contracts the account worker shows for the pair
  book,       \* the stream worker's books
  quoted,     \* tickers of both legs have arrived
  thread,     \* the stream worker's thread
  over,       \* the consumers that have ended
  halted,     \* the stream worker's _stop
  aborting    \* the cancellation of its main task is scheduled

loop == <<stage, seen, since>>
worker == <<thread, over, halted, aborting>>
market == <<book, quoted>>
desk == <<session, listening, gone, pairs, real>>
windowVars == <<loop, desk, market, worker>>

Legs == {"short", "long"}
NoBook == 0
Consumers == Legs \cup {"tickers"}
Spreadless == 99
Unread == [spread |-> Spreadless, real |-> 0, session |-> {}]

\* The session's switches that are on, and its target volume.
Switches == {"accumulate", "close"}

WindowInit ==
  /\ stage = "bootstrap" /\ seen = Unread /\ since = Cooldown
  /\ session = {} /\ listening = FALSE /\ gone = FALSE /\ pairs = 0 /\ real = 0
  /\ book = [l \in Legs |-> NoBook] /\ quoted = FALSE
  /\ thread = "starting" /\ over = {} /\ halted = FALSE /\ aborting = FALSE

-----------------------------------------------------------------------------
\* AutoTradingEngine: a signal from the books the loop read.  The target is
\* one contract; what the account shows is the real one, not the paper ledger.

OpenSpread ==
  IF \E l \in Legs : book[l] = NoBook THEN Spreadless ELSE book["short"] - (book["long"] + 1)

OpenReached(spread) == spread # Spreadless /\ spread >= OpenAt
CloseReached(spread) == spread # Spreadless /\ spread + 2 <= CloseAt

CheckAccumulate(on, view) == "accumulate" \in on /\ view.real < 1 /\ OpenReached(view.spread)
CheckClose(on, view) == "close" \in on /\ view.real > 0 /\ CloseReached(view.spread)

\* Mutant: the switches are those the loop met at its top.
SignalOfTop(on, view) ==
  IF CheckAccumulate(view.session, view) THEN "accumulate"
  ELSE IF CheckClose(view.session, view) THEN "close_all" ELSE "none"

Signal(on, view) ==
  IF CheckAccumulate(on, view) THEN "accumulate"
  ELSE IF CheckClose(on, view) THEN "close_all" ELSE "none"

\* A paper trade: refused without tickers, or without a pair to close.
PaperTrade(kind) ==
  pairs' = IF ~quoted THEN pairs
           ELSE IF kind = "accumulate" THEN IF pairs < MaxPairs THEN pairs + 1 ELSE pairs
           ELSE IF pairs > 0 THEN pairs - 1 ELSE 0

-----------------------------------------------------------------------------
\* The push loop.

\* Fees, funding and market data of the pair; what cannot be read is left out.
Bootstraps ==
  /\ stage = "bootstrap"
  /\ stage' = "top" /\ listening' = ~gone
  /\ UNCHANGED <<seen, since, session, gone, pairs, real, market, worker>>

LoopReads ==
  /\ stage = "top"
  /\ stage' = "sending"
  /\ seen' = [spread |-> OpenSpread, real |-> real, session |-> session]
  /\ UNCHANGED <<since, desk, market, worker>>

\* The snapshot and the chart.
Sends ==
  /\ stage = "sending" /\ ~gone
  /\ stage' = IF since >= Cooldown THEN "deciding" ELSE "asleep"
  /\ UNCHANGED <<seen, since, desk, market, worker>>

\* The signal and the paper trade: no await between them.
CheckAutoTrade ==
  /\ stage = "deciding"
  /\ LET kind == Signal(session, seen) IN
     IF kind = "none" THEN stage' = "asleep" /\ UNCHANGED <<pairs, since>>
     ELSE stage' = "reporting" /\ PaperTrade(kind) /\ since' = 0
  /\ seen' = Unread
  /\ UNCHANGED <<session, listening, gone, real, market, worker>>

ReportsTrade ==
  /\ stage = "reporting" /\ ~gone
  /\ stage' = "asleep"
  /\ UNCHANGED <<seen, since, desk, market, worker>>

Wakes ==
  /\ stage = "asleep"
  /\ stage' = "top"
  /\ since' = IF since < Cooldown THEN since + 1 ELSE since
  /\ UNCHANGED <<seen, desk, market, worker>>

\* Mutant: the worker is left to itself.
LeavesWorker == UNCHANGED <<halted, aborting>>

\* stop() of the stream worker reaches a loop that has recorded its main task.
StopsWorker ==
  /\ halted' = TRUE
  /\ aborting' = (thread \in {"live", "closing"})

\* A send fails, and the loop's finally runs.
Leaves ==
  /\ stage \in {"sending", "reporting"} /\ gone
  /\ stage' = "ended" /\ seen' = Unread /\ listening' = FALSE
  /\ StopsWorker
  /\ UNCHANGED <<since, session, gone, pairs, real, market, thread, over>>

Loop ==
  Bootstraps \/ LoopReads \/ Sends \/ CheckAutoTrade \/ ReportsTrade \/ Wakes \/ Leaves

-----------------------------------------------------------------------------
\* The client, and what the account shows.

SetParams ==
  /\ listening /\ ~gone
  /\ \E on \in SUBSET Switches : session' = on
  /\ UNCHANGED <<loop, listening, gone, pairs, real, market, worker>>

\* The receiver's task dies of it; nobody listens any more.
SetMalformed ==
  /\ "malformed" \in WindowFaults /\ listening /\ ~gone
  /\ listening' = FALSE
  /\ UNCHANGED <<loop, session, gone, pairs, real, market, worker>>

ExecuteTrade ==
  /\ listening /\ ~gone
  /\ \E kind \in {"accumulate", "close_all"} : PaperTrade(kind)
  /\ UNCHANGED <<loop, session, listening, gone, real, market, worker>>

Disconnects ==
  /\ ~gone
  /\ gone' = TRUE /\ listening' = FALSE
  /\ UNCHANGED <<loop, session, pairs, real, market, worker>>

AccountMoves ==
  /\ real' = 1 - real
  /\ UNCHANGED <<loop, session, listening, gone, pairs, market, worker>>

-----------------------------------------------------------------------------
\* The stream worker.

WorkerStarts ==
  /\ thread = "starting"
  /\ thread' = "live"
  /\ UNCHANGED <<loop, desk, market, over, halted, aborting>>

Consumes(c) ==
  /\ thread = "live" /\ c \notin over
  /\ IF halted THEN over' = over \cup {c} /\ UNCHANGED market
     ELSE /\ over' = over
          /\ IF c = "tickers" THEN quoted' = TRUE /\ book' = book
             ELSE quoted' = quoted /\ \E p \in BookPrices : book' = [book EXCEPT ![c] = p]
  /\ UNCHANGED <<loop, desk, thread, halted, aborting>>

\* One consumer that raises ends the gather, and with it all of them.
ConsumerFails ==
  /\ "stream" \in WindowFaults /\ thread = "live" /\ over # Consumers
  /\ thread' = "closing" /\ over' = Consumers
  /\ UNCHANGED <<loop, desk, market, halted, aborting>>

\* The gather ends by itself or is cancelled.
GatherEnds ==
  /\ thread = "live" /\ (over = Consumers \/ aborting)
  /\ thread' = "closing" /\ over' = Consumers
  /\ aborting' = (aborting /\ over = Consumers)
  /\ UNCHANGED <<loop, desk, market, halted>>

\* The gateways are closed; a cancellation that comes here cuts that short.
WorkerEnds ==
  /\ thread = "closing"
  /\ thread' = "ended" /\ aborting' = FALSE
  /\ UNCHANGED <<loop, desk, market, over, halted>>

Worker == WorkerStarts \/ GatherEnds \/ WorkerEnds

WindowNext ==
  \/ Loop \/ Worker \/ ConsumerFails \/ \E c \in Consumers : Consumes(c)
  \/ SetParams \/ SetMalformed \/ ExecuteTrade \/ Disconnects \/ AccountMoves

WindowFairness ==
  /\ WF_windowVars(Loop) /\ WF_windowVars(Worker)
  /\ \A c \in Consumers : WF_windowVars(Consumes(c))

WindowSpec == WindowInit /\ [][WindowNext]_windowVars
WindowFairSpec == WindowSpec /\ WindowFairness

-----------------------------------------------------------------------------
\* Properties.

\* The loop trades by itself only as the trader's last command allows, however
\* the command and the loop's two sends interleave, on a spread its last read
\* of the books showed, and never for a client whose loop has ended.
AutoTradesAsTold ==
  [][since' < since =>
       /\ stage = "deciding"
       /\ \/ "accumulate" \in session /\ OpenReached(seen.spread) /\ pairs' >= pairs
          \/ "close" \in session /\ CloseReached(seen.spread) /\ pairs' <= pairs]_windowVars

\* The stream worker of a closed window ends for good, wherever its thread was
\* when the window let go of it: every consumer hears once more, or is cancelled.
ClosedWindowsEnd == <>[](gone => thread = "ended")
=============================================================================
