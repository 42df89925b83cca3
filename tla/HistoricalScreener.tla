-------------------------- MODULE HistoricalScreener --------------------------
(***************************************************************************)
(* The historical screener, for one symbol: a thread that scans the        *)
(* screener's tickers, keeps the spreads of each direction for a lookback, *)
(* and publishes the direction with the largest one.  The UI changes its   *)
(* filters and starts and stops it from another thread, between or during  *)
(* scans.                                                                  *)
(*                                                                         *)
(* A spread is a difference of prices; a missing price is 0.  A direction  *)
(* is <<short exchange, long exchange>>.  A ticker below the volume filter *)
(* counts as none: either way the symbol is left out of the scan.          *)
(***************************************************************************)
EXTENDS Integers, FiniteSetsExt, Sequences

CONSTANTS
  First, Second,   \* the two exchanges that list the symbol, in their order
  MaxPrice,        \* bound: prices
  Tickers,         \* tickers an exchange may show: [bid, ask, last]
  Lookbacks,
  Thresholds,
  MaxTime          \* bound: the clock

Shows == 0 .. MaxPrice

ASSUME TickersAssumption ==
  MaxPrice \in Nat /\ Tickers \subseteq [bid : Shows, ask : Shows, last : Shows]

\* A longer lookback than the clock runs drops nothing either.
ASSUME FiltersAssumption ==
  MaxTime \in Nat /\ Lookbacks \subseteq 0 .. MaxTime /\ Lookbacks # {}

VARIABLES
  clock,
  tickers,     \* what the screener worker holds; NoTicker where nothing
  filters,     \* [lookback, threshold]
  scanner,     \* the thread: "none", "awake", "scanning", "ended"
  enabled,
  stopping,    \* _stop
  status,
  scan,        \* the filters and the time a running scan started with
  history,     \* history[d]: the <<time, spread>> points kept
  opportunity, \* the published opportunity, or None
  computed     \* history variable: every point ever computed, per direction

control == <<scanner, enabled, stopping>>
results == <<history, opportunity, computed>>
screenerVars == <<clock, tickers, filters, control, status, scan, results>>

Sides == {First, Second}
Directions == {<<First, Second>>, <<Second, First>>}
NoTicker == [bid |-> 0, ask |-> 0, last |-> 0]
None == [short |-> "", max |-> 0]

ScreenerInit ==
  /\ clock = 0
  /\ tickers = [e \in Sides |-> NoTicker]
  /\ filters = [lookback |-> Max(Lookbacks), threshold |-> Max(Thresholds)]
  /\ scanner = "none" /\ enabled = FALSE /\ stopping = FALSE /\ status = "Idle"
  /\ scan = [now |-> 0, lookback |-> 0, threshold |-> 0]
  /\ history = [d \in Directions |-> {}] /\ computed = history
  /\ opportunity = None

-----------------------------------------------------------------------------
\* A scan.

Listed == \A e \in Sides : tickers[e] # NoTicker
Executable == \A e \in Sides : tickers[e].bid > 0 /\ tickers[e].ask > 0
Traded == \A e \in Sides : tickers[e].last > 0

\* The spreads of the symbol, in the order the scan computes them: executable
\* ones first, then those of the last prices.
Spreads ==
  LET Point(d, spread) == [dir |-> d, spread |-> spread]
      ab == <<First, Second>>
      ba == <<Second, First>>
      a == tickers[First]
      b == tickers[Second]
  IN (IF Executable THEN <<Point(ab, a.bid - b.ask), Point(ba, b.bid - a.ask)>> ELSE <<>>)
     \o (IF Traded THEN <<Point(ab, a.last - b.last), Point(ba, b.last - a.last)>> ELSE <<>>)

\* Mutant: what is older than the lookback is not dropped.
Unpruned(points) == points

\* _update_history drops the points before the cutoff when it adds one.
Pruned(points) == {p \in points : p[1] >= scan.now - scan.lookback}

\* The history of direction d once the first k spreads are in it.
HistoryAfter(d, k) ==
  LET new == {<<scan.now, Spreads[i].spread>> : i \in {i \in 1 .. k : Spreads[i].dir = d}}
  IN IF new = {} THEN history[d] ELSE Pruned(history[d] \cup new)

Largest(k) == Max({p[2] : p \in HistoryAfter(Spreads[k].dir, k)})

\* The spreads that reach the threshold and exceed every earlier one that does.
Candidates == {k \in DOMAIN Spreads : Largest(k) >= scan.threshold}
Best == {k \in Candidates : \A i \in Candidates : Largest(i) <= Largest(k)}

Found ==
  IF Best = {} THEN None
  ELSE LET k == Min(Best) IN
       [short |-> Spreads[k].dir[1], long |-> Spreads[k].dir[2], current |-> Spreads[k].spread,
        max |-> Largest(k), at |-> scan.now, lookback |-> scan.lookback, threshold |-> scan.threshold]

BeginsScan ==
  /\ scanner = "awake" /\ ~stopping
  /\ scanner' = "scanning" /\ status' = "Scanning"
  /\ scan' = [now |-> clock, lookback |-> filters.lookback, threshold |-> filters.threshold]
  /\ UNCHANGED <<clock, tickers, filters, enabled, stopping, results>>

EndsScan ==
  /\ scanner = "scanning"
  /\ scanner' = "awake" /\ status' = IF enabled THEN "Running" ELSE "Idle"
  /\ IF Listed
     THEN LET n == Len(Spreads) IN
          /\ history' = [d \in Directions |-> HistoryAfter(d, n)]
          /\ computed' = [d \in Directions |-> computed[d] \cup
               {<<scan.now, Spreads[i].spread>> : i \in {i \in 1 .. n : Spreads[i].dir = d}}]
          /\ opportunity' = Found
     ELSE opportunity' = None /\ UNCHANGED <<history, computed>>
  /\ scan' = [now |-> 0, lookback |-> 0, threshold |-> 0]
  /\ clock' = IF clock < MaxTime THEN clock + 1 ELSE clock
  /\ UNCHANGED <<tickers, filters, enabled, stopping>>

ThreadEnds ==
  /\ scanner = "awake" /\ stopping
  /\ scanner' = "ended"
  /\ UNCHANGED <<clock, tickers, filters, enabled, stopping, status, scan, results>>

-----------------------------------------------------------------------------
\* The UI, and the exchanges.

Alive == scanner \in {"awake", "scanning"}

\* A thread that still runs is taken for a worker that works, also when it is
\* about to end.
StartScanner ==
  /\ enabled' = TRUE
  /\ IF Alive THEN UNCHANGED <<stopping, scanner, status>>
     ELSE stopping' = FALSE /\ scanner' = "awake" /\ status' = "Running"
  /\ UNCHANGED <<clock, tickers, filters, scan, results>>

StopScanner ==
  /\ enabled' = FALSE /\ stopping' = TRUE /\ status' = "Idle"
  /\ UNCHANGED <<clock, tickers, filters, scanner, scan, results>>

UpdateFilters ==
  /\ \E l \in Lookbacks, t \in Thresholds : filters' = [lookback |-> l, threshold |-> t]
  /\ UNCHANGED <<clock, tickers, control, status, scan, results>>

TickerMoves ==
  /\ \E e \in Sides, t \in Tickers \cup {NoTicker} : tickers' = [tickers EXCEPT ![e] = t]
  /\ UNCHANGED <<clock, filters, control, status, scan, results>>

ScreenerNext ==
  \/ BeginsScan \/ EndsScan \/ ThreadEnds
  \/ (clock < MaxTime /\ (StartScanner \/ StopScanner \/ UpdateFilters \/ TickerMoves))

ScreenerSpec == ScreenerInit /\ [][ScreenerNext]_screenerVars

-----------------------------------------------------------------------------
\* Properties.

\* What the table shows happened: the published direction reached its maximum,
\* and with it the threshold, within the lookback its scan used, whatever the
\* filters, the listings and the worker's restarts did in between.
OpportunitiesHappened ==
  opportunity # None =>
    LET points == computed[<<opportunity.short, opportunity.long>>]
        recent == {p \in points : p[1] >= opportunity.at - opportunity.lookback}
    IN /\ \E p \in recent : p[2] = opportunity.max
       /\ opportunity.max >= opportunity.threshold
=============================================================================
