# TLA+ models of arbitrator

`arbitrator` watches USDT-margined perpetual futures on several exchanges, finds
symbols whose price differs between two of them, and trades the difference: it
sells the expensive leg, buys the cheap one, and closes both when the spread has
converged. This directory holds TLA+ models of that program, the TLC
configurations that check them, and theorems checked by TLAPS. Paths below are
relative to `src/src/arbitrator/`.

## 1. The system

### Components, their state and their operations

| Component | State | Operations | What makes it correct |
|---|---|---|---|
| Hedged execution service (`application/trading/hedged_execution_service.py`) | none of its own: a call's locals; positions live at the exchanges | `open`, `accumulate`, `close_partial`, `close_all` for two futures legs or a short and spot tokens, each a chain of awaits | reported fills are real; no leg is left naked without saying so; success of a close means balanced legs |
| Exchange gateway (`exchanges/ccxt_base.py`) | connection, caches | market orders, position reads, market data | reads and orders tell the truth, or raise |
| Live auto trader (`application/trading/live_auto_trader.py`) | `_open_pairs`, `_close_confirm`, `_entry_spreads`, `_dca_layers`, `_open_cooldown`, `_pair_strategy` | restore at start, tick = close pass, DCA pass, open pass and post-fill guard | the book equals the exchanges; limits hold across awaits and restarts; converged pairs close |
| Live guards and monitor (`application/account/live_liquidation_guard_service.py`, `live_funding_protection_service.py`, `orphaned_position_monitor.py`) | none between ticks | read all positions, close endangered or costly pairs and single legs, report single legs | never add exposure; never take a hedge apart unless misled; report real orphans only, and all of them |
| Opportunity window (`presentation/ws/opportunity_ws_handler.py`, `auto_trading_engine.py`) | one session's parameters and cool-down, a stream worker | manual and automatic trades | acts on the last command and on the prices it has read; ends its threads |
| Paper order store and gateway (`config/paper_order_store.py`, `application/trading/paper_execution_gateway.py`) | a JSON list of orders under a lock per operation | `record_open`, `record_close`, `accrue_funding`, `open_pairs`; two-leg `open_pair`, `close_pair` | a leg is booked and settled once, a pair never goes back |
| Screener auto trader, paper guards (`screener_auto_trader.py`, `liquidation_guard_service.py`, `funding_reentry_service.py`, `funding_accrual_service.py`) | open pairs, unhedged timers, counters | ticks over the paper store | they agree which pair is open; broken pairs are settled |
| Screener stream workers (`screener_stream_worker.py`, `multi_exchange_watcher.py`) and the runtime that replaces them | tickers, tasks, clients, a stop flag | start, stop, reconnect, publish | every replaced worker ends and closes what it opened |
| Market data cache, executable spreads (`market_data_cache_memory.py`, `executable_spread_resolver.py`) | dictionaries under a lock | put, get, clear; spread of two quotes | a price an order is confirmed with is fresh |
| Historical screener (`historical_screener_worker.py`) | history of spreads, filters, opportunities | scan, start, stop, change of filters | what it shows happened within its lookback |
| Account worker and orders service (`account_stream_worker.py`, `exchange_orders_service.py`) | open legs by exchange, closed legs | stream, fetch, group into pairs | every leg is in one row |
| Strategy engine (`domain/strategy/`) | none | six calculators, the best of them | promises what the trade will earn: deducts what will be charged |
| Runtime, configuration, presentation, mock backend, UI, logs | wiring, constants, output | - | - |

### How they interact

Every live actor (auto trader, two guards, monitor) runs on a thread and event
loop of its own with **executors and gateways of its own**. Nothing serialises
them. The only state they share is the positions at the exchanges, which they
read back before and after every order. Market data flows from the stream
workers' threads into one cache that three writers overwrite. The paper side
shares the JSON store: one lock per operation, none for the two operations that
make up a pair.

### What is hard

* Two executor calls interleave their orders on the same legs; each infers its
  fill from two reads of a net position (`hedged_execution_service.py:525-529`).
* Between the two orders of an entering call the short leg is naked; the
  compensation may fail itself, and it closes the *whole* position.
* `fetch_open_positions` answers `[]` when the request fails, so a failed read
  looks like a flat exchange to everyone.
* The auto trader reads its limits once per pass and awaits in between; an
  exception in one pass skips the bookkeeping of those before it; a restart
  knows only what the exchanges' positions tell.
* Guards act on a scan of all exchanges that others overtake while it is made.
* Paper services decide from one read and then write leg by leg.
* Reconnects replace workers that other threads hold references to, and stop
  them at whatever await they stand.

`PROJECT.json` lists the hazards line by line, with the properties that would
catch each.

## 2. The modules

    HedgeContract            one-step contract of the executor
      ^        ^
      |        '--- LiveAutoTrader ---- LiveAutoTraderProofs ---- LiveBookProofs
      |                  ^---- MCLiveTrader (two configurations), LiveClaims
      |
      '--- HedgedKeepsContract ---- HedgedKeepsContractProofs
                 |      ^---- MCHedgedSolo
                 v
           HedgedExecution ---- HedgedExecutionProofs
                 ^     ^---- HedgedClaims
                 |
              LiveDesk ---- LiveDeskProofs          LiveLiquidation
                 ^---- MCLiveDesk (two configurations)

    PaperLedger  <-- refinement --  PaperDesk ---- PaperDeskProofs
                                       ^---- MCPaperDesk (two configurations)

    MCServices = ScreenerStreams, QuoteCache, HistoricalScreener, OpportunityWindow,
                 AccountBoard (ServicesProofs), SpotHedge (SpotHedgeProofs)

           SpotHedge                               StrategyEngine
              ^---- SpotClaims

In the modules, a definition marked "Mutant" is not part of the model. It is a
wrong version of the definition after it, which `PROJECT.json` puts in that
definition's place to see the property fail.

### HedgedExecution

One action for every await of `_enter`, `_rollback_open` and `_exit` for two
futures legs. A *caller* is a coroutine that runs the service; `pc[c]` names the
await it stands at and `mem[c]` the locals it will use afterwards. `pos[e]` is the
net position of the symbol at exchange `e` in tokens, positive long. Two orders
of opposite direction net, as they do in the code, which sends no position side.
`Faults` chooses what exchanges may do to a call: refuse an order, execute it and
lose the answer, fill it in part, fail a position read, or end the call by an
exception. Amounts are whole tokens; `_harmonize_amounts`' common step, the floor
to the long exchange's step, and the imbalance tolerance are exact.

Two history variables serve the properties: `done[c]` is what the call's own
orders executed, and `misled[c]` says that the call was deceived: somebody else
traded one of its legs, a read failed, an answer was lost, or an order turned a
position from one side to the other (absolute sizes cannot show that).

### HedgeContract and HedgedKeepsContract

`HedgeContract` gives, for a call on a hedge, the set of (status, positions left)
it may answer, in one step and in units of the base notional. The trader's model
uses it in place of the twenty actions above. `HedgedKeepsContract` adds to the
executor two history variables, the positions a call started on (`from`) and
whether its legs were left to it (`alone`), and states that every outcome of the
detailed model lies in that set: the executor implements what its callers assume.
The contract counts in units, so it is compared for answers in which two amounts
within tolerance of each other are equal (`Fine`), and it knows no remainder of a
lot: on legs with different steps one arises only where exchanges may refuse or part
fill an order (`ContractAssumption`). `MaxSize` bounds the sizes TLC enumerates
answers for; the proof holds for any.

### LiveAutoTrader

The tick loop. `pc` says where the loop stands: `down`, `asleep`, in the `closing`,
`dca` or `opening` pass, or in the post-fill guard (`guarding`). `openPairs`,
`confirm`, `spreads`, `layers` and `cooldown` are the trader's dictionaries;
`todo`, `candidates`, `closed`, `count`, `taken` and `filled` are the locals of the
running tick. One action handles one pair of a pass, from the decision to the
executor's answer, as the loop body does; the market and crashes act between
steps, and an exception (`Raises`) leaves the tick from any of them with whatever
the pass had not yet written lost. `Restore` rebuilds the book from `pos`.

Prices are abstracted to what decisions read. `market[s]` is the answer of the
close check: `unknown` (missing, undated or skewed quotes), `apart`, `converged`.
The open check and the DCA guards may accept or reject anything. Sizes are units
of the base notional: an open adds one, a DCA two. `blamed` holds the symbols on
which a call did something other than what it was asked (or nothing), a read
failed, or an exception skipped a removal; the model says exactly what the book is
worth on the other symbols.

### LiveDesk and LiveLiquidation

`LiveDesk` runs the trader's executor calls, the liquidation guard, the funding
protection and the orphan monitor on one symbol, await against await. A watcher's
tick reads the exchanges one by one (`ReadsNext`, any of which may fail and answer
nothing), then pulls the pair it found through the executor (`PullsPair`, whose
steps are those of `HedgedExecution`), closes single legs by reduce-only orders
(`SoloCloses`), or reports (`Reports`). Whether a price is near a liquidation or
funding is costly is a choice. `overtaken` marks scans that a failed read or
another actor's order belies, `candid` that every call so far told the truth and
none acted on such a scan.

`LiveLiquidation` is the arithmetic that choice stands for: the leverage the guard
infers from the unrealized result and the share of the margin buffer it takes for
consumed.

### PaperDesk and PaperLedger

The store's file (`legs`) and the threads that write to it. A thread's read of the
file fixes its `queue` of writes; every write is a step of its own, so anything
falls between the two legs of a pair. Writes may raise, which abandons the rest of
the tick; the file may be unreadable, which the store takes for empty; the process
may crash and restore. The screener auto trader is modelled pass by pass with the
pairs it remembers (`tracked`) and the local lists of a pass (`leaving`).

`PaperLedger` is what the store promises about a pair: one leg at a time is
recorded or settled, each once, and a pair never goes back, unless a record is
written over a history that could not be read. `LedgerKept` is the refinement.

### The services

* `ScreenerStreams`: each generation of the screener worker as its thread, the
  watcher's task per exchange and the clients it opens; the runtime's start,
  reconnect and stop, which set a flag and schedule a cancellation from outside.
* `OpportunityWindow`: a websocket session. The push loop reads books and account,
  sends two messages and then decides; the receiver changes the parameters in
  between; the stream worker's thread supplies books.
* `HistoricalScreener`: scans with the filters they started with, the pruned
  history of each direction, the published opportunity.
* `AccountBoard`: position streams per exchange, the fetch of closed legs, and the
  grouping of legs into rows: each short, in the order of the list, takes the first
  long on another exchange that has no pair yet.
* `QuoteCache`: where a price comes from (streamed ticker, streamed book, REST book,
  cached quote stamped anew by a refresh) and how old it is when an open is
  confirmed. The paper trader asks the resolver once; the live trader clears the
  cache and checks twice. The resolver's check that both books are fresh
  (`EntrySpreadForOpen`) and its look into the cache for each leg (`LooksUp`) are
  steps of their own, with whatever other threads put in between; books and tickers
  may carry no time, and the two age limits differ.
* `SpotHedge`: the `futures_spot` branches of the executor, await by await, for a live
  or a dry-run service (`dry`). Spot orders may fill in part or lose their fee in
  tokens (`Executed`), and the code takes the request for the fill; closes are cut to
  lots. `slack` adds up what orders left undone of what was asked.

`MCServices` extends these six and puts them side by side: `part` says which of
them a behaviour is about. They share no variable and meet only at the exchanges, so a product of
them would show nothing more. `StrategyEngine` stands alone: the six calculators over
whole prices, rates and settlement times, and the choice of the best.

### Claims

`HedgedClaims`, `LiveClaims` and `SpotClaims` extend their module by sentences of the
repository that its code does not keep; `LiveLiquidation` and `StrategyEngine` state
one themselves. `LiveClaims` adds `streak`, the confirming checks of a pair in a row.

## 3. What is checked

| Run | Question | Result |
|---|---|---|
| `hedged_solo` | one live caller and a dry-run service, two calls of any kind, every fault, lots 1 and 2 | holds |
| `live_trader` | one symbol, every way the executor may answer, exceptions and crashes, with fairness; two symbols for one slot, failed reads | holds |
| `live_desk` | the trader against guard, protection and monitor, refused orders and failed reads; two watchers at a time without the trader, with fairness | holds |
| `paper_desk` | two pairs, trader against guard, re-entry and window, failing writes, crashes; one pair, every thread, unreadable files too, with fairness | holds |
| `services` | the six services, each with its threads | holds |
| `claim_rollback` | does `rolled_back` mean no unhedged exposure? | violated |
| `claim_blind` | does a successful close mean flat exchanges? | violated |
| `claim_liquidation` | is a leg closed when 80 % of its buffer is consumed? | violated |
| `claim_funding_sign` | does a recommended strategy deduct the funding that is charged? | violated |
| `claim_confirm` | do two consecutive ticks confirm a close? | violated |
| `claim_spot_dry` | does a dry run place no order on a spot hedge? | violated |
| `claim_spot_fills` | is a reported spot fill what was bought? | violated |

`live_trader`, `live_desk` and `paper_desk` have two configurations each, which the
variable `scene` of the MC module tells apart; a step never changes it, so a behaviour is of one
of them. Fairness is owed, and the liveness property stated, in one of the two; every
invariant and action property is about both.

### Properties

Executor and live trading:

* `HonestCallsKnowTheirLegs`: at every await of a call that was not deceived, its
  locals agree with the exchange and with the orders it sent.
* `FillsAreActual`, `NoSilentExposure`, `ExitSuccessIsBalanced`, `CloseAllFlattens`:
  what a status means for the legs, for calls that were not deceived.
* `SimulationPlacesNoOrder`: on two futures legs no step of a dry-run service moves a
  position. On a spot hedge it does (`SimulationPlacesNoSpotOrder`, below).
* `ContractKept`: every answer to a live call whose legs nobody else traded, with the
  positions it leaves, is one the contract allows.
* `Bookkeeping`: no dictionary of the trader speaks of a pair it does not track.
* `PassesAgree`: what a pass read before an await covers the book after it, and no check
  that found a pair apart lies between those its close count counts.
* `OnePairPerSymbol`, `OpensWithinLimits`: the trading limits.
* `BookMatchesExchanges`: on an unblamed symbol the book is the truth, restarts included.
* `LayersBoundExposure`: no sequence of restarts grows a pair beyond its layer limit.
* `ConvergedPairsClose` (liveness): a pair whose spread has converged for good is closed.
* `GuardsOnlyReduce`: no order of a guard opens, enlarges or turns a position, however
  old the scan it acts on.
* `QuietDeskIsHedged`: between trader, guard and protection there is no way to a naked
  leg but a call that admits one and a guard that acts on an overtaken scan.
* `AlarmsAreTrue`: an orphan is reported exactly when one leg stands alone, if the reads
  arrived and nobody traded meanwhile.
* `OrphansAreReported`, `EndangeredAreFlattened` (liveness): a lone leg is reported; a
  desk in danger is taken to nothing pair by pair and leg by leg.
* `SpotHedgeHolds`: until a call warns or the short was misread, short and tokens differ
  by no more than what spot orders left unfilled and closes left of their shares.

Paper trading:

* `LedgerKept` (refinement): every step of every thread is a step of `PaperLedger`.
* `ClosedIsFinal`: a closed leg is closed and charged no more.
* `ForgottenMeansClosed`: the trader drops a pair only when no leg of it is open.
* `TraderWithinLimits`: its pair and symbol limits, against what the file holds.
* `ReentryOnlyReplaces`: the re-entry opens only when the old pair is gone.
* `BrokenPairsSettle` (liveness): a tracked pair that lost a leg is settled.

Services:

* `GatewaysReleased`, `StoppedWorkersDie` (liveness): a worker that has ended holds no
  client, wherever the stop met it, its watcher's teardown included, and every worker that was
  replaced ends.
* `AutoTradesAsTold`, `ClosedWindowsEnd` (liveness): a window trades by itself only as
  the last command allows and on what it has read, and its threads end with it.
* `OpportunitiesHappened`: the spread the historical screener shows occurred within
  the lookback and reached the threshold of the scan that published it.
* `LegsInOneRow`: every leg of a snapshot is in one row, and a row of two is a hedge.
* `OpensOnFreshPrices`: the prices of a confirmed spread are within the book limit
  unless that leg's own REST read failed or its book ran out between the resolver's
  check and its look into the cache, and the books a live check passes on were read
  since it began or are streamed.

The claims, each violated: `RolledBackMeansHedged`, `ClosedMeansFlat`,
`ClosedByTheWarning`, `DeductsWhatAccrues`, `ClosesAreConsecutive`,
`SimulationPlacesNoSpotOrder`, `SpotFillsAreActual`.

Every property of a passing run has a mutant: a small change of one definition, such as a dropped
reset, a limit not looked at or a list that is not cleared, under which the run
finds it violated.

### Disagreements between the repository's text and its code

1. `_rollback_open` closes the whole short position of the symbol
   (`hedged_execution_service.py:607`). When the failed call was an accumulate, the
   hedge's long leg stays open alone and the answer is `rolled_back`, which
   `domain/strategy/execution_outcome.py:46` defines as "no unhedged exposure".
2. `fetch_open_positions` turns a failed request into an empty list
   (`exchanges/ccxt_base.py:597`), so a close with a failed read answers `success`
   over an open leg, against "position state and fills come from exchange
   positions" (`hedged_execution_service.py:32`).
3. The liquidation guard takes `1/(1 - result/value)` for the leverage
   (`live_liquidation_guard_service.py:259`). That is about 1.1 whatever the
   real leverage, so a 10x leg is liquidated before the guard sees 80 % of its buffer
   used.
4. `StrategyMath.funding_cost` lets a short pay a positive rate
   (`strategy_math.py:68`); the accrual service lets it receive one
   (`funding_accrual_service.py:75`), and charges it so.
5. "Need 2 consecutive ticks confirming close threshold" (`live_auto_trader.py:305`, also
   `:79`): a tick that cannot evaluate the pair leaves the count alone (`:274`, `:283`,
   `:289`), so the two ticks may be any number apart.
6. "`dry_run=True` simulates every action with no real orders"
   (`hedged_execution_service.py:35`; so does the repository's
   `tests/strategy/test_hedged_execution_spot.py:13`):
   the exit of a spot hedge (`:272-331`) never asks, closes the short and sells the tokens.
7. "Position state and fills come from exchange positions, never from intent"
   (`hedged_execution_service.py:32`): a spot fill is the amount asked for (`:412`), so a
   part fill, or a fee taken in tokens, gives `success` over unequal legs and no imbalance.

The models made other things visible that no text of the repository denies:

* A pair leaves the trader's book whatever its close answered
  (`live_auto_trader.py:367`), and an exception later in the close pass keeps closed
  pairs in the book, where the DCA pass may grow them. `BookMatchesExchanges`
  excludes both through `blamed`.
* Between the resolver's check that both books are fresh and its look into the cache
  time passes and others write, so a leg may be priced by a quote of up to
  `quote_max_age_seconds`, or by no price at all (`executable_spread_resolver.py:193-207`).
* A screener worker that gave up before it streamed and is stopped while it closes its
  gateways leaves the rest of them open (`screener_stream_worker.py:158-167`): the
  cancellation passes through the `except Exception`. `GatewaysReleased` names this case.
* An exit of a spot hedge floors its order to whole contracts and sells the exact share of
  the tokens, and its status does not compare the two (`hedged_execution_service.py:323`).
* A spot hedge buys the full amount of tokens when its short filled nothing, ignores
  the result of its rollback, and sells a share of the *whole* free balance.
  `SpotHedgeHolds` ends at the first such report.
* A refresh stamps tickers with the present time, whenever the stream last sent them,
  and overwrites the quote a streamed book left. The REST read before an open is
  what keeps this harmless for opens; the paper close pass has no such read.
* A malformed parameter ends the receiver of a window, whose last parameters stay in
  force until the client leaves.

### Bounds

*Executor.* Two exchanges are all a call touches. Sizes 1, 3 and 4 on lots 1 and 2
make a common step that floors, a floor to zero, a remainder within and beyond the
1 % tolerance, and part fills. Two calls give a second call every position a first
one can leave. `MaxCalls` is the only counter. The contract is compared for sizes
up to two, its answers to larger ones being too many to enumerate.

*Trader.* With one symbol on two exchanges both directions of a pair exist. Five
units leave room for one pair beyond the three units that the base order and the
single layer add up to. `MaxPos` is 2 there, so that only the symbol check stops a
second pair, and reads do not fail. With two symbols `MaxPos` is 1, so only the count
can stop the second; there sizes are one unit, the process does not crash, things go
wrong for one of the symbols only, and prices are gone once they have. A cooldown of one
tick is enough to see it set, carried and expired. Counts of confirming checks beyond 2
act like 2.

*Desk.* One symbol on two exchanges, lots of one, amounts of one: what is told apart
is flat, hedged, one leg, and turned. One configuration allows one call of the trader
and one scan at a time beside it: every await of a watcher meets every
await of the trader, and the guard's call meets the trader's. The other has
no calls of the trader, starts from nothing or a hedge, and lets two of the three
watchers be awake at once (`MaxAwake`), so guard and protection pull the same pair.

*Paper.* Two pairs on three exchanges with one in common let a close by exchange hit
the wrong leg; `MaxPos = 1` makes the second pair the one that must wait. At most two
of guard, re-entry, accrual and window are between their read and their last write
(`MaxBusy`), beside the trader at any point of its tick. The other
configuration has one pair on any of two markets and adds two funding charges and
unreadable files. When all pair ids are used up, nothing needs to happen any more, so
the run does not look for deadlocks.

*Services.* One exchange and one reconnect for the streams: exchanges do not see each
other, and the second generation is the one that must end the first. Two exchanges,
three positions for the account page: enough for two shorts and one long. Books of
two prices for a window. Three instants and prices up to 4 for the historical screener,
with lookbacks of one and two. Ages in `QuoteCache` count up to
"beyond the limit"; the quote limit is one tick and the book limit none, so a book runs out
before a quote. One exchange streams its books, which may carry no time, the other's tickers carry
none. `OneAtATime` keeps what the page of a replaced worker puts, and the reads of a live check,
out of a gather from the cache, except that a check that has just cleared it may meet one. Three calls of a
spot hedge: open, accumulate, close. A service may be stopped or used up, so the run
does not look for deadlocks. `claim_liquidation` moves the price in steps of 1 %.

### Fairness

* *Trader*: weak fairness of the steps of its loop as one action. `_async_main` loops
  until stopped, requests time out (`ccxt_request_timeout_ms`), every pass visits a
  finite list. `ConvergedPairsClose` adds that exceptions cease to cut ticks short: a
  tick that raises every time in the same read never reaches the pair.
* *Desk*: weak fairness of every watcher's loop and of its executor call, strong
  fairness of its waking, which stands for the bound on awake watchers and not for
  anything in the code. The two liveness properties suppose that reads arrive and
  orders are taken from some time on.
* *Paper*: weak fairness of the trader's passes and writes, strong fairness of a pass
  that finds a broken pair priced and old enough, since price and timeout come
  and go. `BrokenPairsSettle` supposes that the trader's writes cease to fail.
* *Streams*: weak fairness of every thread; strong fairness of loading an exchange's
  markets, which is tried again after every failure, and weak fairness of
  tickers. A stop that comes before the loop exists can cancel nothing; only the next
  ticker lets the worker see its flag, so without tickers it would never end.
* *Window*: weak fairness of the loop, the worker's thread and its consumers.

Nothing is asked of the market, of crashes, of commands or of any decision. The conditions
are guarded by the `scene` or `part` they are owed in.

## 4. What is proved

TLAPS checks these for every value of the constants that meets the assumptions.

*HedgedExecutionProofs.* `TypeCorrect`; `HonestCallsKnow`; from the two together
`ReportedFillsAreActual`, `NoExposureIsSilent`, `SuccessfulExitIsBalanced`; and
`SimulationIsHarmless`. The inductive invariant is
`TypeOK /\ HonestCallsKnowTheirLegs`. A status is decided from locals collected
over several awaits, so a promise about the status needs to know, at every await in
between, how those locals relate to the exchange. The proof has one lemma for the
steps of the call itself (`EnterKeepsTruth`, `ExitKeepsTruth`) and one for the steps
of others (`EnterUndisturbed`, `ExitUndisturbed`): an order of another caller on one
of the call's legs makes it `misled`, all others do not touch what it knows.
`SuccessfulCloseAllFlattens` needs more: a `close_all` sends what it saw, floored to
the lot, so it leaves nothing only because positions are whole lots. They start so,
and every fill of every order, part fills and reductions included, keeps them so;
that is an invariant of its own, about all exchanges at once.

*HedgedKeepsContractProofs.* `ContractIsKept`: at its answer every live call whose legs
nobody else traded is where the one-step contract says. The invariant `OnCourse`
follows the call from await to await (`Entering`, `Closing`): how far each leg is from
where it stood when the call began, in the terms of the contract's own fills and looks.
Together with the theorems about `LiveAutoTrader`, which uses the contract instead of
the executor, this says that what is proved of the trader holds of the code's twenty
awaits, as long as nobody else trades the legs of a call.

*LiveAutoTraderProofs.* `TraderTypes`, `BookkeepingHolds`, `PassesAgreeHolds`,
`OnePairPerSymbolHolds`, `OpensStayWithinLimits`. The inductive
invariant is `TypeOK /\ Bookkeeping /\ OnePairPerSymbol /\ PassesAgree`. They need each
other: a pair may be opened because `taken` covers the book (`PassesAgree`), hence it
is not tracked, hence no close count of an earlier life is left (`Bookkeeping`), hence
its count stays below the confirming checks of its present life, with none in between
that found it apart (`PassesAgree`), although opening resets only some of the
dictionaries.

*LiveBookProofs.* `BookIsTheTruth` and `ExposureStaysBounded`, on top of the invariant
above. `BookMatchesExchanges` says nothing while the trader is down, and nothing of
sizes beyond the layers the book knows. The strengthening `Truths` says, for every
unblamed symbol: what is held is within the bound, always; while the trader is down, it
is nothing or one whole hedge (`Left`), which is what a restart can find again; while
it is up, the symbol is tracked as a hedge or untracked and flat. The lemmas
`CallLeaves` and `CallBlames` say what an answer of the contract leaves on a symbol it
does not blame, `CrashTruth` and `RestoreTruth` take a symbol down and up again.

*LiveDeskProofs.* `DeskTypeCorrect`; `GuardsNeverAdd`, from the types and from what each
order of a watcher may close (a reduce-only order takes at most the position there is,
whatever the scan said); `AlarmsAreRight`, from the invariant `ScansTrue`: what a
watcher that nobody overtook has read so far is what the exchanges hold. `DeskTruth`
carries the executor's invariant over to the desk, where single legs are closed by
orders of the watchers that are no call of any caller: `DeskCallsKnow` and
`DeskCloseAllFlattens` are its consequences. The type and truth lemmas are those of
HedgedExecutionProofs.

`QuietDeskStaysHedged` is the desk's main result. Its invariant says that a candid desk
is either `Deceived` (some running call already is) or `Accounted`: the two
positions differ by exactly what the one call under way has sold and not yet
bought. A second call is under way only if one of the two has been misled, because
every order touches a leg of the other (`OnePair`). When the last call ends, the
difference is nothing or its answer admits one. Two hypotheses are needed:

* `OnePair`: the symbol is traded on two exchanges. With three, two calls may share one leg,
  and a desk can be hedged in total and in no pair; the trader keeps one pair per symbol,
  but a guard's pair need not be that one.
* amounts whose tolerance is below one token (`SmallSizes`, `[]SmallPositions`), since the
  executor answers `success` over legs that differ within the tolerance.

*PaperDeskProofs.* `PaperTypeCorrect`, `TraderStaysWithinLimits`, `ClosedStaysFinal`,
`ForgottenIsClosed`, `ReentryReplaces`, and the refinement `LedgerIsKept`. The inductive
invariant is `Known /\ Trusted`: what the trader remembers and what each queue still
has to write, in which order, against what the file says of those pairs. A limit is
checked on a read and used two writes later, so the invariant says of every open on its
way to the file that there is room for its pair; a close that arrives late is harmless only because no
queue can bring a closed leg back. Queues are flattened from lists of lists; what
flattening keeps is proved on prefixes by well-founded induction
(`FlattenSteps`, `FlattenKeeps`), without the library's induction operators.

*SpotHedgeProofs.* `SpotTypeCorrect`; `SpotHedgeIsKept`, from `Tracked`, which says at
every await how far short and tokens may be apart: by `slack`, and by the fill just
measured or the share of the position just closed. A share is taken of both legs, so it
shrinks their difference; what rounding to lots and part fills of a close add is in
`slack`. The percentages make the arithmetic nonlinear; `ShareIsLess` and its like keep
it apart from the steps.

*ServicesProofs*, part by part:

* Ticker streams: `StreamsTypeCorrect`; `EndedWorkersHoldNothing`. The inductive invariant
  adds `TeardownCovers`: while a worker closes its gateways, those that hold a client are
  among those it has yet to close. It holds although a cancellation may leave the watcher's
  tasks running: a gateway marked as closing opens no client. `SparedIsClosed` says that a
  cancellation which spared the watcher's teardown comes when all is closed.
* Quotes: `PricesAreFresh`. When a live check passes, the cache does not tell how its books
  came there: other threads write to it all the time. The inductive invariant adds
  `ReadSinceBegun`: while a check runs, from the clearing of the cache on, every book it
  may look at is no older than the check, unless its exchange's books are streamed; and
  `AwaitedAreFresh`: a leg a gather has yet to look up has a fresh book or has lapsed.
* Historical screener: `ShownSpreadsHappened`. The invariant `Kept` says that the
  histories hold only spreads that were computed, and that the direction shown has a point
  with its maximum in its window. That a maximum over a history *is* one of its points
  (`MaxOfBounded`) needs a least-number argument, for which prices are bounded.
* Window: `WindowsTradeAsTold`, from `WindowOK`: the loop decides only when its count
  has reached the cooldown, so a step that sets the count back is a trade.
* Account page: `LegsAreShownOnce`. The pairs are a fold over the shorts. That the fold
  exists (`PairsByShorts`) and what it yields (`PairsAreHedges`) is proved by induction on the
  number of shorts; `BoardOK` adds that open and closed legs never mix, so that the rows
  of the two lists cannot share a leg.

Assumptions: lot steps are positive, requests, limits and percentages are natural
numbers, symbols and exchanges are finite sets, the
callers of a desk are its traders, guards and protectors, every exchange is wired and
listed once, ages and their limits are natural numbers, prices are positive or at most
`MaxPrice`, lookbacks at most the clock; for the contract, `ContractAssumption` above. TLC evaluates them in the runs. The
hypotheses of `QuietDeskStaysHedged` are part of the theorem.

Every invariant and every action property of a passing run is proved. Only
model-checked are the liveness properties `ConvergedPairsClose`, `BrokenPairsSettle`,
`OrphansAreReported`, `EndangeredAreFlattened`, `StoppedWorkersDie` and
`ClosedWindowsEnd`: they rest on fairness, and so on ENABLED, which is outside the
prover's reach. The seven disagreements above are counterexamples that TLC finds. The
arithmetic of `LiveLiquidation` and `StrategyEngine` has no theorem, since the one claim of
each is refuted.

## 5. What is not modelled

Partly modelled, with what is missing:

* *Exchange gateway*: orders, position reads, streams and clients as their callers
  see them. Closed orders, funding and metadata calls are parsing of answers.
* *Live auto trader*: the strategy remembered per pair (lost at a restart) and the
  margin mode set before an open. A change of the base notional across a restart,
  which would change the layers `_restore_open_pairs` infers, is not modelled: it is a
  constant.
* *Opportunity window*: live mode calls the executor modelled elsewhere with gateways
  that carry no keys (`opportunity_ws_handler.py:322-325`), so it places no order.
* *Screener book worker*: what it publishes is in `QuoteCache`; its semaphore, which
  endless streams never release (`screener_book_stream_worker.py:172`), is not. The
  spot stream worker has the loops of the others.
* *Account and funding workers*: the funding worker fills a dictionary.
* *Runtime*: start, reconnect and stop of the screener worker; the rest wires objects.
* *Strategy tables, opportunity data*: tables and seeds shared with the pages.

Not modelled: the *historical auto trader*, which calls the paper gateway with
arguments it does not take (`historical_auto_trader.py:157`, `:212`) and so does
nothing; *exchange adapters* and *configuration stores*, which parse and hold values
and are constants here; *token identity*, one of the open check's rejections;
*presentation*, *mock backend*, *React client*, *logs* and *notifications*, which keep no
trading state. The float arithmetic of order books and profits is abstracted
to the decisions it leads to, except where a module is about it.

Hazards known and not in the list of `PROJECT.json`, because no model here reaches
them: `symbol_universe_service.py:105` saves a list that failed to load as an empty
one; `historical_screener_worker.py:81` and `account_stream_worker.py:41` take a thread
that is about to end for one that works, so a start right after a stop is lost
(`HistoricalScreener` and `AccountBoard` have the step, no text promises otherwise);
`live_auto_trader.py:643` opens on a strategy that a restart forgets.
