---------------------------- MODULE LiveAutoTrader ----------------------------
(***************************************************************************)
(* The live auto trader (application/trading/live_auto_trader.py): the     *)
(* tick loop with its close, DCA and open passes, the post-fill guard, and *)
(* the restart that rebuilds the book from the exchanges' positions.       *)
(*                                                                         *)
(* The trader runs on an event loop of its own and awaits one thing at a   *)
(* time; a step is the work between two points at which the market, a      *)
(* crash or an exception can matter.  The executor answers within          *)
(* HedgeContract.  Prices are abstracted to what the decisions read: has   *)
(* the exit spread of a symbol converged (market), may a candidate be      *)
(* opened, may a pair be accumulated (either way, at every check).         *)
(*                                                                         *)
(* Faults are those of HedgeContract, and here                             *)
(*   blind   also a failed position read at restart or in the guard        *)
(*   abort   also an exception that ends the tick                          *)
(*   crash   the process dies and its memory is lost                       *)
(***************************************************************************)
EXTENDS HedgeContract, FiniteSets

CONSTANTS
  Symbols,
  Exchanges,
  MaxPos,       \* screener_auto_trade_max_positions
  MaxLayers,    \* live_auto_trade_dca_max_layers
  Cooldown,     \* open_fail_cooldown_sec, in ticks
  MaxUnits      \* bound: the margin an exchange lends to one symbol, in units

ASSUME LimitsAssumption ==
  /\ MaxPos \in Nat /\ MaxLayers \in Nat /\ Cooldown \in Nat /\ MaxUnits \in Nat
  /\ IsFiniteSet(Symbols) /\ IsFiniteSet(Exchanges)

\* (symbol, short_exchange_id, long_exchange_id)
Keys == {k \in Symbols \X Exchanges \X Exchanges : k[2] # k[3]}
Symbol(k) == k[1]
Short(k) == k[2]
Long(k) == k[3]

VARIABLES
  pos,       \* pos[s][e]: the position of symbol s on exchange e, in units
  market,    \* market[s]: the exit spread of s, as a fresh check would see it
  live,      \* has the screener's stream come alive (it never reports a loss)
  pc,        \* where the tick loop stands
  todo,      \* the pairs the running pass has still to visit
  candidates,\* the pairs of this tick above the open threshold, best per symbol
  closed,    \* to_remove
  count,     \* open_count, read when the open pass starts
  taken,     \* already_open_symbols, read when the open pass starts
  filled,    \* the pair the post-fill guard looks at
  openPairs, \* _open_pairs
  confirm,   \* _close_confirm: 0 stands for no entry
  spreads,   \* the pairs with an entry in _entry_spreads
  layers,    \* _dca_layers: 0 also stands for no entry
  cooldown,  \* _open_cooldown: ticks left
  sent,      \* the executor call this step made, if any
  seenClose, \* history: checks that found the pair converged since one found it apart
  blamed     \* history: symbols on which a call, a read or a removal went wrong

memory == <<openPairs, confirm, spreads, layers, cooldown>>
control == <<pc, todo, candidates, closed, count, taken, filled>>
world == <<pos, market, live>>
history == <<sent, seenClose, blamed>>
vars == <<world, control, memory, history>>

Markets == {"unknown", "apart", "converged"}
NoCall == [kind |-> "none"]
NoKey == <<>>

Init ==
  /\ pos = [s \in Symbols |-> [e \in Exchanges |-> 0]]
  /\ market = [s \in Symbols |-> "unknown"]
  /\ live = FALSE
  /\ pc = "down"
  /\ todo = {} /\ candidates = {} /\ closed = {} /\ taken = {}
  /\ count = 0
  /\ filled = NoKey
  /\ openPairs = {} /\ spreads = {}
  /\ confirm = [k \in Keys |-> 0]
  /\ layers = [k \in Keys |-> 0]
  /\ cooldown = [k \in Keys |-> 0]
  /\ sent = NoCall
  /\ seenClose = [k \in Keys |-> 0]
  /\ blamed = {}

-----------------------------------------------------------------------------
\* The exchanges and the executor.

HedgeOf(k) == Hedge(pos[Symbol(k)][Short(k)], pos[Symbol(k)][Long(k)])

Leaves(k, answer) ==
  pos' = [pos EXCEPT ![Symbol(k)][Short(k)] = answer.short,
                     ![Symbol(k)][Long(k)] = answer.long]

Lent(answer) == answer.short \in -MaxUnits .. MaxUnits /\ answer.long \in -MaxUnits .. MaxUnits

\* An exception in the close pass comes before the closed pairs are forgotten.
Forgettable == {Symbol(k) : k \in closed}

\* The executor answers a call for n units (0 closes the pair).
Calls(kind, k, n, answer) ==
  /\ answer \in IF n = 0 THEN CloseAnswers(HedgeOf(k)) ELSE EnterAnswers(HedgeOf(k), n)
  /\ Lent(answer)
  /\ Leaves(k, answer)
  /\ sent' = [kind |-> kind, key |-> k, status |-> answer.status]
  /\ LET h == HedgeOf(k)
         asked == IF n = 0 THEN Answer("success", 0, 0)
                  ELSE Answer("success", h.short - n, h.long + n)
         refused == n # 0 /\ answer.status \in {"failed", "rolled_back", "raised"}
                    /\ answer.short = h.short /\ answer.long = h.long
     IN  blamed' = blamed \cup (IF answer = asked \/ refused THEN {} ELSE {Symbol(k)})
                          \cup (IF answer.status = "raised" THEN Forgettable ELSE {})

MarketMoves ==
  /\ \E s \in Symbols, m \in Markets :
       m # market[s] /\ market' = [market EXCEPT ![s] = m]
  /\ sent' = NoCall
  /\ UNCHANGED <<pos, live, control, memory, seenClose, blamed>>

GoesLive ==
  /\ ~live /\ live' = TRUE
  /\ sent' = NoCall
  /\ UNCHANGED <<pos, market, control, memory, seenClose, blamed>>

\* _tick returns or is left by an exception, which the loop logs.
TickOver ==
  /\ pc' = "asleep"
  /\ todo' = {} /\ candidates' = {} /\ closed' = {} /\ taken' = {} /\ count' = 0
  /\ filled' = NoKey

-----------------------------------------------------------------------------
\* _restore_open_pairs: one pair per symbol with a short and a long leg among
\* the exchanges that answered.

Shorts(s, seen) == {e \in seen : pos[s][e] < 0}
Longs(s, seen) == {e \in seen : pos[s][e] > 0}
Restorable(seen) == {k \in Keys : Short(k) \in Shorts(Symbol(k), seen)
                                  /\ Long(k) \in Longs(Symbol(k), seen)}

\* Mutants of RestoredLayers: every pair is a fresh one; one layer too few.
ForgetfulLayers(k) == 0
FewerLayers(k) == -pos[Symbol(k)][Short(k)] - 2

\* The layers read off the size of the short leg: a DCA adds two units.
RestoredLayers(k) ==
  LET units == -pos[Symbol(k)][Short(k)]
  IN  IF units > 1 THEN units - 1 ELSE 0

\* A position without an entry price restores neither a spread nor a size.
Restore ==
  /\ pc = "down"
  /\ \E seen \in {Exchanges} \cup When("blind", SUBSET Exchanges) :
       \E pairs \in SUBSET Restorable(seen) :
         \E priced \in {pairs} \cup When("blind", SUBSET pairs) :
            /\ \A j, k \in pairs : Symbol(j) = Symbol(k) => j = k
            /\ {Symbol(k) : k \in Restorable(seen)} = {Symbol(k) : k \in pairs}
            /\ openPairs' = pairs
            /\ spreads' = priced
            /\ layers' = [k \in Keys |-> IF k \in priced THEN RestoredLayers(k) ELSE 0]
            /\ blamed' = blamed \cup {Symbol(k) : k \in pairs \ priced}
                               \cup {s \in Symbols : \E e \in Exchanges \ seen : pos[s][e] # 0}
  /\ pc' = "asleep"
  /\ sent' = NoCall
  /\ UNCHANGED <<world, todo, candidates, closed, count, taken, filled, confirm, cooldown, seenClose>>

\* stop() or the death of the process: the coroutine is gone with its memory.
\* Inside an executor call this is the call's exception, then the crash.
Crash ==
  /\ "crash" \in Faults
  /\ pc # "down"
  /\ pc' = "down"
  /\ todo' = {} /\ candidates' = {} /\ closed' = {} /\ taken' = {} /\ count' = 0
  /\ filled' = NoKey
  /\ openPairs' = {} /\ spreads' = {}
  /\ confirm' = [k \in Keys |-> 0]
  /\ layers' = [k \in Keys |-> 0]
  /\ cooldown' = [k \in Keys |-> 0]
  /\ seenClose' = [k \in Keys |-> 0]
  /\ sent' = NoCall
  /\ UNCHANGED <<world, blamed>>

-----------------------------------------------------------------------------
\* _tick

TimePasses == cooldown' = [k \in Keys |-> IF cooldown[k] > 0 THEN cooldown[k] - 1 ELSE 0]

IdleTick ==
  /\ pc = "asleep" /\ ~live
  /\ TimePasses
  /\ sent' = NoCall
  /\ UNCHANGED <<world, control, openPairs, confirm, spreads, layers, seenClose, blamed>>

\* The candidates are the best pair of every symbol above the threshold.
StartTick ==
  /\ pc = "asleep" /\ live
  /\ pc' = "closing"
  /\ todo' = openPairs
  /\ closed' = {}
  /\ \E best \in SUBSET Keys :
       /\ \A j, k \in best : Symbol(j) = Symbol(k) => j = k
       /\ candidates' = best
  /\ TimePasses
  /\ sent' = NoCall
  /\ UNCHANGED <<world, count, taken, filled, openPairs, confirm, spreads, layers, seenClose, blamed>>

\* The close check of one pair.  Quotes that are missing or too far apart in
\* time say nothing and leave the count as it is.
CheckSkipped(k) ==
  /\ market[Symbol(k)] = "unknown"
  /\ sent' = NoCall
  /\ UNCHANGED <<closed, pos, confirm, seenClose, blamed>>

\* Mutant: the count survives a check that finds the pair apart.
ApartKeepsCount(k) ==
  /\ market[Symbol(k)] = "apart"
  /\ seenClose' = [seenClose EXCEPT ![k] = 0]
  /\ sent' = NoCall
  /\ UNCHANGED <<closed, pos, confirm, blamed>>

CheckApart(k) ==
  /\ market[Symbol(k)] = "apart"
  /\ confirm' = [confirm EXCEPT ![k] = 0]
  /\ seenClose' = [seenClose EXCEPT ![k] = 0]
  /\ sent' = NoCall
  /\ UNCHANGED <<closed, pos, blamed>>

\* Counts beyond 2 act like 2.
Counted(n) == IF n < 2 THEN n + 1 ELSE 2

\* Mutant: the count is not written back.
ConfirmsUnwritten(k) ==
  /\ market[Symbol(k)] = "converged"
  /\ seenClose' = [seenClose EXCEPT ![k] = Counted(@)]
  /\ UNCHANGED confirm

Confirms(k) ==
  /\ market[Symbol(k)] = "converged"
  /\ confirm' = [confirm EXCEPT ![k] = Counted(@)]
  /\ seenClose' = [seenClose EXCEPT ![k] = Counted(@)]

CheckConverged(k) ==
  /\ Confirms(k)
  /\ Counted(confirm[k]) < 2
  /\ sent' = NoCall
  /\ UNCHANGED <<closed, pos, blamed>>

Close(k) ==
  /\ Confirms(k)
  /\ Counted(confirm[k]) = 2
  /\ \E answer \in CloseAnswers(HedgeOf(k)) :
       answer.status # "raised" /\ Calls("close", k, 0, answer)
  /\ closed' = closed \cup {k}

CloseStep ==
  /\ pc = "closing"
  /\ \E k \in todo :
       /\ todo' = todo \ {k}
       /\ CheckSkipped(k) \/ CheckApart(k) \/ CheckConverged(k) \/ Close(k)
  /\ UNCHANGED <<market, live, pc, candidates, count, taken, filled,
                 openPairs, spreads, layers, cooldown>>

CloseRaises ==
  /\ pc = "closing"
  /\ \E k \in todo :
       /\ Confirms(k)
       /\ Counted(confirm[k]) = 2
       /\ \E answer \in CloseAnswers(HedgeOf(k)) :
            answer.status = "raised" /\ Calls("close", k, 0, answer)
  /\ TickOver
  /\ UNCHANGED <<market, live, openPairs, spreads, layers, cooldown>>

\* Mutant: the accumulated layers outlive the pair.
ForgetButLayers(pairs) ==
  /\ openPairs' = openPairs \ pairs
  /\ spreads' = spreads \ pairs
  /\ UNCHANGED layers

\* The pairs whose close was sent are forgotten, whatever it answered.
Forget(pairs) ==
  /\ openPairs' = openPairs \ pairs
  /\ spreads' = spreads \ pairs
  /\ layers' = [k \in Keys |-> IF k \in pairs THEN 0 ELSE layers[k]]

EndClosing ==
  /\ pc = "closing" /\ todo = {}
  /\ Forget(closed)
  /\ confirm' = [k \in Keys |-> IF k \in closed THEN 0 ELSE confirm[k]]
  /\ pc' = "dca"
  /\ todo' = openPairs'
  /\ closed' = {}
  /\ sent' = NoCall
  /\ UNCHANGED <<world, candidates, count, taken, filled, cooldown, seenClose, blamed>>

-----------------------------------------------------------------------------
\* _dca_pass

DcaSkipped ==
  /\ sent' = NoCall
  /\ UNCHANGED <<pos, layers, blamed>>

MayAccumulate(k) == layers[k] < MaxLayers /\ k \in spreads

Accumulate(k) ==
  /\ MayAccumulate(k)
  /\ \E answer \in EnterAnswers(HedgeOf(k), 2) :
       /\ answer.status # "raised"
       /\ Calls("dca", k, 2, answer)
       /\ layers' = IF answer.status \in {"success", "partial"}
                    THEN [layers EXCEPT ![k] = @ + 1] ELSE layers

DcaStep ==
  /\ pc = "dca"
  /\ \E k \in todo :
       /\ todo' = todo \ {k}
       /\ DcaSkipped \/ Accumulate(k)
  /\ UNCHANGED <<market, live, pc, candidates, closed, count, taken, filled,
                 openPairs, confirm, spreads, cooldown, seenClose>>

DcaRaises ==
  /\ pc = "dca"
  /\ \E k \in todo :
       /\ MayAccumulate(k)
       /\ \E answer \in EnterAnswers(HedgeOf(k), 2) :
            answer.status = "raised" /\ Calls("dca", k, 2, answer)
  /\ TickOver
  /\ UNCHANGED <<market, live, memory, seenClose>>

EndDca ==
  /\ pc = "dca" /\ todo = {}
  /\ pc' = "opening"
  /\ count' = Cardinality(openPairs)
  /\ taken' = {Symbol(k) : k \in openPairs}
  /\ sent' = NoCall
  /\ UNCHANGED <<world, todo, candidates, closed, filled, memory, seenClose, blamed>>

-----------------------------------------------------------------------------
\* The open pass and _post_fill_guard.

\* A candidate falls to a limit or to one of the two checks.
OpenSkipped ==
  /\ sent' = NoCall
  /\ UNCHANGED <<pc, pos, count, taken, filled, openPairs, spreads, layers, cooldown, seenClose, blamed>>

\* Mutant: the symbols of the tracked pairs are not looked at.
MayOpenAgain(k) == count < MaxPos /\ cooldown[k] = 0

MayOpen(k) == count < MaxPos /\ Symbol(k) \notin taken /\ cooldown[k] = 0

\* Mutant: an opened pair is not counted.
TracksUncounted(k) ==
  /\ openPairs' = openPairs \cup {k}
  /\ taken' = taken \cup {Symbol(k)}
  /\ UNCHANGED count

Tracks(k) ==
  /\ openPairs' = openPairs \cup {k}
  /\ count' = count + 1
  /\ taken' = taken \cup {Symbol(k)}


Opened(k) ==
  /\ MayOpen(k)
  /\ \E answer \in EnterAnswers(HedgeOf(k), 1) :
       answer.status \in {"success", "partial"} /\ Calls("open", k, 1, answer)
  /\ Tracks(k)
  /\ spreads' = spreads \cup {k}
  /\ layers' = [layers EXCEPT ![k] = 0]
  /\ seenClose' = [seenClose EXCEPT ![k] = 0]
  /\ pc' = "guarding" /\ filled' = k
  /\ UNCHANGED cooldown

NotOpened(k) ==
  /\ MayOpen(k)
  /\ \E answer \in EnterAnswers(HedgeOf(k), 1) :
       answer.status \in {"failed", "rolled_back"} /\ Calls("open", k, 1, answer)
  /\ cooldown' = [cooldown EXCEPT ![k] = Cooldown]
  /\ UNCHANGED <<pc, count, taken, filled, openPairs, spreads, layers, seenClose>>

OpenStep ==
  /\ pc = "opening"
  /\ \E k \in candidates :
       /\ candidates' = candidates \ {k}
       /\ OpenSkipped \/ Opened(k) \/ NotOpened(k)
  /\ UNCHANGED <<market, live, todo, closed, confirm>>

OpenRaises ==
  /\ pc = "opening"
  /\ \E k \in candidates :
       /\ MayOpen(k)
       /\ \E answer \in EnterAnswers(HedgeOf(k), 1) :
            answer.status = "raised" /\ Calls("open", k, 1, answer)
  /\ TickOver
  /\ UNCHANGED <<market, live, memory, seenClose>>

\* The guard needs both legs; it closes the pair when the real spread is low.
GuardPasses ==
  /\ pc = "guarding"
  /\ pc' = "opening" /\ filled' = NoKey
  /\ sent' = NoCall
  /\ UNCHANGED <<world, todo, candidates, closed, count, taken, memory, seenClose, blamed>>

LowSpread ==
  /\ pc = "guarding"
  /\ HedgeOf(filled).short # 0 /\ HedgeOf(filled).long # 0

\* Mutant: the guard closes the pair and keeps it in the book.
GuardKeeps ==
  /\ LowSpread
  /\ \E answer \in CloseAnswers(HedgeOf(filled)) :
       answer.status # "raised" /\ Calls("guard", filled, 0, answer)
  /\ pc' = "opening" /\ filled' = NoKey
  /\ UNCHANGED <<market, live, todo, candidates, closed, count, taken, memory, seenClose>>

GuardCloses ==
  /\ LowSpread
  /\ \E answer \in CloseAnswers(HedgeOf(filled)) :
       answer.status # "raised" /\ Calls("guard", filled, 0, answer)
  /\ Forget({filled})
  /\ pc' = "opening" /\ filled' = NoKey
  /\ UNCHANGED <<market, live, todo, candidates, closed, count, taken, confirm, cooldown, seenClose>>

GuardRaises ==
  /\ LowSpread
  /\ \E answer \in CloseAnswers(HedgeOf(filled)) :
       answer.status = "raised" /\ Calls("guard", filled, 0, answer)
  /\ TickOver
  /\ UNCHANGED <<market, live, memory, seenClose>>

EndTick ==
  /\ pc = "opening" /\ candidates = {}
  /\ TickOver
  /\ sent' = NoCall
  /\ UNCHANGED <<world, memory, seenClose, blamed>>

\* A read that raises ends the tick in any of its passes.
TickRaises ==
  /\ "abort" \in Faults
  /\ pc \in {"closing", "dca", "opening"}
  /\ TickOver
  /\ sent' = NoCall
  /\ blamed' = blamed \cup Forgettable
  /\ UNCHANGED <<world, memory, seenClose>>

Trader ==
  \/ Restore \/ IdleTick \/ StartTick \/ CloseStep \/ EndClosing \/ DcaStep \/ EndDca
  \/ OpenStep \/ GuardPasses \/ GuardCloses \/ EndTick

Raises == CloseRaises \/ DcaRaises \/ OpenRaises \/ GuardRaises \/ TickRaises

Next == Trader \/ Raises \/ Crash \/ MarketMoves \/ GoesLive

Spec == Init /\ [][Next]_vars

\* The loop never stops by itself and its awaits return.
FairSpec == Spec /\ WF_vars(Trader)

-----------------------------------------------------------------------------
\* Properties.

PCs == {"down", "asleep", "closing", "dca", "opening", "guarding"}
CallRecords == [kind : {"open", "dca", "close", "guard"}, key : Keys, status : AnswerStatuses]

TypeOK ==
  /\ pos \in [Symbols -> [Exchanges -> -MaxUnits .. MaxUnits]]
  /\ market \in [Symbols -> Markets] /\ live \in BOOLEAN
  /\ pc \in PCs
  /\ {todo, candidates, closed, openPairs, spreads} \subseteq SUBSET Keys
  /\ count \in Nat /\ taken \subseteq Symbols
  /\ filled \in {NoKey} \cup Keys
  /\ confirm \in [Keys -> 0 .. 2] /\ seenClose \in [Keys -> 0 .. 2]
  /\ layers \in [Keys -> Nat] /\ cooldown \in [Keys -> 0 .. Cooldown]
  /\ sent \in {NoCall} \cup CallRecords
  /\ blamed \subseteq Symbols

\* The trader's dictionaries speak of the same pairs, whichever pass, guard,
\* exception or restart changed them last: nothing outlives a forgotten pair
\* that a later life of the same pair would inherit.
Bookkeeping ==
  /\ spreads \subseteq openPairs
  /\ \A k \in Keys : confirm[k] > 0 \/ layers[k] > 0 => k \in openPairs
  /\ closed \subseteq openPairs
  /\ pc = "guarding" => filled \in openPairs /\ confirm[filled] = 0

\* What the passes remember stays true of the book while they await: a pass
\* visits tracked pairs only, the symbols and the number of pairs read when the
\* open pass started cover every pair opened since, and a pair's close count is
\* of its present life, with no check in between that found it apart.
PassesAgree ==
  /\ pc = "down" => openPairs = {}
  /\ pc # "closing" => closed = {}
  /\ pc \in {"closing", "dca"} => todo \subseteq openPairs
  /\ pc \in {"opening", "guarding"} =>
       /\ \A k \in openPairs : Symbol(k) \in taken
       /\ Cardinality(openPairs) <= count
  /\ \A k \in Keys : confirm[k] <= seenClose[k]

\* The trader never tracks two pairs of one symbol: its legs would share
\* positions that neither pair's close can tell apart.
OnePairPerSymbol ==
  \A j, k \in openPairs : Symbol(j) = Symbol(k) => j = k

\* Two equal legs of opposite sides, no larger than the layers account for.
IsHedged(k) ==
  \E u \in 1 .. 1 + 2 * layers[k] :
    \A e \in Exchanges : pos[Symbol(k)][e] = IF e = Short(k) THEN -u
                                            ELSE IF e = Long(k) THEN u ELSE 0

IsFlat(s) == \A e \in Exchanges : pos[s][e] = 0

\* On a symbol where every call answered what it was asked for or did nothing,
\* and every read arrived, the book is the truth: a tracked pair is a hedge on
\* its two exchanges and nothing is held that is not tracked.  Restarts keep it.
BookMatchesExchanges ==
  \A s \in Symbols \ blamed :
    \/ pc = "down"
    \/ \E k \in openPairs \ closed : Symbol(k) = s /\ IsHedged(k)
    \/ IsFlat(s) /\ \A k \in openPairs : Symbol(k) = s => k \in closed

\* However often the process restarts, the pair of an unblamed symbol never grows
\* beyond the base layer and MaxLayers accumulations.
LayersBoundExposure ==
  \A s \in Symbols \ blamed, e \in Exchanges :
    pos[s][e] \in -(1 + 2 * MaxLayers) .. 1 + 2 * MaxLayers

\* An open is sent only while fewer than MaxPos pairs are tracked and none of
\* the same symbol, although both were read at the start of the pass.
OpensWithinLimits ==
  [][sent'.kind = "open"
       => /\ Cardinality(openPairs) < MaxPos
          /\ \A k \in openPairs : Symbol(k) # Symbol(sent'.key)]_vars

CutShort ==
  /\ pc \in {"closing", "dca", "opening", "guarding"} /\ pc' = "asleep"
  /\ ~(pc = "opening" /\ candidates = {})

\* A tracked pair whose spread has converged for good is closed, whatever the
\* trader does with other pairs, unless exceptions never cease to end its ticks.
ClosesOnceConverged(k) ==
  <>[][~CutShort]_vars =>
    [](k \in openPairs /\ live /\ [](market[Symbol(k)] = "converged") => <>(k \notin openPairs))
=============================================================================
