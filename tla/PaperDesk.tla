------------------------------- MODULE PaperDesk -------------------------------
(***************************************************************************)
(* Paper trading: one JSON store of orders under one lock per operation,   *)
(* and the threads that write to it.  Each of them reads the store, decides*)
(* from what it read, and then writes one leg at a time, so between its    *)
(* read and its writes, and between the two legs of a pair, every other    *)
(* thread may write.  The threads are the screener auto trader, the        *)
(* liquidation guard, the funding re-entry service, the funding accrual    *)
(* service and an opportunity window.                                      *)
(*                                                                         *)
(* A thread's pending work is a queue of operations: what its loop body    *)
(* still has to do after the read.  Prices, spreads, fees and amounts are  *)
(* left out; whatever they decide is a nondeterministic choice.            *)
(***************************************************************************)
EXTENDS Naturals, Sequences, FiniteSets, FiniteSetsExt, SequencesExt

CONSTANTS
    MaxPairs,       \* bound on the pair ids (uuids) of a behaviour
    Markets,        \* what can be traded: [symbol, short, long]
    WindowMarket,   \* the market of the opportunity window
    MaxPos,         \* screener_auto_trade_max_positions
    MaxCharges,     \* bound on the funding charges of a behaviour
    MaxBusy,        \* bound on the services that are between a read and their last write
    Faults          \* "write_fails", "unreadable", "crash"

ASSUME PaperAssumption ==
    /\ \A m \in Markets : m.short # m.long
    /\ WindowMarket \in Markets
    /\ MaxPairs \in Nat /\ MaxPos \in Nat /\ MaxCharges \in Nat /\ MaxBusy \in Nat
    /\ Faults \subseteq {"write_fails", "unreadable", "crash"}

VARIABLES
    deal,       \* what a pair id stands for: market, and whether the trader made it
    legs,       \* the file: the two legs of every pair
    tracked,    \* ScreenerAutoTrader._open_pairs
    phase,      \* the pass of the trader's tick
    leaving,    \* closed_pair_ids, unhedged_to_close: what a pass will forget at its end
    marked,     \* the pairs the liquidation guard found endangered
    queue,      \* what every thread still has to do
    misread     \* a read of the file failed once (history)

vars == <<deal, legs, tracked, phase, leaving, marked, queue, misread>>

Pairs   == 1 .. MaxPairs
Sides   == {"sell", "buy"}
Exchanges == {m.short : m \in Markets} \cup {m.long : m \in Markets}
Actors  == {"trader", "guard", "reentry", "accrual", "window"}
NoDeal  == [market |-> WindowMarket, auto |-> FALSE, made |-> FALSE]
Missing == [status |-> "none", funding |-> 0]
Empty   == [p \in Pairs |-> [s \in Sides |-> Missing]]

--------------------------------------------------------------------------------
(* The store *)

ExchangeOf(p, s) == IF s = "sell" THEN deal[p].market.short ELSE deal[p].market.long

Filled(file, p)  == {s \in Sides : file[p][s].status = "filled"}
Settled(file, p) == {s \in Sides : file[p][s].status = "closed"}
Hedged(file, p)  == Filled(file, p) = Sides
Live(file, p)    == Filled(file, p) # {}

\* open_pairs, and what a restart restores from: a pair with a closed leg is closed.
OpenPairs(file) == {p \in Pairs : Live(file, p) /\ Settled(file, p) = {}}

MatchesAnyStatus(file, p, ex)   == {s \in Filled(file, p) \cup Settled(file, p) : ExchangeOf(p, s) = ex}
MatchesAnyExchange(file, p, ex) == Filled(file, p)

\* The order a close or a charge finds: the filled leg of the pair on the exchange.
Matching(file, p, ex) == {s \in Filled(file, p) : ExchangeOf(p, s) = ex}

RecordOpen(file, p, s) ==
    [file EXCEPT ![p][s] = [status |-> "filled", funding |-> 0]]

RecordClose(file, p, ex) ==
    [file EXCEPT ![p] = [s \in Sides |->
        IF s \in Matching(file, p, ex)
        THEN [file[p][s] EXCEPT !.status = "closed"] ELSE file[p][s]]]

AccrueFunding(file, p, ex) ==
    [file EXCEPT ![p] = [s \in Sides |->
        IF s \in Matching(file, p, ex)
        THEN [file[p][s] EXCEPT !.funding = @ + 1] ELSE file[p][s]]]

Charged(file) == MapThenSumSet(LAMBDA p : file[p]["sell"].funding + file[p]["buy"].funding, Pairs)

\* What a read returns: the file, or nothing when it cannot be read or parsed.
Read(file) == {file} \cup (IF "unreadable" \in Faults THEN {Empty} ELSE {})

--------------------------------------------------------------------------------
(* What a thread has to do *)

Op(do, p, arg) == [do |-> do, pair |-> p, arg |-> arg]

Opens(p)        == <<Op("open", p, "sell"), Op("open", p, "buy")>>
Closes(p, m)    == <<Op("close", p, m.short), Op("close", p, m.long)>>
ClosesOwn(p)    == Closes(p, deal[p].market)
ClosesLeg(p, s) == <<Op("close", p, ExchangeOf(p, s))>>

\* One piece of work per pair, in the order the pairs were opened.
ForEach(S, Work(_)) ==
    FlattenSeq([p \in Pairs |-> IF p \in S THEN Work(p) ELSE <<>>])

\* The ids of the pairs are made one after the other.
Fresh == {p \in Pairs : ~deal[p].made /\ \A q \in Pairs : q < p => deal[q].made}

Names(p, m, auto) ==
    deal' = [deal EXCEPT ![p] = [market |-> m, auto |-> auto, made |-> TRUE]]

Idle(a)   == queue[a] = <<>>
Starts(a) == Idle(a) /\ Cardinality({b \in Actors \ {"trader"} : ~Idle(b)}) < MaxBusy
Does(a, work) == queue' = [queue EXCEPT ![a] = work]

Sees(file) == misread' = (misread \/ file # legs)

\* The operation changes the file, so it is the one that can fail in _write.
Result(file, op) ==
    CASE op.do = "open"   -> RecordOpen(file, op.pair, op.arg)
      [] op.do = "close"  -> RecordClose(file, op.pair, op.arg)
      [] op.do = "accrue" -> AccrueFunding(file, op.pair, op.arg)
      [] OTHER            -> file

StoreOps == {"open", "close", "accrue"}

\* A pair the trader opened is tracked once both its legs are recorded.
Tracks(a) ==
    {p \in Pairs : a = "trader" /\ Head(queue[a]) = Op("open", p, "buy")}

\* _write replaces the file; a close or a charge that matches nothing writes nothing.
Write(a) ==
    /\ ~Idle(a) /\ Head(queue[a]).do \in StoreOps
    /\ \E file \in Read(legs) :
          /\ legs' = LET new == Result(file, Head(queue[a]))
                     IN  IF new = file THEN legs ELSE new
          /\ Sees(file)
    /\ Does(a, Tail(queue[a]))
    /\ tracked' = tracked \cup Tracks(a)
    /\ UNCHANGED <<deal, phase, leaving, marked>>

\* The write raises: the rest of the tick or of the command is abandoned.
WriteRaises(a) ==
    /\ "write_fails" \in Faults
    /\ ~Idle(a) /\ Head(queue[a]).do \in StoreOps
    /\ Result(legs, Head(queue[a])) # legs
    /\ Does(a, <<>>)
    /\ phase' = IF a = "trader" THEN "idle" ELSE phase
    /\ leaving' = IF a = "trader" THEN {} ELSE leaving
    /\ UNCHANGED <<deal, legs, tracked, marked, misread>>

--------------------------------------------------------------------------------
(* The screener auto trader *)

SymbolOf(p) == deal[p].market.symbol

\* The close pass: of the tracked pairs in the file, those whose exit spread is low.
ClosePass ==
    /\ phase = "idle" /\ Idle("trader")
    /\ \E file \in Read(legs) :
          \E converged \in SUBSET {p \in tracked : file[p]["buy"].status # "none"} :
              /\ Does("trader", ForEach(converged, ClosesOwn))
              /\ leaving' = converged
              /\ Sees(file)
    /\ phase' = "closing"
    /\ UNCHANGED <<deal, legs, tracked, marked>>

\* The unhedged pass: of the pairs with fewer than two filled legs, those older than
\* the timeout and priced; what is left of them is closed.
RipeWithALeg(file) == {p \in tracked \ leaving : ~Hedged(file, p) /\ Live(file, p)}
Ripe(file) == {p \in tracked \ leaving : ~Hedged(file, p)}

ForgetsTheRest(file, p) == <<>>
ClosesRest(file, p) ==
    IF Live(file, p) THEN ClosesLeg(p, CHOOSE s \in Filled(file, p) : TRUE) ELSE <<>>

UnhedgedPassOver(file, ripe) ==
    /\ phase = "closing" /\ Idle("trader")
    /\ tracked' = tracked \ leaving
    /\ leaving' = ripe
    /\ Does("trader", ForEach(ripe, LAMBDA p : ClosesRest(file, p)))
    /\ Sees(file)
    /\ phase' = "unhedged"
    /\ UNCHANGED <<deal, legs, marked>>

UnhedgedPass ==
    \E file \in Read(legs) : \E ripe \in SUBSET Ripe(file) : UnhedgedPassOver(file, ripe)

EndUnhedgedKeepsList ==
    /\ phase = "unhedged" /\ Idle("trader")
    /\ tracked' = tracked \ leaving
    /\ phase' = "opening"
    /\ UNCHANGED <<deal, legs, leaving, marked, queue, misread>>

EndUnhedged ==
    /\ phase = "unhedged" /\ Idle("trader")
    /\ tracked' = tracked \ leaving /\ leaving' = {}
    /\ phase' = "opening"
    /\ UNCHANGED <<deal, legs, marked, queue, misread>>

\* The open pass: a candidate that passes every check becomes a pair.
MayOpen(m) ==
    /\ Cardinality(tracked) < MaxPos
    /\ \A p \in tracked : SymbolOf(p) # m.symbol

OpenPass(m) ==
    /\ phase = "opening" /\ Idle("trader")
    /\ MayOpen(m)
    /\ \E p \in Fresh :
          /\ Names(p, m, TRUE)
          /\ Does("trader", Opens(p))
    /\ UNCHANGED <<legs, tracked, phase, leaving, marked, misread>>

EndTick ==
    /\ phase = "opening" /\ Idle("trader")
    /\ phase' = "idle"
    /\ UNCHANGED <<deal, legs, tracked, leaving, marked, queue, misread>>

--------------------------------------------------------------------------------
(* The services and the window *)

\* The guard marks the pairs of the endangered legs,
GuardScan ==
    /\ Idle("guard") /\ marked = {}
    /\ \E file \in Read(legs) :
          /\ marked' \in (SUBSET {p \in Pairs : Live(file, p)}) \ {{}}
          /\ Sees(file)
    /\ UNCHANGED <<deal, legs, tracked, phase, leaving, queue>>

\* reads the file again and closes what is filled of them, in the order of a set.
GuardCloses ==
    /\ Starts("guard") /\ marked # {}
    /\ \E file \in Read(legs), order \in SetToSeqs(marked) :
          /\ Does("guard", FlattenSeq([i \in 1 .. Len(order) |->
                 IF Hedged(file, order[i])   THEN ClosesOwn(order[i])
                 ELSE IF Live(file, order[i]) THEN ClosesRest(file, order[i])
                 ELSE <<>>]))
          /\ Sees(file)
    /\ marked' = {}
    /\ UNCHANGED <<deal, legs, tracked, phase, leaving>>

\* Of the pairs with both legs filled, those whose funding costs more than a round
\* trip are closed and, unless the market info is missing, opened again.
ReopensThenCloses(p) == <<Op("reopen", p, "")>> \o ClosesOwn(p)
Reenters(p) == ClosesOwn(p) \o <<Op("reopen", p, "")>>

ReentryTick ==
    /\ Starts("reentry")
    /\ \E file \in Read(legs) : \E costly \in (SUBSET {p \in Pairs : Hedged(file, p)}) \ {{}} :
          /\ Does("reentry", ForEach(costly, Reenters))
          /\ Sees(file)
    /\ UNCHANGED <<deal, legs, tracked, phase, leaving, marked>>

Reopen ==
    /\ ~Idle("reentry") /\ Head(queue["reentry"]).do = "reopen"
    /\ \/ /\ Does("reentry", Tail(queue["reentry"]))
          /\ UNCHANGED deal
       \/ \E p \in Fresh :
             /\ Names(p, deal[Head(queue["reentry"]).pair].market, FALSE)
             /\ Does("reentry", Opens(p) \o Tail(queue["reentry"]))
    /\ UNCHANGED <<legs, tracked, phase, leaving, marked, misread>>

\* Every filled leg on an exchange whose funding rate is known is charged.
Charges(file, p, known) ==
    FlattenSeq([i \in 1 .. 2 |->
        LET s == <<"sell", "buy">>[i]
        IN  IF s \in Filled(file, p) /\ ExchangeOf(p, s) \in known
            THEN <<Op("accrue", p, ExchangeOf(p, s))>> ELSE <<>>])

AccrualTick ==
    /\ Starts("accrual") /\ Charged(legs) < MaxCharges
    /\ \E file \in Read(legs), known \in SUBSET Exchanges :
          /\ Does("accrual", ForEach(Pairs, LAMBDA p : Charges(file, p, known)))
          /\ Sees(file)
    /\ ~Idle("accrual")'
    /\ UNCHANGED <<deal, legs, tracked, phase, leaving, marked>>

\* opportunity.accumulate
WindowOpens ==
    /\ Starts("window")
    /\ \E p \in Fresh : Names(p, WindowMarket, FALSE) /\ Does("window", Opens(p))
    /\ UNCHANGED <<legs, tracked, phase, leaving, marked, misread>>

\* opportunity.close_partial and close_all: the first open pair of the store, on
\* the exchanges of the window.
WindowCloses ==
    /\ Starts("window")
    /\ \E file \in Read(legs) :
          \E p \in OpenPairs(file) : Does("window", Closes(p, WindowMarket)) /\ Sees(file)
    /\ UNCHANGED <<deal, legs, tracked, phase, leaving, marked>>

\* The process dies; a new one restores the pairs whose two legs it finds open.
RestoresNothing(file) == {}
Restored(file) == {p \in OpenPairs(file) : file[p]["sell"].status = "filled"
                                        /\ file[p]["buy"].status # "none"}

Crash ==
    /\ "crash" \in Faults
    /\ queue' = [a \in Actors |-> <<>>]
    /\ phase' = "idle" /\ leaving' = {} /\ marked' = {}
    /\ \E file \in Read(legs) : tracked' = Restored(file) /\ Sees(file)
    /\ UNCHANGED <<deal, legs>>

--------------------------------------------------------------------------------

Init ==
    /\ deal = [p \in Pairs |-> NoDeal]
    /\ legs = Empty
    /\ tracked = {} /\ phase = "idle" /\ leaving = {} /\ marked = {}
    /\ queue = [a \in Actors |-> <<>>]
    /\ misread = FALSE

TraderActs ==
    \/ ClosePass \/ UnhedgedPass \/ EndUnhedged \/ EndTick
    \/ \E m \in Markets : OpenPass(m)

Next ==
    \/ TraderActs
    \/ \E a \in Actors : Write(a) \/ WriteRaises(a)
    \/ GuardScan \/ GuardCloses
    \/ ReentryTick \/ Reopen
    \/ AccrualTick
    \/ WindowOpens \/ WindowCloses
    \/ Crash

Spec == Init /\ [][Next]_vars

\* The trader's thread runs (no other thread can hold the store's lock for long),
\* and a pair's timeout passes while the leg that is left has a price.
Settles(p) == \E file \in Read(legs) : p \in Ripe(file) /\ UnhedgedPassOver(file, Ripe(file))

FairSpec ==
    /\ Spec
    /\ WF_vars(ClosePass) /\ WF_vars(UnhedgedPass) /\ WF_vars(EndUnhedged)
    /\ WF_vars(EndTick) /\ WF_vars(Write("trader"))
    /\ \A p \in Pairs : SF_vars(Settles(p))

--------------------------------------------------------------------------------

\* The types of the file, of the trader's memory and of the queues.
TypeOK ==
    /\ deal \in [Pairs -> [market : Markets, auto : BOOLEAN, made : BOOLEAN]]
    /\ legs \in [Pairs -> [Sides -> [status : {"none", "filled", "closed"}, funding : Nat]]]
    /\ leaving \subseteq tracked /\ tracked \subseteq Pairs /\ marked \subseteq Pairs
    /\ phase \in {"idle", "closing", "unhedged", "opening"}
    /\ DOMAIN queue = Actors
    /\ misread \in BOOLEAN

\* What was booked at a close stays booked (PaperOrderStore.record_close and
\* accrue_funding look for filled orders only): threads that decided from an older
\* read close nothing twice and charge no funding to an order that is closed.
ClosedIsFinal ==
    [][\A p \in Pairs, s \in Sides :
          legs[p][s].status = "closed" => legs'[p][s] = legs[p][s] \/ misread']_vars

\* The trader drops a pair from memory only when the file holds no open leg of it,
\* whoever else closes legs of it and whichever write fails; only a crash, or a read
\* of the file that failed, makes it forget an open leg.
ForgottenMeansClosed ==
    [][\A p \in tracked \ tracked' : Live(legs, p) => misread' \/ Crash]_vars

\* However often it restarts and whoever closes its pairs, the trader never holds
\* more than max_positions hedged pairs that it opened, nor two of one symbol.
AutoHedged == {p \in Pairs : deal[p].auto /\ Hedged(legs, p)}
TraderWithinLimits ==
    misread \/ /\ Cardinality(AutoHedged) <= MaxPos
               /\ \A p, q \in AutoHedged : SymbolOf(p) = SymbolOf(q) => p = q

\* A re-entry replaces exposure: when it names the new pair, no leg of the old one
\* is open, although other threads were closing it and writes may have failed.
ReentryOnlyReplaces ==
    [][Reopen /\ UNCHANGED misread /\ deal' # deal
          => misread \/ ~Live(legs, Head(queue["reentry"]).pair)]_vars

\* A tracked pair that lost a leg to another thread, or to a close that was cut
\* short, is settled and forgotten by the unhedged pass, unless the trader's
\* writes keep failing (ScreenerAutoTrader._tick, the unhedged close pass).
SettlesOnceBroken(p) ==
    <>[][~WriteRaises("trader")]_vars =>
        (p \in tracked /\ ~Hedged(legs, p)) ~> (p \notin tracked)

LifeOf(sell, buy) ==
    CASE {sell, buy} = {"none"}             -> "none"
      [] {sell, buy} = {"none", "filled"}   -> "opening"
      [] {sell, buy} = {"filled"}           -> "open"
      [] {sell, buy} = {"filled", "closed"} -> "closing"
      [] {sell, buy} = {"none", "closed"}   -> "cut"
      [] {sell, buy} = {"closed"}           -> "closed"

Book == [p \in Pairs |-> LifeOf(legs[p]["sell"].status, legs[p]["buy"].status)]

Ledger == INSTANCE PaperLedger WITH book <- Book

\* Every step of every thread is a step of the ledger: one leg of one pair moves
\* forward, or nothing does (refinement of PaperLedger).
LedgerKept == Ledger!LedgerSpec
================================================================================
