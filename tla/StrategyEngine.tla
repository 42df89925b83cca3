--------------------------- MODULE StrategyEngine ---------------------------
(***************************************************************************)
(* The strategies of one pair of exchanges, S the short and L the long one,*)
(* computed off what the assembler found: every calculator either is not   *)
(* available or promises a profit.  Volume and prices are such that every  *)
(* share of them is a whole number.  The position is sized by Volume on    *)
(* both legs, so a rate stands for the funding of a leg.                   *)
(***************************************************************************)
EXTENDS Integers, FiniteSets

CONSTANTS
  Prices,     \* of futures, positive; Missing where there is none
  SpotPrices,
  MaxRate,    \* bound of the funding rates, less than NoRate, where there is none
  Times       \* settlement times, positive; Missing where there is none

VARIABLE inputs   \* StrategyInputs, as far as the calculators look at it

Missing == 0
Rates == -MaxRate .. MaxRate
NoRate == 99
Now == 1
Volume == 2
Leverage == 2
TakerFee == 1

NoInputs ==
  [bid |-> Missing, ask |-> Missing,   \* futures: bid on S, ask on L
   spot |-> [S |-> Missing, L |-> Missing],
   rate |-> [S |-> NoRate, L |-> NoRate], due |-> [S |-> Missing, L |-> Missing],
   fees |-> {}]                        \* the exchanges whose fees are known

EngineInit == inputs = NoInputs

\* assemble: whatever of the pair the cache holds and is fresh.
Assemble ==
  /\ inputs = NoInputs
  /\ \E b, a \in Prices \cup {Missing}, s, l \in SpotPrices \cup {Missing} :
     \E known \in SUBSET {"S", "L"}, rs, rl \in Rates \cup {NoRate}, ts, tl \in Times \cup {Missing} :
       inputs' = [bid |-> b, ask |-> a, spot |-> [S |-> s, L |-> l],
                  rate |-> [S |-> rs, L |-> rl], due |-> [S |-> ts, L |-> tl], fees |-> known]

\* The pair is dropped, or another one of the symbol takes its place.
Dropped == inputs # NoInputs /\ inputs' = NoInputs

EngineNext == Assemble \/ Dropped

EngineSpec == EngineInit /\ [][EngineNext]_inputs

-----------------------------------------------------------------------------
\* StrategyMath.

Magnitude(n) == IF n < 0 THEN -n ELSE n
GrossFromSpread(short, long) == (short - long) * (Volume \div long)
FeeTotal == 4 * Volume * TakerFee
FuturesDeposit == 2 * (Volume \div Leverage)
SpotDeposit == Volume \div Leverage + Volume

\* The legs are [side, rate]; as StrategyMath has it, a short pays a positive
\* rate and receives a negative one.
Pays(l) == (l.side = "short" /\ l.rate > 0) \/ (l.side = "long" /\ l.rate < 0)
FundingCost(short, long) ==
  LET legs == {l \in {short, long} : l.rate # NoRate}
      flow(l) == IF Pays(l) THEN Magnitude(l.rate) * Volume ELSE -Magnitude(l.rate) * Volume
      cost == (IF short \in legs THEN flow(short) ELSE 0) + (IF long \in legs THEN flow(long) ELSE 0)
  IN IF cost > 0 THEN cost ELSE 0

ShortLeg == [side |-> "short", rate |-> inputs.rate["S"]]
LongLeg == [side |-> "long", rate |-> inputs.rate["L"]]
NoLeg == [side |-> "none", rate |-> NoRate]

-----------------------------------------------------------------------------
\* The calculators: where each is available, and what it promises there.

\* In the order AppRuntime lists them.
Kinds == <<"futures_futures", "futures_spot_2ex", "futures_spot_1ex",
           "funding_ff", "funding_fs", "funding_diff_dates">>

Hedgeable == inputs.bid # Missing /\ inputs.ask # Missing /\ inputs.fees = {"S", "L"}
SpotFrom(e) == inputs.bid # Missing /\ inputs.spot[e] # Missing /\ {"S", e} \subseteq inputs.fees
HasRates == NoRate \notin {inputs.rate["S"], inputs.rate["L"]}
Settles(e) == inputs.due[e] > Now
Early == IF inputs.due["S"] <= inputs.due["L"] THEN "S" ELSE "L"

BothSettle == Hedgeable /\ HasRates /\ Settles("S") /\ Settles("L")
OneSettlesFirst ==
  /\ Hedgeable /\ HasRates
  /\ inputs.due["S"] # inputs.due["L"]
  /\ Missing \notin {inputs.due["S"], inputs.due["L"]} /\ Settles(Early)

Available(kind) ==
  CASE kind = "futures_futures" -> Hedgeable
    [] kind = "futures_spot_2ex" -> SpotFrom("L")
    [] kind = "futures_spot_1ex" -> SpotFrom("S")
    [] kind = "funding_ff" -> BothSettle
    [] kind = "funding_fs" ->
         inputs.rate["S"] # NoRate /\ Settles("S") /\ (SpotFrom("S") \/ SpotFrom("L"))
    [] kind = "funding_diff_dates" -> OneSettlesFirst

FundingSpread == Magnitude(inputs.rate["S"]) - Magnitude(inputs.rate["L"])

\* What a strategy earns before costs, and what it pays for funding.
Gross(kind) ==
  CASE kind = "futures_futures" -> GrossFromSpread(inputs.bid, inputs.ask)
    [] kind = "futures_spot_2ex" -> GrossFromSpread(inputs.bid, inputs.spot["L"])
    [] kind = "futures_spot_1ex" -> GrossFromSpread(inputs.bid, inputs.spot["S"])
    [] kind = "funding_ff" -> FundingSpread * Volume
    [] kind = "funding_fs" -> Magnitude(inputs.rate["S"]) * Volume
    [] kind = "funding_diff_dates" -> Magnitude(inputs.rate[Early]) * Volume

FundingOf(kind) ==
  CASE kind = "futures_futures" -> FundingCost(ShortLeg, LongLeg)
    [] kind \in {"futures_spot_2ex", "futures_spot_1ex"} -> FundingCost(ShortLeg, NoLeg)
    [] OTHER -> 0

Net(kind) == Gross(kind) - FeeTotal - FundingOf(kind)
DepositOf(kind) ==
  IF kind \in {"futures_spot_2ex", "futures_spot_1ex", "funding_fs"} THEN SpotDeposit ELSE FuturesDeposit

\* StrategyEngine._best: the first of the largest percents to deposit.
Offered == {i \in DOMAIN Kinds : Available(Kinds[i])}
Beats(i, j) == Net(Kinds[i]) * DepositOf(Kinds[j]) > Net(Kinds[j]) * DepositOf(Kinds[i])
BestOffer == {i \in Offered : \A j \in Offered : ~Beats(j, i) /\ (j < i => Beats(i, j))}

-----------------------------------------------------------------------------
\* Properties.

\* FundingAccrualService: the long pays a positive rate, the short receives it.
AccrualOf(l) ==
  IF l.rate = NoRate THEN 0 ELSE IF l.side = "long" THEN Volume * l.rate ELSE -(Volume * l.rate)

\* The legs on which a position that lives on its spread pays funding.
LegsOf(kind) ==
  CASE kind = "futures_futures" -> <<ShortLeg, LongLeg>>
    [] kind \in {"futures_spot_2ex", "futures_spot_1ex"} -> <<ShortLeg, NoLeg>>

\* What the strategy the engine recommends deducts for funding is what the
\* accrual service will charge its legs, a credit counting as nothing.  It deducts
\* the opposite.
DeductsWhatAccrues ==
  \A i \in BestOffer \cap 1 .. 3 :
    LET legs == LegsOf(Kinds[i])
        charge == AccrualOf(legs[1]) + AccrualOf(legs[2])
    IN FundingOf(Kinds[i]) = IF charge > 0 THEN charge ELSE 0
=============================================================================
