--------------------------- MODULE LiveLiquidation ---------------------------
(***************************************************************************)
(* When the live liquidation guard acts on one position, in per mille of   *)
(* the entry price: the price wanders between the guard's ticks, the guard *)
(* infers a leverage from the unrealized result and from it a liquidation  *)
(* price.  Market caches, missing marks and rounding beyond a tenth of a   *)
(* leverage are left out.                                                  *)
(***************************************************************************)
EXTENDS Integers

CONSTANTS
  Leverage,   \* the leverage of the position at its exchange, 1 .. 100
  Default,    \* opp_default_leverage, 1 .. 100
  Warning,    \* warning_pct_to_liq, 0 .. 100
  Step,       \* bound: how far the price moves between two ticks
  Farthest    \* bound: how far the price moves at all

VARIABLES
  side,    \* of the leg
  moved,   \* mark price minus entry price
  fate,    \* "open", "closed" by the guard or "liquidated" by the exchange
  spared   \* history: the guard has looked at this price and left the leg alone

vars == <<side, moved, fate, spared>>

Entry == 1000
Maintenance == 5

Init ==
  /\ side \in {"long", "short"}
  /\ moved = 0
  /\ fate = "open"
  /\ spared = FALSE

Distance(n) == IF n < 0 THEN -n ELSE n

\* _leverage_from_leg, in tenths: one over what is left of the position's value
\* once the result, of either sign, is taken from it.
InferredLeverage ==
  LET left == Entry - Distance(moved)
  IN  IF moved # 0 /\ left >= Entry \div 100
      THEN (20 * Entry + left) \div (2 * left) ELSE 10 * Default

\* How far from the entry price a position of this leverage is liquidated.
Buffer(tenths) == (10 * Entry) \div tenths - Maintenance

Consumed(tenths) ==
  IF Buffer(tenths) <= 0 THEN 0 ELSE (100 * Distance(moved)) \div Buffer(tenths)

Adverse == IF side = "long" THEN -moved ELSE moved

PriceMoves ==
  /\ fate = "open"
  /\ UNCHANGED side
  /\ \E d \in {-Step, Step} : Distance(moved + d) <= Farthest /\ moved' = moved + d
  /\ fate' = IF Adverse' >= Buffer(10 * Leverage) THEN "liquidated" ELSE "open"
  /\ spared' = FALSE

\* One leg in _tick: endangered or left alone.
GuardTick ==
  /\ fate = "open"
  /\ fate' = IF Consumed(InferredLeverage) >= Warning THEN "closed" ELSE "open"
  /\ spared' = (fate' = "open")
  /\ UNCHANGED <<side, moved>>

Next == PriceMoves \/ GuardTick
Spec == Init /\ [][Next]_vars

-----------------------------------------------------------------------------
\* "When the current mark/mid price has consumed >= warning_pct_to_liq of the
\* margin buffer, the full pair is closed": a tick that leaves a leg alone
\* which is losing found less than that share of its buffer consumed.
ClosedByTheWarning ==
  spared /\ Adverse > 0 => Consumed(10 * Leverage) < Warning
=============================================================================
