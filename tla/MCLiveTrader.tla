---------------------------- MODULE MCLiveTrader ----------------------------
(***************************************************************************)
(* Two configurations of LiveAutoTrader, side by side: one symbol, with    *)
(* limits that let it be accumulated and opened anew, against every way    *)
(* the executor may answer, under fairness; and two symbols that compete   *)
(* for one slot.                                                           *)
(***************************************************************************)
EXTENDS LiveAutoTrader

CONSTANT Lone     \* the symbol of the configuration with one

VARIABLE scene

One == INSTANCE LiveAutoTrader WITH MaxPos <- 2, Faults <- Faults \ {"blind"}

\* The other symbol has no prices.
OneSymbol ==
  /\ \A k \in candidates : Symbol(k) = Lone
  /\ \A s \in Symbols \ {Lone} : market[s] = "unknown"

\* Bounds: one unit a leg, and things go wrong for one of the symbols only;
\* when they have, neither is seen to converge any more.
TwoSymbols ==
  /\ \A s \in Symbols, e \in Exchanges : pos[s][e] \in -1 .. 1
  /\ \A k \in Keys : layers[k] = 0
  /\ blamed \subseteq {Lone}
  /\ blamed # {} => \A s \in Symbols : market[s] = "unknown"

MCInit == scene \in {"one", "two"} /\ Init

MCNext ==
  /\ UNCHANGED scene
  /\ \/ scene = "one" /\ One!Next /\ OneSymbol'
     \/ scene = "two" /\ Next /\ ~Crash /\ TwoSymbols'

\* FairSpec, where there is one symbol.
MCSpec ==
  /\ MCInit /\ [][MCNext]_<<vars, scene>>
  /\ WF_vars(scene = "one" /\ One!Trader /\ OneSymbol')

\* A tracked pair whose spread has converged for good is closed, whatever the
\* trader does besides, unless exceptions never cease to end its ticks.
ConvergedPairsClose ==
  scene = "one" => \A d, e \in Exchanges : d # e => ClosesOnceConverged(<<Lone, d, e>>)
=============================================================================
