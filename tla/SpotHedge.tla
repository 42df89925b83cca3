------------------------------ MODULE SpotHedge ------------------------------
(***************************************************************************)
(* The executor's other hedge: a futures short against tokens bought on a  *)
(* spot exchange (_enter_spot_long and _exit_spot_long of                  *)
(* application/trading/hedged_execution_service.py, SpotCcxtAdapter).  One *)
(* step for every await.  One caller trades one symbol; the futures        *)
(* position can be taken away under it, by a guard or the exchange.        *)
(*                                                                         *)
(* Amounts are fractions of a token.  Faults: reject, lost, part_open,     *)
(* part_close and blind of HedgedExecution, and part_spot: a spot order    *)
(* moves less than was asked, because it fills in part or because the      *)
(* exchange takes its fee in the bought token.                             *)
(***************************************************************************)
EXTENDS Integers

CONSTANTS
  Lot,            \* amount step of the futures contract
  SpotSizes,      \* amounts a caller asks for
  SpotPercents,   \* percentages a caller closes
  Rollback,       \* execution_rollback_enabled
  DryRuns,        \* what the dry_run of a calling service may be
  SpotFaults,
  MaxSpotCalls    \* bound: calls in a behaviour

ASSUME SpotAssumption ==
  /\ Lot \in Nat \ {0} /\ SpotSizes \subseteq Nat /\ SpotPercents \subseteq 1 .. 100
  /\ DryRuns \subseteq BOOLEAN /\ MaxSpotCalls \in Nat

VARIABLES
  short,     \* the futures short the exchange holds
  spot,      \* the free balance of the base asset
  at,        \* the await the call stands at
  dry,       \* the dry_run of the service that makes it
  want,      \* what it asks for: an amount or a percentage
  local,     \* its locals
  report,    \* the outcome of the last call
  made,      \* number of calls
  warned,    \* history: some call reported that a leg went wrong
  deceived,  \* history: the short was not what some call took it for
  slack      \* history: what orders left undone of what was asked for

legs == <<short, spot>>
spotVars == <<legs, at, dry, want, local, report, made, warned, deceived, slack>>

Clean == [planned |-> 0, before |-> 0, filled |-> 0, shortOk |-> FALSE, selling |-> 0]
Floored(n) == (n \div Lot) * Lot
Abs(n) == IF n < 0 THEN -n ELSE n
Smaller(m, n) == IF m < n THEN m ELSE n

SpotInit ==
  /\ short = 0 /\ spot = 0
  /\ at = "idle" /\ dry = FALSE /\ want = 0 /\ local = Clean
  /\ report = "none" /\ made = 0
  /\ warned = FALSE /\ deceived = FALSE /\ slack = 0

-----------------------------------------------------------------------------
\* The steps of a call.

\* Reports of a call that left something undone; the others say that nothing
\* was sent, or that all went well.
Warnings == {"short_leg_failed", "spot_long_leg_failed", "partial", "failed"}

Return(outcome) ==
  /\ at' = "idle" /\ dry' = FALSE /\ want' = 0 /\ local' = Clean
  /\ report' = outcome
  /\ warned' = (warned \/ outcome \in Warnings)
  /\ UNCHANGED made

Remember(locals, label) ==
  /\ local' = locals /\ at' = label
  /\ UNCHANGED <<dry, want, report, made, warned>>

\* What fetch_open_positions may answer.
Seen == {short} \cup (IF "blind" \in SpotFaults THEN {0} ELSE {})

Reads(seen) == deceived' = (deceived \/ seen # short) /\ UNCHANGED <<legs, slack>>

\* What a spot order moves of the amount it asks for.
Executed(amount) == IF "part_spot" \in SpotFaults THEN 0 .. amount ELSE {amount}

Begins(amount, label) ==
  /\ at = "idle" /\ made < MaxSpotCalls
  /\ made' = made + 1
  /\ UNCHANGED <<legs, deceived, slack>>
  /\ \/ /\ at' = "idle" /\ report' \in {"gateway_missing", "spot_gateway_missing"}
        /\ UNCHANGED <<dry, want, local, warned>>
     \/ /\ at' = label /\ dry' \in DryRuns /\ want' = amount /\ local' = Clean
        /\ UNCHANGED <<report, warned>>

\* open and accumulate
EntersSpot == \E n \in SpotSizes : Begins(n, "check")

\* close_partial and close_all, which never ask whether the service is dry.
ExitsSpot == \E p \in SpotPercents : Begins(p, "find_short")

\* What is decided before the first await.
ChecksSize ==
  /\ at = "check" /\ UNCHANGED <<legs, deceived, slack>>
  /\ \/ dry /\ Return("simulated")
     \/ /\ ~dry
        /\ IF Floored(want) = 0 THEN Return("amount_rounds_to_zero")
           ELSE Remember([local EXCEPT !.planned = Floored(want)], "read_before")

ReadsBefore ==
  /\ at = "read_before"
  /\ \E seen \in Seen :
       Reads(seen) /\ Remember([local EXCEPT !.before = seen], "send_short")

SellsShort ==
  /\ at = "send_short"
  /\ \E k \in IF "part_open" \in SpotFaults THEN 0 .. local.planned ELSE {local.planned} :
       k % Lot = 0 /\ short' = short + k
  /\ Remember(local, "read_after")
  /\ UNCHANGED <<spot, deceived, slack>>

\* The order raises, although it may have been executed.
ShortRaises ==
  /\ at = "send_short"
  /\ \/ "reject" \in SpotFaults /\ UNCHANGED short
     \/ "lost" \in SpotFaults /\ short' = short + local.planned
  /\ Return("short_leg_failed")
  /\ UNCHANGED <<spot, deceived, slack>>

\* Mutant: the order is taken to have filled.
TakesOrderAsFill ==
  /\ at = "read_after"
  /\ \E seen \in Seen :
       Reads(seen) /\ Remember([local EXCEPT !.filled = local.planned], "buy_spot")

ReadsAfter ==
  /\ at = "read_after"
  /\ \E seen \in Seen :
       Reads(seen) /\ Remember([local EXCEPT !.filled = Abs(seen - local.before)], "buy_spot")

\* The whole wanted amount is bought when nothing was seen to fill.
SpotAmount == IF local.filled > 0 THEN local.filled ELSE want

\* One fill is measured and the other taken from the request, so the status
\* sees them differ only when nothing filled, whatever the order moved.
BuysSpot ==
  /\ at = "buy_spot"
  /\ \E k \in Executed(SpotAmount) :
       spot' = spot + k /\ slack' = slack + SpotAmount - k
  /\ Return(IF local.filled > 0 THEN "success" ELSE "partial")
  /\ UNCHANGED <<short, deceived>>

BuyRaises ==
  /\ at = "buy_spot"
  /\ \/ "reject" \in SpotFaults /\ UNCHANGED spot
     \/ "lost" \in SpotFaults /\ \E k \in Executed(SpotAmount) : spot' = spot + k
  /\ IF Rollback /\ local.filled > 0
     THEN Remember(local, "rollback")
     ELSE Return("spot_long_leg_failed")
  /\ UNCHANGED <<short, deceived, slack>>

Closed(amount) ==
  IF "part_close" \in SpotFaults THEN {k \in 0 .. amount : k % Lot = 0} ELSE {amount}

\* _close_full_leg closes all the exchange shows, and nobody looks whether it did.
RollsBack ==
  /\ at = "rollback"
  /\ Return("spot_long_leg_failed")
  /\ \/ "reject" \in SpotFaults /\ UNCHANGED short
     \/ \E seen \in Seen : \E k \in Closed(seen) : short' = short - k
  /\ UNCHANGED <<spot, deceived, slack>>

\* No leg on the short exchange counts as closed.
FindsShort ==
  /\ at = "find_short"
  /\ \E seen \in Seen :
       /\ Reads(seen)
       /\ IF seen = 0 THEN Remember([local EXCEPT !.shortOk = TRUE], "read_balance")
          ELSE Remember([local EXCEPT !.before = seen], "close_short")

\* What a close of k leaves of the share of the short it is for.
Unclosed(k) == (local.before * want - 100 * k + 99) \div 100

\* The reduce-only order closes a share of the leg that was found, in lots; the
\* exchange refuses an amount of no lot.  The reply does not say how much was.
ClosesShort ==
  /\ at = "close_short"
  /\ LET due == Floored((local.before * want) \div 100)
     IN  /\ due > 0 /\ short > 0
         /\ \E k \in Closed(Smaller(due, short)) :
              short' = short - k /\ slack' = slack + Unclosed(k)
  /\ Remember([local EXCEPT !.shortOk = TRUE], "read_balance")
  /\ UNCHANGED <<spot, deceived>>

CloseRaises ==
  /\ at = "close_short"
  /\ \/ "reject" \in SpotFaults
     \/ Floored((local.before * want) \div 100) = 0 \/ short = 0
  /\ Remember(local, "read_balance")
  /\ UNCHANGED <<legs, deceived, slack>>

ExitStatus(shortOk, spotOk) ==
  CASE shortOk /\ spotOk -> "success"
    [] shortOk # spotOk -> "partial"
    [] OTHER -> "failed"

\* The share is one of all the tokens there are, whoever bought them, rounded
\* here to a whole fraction.
ReadsBalance ==
  /\ at = "read_balance"
  /\ \/ /\ spot * want >= 100
        /\ Remember([local EXCEPT !.selling = (spot * want) \div 100], "sell_spot")
     \/ spot * want < 100 /\ Return(ExitStatus(local.shortOk, TRUE))
     \/ "reject" \in SpotFaults /\ Return(ExitStatus(local.shortOk, FALSE))
  /\ UNCHANGED <<legs, deceived, slack>>

SellsSpot ==
  /\ at = "sell_spot"
  /\ \E k \in Executed(local.selling) :
       spot' = spot - k /\ slack' = slack + local.selling - k
  /\ Return(ExitStatus(local.shortOk, TRUE))
  /\ UNCHANGED <<short, deceived>>

SellRaises ==
  /\ at = "sell_spot"
  /\ \/ "reject" \in SpotFaults /\ UNCHANGED spot
     \/ "lost" \in SpotFaults /\ \E k \in Executed(local.selling) : spot' = spot - k
  /\ Return(ExitStatus(local.shortOk, FALSE))
  /\ UNCHANGED <<short, deceived, slack>>

\* A guard closes the short, or the exchange liquidates it.
ShortGoes ==
  /\ short > 0 /\ short' = 0 /\ deceived' = TRUE
  /\ UNCHANGED <<spot, at, dry, want, local, report, made, warned, slack>>

SpotNext ==
  \/ EntersSpot \/ ExitsSpot \/ ChecksSize \/ ReadsBefore \/ SellsShort \/ ShortRaises
  \/ ReadsAfter \/ BuysSpot \/ BuyRaises \/ RollsBack \/ FindsShort \/ ClosesShort
  \/ CloseRaises \/ ReadsBalance \/ SellsSpot \/ SellRaises \/ ShortGoes

SpotSpec == SpotInit /\ [][SpotNext]_spotVars

-----------------------------------------------------------------------------
\* Properties.

\* The outcome of a spot order comes from the request and the reply to a close
\* says nothing of its amount, so success does not mean equal legs.  While no
\* call warned and no read of the short was wrong, the two legs differ by no
\* more than all that spot orders left unfilled, and closes of the short cut to
\* lots or filled in part left of their shares: part fills of the short add
\* nothing to it, and no later call multiplies what an earlier one left.
SpotHedgeHolds ==
  at = "idle" /\ ~warned /\ ~deceived => Abs(spot - short) <= slack
==============================================================================
