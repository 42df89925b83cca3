------------------------------ MODULE LiveClaims ------------------------------
(***************************************************************************)
(* A sentence of the repository about the live trader that its code does   *)
(* not keep: which checks count towards a close.                           *)
(***************************************************************************)
EXTENDS LiveAutoTrader

\* The checks of the pair in a row, up to its last one, that confirmed the close.
VARIABLE streak

Checked(k) == pc = "closing" /\ pc' = "closing" /\ k \in todo \ todo'

CountsStreaks ==
  streak' = [k \in Keys |-> IF k \notin openPairs' THEN 0
                            ELSE IF ~Checked(k) THEN streak[k]
                            ELSE IF market[Symbol(k)] = "converged" THEN Counted(streak[k])
                            ELSE 0]

ClaimSpec ==
  /\ Init /\ streak = [k \in Keys |-> 0]
  /\ [][Next /\ CountsStreaks]_<<vars, streak>>

\* "Need 2 consecutive ticks confirming close threshold" (live_auto_trader.py,
\* the close pass; so does the comment on _close_confirm): a pair is closed on its
\* spread only when its last two checks, one in every tick, both confirmed it.
ClosesAreConsecutive ==
  [][sent'.kind = "close" => streak'[sent'.key] = 2]_<<vars, streak>>
===============================================================================
