------------------------------ MODULE PaperLedger ------------------------------
(***************************************************************************)
(* What the paper order store promises about a pair, whoever writes to it: *)
(* its two legs are recorded and settled one at a time, every leg once,    *)
(* and a pair never goes back.  The one exception is a record written over *)
(* a history that could not be read, which leaves nothing but itself.      *)
(***************************************************************************)
CONSTANT Pairs

VARIABLE book     \* the life of every pair

\* "cut" is a pair whose first leg was settled before its second was recorded.
Lives == {"none", "opening", "open", "closing", "cut", "closed"}

LedgerInit == book = [p \in Pairs |-> "none"]

\* One leg is recorded or settled at a time.
Recorded == {<<"none", "opening">>, <<"opening", "open">>, <<"cut", "closing">>}
Closed   == {<<"open", "closing">>, <<"closing", "closed">>, <<"opening", "cut">>}

Advance(p) ==
    /\ <<book[p], book'[p]>> \in Recorded \cup Closed
    /\ \A q \in Pairs \ {p} : book'[q] = book[q]

Lose(p) ==
    /\ book'[p] = "opening"
    /\ \A q \in Pairs \ {p} : book'[q] = "none"

LedgerNext == \E p \in Pairs : Advance(p) \/ Lose(p)

LedgerSpec == LedgerInit /\ [][LedgerNext]_book
================================================================================
