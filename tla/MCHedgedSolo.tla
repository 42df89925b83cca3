---------------------------- MODULE MCHedgedSolo ----------------------------
(* One live caller against every fault: a call that opens and one that      *)
(* accumulates or closes on what it left; a dry-run service beside it.      *)
EXTENDS HedgedKeepsContract

MCExchanges == {"a", "b"}
\* The two exchanges trade the symbol in different lots.
MCLotStep == [e \in MCExchanges |-> IF e = "a" THEN 1 ELSE 2]
MCSizes == {1, 3, 4}
MCPercents == {0, 50, 100}
=============================================================================
