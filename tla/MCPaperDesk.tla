------------------------------ MODULE MCPaperDesk ------------------------------
(* Two configurations of PaperDesk, side by side: one pair and every thread, with *)
(* funding charges and unreadable files, under fairness; and two pairs, with all  *)
(* threads but the accrual of funding.                                            *)
EXTENDS PaperDesk

VARIABLE scene

\* Two exchanges carry both symbols; the window trades one of the trader's markets.
AtoB == [symbol |-> "s1", short |-> "A", long |-> "B"]
BtoA == [symbol |-> "s2", short |-> "B", long |-> "A"]
BtoC == [symbol |-> "s2", short |-> "B", long |-> "C"]
AllMarkets == {AtoB, BtoA, BtoC}

OnePair  == ~deal[2].made /\ deal[1].market # BtoC

TwoPairs ==
    /\ \A p \in Pairs : deal[p].market # BtoA
    /\ Idle("accrual") /\ ~misread

MCInit == scene \in {"one", "two"} /\ Init

MCNext ==
    /\ UNCHANGED scene
    /\ \/ scene = "one" /\ Next /\ OnePair'
       \/ scene = "two" /\ Next /\ TwoPairs'

\* FairSpec, where there is one pair.
Fair(A) == scene = "one" /\ A
MCSpec ==
    /\ MCInit /\ [][MCNext]_<<vars, scene>>
    /\ WF_vars(Fair(ClosePass)) /\ WF_vars(Fair(UnhedgedPass)) /\ WF_vars(Fair(EndUnhedged))
    /\ WF_vars(Fair(EndTick)) /\ WF_vars(Fair(Write("trader")))
    /\ SF_vars(Fair(Settles(1)))

\* A tracked pair that lost a leg to another thread, or to a close that was cut
\* short, is settled and forgotten by the unhedged pass, unless the trader's
\* writes keep failing.
BrokenPairsSettle == scene = "one" => SettlesOnceBroken(1)
================================================================================
