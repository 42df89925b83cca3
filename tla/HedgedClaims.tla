---------------------------- MODULE HedgedClaims ----------------------------
(***************************************************************************)
(* What the executor's documentation promises without the conditions under *)
(* which the code keeps it.  Each run of this module checks one promise    *)
(* with the one fault that breaks it.                                      *)
(***************************************************************************)
EXTENDS HedgedExecution

ClaimExchanges == {"a", "b"}
ClaimLotStep == [e \in ClaimExchanges |-> 1]
ClaimSizes == {2}
ClaimPercents == {100}

\* "rolled_back marks a compensated one-leg failure (no unhedged exposure)":
\* a call that adds to a balanced hedge and answers rolled_back leaves the hedge
\* balanced.  The rollback closes the whole short position, the part that was
\* there before the call included.
RolledBackMeansHedged ==
  [][\A c \in Callers :
       /\ Returns(c, EnterPCs) /\ Honest(c)
       /\ pos[Short(c)] <= 0 /\ pos[Long(c)] >= 0
       /\ mem[c].before = pos[Long(c)]
       /\ out'[c].status = "rolled_back"
       => pos'[Short(c)] + pos'[Long(c)] = 0]_vars

\* "Position state and fills come from exchange positions": a close of the whole
\* pair that answers success leaves both exchanges flat.  A failed position
\* read is answered with the empty list and counts as a flat exchange.
ClosedMeansFlat ==
  [][\A c \in Callers :
       /\ Returns(c, ExitPCs)
       /\ req[c].percent = 100
       /\ out'[c].status = "success"
       => pos'[Short(c)] = 0 /\ pos'[Long(c)] = 0]_vars
=============================================================================
