---------------------------- MODULE MCLiveDesk ----------------------------
(***************************************************************************)
(* Two configurations of LiveDesk, side by side: the live auto trader's    *)
(* call against one scan at a time of the liquidation guard, the funding   *)
(* protection or the orphan monitor; and two scans at once without the     *)
(* trader, under fairness.  One symbol.                                    *)
(***************************************************************************)
EXTENDS LiveDesk

VARIABLE scene

MCExchanges == {"a", "b"}
MCWired == <<"a", "b">>
MCLotStep == [e \in MCExchanges |-> 1]
MCSizes == {1}
MCPercents == {100}

OneScan == Cardinality({w \in Watchers : ~Resting(w)}) <= 1
NoCalls == calls = 0

MCInit == scene \in {"calls", "scans"} /\ DeskInit

MCNext ==
  /\ UNCHANGED scene
  /\ \/ scene = "calls" /\ DeskNext /\ OneScan'
     \/ scene = "scans" /\ DeskNext /\ NoCalls'

\* DeskFairness, where there are two scans.
Fair(A) == scene = "scans" /\ A /\ Overtakes /\ KeepCandid
MCSpec ==
  /\ MCInit /\ [][MCNext]_<<deskVars, scene>>
  /\ \A w \in Watchers : WF_deskVars(Fair(Watch(w))) /\ SF_deskVars(Fair(Wakes(w)))
  /\ \A c \in Guards \cup Protectors : WF_deskVars(Fair(Pulls(c)))

\* A leg left alone for good is reported by every monitor, once its reads arrive.
OrphansAreReported == scene = "scans" => \A m \in Monitors : ReportsOrphans(m)

\* When the danger stays, the guard takes the desk to nothing, pair by pair and
\* leg by leg, once its reads arrive and its orders are taken.
EndangeredAreFlattened == scene = "scans" => FlattensEndangered
=============================================================================
