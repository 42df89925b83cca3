------------------------------ MODULE SpotClaims ------------------------------
(***************************************************************************)
(* Sentences of the repository about the spot hedge that its code does     *)
(* not keep: a dry service closes for real, and the tokens an outcome      *)
(* reports are those that were asked for.                                  *)
(***************************************************************************)
EXTENDS SpotHedge

\* "dry_run=True simulates every action with no real orders"
\* (hedged_execution_service.py, the class docstring; the spot tests promise it
\* too): while a dry service's call runs, only others move the legs.
SimulationPlacesNoSpotOrder == [][dry => UNCHANGED legs \/ ShortGoes]_spotVars

\* "Position state and fills come from exchange positions, never from intent"
\* (the same docstring): a hedge that is entered with success has bought as many
\* tokens as the short was seen to grow by.
SpotFillsAreActual ==
  [][at = "buy_spot" /\ at' = "idle" /\ report' = "success"
       => spot' - spot = local.filled]_spotVars
==============================================================================
