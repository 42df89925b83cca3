------------------------------ MODULE MCServices ------------------------------
(***************************************************************************)
(* The services beside the traders, each with the threads it shares its    *)
(* state with.  They meet through nothing but the exchanges, so a          *)
(* behaviour is one of a single part, and the parts are checked side by    *)
(* side.                                                                   *)
(***************************************************************************)
EXTENDS ScreenerStreams, SpotHedge, QuoteCache, HistoricalScreener, OpportunityWindow,
        AccountBoard

VARIABLE part

allVars ==
  <<part, vars, windowVars, screenerVars, boardVars, cacheVars, spotVars>>

\* An exchange with a book, and one that shows a last price only.
MCTickers == {[bid |-> 1, ask |-> 2, last |-> 1], [bid |-> 0, ask |-> 0, last |-> 4]}

MCAccounts == <<First, Second>>

ServicesInit ==
  /\ part \in {"streams", "window", "screener", "board", "cache", "spot"}
  /\ Init /\ WindowInit /\ ScreenerInit /\ BoardInit /\ CacheInit
  /\ SpotInit

StreamsStep ==
  /\ part = "streams" /\ Next
  /\ UNCHANGED <<part, windowVars, screenerVars, boardVars, cacheVars, spotVars>>
WindowStep ==
  /\ part = "window" /\ WindowNext
  /\ UNCHANGED <<part, vars, screenerVars, boardVars, cacheVars, spotVars>>
ScreenerStep ==
  /\ part = "screener" /\ ScreenerNext
  /\ UNCHANGED <<part, vars, windowVars, boardVars, cacheVars, spotVars>>
BoardStep ==
  /\ part = "board" /\ BoardNext
  /\ UNCHANGED <<part, vars, windowVars, screenerVars, cacheVars, spotVars>>

\* Bounds: what the page of a replaced worker puts and what a second live check
\* reads do not meet a gather that is under way, nor each other.
OneAtATime ==
  /\ pending # {} => opener = "none" \/ (opener = "check1" /\ asking = Venues)
  /\ opener # "none" => viewing = "first"

CacheStep ==
  /\ part = "cache" /\ CacheNext /\ OneAtATime'
  /\ UNCHANGED <<part, vars, windowVars, screenerVars, boardVars, spotVars>>

SpotStep ==
  /\ part = "spot" /\ SpotNext
  /\ UNCHANGED <<part, vars, windowVars, screenerVars, boardVars, cacheVars>>

ServicesNext ==
  StreamsStep \/ WindowStep \/ ScreenerStep \/ BoardStep \/ CacheStep \/ SpotStep

\* The fairness of the two parts with a liveness property, owed where they run.
StreamsFairness ==
  /\ \A g \in Workers : WF_vars(part = "streams" /\ Main(g))
  /\ \A g \in Workers, e \in Exchanges :
       /\ WF_vars(part = "streams" /\ (OpensClient(g, e) \/ TriesAgain(g, e)))
       /\ SF_vars(part = "streams" /\ Loads(g, e))
       /\ WF_vars(part = "streams" /\ Hears(g, e))
WindowsFairness ==
  /\ WF_windowVars(part = "window" /\ Loop)
  /\ WF_windowVars(part = "window" /\ Worker)
  /\ \A c \in Consumers : WF_windowVars(part = "window" /\ Consumes(c))

ServicesSpec ==
  ServicesInit /\ [][ServicesNext]_allVars /\ StreamsFairness /\ WindowsFairness
===============================================================================
