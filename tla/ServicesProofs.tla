---------------------------- MODULE ServicesProofs ----------------------------
(***************************************************************************)
(* Proofs about the services beside the traders, for any exchanges,        *)
(* limits, prices, reconnects and faults: a stream worker that ended holds *)
(* no client, what an open is confirmed with is fresh, the spread the      *)
(* historical screener publishes is one of those that were computed, a     *)
(* window trades as it was told, and the account page shows every leg once.*)
(***************************************************************************)
EXTENDS ScreenerStreams, QuoteCache, HistoricalScreener, OpportunityWindow, AccountBoard,
        FiniteSetTheorems, WellFoundedInduction, TLAPS

-----------------------------------------------------------------------------
\* The ticker streams: types, and who closes what.

-----------------------------------------------------------------------------
\* Types.

LEMMA TypeInit == Init => TypeOK
<1> SUFFICES ASSUME Init PROVE TypeOK
  OBVIOUS
<1>1. current \in -1 .. MaxNonce /\ down \in BOOLEAN
  <2>1. current = -1 /\ down = FALSE
    BY DEF Init
  <2>2. -1 \in -1 .. MaxNonce
    BY StreamsAssumption
  <2>3. QED
    BY <2>1, <2>2
<1>2. phase \in [Workers -> Phases]
  BY DEF Init, Phases
<1>3. task \in [Workers -> [Exchanges -> Tasks]]
  BY DEF Init, Tasks
<1>4. /\ flag \in [Workers -> BOOLEAN] /\ cancelling \in [Workers -> BOOLEAN]
      /\ closing \in [Workers -> BOOLEAN] /\ signalled \in [Workers -> BOOLEAN]
      /\ cut \in [Workers -> BOOLEAN]
  BY DEF Init
<1>5. open \in [Workers -> SUBSET Exchanges] /\ left \in [Workers -> SUBSET Exchanges]
  BY DEF Init
<1>6. QED
  BY <1>1, <1>2, <1>3, <1>4, <1>5 DEF TypeOK

\* The runtime's own steps.
LEMMA RuntimeTypes ==
  ASSUME TypeOK, Start \/ Reconnect \/ Stop
  PROVE  TypeOK'
<1>1. CASE Start
  BY <1>1, StreamsAssumption DEF Start, TypeOK, streams, Workers, Phases
<1>2. CASE Reconnect
  BY <1>2, StreamsAssumption
     DEF Reconnect, Stopped, Cancelled, LoopRuns, TypeOK, streams, Workers, Phases
<1>3. CASE Stop
  BY <1>3, StreamsAssumption
     DEF Stop, Stopped, Cancelled, LoopRuns, TypeOK, streams, Workers
<1>4. QED
  BY <1>1, <1>2, <1>3

\* The main task of a worker.
LEMMA MainTypes ==
  ASSUME TypeOK, NEW g \in Workers, Main(g)
  PROVE  TypeOK'
<1> USE DEF TypeOK, streams, Phases, Tasks
<1>1. CASE Records(g)
  BY <1>1 DEF Records
<1>2. CASE Resolves(g)
  BY <1>2 DEF Resolves
<1>3. CASE GivesUp(g)
  BY <1>3 DEF GivesUp, Closes
<1>4. CASE Publishes(g)
  BY <1>4 DEF Publishes
<1>5. CASE SeesStop(g)
  BY <1>5 DEF SeesStop, ShutsWatcher
<1>6. CASE CancelLands(g)
  <2>1. /\ cancelling' = [cancelling EXCEPT ![g] = FALSE]
        /\ UNCHANGED <<current, down, flag, task, signalled>>
    BY <1>6 DEF CancelLands
  <2>2. \/ phase' = [phase EXCEPT ![g] = "closing"]
        \/ phase' = [phase EXCEPT ![g] = "shutting"]
        \/ phase' = [phase EXCEPT ![g] = "dead"]
    BY <1>6 DEF CancelLands, ShutsWatcher, Closes
  <2>3. left' = [left EXCEPT ![g] = Exchanges] \/ left' = [left EXCEPT ![g] = {}]
    BY <1>6 DEF CancelLands, ShutsWatcher, Closes
  <2>4. UNCHANGED closing \/ closing' = [closing EXCEPT ![g] = TRUE]
    BY <1>6 DEF CancelLands, ShutsWatcher, Closes
  <2>5. UNCHANGED cut \/ cut' = [cut EXCEPT ![g] = TRUE]
    BY <1>6 DEF CancelLands, ShutsWatcher, Closes
  <2>6. UNCHANGED open \/ \E asked \in SUBSET Exchanges : open' = [open EXCEPT ![g] = asked]
    BY <1>6 DEF CancelLands, ShutsWatcher, Closes
  <2>7. phase' \in [Workers -> Phases] /\ left' \in [Workers -> SUBSET Exchanges]
    BY <2>2, <2>3
  <2>8. closing' \in [Workers -> BOOLEAN] /\ cut' \in [Workers -> BOOLEAN]
    BY <2>4, <2>5
  <2>9. open' \in [Workers -> SUBSET Exchanges]
    BY <2>6
  <2>10. QED
    BY <2>1, <2>7, <2>8, <2>9
<1>7. CASE CancelsTasks(g)
  BY <1>7 DEF CancelsTasks, Closes
<1>8. CASE Dies(g)
  BY <1>8 DEF Dies
<1>9. CASE \E e \in Exchanges : ClosesGateway(g, e)
  BY <1>9 DEF ClosesGateway
<1>10. QED
  BY <1>1, <1>2, <1>3, <1>4, <1>5, <1>6, <1>7, <1>8, <1>9 DEF Main

\* The watcher's tasks.
LEMMA WatchTypes ==
  ASSUME TypeOK, NEW g \in Workers, NEW e \in Exchanges, Watches(g, e)
  PROVE  TypeOK'
<1> USE DEF TypeOK, At, Tasks
<1>1. CASE OpensClient(g, e)
  <2>1. /\ task' \in [Workers -> [Exchanges -> Tasks]]
        /\ open' \in [Workers -> SUBSET Exchanges]
    <3>1. \/ task' = [task EXCEPT ![g][e] = "done"] /\ open' = open
          \/ task' = [task EXCEPT ![g][e] = "loading"] /\ open' = [open EXCEPT ![g] = @ \cup {e}]
      BY <1>1 DEF OpensClient
    <3>2. CASE task' = [task EXCEPT ![g][e] = "done"] /\ open' = open
      BY <3>2
    <3>3. CASE task' = [task EXCEPT ![g][e] = "loading"] /\ open' = [open EXCEPT ![g] = @ \cup {e}]
      BY <3>3
    <3>4. QED
      BY <3>1, <3>2, <3>3
  <2>2. QED
    BY <1>1, <2>1 DEF OpensClient
<1>2. CASE Loads(g, e)
  BY <1>2 DEF Loads
<1>3. CASE LoadFails(g, e)
  BY <1>3 DEF LoadFails
<1>4. CASE TriesAgain(g, e)
  BY <1>4 DEF TriesAgain
<1>5. CASE Hears(g, e)
  BY <1>5 DEF Hears
<1>6. QED
  BY <1>1, <1>2, <1>3, <1>4, <1>5 DEF Watches

LEMMA TypeStep == TypeOK /\ [Next]_vars => TypeOK'
<1> SUFFICES ASSUME TypeOK, [Next]_vars PROVE TypeOK'
  OBVIOUS
<1>1. CASE UNCHANGED vars
  BY <1>1 DEF vars, TypeOK
<1>2. CASE Start \/ Reconnect \/ Stop
  BY <1>2, RuntimeTypes
<1>3. ASSUME NEW g \in Workers, Main(g) PROVE TypeOK'
  BY <1>3, MainTypes
<1>4. ASSUME NEW g \in Workers, NEW e \in Exchanges, Watches(g, e) PROVE TypeOK'
  BY <1>4, WatchTypes
<1>5. QED
  BY <1>1, <1>2, <1>3, <1>4 DEF Next

\* Every reachable state of the workers, their watchers and the runtime is well
\* typed.
THEOREM StreamsTypeCorrect == Spec => []TypeOK
BY TypeInit, TypeStep, PTL DEF Spec

-----------------------------------------------------------------------------
\* Connections.

\* A worker is stopped once: what is cancelled or shuts its watcher was flagged,
\* and the runtime never comes back to a worker it flagged.
StoppedOnce ==
  \A g \in Workers :
    /\ cancelling[g] \/ closing[g] => flag[g]
    /\ flag[g] => g < current \/ down
    /\ g > current => phase[g] = "none"

\* A teardown starts with every gateway left to close, and no task opens one any
\* more: what is open is always among what is left.
TeardownCovers ==
  \A g \in Workers :
    /\ phase[g] \in {"shutting", "closing"} => open[g] \subseteq left[g]
    /\ phase[g] = "shutting" => closing[g]

\* A cancellation is still to come in the last teardown only if it spared the
\* watcher's, which then closed everything.
SparedIsClosed ==
  \A g \in Workers :
    phase[g] = "closing" /\ closing[g] /\ cancelling[g] => open[g] = {}

Released == StoppedOnce /\ TeardownCovers /\ SparedIsClosed /\ GatewaysReleased

\* What is said of one worker, for steps that touch no other.
ReleasedOf(g) ==
  /\ cancelling[g] \/ closing[g] => flag[g]
  /\ flag[g] => g < current \/ down
  /\ g > current => phase[g] = "none"
  /\ phase[g] \in {"shutting", "closing"} => open[g] \subseteq left[g]
  /\ phase[g] = "shutting" => closing[g]
  /\ phase[g] = "closing" /\ closing[g] /\ cancelling[g] => open[g] = {}
  /\ phase[g] = "dead" /\ open[g] # {} => cut[g] /\ ~closing[g]

LEMMA ReleasedByWorker == Released <=> \A g \in Workers : ReleasedOf(g)
BY DEF Released, StoppedOnce, TeardownCovers, SparedIsClosed, GatewaysReleased, ReleasedOf

LEMMA ReleasedInit == Init => Released
BY DEF Init, Released, StoppedOnce, TeardownCovers, SparedIsClosed, GatewaysReleased

\* The runtime starts workers, and stops the one that runs.
LEMMA RuntimeReleases ==
  ASSUME TypeOK, Released, Start \/ Reconnect \/ Stop
  PROVE  Released'
<1> SUFFICES ASSUME NEW g \in Workers PROVE ReleasedOf(g)'
  BY DEF Released, StoppedOnce, TeardownCovers, SparedIsClosed, GatewaysReleased, ReleasedOf
<1>1. ReleasedOf(g)
  BY ReleasedByWorker
<1>2. UNCHANGED <<open, left, cut, closing>>
  BY DEF Start, Reconnect, Stop, streams
<1>3. g \in Int /\ current \in Int
  BY StreamsAssumption DEF TypeOK, Workers
<1>4. CASE Start
  <2>1. /\ current = -1 /\ current' = 0 /\ UNCHANGED <<down, flag, cancelling>>
        /\ phase' = [phase EXCEPT ![0] = "started"]
    BY <1>4 DEF Start
  <2>2. QED
    BY <1>1, <1>2, <1>3, <2>1 DEF ReleasedOf, TypeOK, Workers
<1>5. CASE Reconnect
  <2>1. /\ current' = current + 1 /\ ~down /\ UNCHANGED down /\ current \in Workers
        /\ flag' = [flag EXCEPT ![current] = TRUE]
        /\ cancelling' = [cancelling EXCEPT ![current] = @ \/ LoopRuns(current)]
        /\ phase' = [phase EXCEPT ![current + 1] = "started"]
    BY <1>5, StreamsAssumption DEF Reconnect, Stopped, Cancelled, Workers
  <2>2. g # current => cancelling'[g] = cancelling[g] /\ flag'[g] = flag[g]
    BY <2>1 DEF TypeOK
  <2>3. g = current => ~flag[g] /\ flag'[g] /\ ~closing[g] /\ phase'[g] = phase[g]
    BY <1>1, <1>3, <2>1 DEF ReleasedOf, TypeOK
  <2>4. g = current + 1 => phase'[g] = "started" /\ phase[g] = "none"
    BY <1>1, <1>3, <2>1 DEF ReleasedOf, TypeOK
  <2>5. g # current + 1 => phase'[g] = phase[g]
    BY <2>1 DEF TypeOK
  <2>6. QED
    BY <1>1, <1>2, <1>3, <2>1, <2>2, <2>3, <2>4, <2>5 DEF ReleasedOf
<1>6. CASE Stop
  <2>1. /\ down' /\ ~down /\ current' = current /\ current \in Workers /\ UNCHANGED phase
        /\ flag' = [flag EXCEPT ![current] = TRUE]
        /\ cancelling' = [cancelling EXCEPT ![current] = @ \/ LoopRuns(current)]
    BY <1>6, StreamsAssumption DEF Stop, Stopped, Cancelled, TypeOK, Workers
  <2>2. g # current => cancelling'[g] = cancelling[g] /\ flag'[g] = flag[g]
    BY <2>1 DEF TypeOK
  <2>3. g = current => ~flag[g] /\ flag'[g] /\ ~closing[g]
    BY <1>1, <1>3, <2>1 DEF ReleasedOf, TypeOK
  <2>4. QED
    BY <1>1, <1>2, <2>1, <2>2, <2>3 DEF ReleasedOf
<1>7. QED
  BY <1>4, <1>5, <1>6

\* A worker's main task: a teardown begins with all gateways, each close takes
\* one off both sets, and the thread ends when none is left or the last teardown
\* is cut.
LEMMA MainReleases ==
  ASSUME TypeOK, Released, NEW g \in Workers, Main(g)
  PROVE  Released'
<1> USE DEF TypeOK
<1>1. ReleasedOf(g)
  BY ReleasedByWorker
<1>2. /\ \A h \in Workers : h # g =>
            /\ phase'[h] = phase[h] /\ left'[h] = left[h] /\ open'[h] = open[h]
            /\ cut'[h] = cut[h] /\ closing'[h] = closing[h] /\ cancelling'[h] = cancelling[h]
      /\ UNCHANGED <<current, down, flag>>
  <2> USE DEF streams
  <2>1. CASE Records(g) \/ Resolves(g) \/ GivesUp(g) \/ Publishes(g)
    BY <2>1 DEF Records, Resolves, GivesUp, Publishes, Closes
  <2>2. CASE SeesStop(g) \/ CancelLands(g)
    BY <2>2 DEF SeesStop, CancelLands, ShutsWatcher, Closes
  <2>3. CASE CancelsTasks(g) \/ Dies(g) \/ \E e \in Exchanges : ClosesGateway(g, e)
    BY <2>3 DEF CancelsTasks, Dies, ClosesGateway, Closes
  <2>4. QED
    BY <2>1, <2>2, <2>3 DEF Main
<1>3. SUFFICES ReleasedOf(g)'
  <2>1. \A h \in Workers : h # g => ReleasedOf(h)'
    BY <1>2, ReleasedByWorker DEF ReleasedOf
  <2>2. QED
    BY <2>1, ReleasedByWorker
       DEF Released, StoppedOnce, TeardownCovers, SparedIsClosed, GatewaysReleased, ReleasedOf
<1>4. ASSUME phase[g] # "none"
      PROVE  (g > current)' => phase'[g] = "none"
  BY <1>1, <1>2, <1>4 DEF ReleasedOf
<1>5. CASE Records(g) \/ Resolves(g) \/ Publishes(g)
  <2>1. /\ phase[g] # "none" /\ phase'[g] \in {"resolving", "streaming"}
        /\ UNCHANGED <<closing, cancelling>>
    BY <1>5 DEF Records, Resolves, Publishes, streams
  <2>2. QED
    BY <1>1, <1>2, <1>4, <2>1 DEF ReleasedOf
<1>6. CASE GivesUp(g)
  <2>1. /\ phase[g] # "none" /\ phase'[g] = "closing" /\ left'[g] = Exchanges
        /\ open'[g] \subseteq Exchanges /\ ~cancelling'[g]
        /\ UNCHANGED <<closing, cancelling>>
    BY <1>6 DEF GivesUp, Closes, streams
  <2>2. QED
    BY <1>1, <1>2, <1>4, <2>1 DEF ReleasedOf
<1>7. CASE SeesStop(g)
  <2>1. /\ phase[g] # "none" /\ phase'[g] = "shutting" /\ left'[g] = Exchanges
        /\ closing'[g] /\ flag[g] /\ UNCHANGED <<open, cancelling>>
    BY <1>7 DEF SeesStop, ShutsWatcher
  <2>2. QED
    BY <1>1, <1>2, <1>4, <2>1 DEF ReleasedOf
<1>8. CASE CancelLands(g)
  <2>1. cancelling[g] /\ ~cancelling'[g] /\ flag[g]
    BY <1>1, <1>8 DEF CancelLands, ReleasedOf
  <2>2. CASE phase[g] \in {"resolving", "shutting"}
    <3>1. /\ phase'[g] = "closing" /\ left'[g] = Exchanges /\ open'[g] \subseteq Exchanges
      BY <1>8, <2>2 DEF CancelLands, Closes
    <3>2. QED
      BY <1>1, <1>2, <1>4, <2>1, <2>2, <3>1 DEF ReleasedOf
  <2>3. CASE phase[g] = "streaming"
    <3>1. /\ phase'[g] = "shutting" /\ left'[g] = Exchanges /\ open'[g] \subseteq Exchanges
          /\ closing'[g]
      BY <1>8, <2>3 DEF CancelLands, ShutsWatcher
    <3>2. QED
      BY <1>1, <1>2, <1>4, <2>1, <2>3, <3>1 DEF ReleasedOf
  <2>4. CASE phase[g] = "closing"
    <3>1. phase'[g] = "dead" /\ cut'[g] /\ UNCHANGED <<open, closing>>
      BY <1>8, <2>4 DEF CancelLands
    <3>2. closing[g] => open[g] = {}
      BY <1>1, <2>1, <2>4 DEF ReleasedOf
    <3>3. QED
      BY <1>1, <1>2, <1>4, <2>1, <2>4, <3>1, <3>2 DEF ReleasedOf
  <2>5. QED
    BY <1>8, <2>2, <2>3, <2>4 DEF CancelLands
<1>9. CASE CancelsTasks(g)
  <2>1. /\ phase[g] = "shutting" /\ left[g] = {} /\ phase'[g] = "closing"
        /\ left'[g] = Exchanges /\ UNCHANGED <<open, closing, cancelling>>
    BY <1>9 DEF CancelsTasks, Closes
  <2>2. open[g] = {}
    BY <1>1, <2>1 DEF ReleasedOf
  <2>3. QED
    BY <1>1, <1>2, <1>4, <2>1, <2>2 DEF ReleasedOf
<1>10. CASE Dies(g)
  <2>1. /\ phase[g] = "closing" /\ left[g] = {} /\ phase'[g] = "dead"
        /\ UNCHANGED <<open, closing, cancelling>>
    BY <1>10 DEF Dies, streams
  <2>2. open[g] = {}
    BY <1>1, <2>1 DEF ReleasedOf
  <2>3. QED
    BY <1>1, <1>2, <1>4, <2>1, <2>2 DEF ReleasedOf
<1>11. ASSUME NEW e \in Exchanges, ClosesGateway(g, e)
       PROVE  ReleasedOf(g)'
  <2>1. /\ open'[g] = open[g] \ {e} /\ left'[g] = left[g] \ {e}
        /\ phase[g] \in {"shutting", "closing"}
        /\ UNCHANGED <<phase, closing, cancelling, cut>>
    BY <1>11 DEF ClosesGateway, streams
  <2>2. QED
    BY <1>1, <1>2, <1>4, <2>1 DEF ReleasedOf
<1>12. QED
  BY <1>5, <1>6, <1>7, <1>8, <1>9, <1>10, <1>11 DEF Main

\* The watcher's tasks open nothing once it closes.
LEMMA WatchReleases ==
  ASSUME TypeOK, Released, NEW g \in Workers, NEW e \in Exchanges, Watches(g, e)
  PROVE  Released'
<1>1. /\ Running(g)
      /\ UNCHANGED <<current, down, phase, left, cut, closing, cancelling, flag>>
  BY DEF Watches, OpensClient, Loads, LoadFails, TriesAgain, Hears
<1>2. \A h \in Workers : h # g => open'[h] = open[h]
  BY DEF Watches, OpensClient, Loads, LoadFails, TriesAgain, Hears, TypeOK
<1>3. closing[g] => open'[g] \subseteq open[g]
  BY DEF Watches, OpensClient, Loads, LoadFails, TriesAgain, Hears, TypeOK
<1>4. phase[g] # "dead" /\ (phase[g] \in {"shutting", "closing"} => closing[g])
  BY <1>1 DEF Running
<1>5. ASSUME NEW h \in Workers PROVE ReleasedOf(h)'
  <2>1. ReleasedOf(h)
    BY ReleasedByWorker
  <2>2. CASE h = g
    BY <1>1, <1>3, <1>4, <2>1, <2>2 DEF ReleasedOf
  <2>3. CASE h # g
    BY <1>1, <1>2, <2>1, <2>3 DEF ReleasedOf
  <2>4. QED
    BY <2>2, <2>3
<1>6. QED
  BY <1>5 DEF Released, StoppedOnce, TeardownCovers, SparedIsClosed, GatewaysReleased, ReleasedOf

LEMMA ReleasedStep == TypeOK /\ Released /\ [Next]_vars => Released'
<1> SUFFICES ASSUME TypeOK, Released, [Next]_vars PROVE Released'
  OBVIOUS
<1>1. CASE UNCHANGED vars
  BY <1>1 DEF vars, streams, Released, StoppedOnce, TeardownCovers, SparedIsClosed,
              GatewaysReleased
<1>2. CASE Start \/ Reconnect \/ Stop
  BY <1>2, RuntimeReleases
<1>3. ASSUME NEW g \in Workers, Main(g) PROVE Released'
  BY <1>3, MainReleases
<1>4. ASSUME NEW g \in Workers, NEW e \in Exchanges, Watches(g, e) PROVE Released'
  BY <1>4, WatchReleases
<1>5. QED
  BY <1>1, <1>2, <1>3, <1>4 DEF Next

\* A worker's thread that has ended holds no connection, whichever await stop()
\* met it at, the watcher's teardown included, and whichever exchange was being
\* reopened; only one that gave up before it streamed may, when the stop cut the
\* closing of its gateways.
THEOREM EndedWorkersHoldNothing == Spec => []GatewaysReleased
<1>1. Spec => []Released
  BY StreamsTypeCorrect, ReleasedInit, ReleasedStep, PTL DEF Spec
<1>2. Released => GatewaysReleased
  BY DEF Released
<1>3. QED
  BY <1>1, <1>2, PTL

-----------------------------------------------------------------------------
\* The quote cache: what an open is confirmed with.

Ages == 0 .. Old
Books == [there : BOOLEAN, timed : BOOLEAN, age : Ages]
Checking == opener \in {"check1", "check2"}

\* The ages the model counts; a check that found its legs in step asks no more.
AgesOK ==
  /\ books \in [Venues -> Books]
  /\ begun \in Ages
  /\ asking \subseteq Venues /\ pending \subseteq Venues
  /\ synced => Checking /\ asking = {}

\* While a check runs, a book it will look at was read since it began, unless
\* it is one of those that are streamed.
ReadSinceBegun ==
  Checking => \A e \in Venues \ Bare : books[e].there => books[e].age <= begun

\* The resolver looked at a fresh book for every leg the cache is to price, and
\* a book can only run out while its leg waits.
AwaitedAreFresh == \A e \in pending : FreshBook(e) \/ e \in lapsed

Fresh == AgesOK /\ ReadSinceBegun /\ AwaitedAreFresh /\ OpensOnFreshPrices

LEMMA OldType ==
  Old \in Nat /\ BookAge <= Old /\ Ages \subseteq Nat /\ 0 \in Ages /\ Old \in Ages
<1>1. Old \in Nat /\ BookAge <= Old
  BY AgesAssumption DEF Old
<1>2. QED
  BY <1>1 DEF Ages

LEMMA OlderKeepsOrder ==
  ASSUME NEW m \in Ages, NEW n \in Ages
  PROVE  Older(m) \in Ages /\ (m <= n => Older(m) <= Older(n))
BY OldType DEF Older, Ages

LEMMA FreshInit == CacheInit => Fresh
<1> SUFFICES ASSUME CacheInit PROVE Fresh
  OBVIOUS
<1>1. AgesOK
  <2>1. Uncached \in Books
    BY OldType DEF Uncached, Books
  <2>2. books \in [Venues -> Books]
    BY <2>1 DEF CacheInit
  <2>3. QED
    BY <2>2, OldType DEF CacheInit, AgesOK
<1>2. QED
  BY <1>1 DEF CacheInit, Fresh, ReadSinceBegun, Checking, AwaitedAreFresh, OpensOnFreshPrices

\* A step after which nothing was just resolved or estimated.
LEMMA QuietIsFresh ==
  ASSUME NoOutcome
  PROVE  OpensOnFreshPrices'
BY DEF NoOutcome, OpensOnFreshPrices

\* A leg found in the cache, where the cache alone decides.
LEMMA SyncIsFresh ==
  ASSUME NEW e \in Venues, FreshBook(e), NEW l \in TopOfBookSync(e, "cache")
  PROVE  l.age <= BookAge
<1>1. TopOfBookSync(e, "cache") = {Leg(e, books[e].age, "cache")}
  BY DEF FreshBook, TopOfBookSync
<1>2. QED
  BY <1>1 DEF FreshBook, Leg

LEMMA LegsAreMarked ==
  ASSUME NEW e \in Venues, NEW by, NEW l \in TopOfBookSync(e, by)
  PROVE  l.ex = e /\ l.by = by
BY DEF TopOfBookSync, Leg

\* The legs still to be looked up, where a step adds none.
LEMMA AwaitedStay ==
  ASSUME AwaitedAreFresh, Lapses, pending' \subseteq pending
  PROVE  AwaitedAreFresh'
<1> SUFFICES ASSUME NEW e \in pending', ~FreshBook(e)'
             PROVE  e \in lapsed'
  BY DEF AwaitedAreFresh
<1>1. e \in pending /\ (FreshBook(e) \/ e \in lapsed)
  BY DEF AwaitedAreFresh
<1>2. QED
  BY <1>1 DEF Lapses

LEMMA BookPut ==
  ASSUME AgesOK, NEW e \in Venues, NEW age \in Ages, NEW timed \in BOOLEAN,
         PutOrderBook(e, age, timed)
  PROVE  /\ books' \in [Venues -> Books]
         /\ books'[e].age = age
         /\ \A d \in Venues \ {e} : books'[d] = books[d]
<1>1. [there |-> TRUE, timed |-> timed, age |-> age] \in Books
  BY DEF Books
<1>2. QED
  BY <1>1 DEF PutOrderBook, AgesOK

LEMMA CheckBegins ==
  ASSUME NEW name, BeginsCheck(name), name \in {"check1", "check2"}, pending' \subseteq Venues
  PROVE  AgesOK' /\ ReadSinceBegun'
<1>1. Uncached \in Books /\ ~Uncached.there
  BY OldType DEF Uncached, Books
<1>2. /\ books' \in [Venues -> Books]
      /\ \A e \in Venues : ~books'[e].there
  BY <1>1 DEF BeginsCheck
<1>3. begun' \in Ages /\ asking' = Venues /\ Checking' /\ ~synced'
  BY OldType DEF BeginsCheck, Checking
<1>4. QED
  BY <1>2, <1>3 DEF AgesOK, ReadSinceBegun

LEMMA TimeKeepsFresh ==
  ASSUME AgesOK, ReadSinceBegun, Ticks
  PROVE  AgesOK' /\ ReadSinceBegun'
<1>1. books' = [e \in Venues |-> [books[e] EXCEPT !.age = Older(@)]]
  BY DEF Ticks
<1>2. ASSUME NEW e \in Venues
      PROVE  /\ books'[e] \in Books
             /\ books'[e].there = books[e].there
             /\ books'[e].age = Older(books[e].age)
             /\ books[e].age \in Ages
  <2>1. books[e] \in Books
    BY DEF AgesOK
  <2>2. books[e].age \in Ages /\ Older(books[e].age) \in Ages
    BY <2>1, OlderKeepsOrder DEF Books
  <2>3. books'[e] = [books[e] EXCEPT !.age = Older(@)]
    BY <1>1
  <2>4. QED
    BY <2>1, <2>2, <2>3 DEF Books
<1>3. books' \in [Venues -> Books]
  BY <1>1, <1>2
<1>4. begun \in Ages
  BY DEF AgesOK
<1>5. begun' \in Ages /\ (Checking => begun' = Older(begun))
  BY <1>4, OldType, OlderKeepsOrder DEF Ticks, Checking
<1>6. AgesOK' /\ Checking' = Checking
  BY <1>3, <1>5 DEF Ticks, AgesOK, Checking
<1>7. QED
  BY <1>2, <1>4, <1>5, <1>6, OlderKeepsOrder DEF ReadSinceBegun

LEMMA FreshStep == Fresh /\ [CacheNext]_cacheVars => Fresh'
<1> SUFFICES ASSUME Fresh, [CacheNext]_cacheVars PROVE Fresh'
  OBVIOUS
<1>0. AgesOK /\ ReadSinceBegun /\ AwaitedAreFresh /\ OpensOnFreshPrices
  BY DEF Fresh
<1>1. CASE UNCHANGED cacheVars
  BY <1>0, <1>1
     DEF cacheVars, cache, check, outcome, Fresh, AgesOK, ReadSinceBegun, Checking,
         AwaitedAreFresh, FreshBook, OpensOnFreshPrices
<1>2. CASE CacheNext
  <2>0. CacheMoves /\ Lapses
    BY <1>2 DEF CacheNext
  <2>a. ASSUME AgesOK', ReadSinceBegun', pending' = pending, OpensOnFreshPrices'
        PROVE  Fresh'
    BY <1>0, <2>0, <2>a, AwaitedStay DEF Fresh
  <2>b. ASSUME NoOutcome, UNCHANGED books, UNCHANGED check, UNCHANGED asking, UNCHANGED pending
        PROVE  Fresh'
    BY <1>0, <2>a, <2>b, QuietIsFresh DEF check, AgesOK, ReadSinceBegun, Checking
  <2>1. CASE Ticks
    <3>1. pending' = pending /\ NoOutcome
      BY <2>1 DEF Ticks
    <3>2. QED
      BY <1>0, <2>1, <2>a, <3>1, TimeKeepsFresh, QuietIsFresh
  <2>2. CASE \E e \in Venues : TickerArrives(e)
    BY <2>2, <2>b DEF TickerArrives, cache
  <2>3. CASE Reconnects \/ PageConnects \/ Ingests
    BY <2>3, <2>b DEF Reconnects, PageConnects, Ingests, cache
  <2>4. ASSUME NEW e \in Venues, PublishBook(e)
        PROVE  Fresh'
    <3>1. PICK age \in {0, Old}, timed \in Stamps(e) : PutOrderBook(e, age, timed)
      BY <2>4 DEF PublishBook
    <3>2. timed \in BOOLEAN
      BY DEF Stamps
    <3>3. /\ books' \in [Venues -> Books]
          /\ \A d \in Venues \ {e} : books'[d] = books[d]
      BY <1>0, <3>1, <3>2, BookPut, OldType
    <3>4. e \in Bare /\ NoOutcome /\ UNCHANGED check /\ UNCHANGED asking /\ UNCHANGED pending
      BY <2>4 DEF PublishBook
    <3>5. AgesOK' /\ ReadSinceBegun'
      BY <1>0, <3>3, <3>4 DEF AgesOK, ReadSinceBegun, Checking, check
    <3>6. QED
      BY <2>a, <3>4, <3>5, QuietIsFresh
  <2>5. CASE EntrySpreadForOpen
    <3>1. UNCHANGED books /\ UNCHANGED begun /\ UNCHANGED synced /\ NoOutcome /\ pending = {}
      BY <2>5 DEF EntrySpreadForOpen, cache
    <3>2. CASE opener = "none" /\ asking' = Venues /\ opener' = "spread" /\ UNCHANGED pending
      BY <1>0, <2>a, <3>1, <3>2, QuietIsFresh DEF AgesOK, ReadSinceBegun, Checking
    <3>3. CASE /\ \A e \in Venues : ~NeedsRestBook(e)
               /\ pending' = Venues /\ UNCHANGED <<asking, opener>>
      <4>1. AgesOK' /\ ReadSinceBegun'
        BY <1>0, <3>1, <3>3 DEF AgesOK, ReadSinceBegun, Checking
      <4>2. AwaitedAreFresh'
        BY <3>1, <3>3 DEF AwaitedAreFresh, NeedsRestBook, FreshBook
      <4>3. QED
        BY <3>1, <4>1, <4>2, QuietIsFresh DEF Fresh
    <3>4. QED
      BY <2>5, <3>2, <3>3 DEF EntrySpreadForOpen
  <2>6. ASSUME NEW e \in Venues, LooksUp(e)
        PROVE  Fresh'
    <3>1. /\ e \in pending /\ pending' \subseteq pending
          /\ resolved' = TopOfBookSync(e, "cache") /\ estimated' = {}
          /\ UNCHANGED books /\ UNCHANGED check /\ UNCHANGED asking
      BY <2>6 DEF LooksUp, cache
    <3>2. AgesOK' /\ ReadSinceBegun'
      BY <1>0, <3>1 DEF AgesOK, ReadSinceBegun, Checking, check
    <3>3. AwaitedAreFresh'
      BY <1>0, <2>0, <3>1, AwaitedStay
    <3>4. ASSUME NEW l \in resolved', l.by = "rest" \/ (l.by = "cache" /\ l.ex \notin lapsed')
          PROVE  l.age <= BookAge
      <4>1. l \in TopOfBookSync(e, "cache")
        BY <3>1, <3>4
      <4>2. l.ex = e /\ l.by = "cache"
        BY <4>1, LegsAreMarked
      <4>3. e \notin lapsed'
        BY <3>4, <4>2
      <4>4. e \notin lapsed
        BY <2>0, <3>1, <4>3 DEF Lapses
      <4>5. FreshBook(e)
        BY <1>0, <3>1, <4>4 DEF AwaitedAreFresh
      <4>6. QED
        BY <4>1, <4>5, SyncIsFresh
    <3>5. OpensOnFreshPrices'
      BY <3>1, <3>4 DEF OpensOnFreshPrices
    <3>6. QED
      BY <3>2, <3>3, <3>5 DEF Fresh
  <2>7. CASE ExitSpread
    <3>1. UNCHANGED books /\ begun' = begun /\ synced' = synced /\ NoOutcome
          /\ opener' = "spread" /\ opener = "none" /\ asking' = Venues /\ pending' = pending
      BY <2>7 DEF ExitSpread, cache
    <3>2. QED
      BY <1>0, <2>a, <3>1, QuietIsFresh DEF AgesOK, ReadSinceBegun, Checking
  <2>8. CASE RunOpenCheck
    <3>1. pending' = pending /\ pending' \subseteq Venues /\ BeginsCheck("check1") /\ NoOutcome
      BY <1>0, <2>8 DEF RunOpenCheck, AgesOK
    <3>2. QED
      BY <2>a, <3>1, CheckBegins, QuietIsFresh
  <2>9. CASE Rejects
    <3>1. UNCHANGED books /\ begun' = 0 /\ ~synced' /\ NoOutcome /\ opener' = "none"
          /\ asking' = asking /\ pending' = pending
      BY <2>9 DEF Rejects, cache
    <3>2. QED
      BY <1>0, <2>a, <3>1, OldType, QuietIsFresh DEF AgesOK, ReadSinceBegun, Checking
  <2>10. CASE InSync
    <3>1. UNCHANGED <<books, begun, opener, asking, pending>> /\ NoOutcome /\ Checking
          /\ asking = {}
      BY <2>10 DEF InSync, cache, Checking
    <3>2. QED
      BY <1>0, <2>a, <3>1, QuietIsFresh DEF AgesOK, ReadSinceBegun, Checking
  <2>11. CASE Passes
    <3>1. Checking /\ (\A e \in Venues : books[e].there) /\ pending' = pending
      BY <1>0, <2>11 DEF Passes, HasDepth, AgesOK
    <3>2. ASSUME NEW l \in estimated', l.ex \notin Bare PROVE l.age <= l.begun
      <4>1. PICK e \in Venues : l = [ex |-> e, age |-> books[e].age, begun |-> begun]
        BY <2>11, <3>2 DEF Passes
      <4>2. QED
        BY <1>0, <3>1, <3>2, <4>1 DEF ReadSinceBegun
    <3>3. OpensOnFreshPrices'
      BY <2>11, <3>2 DEF Passes, OpensOnFreshPrices
    <3>4. AgesOK' /\ ReadSinceBegun'
      <4>1. pending' \subseteq Venues
        BY <1>0, <3>1 DEF AgesOK
      <4>2. CASE opener = "check1"
        BY <2>11, <4>1, <4>2, CheckBegins DEF Passes
      <4>3. CASE opener # "check1"
        <5>1. UNCHANGED books /\ begun' = 0 /\ ~synced' /\ opener' = "none" /\ asking' = asking
          BY <2>11, <4>3 DEF Passes, cache
        <5>2. QED
          BY <1>0, <4>1, <5>1, OldType DEF AgesOK, ReadSinceBegun, Checking
      <4>4. QED
        BY <4>2, <4>3
    <3>5. QED
      BY <2>a, <3>1, <3>3, <3>4
  <2>12. ASSUME NEW e \in Venues, ReadsBook(e)
         PROVE  Fresh'
    <3>1. resolved' = {Leg(e, 0, "rest")} /\ estimated' = {} /\ pending' = pending
          /\ asking' \subseteq Venues /\ ~synced'
      BY <1>0, <2>12 DEF ReadsBook, Asks, AgesOK
    <3>2. PICK timed \in Stamps(e) : PutOrderBook(e, 0, timed)
      BY <2>12 DEF ReadsBook
    <3>3. timed \in BOOLEAN
      BY DEF Stamps
    <3>4. /\ books' \in [Venues -> Books]
          /\ books'[e].age = 0
          /\ \A d \in Venues \ {e} : books'[d] = books[d]
      BY <1>0, <3>2, <3>3, BookPut, OldType
    <3>5. begun' \in Ages /\ (Checking => begun' = begun) /\ Checking' = Checking
      BY <1>0, <2>12, OldType DEF ReadsBook, Asks, AgesOK, Checking
    <3>6. AgesOK' /\ ReadSinceBegun'
      BY <1>0, <3>1, <3>4, <3>5, OldType DEF AgesOK, ReadSinceBegun
    <3>7. OpensOnFreshPrices'
      BY <3>1, AgesAssumption DEF OpensOnFreshPrices, Leg
    <3>8. QED
      BY <2>a, <3>1, <3>6, <3>7
  <2>13. ASSUME NEW e \in Venues, ReadFails(e)
         PROVE  Fresh'
    <3>1. resolved' = TopOfBookSync(e, "fallback") /\ estimated' = {} /\ UNCHANGED books
          /\ asking' \subseteq Venues /\ pending' = pending
      BY <1>0, <2>13 DEF ReadFails, Asks, AgesOK, cache
    <3>2. ~synced' /\ begun' \in Ages /\ (Checking' => Checking /\ begun' = begun)
      BY <1>0, <2>13, OldType DEF ReadFails, Asks, AgesOK, Checking
    <3>3. AgesOK' /\ ReadSinceBegun'
      BY <1>0, <3>1, <3>2 DEF AgesOK, ReadSinceBegun
    <3>4. \A l \in resolved' : l.by = "fallback"
      BY <3>1, LegsAreMarked
    <3>5. OpensOnFreshPrices'
      BY <3>1, <3>4 DEF OpensOnFreshPrices
    <3>6. QED
      BY <2>a, <3>1, <3>3, <3>5
  <2>14. QED
    BY <2>0, <2>1, <2>2, <2>3, <2>4, <2>5, <2>6, <2>7, <2>8, <2>9, <2>10, <2>11, <2>12, <2>13
       DEF CacheMoves
<1>3. QED
  BY <1>1, <1>2

\* What an open or a close is confirmed with is within the book limit, unless the
\* leg's book ran out between the resolver's check and its look into the cache,
\* or its REST read failed; and a live check estimates fills on books read since
\* it began.  For any exchanges and limits and whatever the streams and the
\* refreshes put into the cache meanwhile (ExecutableSpreadResolver,
\* LiveAutoTrader._run_open_check).
THEOREM PricesAreFresh == CacheSpec => []OpensOnFreshPrices
<1>1. CacheInit => Fresh
  BY FreshInit
<1>2. Fresh /\ [CacheNext]_cacheVars => Fresh'
  BY FreshStep
<1>3. Fresh => OpensOnFreshPrices
  BY DEF Fresh
<1>4. QED
  BY <1>1, <1>2, <1>3, PTL DEF CacheSpec

-----------------------------------------------------------------------------
\* The historical screener: the published direction.

\* A difference of two prices.
Differences == -MaxPrice .. MaxPrice

\* A non-empty set of bounded numbers has a largest and a least member.
LEMMA LeastOfBounded ==
  ASSUME NEW b \in Nat, NEW S \in SUBSET (0 .. b), S # {}
  PROVE  \E k \in S : \A j \in S : k <= j
<1>1. IsWellFoundedOn(OpToRel(<, Nat), Nat)
  BY NatLessThanWellFounded
<1>2. S \in SUBSET Nat
  OBVIOUS
<1>3. PICK k \in S : \A j \in S : ~(<<j, k>> \in OpToRel(<, Nat))
  BY <1>1, <1>2, WFMin
<1>4. \A j \in S : ~(j < k)
  BY <1>2, <1>3 DEF OpToRel
<1>5. QED
  BY <1>2, <1>4

LEMMA MaxOfBounded ==
  ASSUME NEW b \in Nat, NEW S \in SUBSET (-b .. b), S # {}
  PROVE  Max(S) \in S
<1> DEFINE T == {b - x : x \in S}
<1>1. T \in SUBSET (0 .. 2 * b) /\ T # {} /\ 2 * b \in Nat
  <2>1. \A x \in S : b - x \in 0 .. 2 * b
    OBVIOUS
  <2>2. PICK x \in S : TRUE
    OBVIOUS
  <2>3. b - x \in T
    BY <2>2
  <2>4. T \in SUBSET (0 .. 2 * b)
    BY <2>1
  <2>5. 2 * b \in Nat
    OBVIOUS
  <2>6. QED
    BY <2>3, <2>4, <2>5
<1>2. PICK t \in T : \A u \in T : t <= u
  BY <1>1, LeastOfBounded
<1>3. PICK x \in S : t = b - x
  BY <1>2
<1>4. \A y \in S : x >= y
  <2>1. SUFFICES ASSUME NEW y \in S PROVE x >= y
    OBVIOUS
  <2>2. b - y \in T
    OBVIOUS
  <2>3. b - x <= b - y
    BY <1>2, <1>3, <2>2
  <2>4. QED
    BY <2>3
<1>5. QED
  BY <1>4 DEF Max

LEMMA MinOfBounded ==
  ASSUME NEW b \in Nat, NEW S \in SUBSET (0 .. b), S # {}
  PROVE  Min(S) \in S
<1>1. PICK x \in S : \A y \in S : x <= y
  BY LeastOfBounded
<1>2. QED
  BY <1>1 DEF Min

-----------------------------------------------------------------------------
\* The spreads of a scan.

TickersOK == tickers \in [Sides -> [bid : Shows, ask : Shows, last : Shows]]

Points == [dir : Directions, spread : Differences]

LEMMA SpreadsType ==
  ASSUME TickersOK
  PROVE  /\ Len(Spreads) \in 0 .. 4 /\ DOMAIN Spreads = 1 .. Len(Spreads)
         /\ \A i \in 1 .. Len(Spreads) : Spreads[i] \in Points
<1> DEFINE P(d, s) == [dir |-> d, spread |-> s]
           ab == <<First, Second>>
           ba == <<Second, First>>
           a == tickers[First]
           b == tickers[Second]
           X == <<P(ab, a.bid - b.ask), P(ba, b.bid - a.ask)>>
           Y == <<P(ab, a.last - b.last), P(ba, b.last - a.last)>>
           F == IF Executable THEN X ELSE <<>>
           G == IF Traded THEN Y ELSE <<>>
<1>1. a \in [bid : Shows, ask : Shows, last : Shows] /\ b \in [bid : Shows, ask : Shows, last : Shows]
  BY DEF TickersOK, Sides
<1>2. \A m, n \in Shows : m - n \in Differences
  BY TickersAssumption DEF Shows, Differences
<1>3. \A d \in Directions, s \in Differences : P(d, s) \in Points
  BY DEF Points
<1>4. ab \in Directions /\ ba \in Directions
  BY DEF Directions
<1>5. X \in Seq(Points) /\ Len(X) = 2
  <2>1. P(ab, a.bid - b.ask) \in Points /\ P(ba, b.bid - a.ask) \in Points
    <3>1. a.bid - b.ask \in Differences /\ b.bid - a.ask \in Differences
      BY <1>1, <1>2
    <3>2. QED
      BY <1>3, <1>4, <3>1
  <2> HIDE DEF P
  <2>2. QED
    BY <2>1
<1>6. Y \in Seq(Points) /\ Len(Y) = 2
  <2>1. P(ab, a.last - b.last) \in Points /\ P(ba, b.last - a.last) \in Points
    <3>1. a.last - b.last \in Differences /\ b.last - a.last \in Differences
      BY <1>1, <1>2
    <3>2. QED
      BY <1>3, <1>4, <3>1
  <2> HIDE DEF P
  <2>2. QED
    BY <2>1
<1>7. Spreads = F \o G
  BY DEF Spreads
<1> HIDE DEF X, Y
<1>8. F \in Seq(Points) /\ Len(F) \in {0, 2}
  BY <1>5
<1>9. G \in Seq(Points) /\ Len(G) \in {0, 2}
  BY <1>6
<1> HIDE DEF F, G
<1>10. F \o G \in Seq(Points) /\ Len(F \o G) = Len(F) + Len(G)
  BY <1>8, <1>9
<1>11. Len(F \o G) \in 0 .. 4
  <2>1. Len(F) + Len(G) \in 0 .. 4
    <3>1. \A m, n \in {0, 2} : m + n \in 0 .. 4
      OBVIOUS
    <3>2. QED
      BY <1>8, <1>9, <3>1
  <2>2. QED
    BY <1>10, <2>1
<1>12. /\ DOMAIN (F \o G) = 1 .. Len(F \o G)
       /\ \A i \in 1 .. Len(F \o G) : (F \o G)[i] \in Points
  BY <1>10
<1>13. QED
  BY <1>7, <1>11, <1>12

-----------------------------------------------------------------------------
\* The histories.

HistoriesOK ==
  \A d \in Directions : /\ history[d] \subseteq computed[d]
                        /\ \A p \in computed[d] : p[2] \in Differences

New(d, k) == {<<scan.now, Spreads[i].spread>> : i \in {i \in 1 .. k : Spreads[i].dir = d}}

\* What a history holds after k spreads: old points and new ones.
LEMMA AfterIsKnown ==
  ASSUME NEW d, NEW k
  PROVE  /\ HistoryAfter(d, k) \subseteq history[d] \cup New(d, k)
         /\ New(d, k) # {} => \A p \in HistoryAfter(d, k) : p[1] >= scan.now - scan.lookback
         /\ \A p \in New(d, k) : scan.now >= scan.now - scan.lookback => p \in HistoryAfter(d, k)
<1>1. HistoryAfter(d, k) = IF New(d, k) = {} THEN history[d] ELSE Pruned(history[d] \cup New(d, k))
  BY DEF HistoryAfter, New
<1>2. \A p \in New(d, k) : p[1] = scan.now
  BY DEF New
<1>3. QED
  BY <1>1, <1>2 DEF Pruned

ScanOK == scan.now \in Nat /\ scan.lookback \in Nat

\* What a scan publishes is a point it kept.
LEMMA FoundIsKept ==
  ASSUME TickersOK, HistoriesOK, ScanOK, Found # None
  PROVE  \E d \in Directions, k \in 1 .. Len(Spreads) :
           /\ Found = [short |-> d[1], long |-> d[2], current |-> Spreads[k].spread,
                       max |-> Largest(k), at |-> scan.now, lookback |-> scan.lookback,
                       threshold |-> scan.threshold]
           /\ \E p \in HistoryAfter(d, k) : p[2] = Largest(k)
           /\ Largest(k) >= scan.threshold
           /\ New(d, k) # {}
<1> DEFINE k == Min(Best)
<1>1. Best # {} /\ Best \subseteq 1 .. Len(Spreads) /\ Best \subseteq 0 .. 4
  BY SpreadsType DEF Found, Best, Candidates
<1>2. k \in Best /\ k \in 1 .. Len(Spreads)
  BY <1>1, MinOfBounded
<1> DEFINE d == Spreads[k].dir
<1>3. d \in Directions
  BY <1>2, SpreadsType DEF Points
<1>4. Found = [short |-> d[1], long |-> d[2], current |-> Spreads[k].spread,
               max |-> Largest(k), at |-> scan.now, lookback |-> scan.lookback,
               threshold |-> scan.threshold]
  BY <1>1 DEF Found
<1>5. Largest(k) >= scan.threshold
  BY <1>2 DEF Best, Candidates
<1>6. <<scan.now, Spreads[k].spread>> \in New(d, k)
  BY <1>2, SpreadsType DEF New
<1>7. <<scan.now, Spreads[k].spread>> \in HistoryAfter(d, k)
  BY <1>6, AfterIsKnown DEF ScanOK
<1>8. \A p \in HistoryAfter(d, k) : p[2] \in Differences
  <2>1. SUFFICES ASSUME NEW p \in HistoryAfter(d, k) PROVE p[2] \in Differences
    OBVIOUS
  <2>2. CASE p \in history[d]
    BY <1>3, <2>2 DEF HistoriesOK
  <2>3. CASE p \in New(d, k)
    <3>1. PICK i \in 1 .. k : p = <<scan.now, Spreads[i].spread>>
      BY <2>3 DEF New
    <3>2. i \in 1 .. Len(Spreads)
      BY <1>2, <3>1, SpreadsType
    <3>3. QED
      BY <3>1, <3>2, SpreadsType DEF Points
  <2>4. QED
    BY <2>1, <2>2, <2>3, AfterIsKnown
<1>9. Largest(k) \in {p[2] : p \in HistoryAfter(d, k)}
  <2>1. {p[2] : p \in HistoryAfter(d, k)} \in SUBSET Differences
    BY <1>8
  <2>2. {p[2] : p \in HistoryAfter(d, k)} # {}
    BY <1>7
  <2>3. MaxPrice \in Nat
    BY TickersAssumption
  <2>4. QED
    BY <2>1, <2>2, <2>3, MaxOfBounded DEF Largest, Differences
<1>10. \E p \in HistoryAfter(d, k) : p[2] = Largest(k)
  BY <1>9
<1>11. QED
  BY <1>2, <1>3, <1>4, <1>5, <1>6, <1>10

-----------------------------------------------------------------------------
\* The invariant.

NumbersOK ==
  /\ clock \in Nat
  /\ filters.lookback \in Nat
  /\ ScanOK

Shown ==
  opportunity # None =>
    LET d == <<opportunity.short, opportunity.long>> IN
    /\ d \in Directions
    /\ \E p \in computed[d] : /\ p[1] >= opportunity.at - opportunity.lookback
                            /\ p[2] = opportunity.max
    /\ opportunity.max >= opportunity.threshold

Kept == TickersOK /\ NumbersOK /\ HistoriesOK /\ Shown

LEMMA KeptInit == ScreenerInit => Kept
<1> SUFFICES ASSUME ScreenerInit PROVE Kept
  OBVIOUS
<1>1. TickersOK
  <2>1. NoTicker \in [bid : Shows, ask : Shows, last : Shows]
    BY TickersAssumption DEF NoTicker, Shows
  <2>2. QED
    BY <2>1 DEF ScreenerInit, TickersOK
<1>2. NumbersOK
  <2>1. Max(Lookbacks) \in Lookbacks
    <3>1. Lookbacks \in SUBSET (-MaxTime .. MaxTime) /\ Lookbacks # {} /\ MaxTime \in Nat
      BY FiltersAssumption
    <3>2. QED
      BY <3>1, MaxOfBounded
  <2>2. Max(Lookbacks) \in Nat
    <3>1. \A l \in Lookbacks : l \in Nat
      BY FiltersAssumption
    <3>2. QED
      BY <2>1, <3>1
  <2>3. QED
    BY <2>2 DEF ScreenerInit, NumbersOK, ScanOK
<1>3. HistoriesOK /\ Shown
  BY DEF ScreenerInit, HistoriesOK, Shown
<1>4. QED
  BY <1>1, <1>2, <1>3 DEF Kept

\* The points of a scan are differences; it computes those of its first k.
LEMMA NewPoints ==
  ASSUME TickersOK, NEW d
  PROVE  /\ \A p \in New(d, Len(Spreads)) : p[2] \in Differences
         /\ \A k \in 1 .. Len(Spreads) : New(d, k) \subseteq New(d, Len(Spreads))
<1>1. \A i \in 1 .. Len(Spreads) : Spreads[i].spread \in Differences
  BY SpreadsType DEF Points
<1>2. Len(Spreads) \in Nat
  BY SpreadsType
<1>3. QED
  BY <1>1, <1>2 DEF New

LEMMA ScanKeeps ==
  ASSUME Kept, EndsScan
  PROVE  HistoriesOK' /\ Shown'
<1>1. TickersOK /\ HistoriesOK /\ ScanOK
  BY DEF Kept, NumbersOK
<1>2. CASE ~Listed
  BY <1>1, <1>2 DEF EndsScan, HistoriesOK, Shown
<1>3. CASE Listed
  <2> DEFINE n == Len(Spreads)
  <2>1. /\ history' = [d \in Directions |-> HistoryAfter(d, n)]
        /\ computed' = [d \in Directions |-> computed[d] \cup New(d, n)]
        /\ opportunity' = Found
    BY <1>3 DEF EndsScan, New
  <2>2. HistoriesOK'
    <3>1. SUFFICES ASSUME NEW d \in Directions
                   PROVE  /\ history'[d] \subseteq computed'[d]
                          /\ \A p \in computed'[d] : p[2] \in Differences
      BY DEF HistoriesOK
    <3>2. history'[d] = HistoryAfter(d, n) /\ computed'[d] = computed[d] \cup New(d, n)
      BY <2>1
    <3>3. history'[d] \subseteq history[d] \cup New(d, n)
      BY <3>2, AfterIsKnown
    <3>4. QED
      BY <1>1, <3>2, <3>3, NewPoints DEF HistoriesOK
  <2>3. Shown'
    <3>1. SUFFICES ASSUME Found # None PROVE Shown'
      BY <2>1 DEF Shown
    <3>2. PICK d \in Directions, k \in 1 .. n :
            /\ Found = [short |-> d[1], long |-> d[2], current |-> Spreads[k].spread,
                        max |-> Largest(k), at |-> scan.now, lookback |-> scan.lookback,
                        threshold |-> scan.threshold]
            /\ \E p \in HistoryAfter(d, k) : p[2] = Largest(k)
            /\ Largest(k) >= scan.threshold
            /\ New(d, k) # {}
      BY <1>1, <3>1, FoundIsKept
    <3>3. PICK p \in HistoryAfter(d, k) : p[2] = Largest(k)
      BY <3>2
    <3>4. p[1] >= scan.now - scan.lookback
      BY <3>2, <3>3, AfterIsKnown
    <3>5. p \in computed'[d]
      <4>1. p \in history[d] \cup New(d, k)
        BY <3>3, AfterIsKnown
      <4>2. computed'[d] = computed[d] \cup New(d, n)
        BY <2>1
      <4>3. QED
        BY <1>1, <4>1, <4>2, NewPoints DEF HistoriesOK
    <3>6. d = <<d[1], d[2]>>
      BY DEF Directions
    <3>7. /\ opportunity'.short = d[1] /\ opportunity'.long = d[2]
          /\ opportunity'.max = Largest(k) /\ opportunity'.at = scan.now
          /\ opportunity'.lookback = scan.lookback /\ opportunity'.threshold = scan.threshold
      BY <2>1, <3>2
    <3>8. QED
      BY <3>2, <3>3, <3>4, <3>5, <3>6, <3>7 DEF Shown
  <2>4. QED
    BY <2>2, <2>3
<1>4. QED
  BY <1>2, <1>3

LEMMA KeptStep == Kept /\ [ScreenerNext]_screenerVars => Kept'
<1> SUFFICES ASSUME Kept, [ScreenerNext]_screenerVars PROVE Kept'
  OBVIOUS
<1>0. TickersOK /\ NumbersOK /\ HistoriesOK /\ Shown
  BY DEF Kept
<1>1. ASSUME UNCHANGED results PROVE HistoriesOK' /\ Shown'
  BY <1>0, <1>1 DEF results, HistoriesOK, Shown
<1>2. CASE BeginsScan
  <2>1. TickersOK' /\ NumbersOK'
    BY <1>0, <1>2 DEF BeginsScan, TickersOK, NumbersOK, ScanOK
  <2>2. QED
    BY <1>1, <1>2, <2>1 DEF BeginsScan, Kept
<1>3. CASE EndsScan
  <2>1. TickersOK'
    BY <1>0, <1>3 DEF EndsScan, TickersOK
  <2>2. NumbersOK'
    <3>1. clock' \in Nat
      BY <1>0, <1>3 DEF EndsScan, NumbersOK
    <3>2. scan' = [now |-> 0, lookback |-> 0, threshold |-> 0] /\ filters' = filters
      BY <1>3 DEF EndsScan
    <3>3. QED
      BY <1>0, <3>1, <3>2 DEF NumbersOK, ScanOK
  <2>3. QED
    BY <1>3, <2>1, <2>2, ScanKeeps DEF Kept
<1>4. CASE ThreadEnds \/ StartScanner \/ StopScanner
  <2>1. UNCHANGED <<clock, tickers, filters, scan, results>>
    BY <1>4 DEF ThreadEnds, StartScanner, StopScanner
  <2>2. QED
    BY <1>0, <1>1, <2>1 DEF Kept, TickersOK, NumbersOK, ScanOK
<1>5. CASE UpdateFilters
  <2>1. PICK l \in Lookbacks, t \in Thresholds : filters' = [lookback |-> l, threshold |-> t]
    BY <1>5 DEF UpdateFilters
  <2>2. filters'.lookback \in Nat
    BY <2>1, FiltersAssumption
  <2>3. UNCHANGED <<clock, tickers, scan, results>>
    BY <1>5 DEF UpdateFilters
  <2>4. QED
    BY <1>0, <1>1, <2>2, <2>3 DEF Kept, TickersOK, NumbersOK, ScanOK
<1>6. CASE TickerMoves
  <2>1. PICK e \in Sides, t \in Tickers \cup {NoTicker} : tickers' = [tickers EXCEPT ![e] = t]
    BY <1>6 DEF TickerMoves
  <2>2. t \in [bid : Shows, ask : Shows, last : Shows]
    BY TickersAssumption DEF NoTicker, Shows
  <2>3. TickersOK'
    BY <1>0, <2>1, <2>2 DEF TickersOK
  <2>4. UNCHANGED <<clock, filters, scan, results>>
    BY <1>6 DEF TickerMoves
  <2>5. QED
    BY <1>0, <1>1, <2>3, <2>4 DEF Kept, NumbersOK, ScanOK
<1>7. CASE UNCHANGED screenerVars
  <2>1. UNCHANGED <<clock, tickers, filters, scan, results>>
    BY <1>7 DEF screenerVars
  <2>2. QED
    BY <1>0, <1>1, <2>1 DEF Kept, TickersOK, NumbersOK, ScanOK
<1>8. QED
  BY <1>2, <1>3, <1>4, <1>5, <1>6, <1>7 DEF ScreenerNext

\* The direction the table shows did reach its maximum, and the threshold, within
\* the lookback of the scan that published it, for any prices and filters and
\* through any restarts of the worker (HistoricalScreenerWorker._scan).
THEOREM ShownSpreadsHappened == ScreenerSpec => []OpportunitiesHappened
<1>1. Kept => OpportunitiesHappened
  BY DEF Kept, Shown, OpportunitiesHappened
<1>2. QED
  BY <1>1, KeptInit, KeptStep, PTL DEF ScreenerSpec

-----------------------------------------------------------------------------
\* The trading window.

\* The pushes since the last automatic trade are counted up to the cooldown, and
\* the loop decides on a trade only when they have reached it.
WindowOK ==
  /\ since \in 0 .. Cooldown /\ pairs \in Nat
  /\ stage = "deciding" => since = Cooldown

\* What AutoTradesAsTold says of a step.
TradedAsTold ==
  since' < since =>
    /\ stage = "deciding"
    /\ \/ "accumulate" \in session /\ OpenReached(seen.spread) /\ pairs' >= pairs
       \/ "close" \in session /\ CloseReached(seen.spread) /\ pairs' <= pairs

LEMMA WindowOpens == WindowInit => WindowOK
BY WindowAssumption DEF WindowInit, WindowOK

LEMMA TradeMoves ==
  ASSUME NEW kind \in {"accumulate", "close_all"}, pairs \in Nat, PaperTrade(kind)
  PROVE  /\ pairs' \in Nat
         /\ kind = "accumulate" => pairs' >= pairs
         /\ kind = "close_all" => pairs' <= pairs
<1>1. CASE kind = "accumulate"
  BY <1>1 DEF PaperTrade
<1>2. CASE kind = "close_all"
  BY <1>2 DEF PaperTrade
<1>3. QED
  BY <1>1, <1>2

\* The only step that sets the count of pushes back, and what it stands on: the
\* switches of this moment, the spread of the last read.
LEMMA AutoTrades ==
  ASSUME WindowOK, CheckAutoTrade
  PROVE  WindowOK' /\ TradedAsTold
<1> DEFINE kind == Signal(session, seen)
<1>1. stage = "deciding" /\ since = Cooldown
  BY DEF CheckAutoTrade, WindowOK
<1>2. CASE kind = "none"
  <2>1. since' = since /\ pairs' = pairs /\ stage' = "asleep"
    BY <1>2 DEF CheckAutoTrade
  <2>2. QED
    BY <1>1, <2>1, WindowAssumption DEF WindowOK, TradedAsTold
<1>3. CASE kind # "none"
  <2>1. PaperTrade(kind) /\ since' = 0 /\ stage' = "reporting"
    BY <1>3 DEF CheckAutoTrade
  <2>2. \/ kind = "accumulate" /\ "accumulate" \in session /\ OpenReached(seen.spread)
        \/ kind = "close_all" /\ "close" \in session /\ CloseReached(seen.spread)
    BY <1>3 DEF Signal, CheckAccumulate, CheckClose
  <2> HIDE DEF kind
  <2>3. /\ pairs' \in Nat
        /\ kind = "accumulate" => pairs' >= pairs
        /\ kind = "close_all" => pairs' <= pairs
    BY <2>1, <2>2, TradeMoves DEF WindowOK
  <2>4. QED
    BY <1>1, <2>1, <2>2, <2>3, WindowAssumption DEF WindowOK, TradedAsTold
<1>4. QED
  BY <1>2, <1>3

\* Every other step leaves the count, or counts on, and does not decide early.
LEMMA OthersLeaveIt ==
  ASSUME WindowOK, since' \in {since, since + 1}, since' <= Cooldown, pairs' \in Nat,
         stage' = "deciding" => since' = Cooldown
  PROVE  WindowOK' /\ TradedAsTold
BY WindowAssumption DEF WindowOK, TradedAsTold

LEMMA WindowMoves == WindowOK /\ [WindowNext]_windowVars => WindowOK' /\ TradedAsTold
<1> SUFFICES ASSUME WindowOK, [WindowNext]_windowVars PROVE WindowOK' /\ TradedAsTold
  OBVIOUS
<1>0. /\ since \in Nat /\ since <= Cooldown /\ pairs \in Nat /\ Cooldown \in Nat
      /\ stage = "deciding" => since = Cooldown
  BY WindowAssumption DEF WindowOK
<1>1. CASE CheckAutoTrade
  BY <1>1, AutoTrades
<1>2. CASE Bootstraps \/ LoopReads \/ ReportsTrade \/ Leaves
  BY <1>0, <1>2, OthersLeaveIt DEF Bootstraps, LoopReads, ReportsTrade, Leaves, desk
<1>3. CASE Sends
  <2>1. since' = since /\ pairs' = pairs
    BY <1>3 DEF Sends, desk
  <2>2. stage' = "deciding" => since' = Cooldown
    BY <1>0, <1>3 DEF Sends
  <2>3. QED
    BY <1>0, <2>1, <2>2, OthersLeaveIt
<1>4. CASE Wakes
  <2>1. since' \in {since, since + 1} /\ since' <= Cooldown
    BY <1>0, <1>4 DEF Wakes
  <2>2. pairs' = pairs /\ stage' = "top"
    BY <1>4 DEF Wakes, desk
  <2>3. QED
    BY <1>0, <2>1, <2>2, OthersLeaveIt
<1>5. CASE ExecuteTrade
  <2>1. stage' = stage /\ since' = since
    BY <1>5 DEF ExecuteTrade, loop
  <2>2. pairs' \in Nat
    BY <1>0, <1>5, TradeMoves DEF ExecuteTrade
  <2>3. QED
    BY <1>0, <2>1, <2>2, OthersLeaveIt
<1>6. CASE \/ SetParams \/ SetMalformed \/ Disconnects \/ AccountMoves
           \/ Worker \/ ConsumerFails \/ \E c \in Consumers : Consumes(c)
           \/ UNCHANGED windowVars
  <2>1. stage' = stage /\ since' = since /\ pairs' = pairs
    BY <1>6
       DEF SetParams, SetMalformed, Disconnects, AccountMoves, Worker, WorkerStarts, GatherEnds,
           WorkerEnds, ConsumerFails, Consumes, windowVars, loop, desk
  <2>2. QED
    BY <1>0, <2>1, OthersLeaveIt
<1>7. QED
  BY <1>1, <1>2, <1>3, <1>4, <1>5, <1>6 DEF WindowNext, Loop

\* The window's loop trades by itself only as the last command it was given allows,
\* on a spread its last read of the books showed: for any books, thresholds and
\* cooldowns, however commands come between its sends (OpportunityWsHandler).
THEOREM WindowsTradeAsTold == WindowSpec => AutoTradesAsTold
<1>1. WindowOK /\ [WindowNext]_windowVars => [TradedAsTold]_windowVars
  BY WindowMoves
<1>2. QED
  BY <1>1, WindowOpens, WindowMoves, PTL DEF WindowSpec, AutoTradesAsTold, TradedAsTold

-----------------------------------------------------------------------------
\* The account page: where the legs stand.

LegSet == [ex : Wired, side : LegSides, n : 0 .. MaxLegs]
OpenLegs == {l \in LegSet : l.n = 0}
PastLegs == {l \in LegSet : l.n > 0}

LEMMA ProductGrows ==
  ASSUME NEW a \in Nat, NEW b \in Nat, NEW m \in Nat, a <= b
  PROVE  a * m \in Nat /\ b * m \in Nat /\ a * m <= b * m
OBVIOUS

LEMMA RanksAreBounded ==
  \E b \in Nat : \A l \in LegSet : Rank(l) \in 0 .. b
<1> DEFINE N == Len(Accounts)
           m == MaxLegs + 1
<1>1. N \in Nat /\ m \in Nat /\ MaxLegs \in Nat /\ DOMAIN Accounts = 1 .. N
  BY BoardAssumption
<1>2. ASSUME NEW l \in LegSet PROVE Place(l.ex) \in Nat /\ Place(l.ex) <= N /\ l.n \in 0 .. MaxLegs
  <2>1. l.ex \in Wired /\ l.n \in 0 .. MaxLegs
    BY DEF LegSet
  <2>2. \E i \in DOMAIN Accounts : Accounts[i] = l.ex
    BY <2>1 DEF Wired, Range
  <2>3. Place(l.ex) \in DOMAIN Accounts
    BY <2>2 DEF Place
  <2>4. QED
    BY <1>1, <2>1, <2>3
<1> HIDE DEF N
<1>3. N * m \in Nat
  BY <1>1, ProductGrows
<1>4. ASSUME NEW l \in LegSet PROVE Rank(l) \in 0 .. (N * m + MaxLegs)
  <2>1. /\ Place(l.ex) * m \in Nat /\ Place(l.ex) * m <= N * m
    BY <1>1, <1>2, ProductGrows
  <2>2. Rank(l) = Place(l.ex) * m + l.n
    BY DEF Rank
  <2> HIDE DEF m
  <2>3. QED
    BY <1>1, <1>2, <1>3, <2>1, <2>2
<1>5. N * m + MaxLegs \in Nat
  BY <1>1, <1>3
<1>6. QED
  BY <1>4, <1>5

\* In every set of legs one is first and one is last.
LEMMA EndsExist ==
  ASSUME NEW S \in SUBSET LegSet, S # {}
  PROVE  Foremost(S) \in S /\ Hindmost(S) \in S
<1>1. PICK b \in Nat : \A l \in LegSet : Rank(l) \in 0 .. b
  BY RanksAreBounded
<1>2. Foremost(S) \in S
  <2> DEFINE T == {Rank(l) : l \in S}
  <2>1. T \in SUBSET (0 .. b) /\ T # {}
    BY <1>1
  <2>2. PICK t \in T : \A u \in T : t <= u
    BY <2>1, LeastOfBounded
  <2>3. PICK l \in S : t = Rank(l)
    BY <2>2
  <2>4. \A k \in S : Rank(l) <= Rank(k)
    BY <2>2, <2>3
  <2>5. QED
    BY <2>4 DEF Foremost
<1>3. Hindmost(S) \in S
  <2> DEFINE T == {b - Rank(l) : l \in S}
  <2>1. T \in SUBSET (0 .. b) /\ T # {}
    <3>1. \A l \in S : b - Rank(l) \in 0 .. b
      BY <1>1
    <3>2. T # {}
      OBVIOUS
    <3>3. QED
      BY <3>1, <3>2
  <2>2. PICK t \in T : \A u \in T : t <= u
    BY <2>1, LeastOfBounded
  <2>3. PICK l \in S : t = b - Rank(l)
    BY <2>2
  <2>4. ASSUME NEW k \in S PROVE Rank(k) <= Rank(l)
    <3>1. b - Rank(l) <= b - Rank(k)
      BY <2>2, <2>3
    <3>2. Rank(l) \in 0 .. b /\ Rank(k) \in 0 .. b
      BY <1>1
    <3>3. QED
      BY <3>1, <3>2
  <2>5. QED
    BY <2>4 DEF Hindmost
<1>4. QED
  BY <1>2, <1>3

-----------------------------------------------------------------------------
\* The account page: the shorts paired one by one.

\* A set with 0 that is closed under the successor holds 0 .. N.
LEMMA FromZero ==
  ASSUME NEW N \in Nat, NEW S, 0 \in S, \A n \in 0 .. N : n \in S /\ n + 1 \in 0 .. N => n + 1 \in S
  PROVE  0 .. N \subseteq S
<1> DEFINE T == (0 .. N) \ S
<1>1. SUFFICES ASSUME T # {} PROVE FALSE
  OBVIOUS
<1>2. PICK k \in T : \A j \in T : k <= j
  BY <1>1, LeastOfBounded
<1>3. k # 0 /\ k - 1 \in 0 .. N /\ k - 1 < k /\ (k - 1) + 1 = k
  OBVIOUS
<1>4. k - 1 \in S
  BY <1>2, <1>3
<1>5. QED
  BY <1>3, <1>4

\* Without its last leg a set is smaller.
LEMMA LastTaken ==
  ASSUME NEW s \in SUBSET LegSet, IsFiniteSet(s), s # {}
  PROVE  /\ Hindmost(s) \in s /\ s \ {Hindmost(s)} \in SUBSET s
         /\ IsFiniteSet(s \ {Hindmost(s)})
         /\ Cardinality(s) \in Nat \ {0}
         /\ Cardinality(s \ {Hindmost(s)}) = Cardinality(s) - 1
<1>1. Hindmost(s) \in s
  BY EndsExist
<1>2. Cardinality(s) \in Nat /\ Cardinality(s) # 0
  BY FS_CardinalityType, FS_EmptySet
<1>3. QED
  BY <1>1, <1>2, FS_RemoveElement

\* The fold that Pairs is, step by step.
LEMMA PairsByShorts ==
  ASSUME NEW legs \in SUBSET LegSet, IsFiniteSet(legs)
  PROVE  \E iter :
           /\ Pairs(legs) = iter[OfSide(legs, "short")]
           /\ iter[{}] = {}
           /\ \A s \in SUBSET OfSide(legs, "short") :
                s # {} => iter[s] = AddPair(legs, Hindmost(s), iter[s \ {Hindmost(s)}])
<1> DEFINE Shorts == OfSide(legs, "short")
           Take(s, P) == AddPair(legs, Hindmost(s), P)
           Rest(s) == s \ {Hindmost(s)}
           Folds(h) == h = [s \in SUBSET Shorts |-> IF s = {} THEN {} ELSE Take(s, h[Rest(s)])]
           H == CHOOSE h : Folds(h)
           Small(n) == {s \in SUBSET Shorts : Cardinality(s) <= n}
           Goes(h, n) == \A s \in Small(n) : h[s] = IF s = {} THEN {} ELSE Take(s, h[Rest(s)])
           N == Cardinality(Shorts)
           S == {n \in 0 .. N : \E h : h = [s \in Small(n) |-> h[s]] /\ Goes(h, n)}
<1>1. Pairs(legs) = H[Shorts]
  BY DEF Pairs, MapThenFoldSet
<1>2. Shorts \in SUBSET LegSet /\ IsFiniteSet(Shorts) /\ N \in Nat
  BY FS_Subset, FS_CardinalityType DEF OfSide
<1>3. ASSUME NEW s \in SUBSET Shorts
      PROVE  /\ Cardinality(s) \in 0 .. N /\ (Cardinality(s) = 0 <=> s = {})
             /\ s # {} => Rest(s) \in SUBSET Shorts /\ Cardinality(Rest(s)) = Cardinality(s) - 1
  <2>1. IsFiniteSet(s) /\ Cardinality(s) <= N /\ Cardinality(s) \in Nat
    BY <1>2, FS_Subset, FS_CardinalityType
  <2>2. Cardinality(s) = 0 <=> s = {}
    BY <2>1, FS_EmptySet
  <2>3. s # {} => Rest(s) \in SUBSET Shorts /\ Cardinality(Rest(s)) = Cardinality(s) - 1
    BY <1>2, <2>1, LastTaken
  <2>4. QED
    BY <1>2, <2>1, <2>2, <2>3
<1> HIDE DEF Shorts, Take, Rest, H, N
<1>4. 0 \in S
  <2> DEFINE g == [s \in Small(0) |-> {}]
  <2>1. \A s \in Small(0) : s = {}
    BY <1>3
  <2>2. Goes(g, 0)
    BY <2>1
  <2>3. g = [s \in Small(0) |-> g[s]]
    OBVIOUS
  <2>4. 0 \in 0 .. N
    BY <1>2
  <2> HIDE DEF g, Goes, Small
  <2>5. QED
    BY <2>2, <2>3, <2>4
<1>5. ASSUME NEW n \in 0 .. N, n \in S, n + 1 \in 0 .. N PROVE n + 1 \in S
  <2>1. PICK f : f = [s \in Small(n) |-> f[s]] /\ Goes(f, n)
    BY <1>5
  <2> DEFINE g == [s \in Small(n + 1) |-> IF s \in Small(n) THEN f[s] ELSE Take(s, f[Rest(s)])]
  <2>2. ASSUME NEW s \in Small(n + 1)
        PROVE  g[s] = IF s = {} THEN {} ELSE Take(s, g[Rest(s)])
    <3>1. s \in SUBSET Shorts /\ Cardinality(s) <= n + 1
      OBVIOUS
    <3>2. s # {} => Rest(s) \in Small(n) /\ Rest(s) \in Small(n + 1) /\ g[Rest(s)] = f[Rest(s)]
      <4>1. SUFFICES ASSUME s # {}
                     PROVE  Rest(s) \in Small(n) /\ Rest(s) \in Small(n + 1)
        OBVIOUS
      <4>2. /\ Rest(s) \in SUBSET Shorts /\ Cardinality(Rest(s)) = Cardinality(s) - 1
            /\ Cardinality(s) \in 0 .. N
        BY <1>3, <3>1, <4>1
      <4>3. QED
        BY <1>2, <1>5, <3>1, <4>2
    <3>3. CASE s \in Small(n)
      <4>1. g[s] = f[s]
        BY <3>3
      <4>2. f[s] = IF s = {} THEN {} ELSE Take(s, f[Rest(s)])
        BY <2>1, <3>3
      <4>3. QED
        BY <3>2, <4>1, <4>2
    <3>4. CASE s \notin Small(n)
      <4>1. s # {}
        BY <1>2, <1>3, <3>1, <3>4
      <4>2. g[s] = Take(s, f[Rest(s)])
        BY <3>4
      <4>3. QED
        BY <3>2, <4>1, <4>2
    <3>5. QED
      BY <3>3, <3>4
  <2>3. Goes(g, n + 1) /\ g = [s \in Small(n + 1) |-> g[s]]
    BY <2>2
  <2> HIDE DEF g, Goes, Small
  <2>4. QED
    BY <1>5, <2>3
<1>6. PICK f : f = [s \in Small(N) |-> f[s]] /\ Goes(f, N)
  <2> HIDE DEF S
  <2>1. 0 .. N \subseteq S
    BY <1>2, <1>4, <1>5, FromZero
  <2>2. N \in S
    BY <1>2, <2>1
  <2>3. QED
    BY <2>2 DEF S
<1>7. Small(N) = SUBSET Shorts
  BY <1>2, <1>3
<1>8. Folds(f)
  BY <1>6, <1>7
<1>9. Folds(H)
  BY <1>8 DEF H
<1>10. /\ H[{}] = {}
       /\ \A s \in SUBSET Shorts : s # {} => H[s] = Take(s, H[Rest(s)])
  BY <1>9
<1>11. QED
  BY <1>1, <1>10 DEF Shorts, Take, Rest

\* Rows of two are hedges, no leg is in two of them, and their shorts are in s.
Hedges(legs, s, P) ==
  /\ \A r \in P : \E short \in s, long \in OfSide(legs, "long") :
                   short.ex # long.ex /\ r = {short, long}
  /\ \A r, q \in P : r # q => r \cap q = {}

LEMMA AnotherHedge ==
  ASSUME NEW legs \in SUBSET LegSet, NEW s \in SUBSET OfSide(legs, "short"), NEW x \in s,
         NEW P, Hedges(legs, s \ {x}, P)
  PROVE  Hedges(legs, s, AddPair(legs, x, P))
<1> DEFINE free == Elsewhere(legs, x) \ UNION P
           y == Foremost(free)
<1>1. CASE free = {}
  BY <1>1 DEF AddPair, Hedges
<1>2. CASE free # {}
  <2>1. free \in SUBSET LegSet
    BY DEF Elsewhere, OfSide
  <2>2. y \in free
    BY <1>2, <2>1, EndsExist
  <2>3. AddPair(legs, x, P) = P \cup {{x, y}}
    BY <1>2 DEF AddPair
  <2>4. y \in OfSide(legs, "long") /\ x.ex # y.ex /\ y \notin UNION P
    BY <2>2 DEF Elsewhere
  <2> HIDE DEF y, free
  <2>5. x \notin UNION P
    <3>1. SUFFICES ASSUME NEW r \in P, x \in r PROVE FALSE
      OBVIOUS
    <3>2. PICK short \in s \ {x}, long \in OfSide(legs, "long") : r = {short, long}
      BY <3>1 DEF Hedges
    <3>3. x = long
      BY <3>1, <3>2
    <3>4. x.side = "short" /\ long.side = "long"
      BY DEF OfSide
    <3>5. QED
      BY <3>3, <3>4
  <2>6. \A r \in P : r \cap {x, y} = {} /\ {x, y} \cap r = {}
    BY <2>4, <2>5
  <2>7. ASSUME NEW r \in P \cup {{x, y}}
        PROVE  \E short \in s, long \in OfSide(legs, "long") :
                 short.ex # long.ex /\ r = {short, long}
    BY <2>4 DEF Hedges
  <2>8. ASSUME NEW r \in P \cup {{x, y}}, NEW q \in P \cup {{x, y}}, r # q
        PROVE  r \cap q = {}
    <3>1. CASE r \in P /\ q \in P
      BY <2>8, <3>1 DEF Hedges
    <3>2. CASE r = {x, y} \/ q = {x, y}
      BY <2>6, <2>8, <3>2
    <3>3. QED
      BY <3>1, <3>2
  <2>9. QED
    BY <2>3, <2>7, <2>8 DEF Hedges
<1>3. QED
  BY <1>1, <1>2

LEMMA PairsAreHedges ==
  ASSUME NEW legs \in SUBSET LegSet, IsFiniteSet(legs)
  PROVE  Hedges(legs, OfSide(legs, "short"), Pairs(legs))
<1> DEFINE Shorts == OfSide(legs, "short")
           N == Cardinality(Shorts)
<1>1. PICK iter :
        /\ Pairs(legs) = iter[Shorts]
        /\ iter[{}] = {}
        /\ \A s \in SUBSET Shorts :
             s # {} => iter[s] = AddPair(legs, Hindmost(s), iter[s \ {Hindmost(s)}])
  BY PairsByShorts
<1>2. Shorts \in SUBSET LegSet /\ IsFiniteSet(Shorts) /\ N \in Nat
  BY FS_Subset, FS_CardinalityType DEF OfSide
<1> DEFINE S == {n \in 0 .. N :
                   \A s \in SUBSET Shorts : Cardinality(s) = n => Hedges(legs, s, iter[s])}
<1>3. ASSUME NEW s \in SUBSET Shorts
      PROVE  IsFiniteSet(s) /\ s \in SUBSET LegSet /\ (Cardinality(s) = 0 <=> s = {})
  BY <1>2, FS_Subset, FS_EmptySet
<1>4. 0 \in S
  <2>1. Hedges(legs, {}, iter[{}])
    BY <1>1 DEF Hedges
  <2>2. QED
    BY <1>2, <1>3, <2>1
<1> HIDE DEF Shorts, N
<1>5. ASSUME NEW n \in 0 .. N, n \in S, n + 1 \in 0 .. N PROVE n + 1 \in S
  <2>1. SUFFICES ASSUME NEW s \in SUBSET Shorts, Cardinality(s) = n + 1
                 PROVE  Hedges(legs, s, iter[s])
    BY <1>5
  <2> DEFINE x == Hindmost(s)
  <2>2. s # {}
    <3>1. n + 1 # 0
      BY <1>2
    <3>2. QED
      BY <1>3, <2>1, <3>1
  <2>3. x \in s /\ Cardinality(s \ {x}) = n /\ s \ {x} \in SUBSET Shorts
    BY <1>2, <1>3, <2>1, <2>2, LastTaken
  <2>4. iter[s] = AddPair(legs, x, iter[s \ {x}])
    BY <1>1, <2>2
  <2> HIDE DEF x
  <2>5. Hedges(legs, s \ {x}, iter[s \ {x}])
    BY <1>5, <2>3
  <2>6. QED
    BY <2>3, <2>4, <2>5, AnotherHedge DEF Shorts
<1>6. N \in S
  <2> HIDE DEF S
  <2>1. 0 .. N \subseteq S
    BY <1>2, <1>4, <1>5, FromZero
  <2>2. QED
    BY <1>2, <2>1
<1>7. QED
  BY <1>1, <1>6 DEF Shorts, N

\* What grouping promises of a list of legs.
LEMMA RowsPartition ==
  ASSUME NEW legs \in SUBSET LegSet, IsFiniteSet(legs)
  PROVE  /\ \A l \in legs : \E r \in Rows(legs) : l \in r /\ \A q \in Rows(legs) : l \in q => q = r
         /\ \A r \in Rows(legs) : r \subseteq legs
         /\ \A r \in Rows(legs) : \A k, l \in r : k # l => k.side # l.side /\ k.ex # l.ex
<1> DEFINE P == Pairs(legs)
<1>1. Hedges(legs, OfSide(legs, "short"), P)
  BY PairsAreHedges
<1>2. Rows(legs) = P \cup {{l} : l \in legs \ UNION P}
  BY DEF Rows, Singles
<1> HIDE DEF P
<1>3. ASSUME NEW r \in P
      PROVE  r \subseteq legs /\ \A k, l \in r : k # l => k.side # l.side /\ k.ex # l.ex
  <2>1. PICK short \in OfSide(legs, "short"), long \in OfSide(legs, "long") :
          short.ex # long.ex /\ r = {short, long}
    BY <1>1 DEF Hedges
  <2>2. /\ short \in legs /\ long \in legs
        /\ short.side = "short" /\ long.side = "long"
    BY DEF OfSide
  <2>3. QED
    BY <2>1, <2>2
<1>4. ASSUME NEW l \in legs
      PROVE  \E r \in Rows(legs) : l \in r /\ \A q \in Rows(legs) : l \in q => q = r
  <2>1. CASE l \in UNION P
    <3>1. PICK r \in P : l \in r
      BY <2>1
    <3>2. \A q \in P : l \in q => q = r
      BY <1>1, <3>1 DEF Hedges
    <3>3. QED
      BY <1>2, <2>1, <3>1, <3>2
  <2>2. CASE l \notin UNION P
    <3>1. {l} \in Rows(legs)
      BY <1>2, <2>2
    <3>2. ASSUME NEW q \in Rows(legs), l \in q PROVE q = {l}
      <4>1. q \notin P
        BY <2>2, <3>2
      <4>2. PICK m \in legs : q = {m}
        BY <1>2, <4>1
      <4>3. QED
        BY <3>2, <4>2
    <3>3. QED
      BY <3>1, <3>2
  <2>3. QED
    BY <2>1, <2>2
<1>5. ASSUME NEW r \in Rows(legs)
      PROVE  r \subseteq legs /\ \A k, l \in r : k # l => k.side # l.side /\ k.ex # l.ex
  <2>1. CASE r \in P
    BY <1>3, <2>1
  <2>2. CASE r \notin P
    <3>1. PICK m \in legs : r = {m}
      BY <1>2, <2>2
    <3>2. QED
      BY <3>1
  <2>3. QED
    BY <2>1, <2>2
<1>6. QED
  BY <1>4, <1>5

-----------------------------------------------------------------------------
\* The account page: what the worker and the service hold.

\* Open legs and closed legs never mix, and there are finitely many of each.
BoardOK ==
  /\ held \in SUBSET OpenLegs /\ IsFiniteSet(held)
  /\ past \in SUBSET PastLegs /\ IsFiniteSet(past)
  /\ Cardinality(held) + Cardinality(past) <= MaxLegs
  /\ shown \in [Wired -> SUBSET OpenLegs] /\ \A e \in Wired : IsFiniteSet(shown[e])
  /\ fetched \in SUBSET PastLegs /\ IsFiniteSet(fetched)
  /\ closed \in SUBSET PastLegs /\ IsFiniteSet(closed)

LEMMA BoardStarts == BoardInit => BoardOK
BY BoardAssumption, FS_EmptySet DEF BoardInit, BoardOK

LEMMA LegsMove ==
  ASSUME BoardOK, NEW e \in Wired, NEW side \in LegSides, LegOpens(e, side) \/ LegCloses(e, side)
  PROVE  BoardOK'
<1> DEFINE leg == LegOf(e, side, 0)
           old == LegOf(e, side, Cardinality(past) + 1)
<1>1. /\ Cardinality(held) \in Nat /\ Cardinality(past) \in Nat /\ MaxLegs \in Nat
  BY BoardAssumption, FS_CardinalityType DEF BoardOK
<1>2. leg \in OpenLegs
  BY <1>1 DEF OpenLegs, LegSet, LegOf
<1>3. UNCHANGED <<shown, fetched, closed>>
  BY DEF LegOpens, LegCloses, accountWorker, service
<1>4. CASE LegOpens(e, side)
  <2>1. /\ held' = held \cup {leg} /\ past' = past /\ leg \notin held
        /\ Cardinality(held) + Cardinality(past) < MaxLegs
    BY <1>4 DEF LegOpens
  <2> HIDE DEF leg
  <2>2. IsFiniteSet(held') /\ Cardinality(held') = Cardinality(held) + 1
    BY <2>1, FS_AddElement DEF BoardOK
  <2>3. QED
    BY <1>1, <1>2, <1>3, <2>1, <2>2 DEF BoardOK
<1>5. CASE LegCloses(e, side)
  <2>1. held' = held \ {leg} /\ past' = past \cup {old} /\ leg \in held
    BY <1>5 DEF LegCloses
  <2>2. IsFiniteSet(held') /\ Cardinality(held') = Cardinality(held) - 1
    <3> HIDE DEF leg
    <3>1. QED
      BY <2>1, FS_RemoveElement DEF BoardOK
  <2>3. IsFiniteSet(past') /\ Cardinality(past') \in {Cardinality(past), Cardinality(past) + 1}
    <3> HIDE DEF old
    <3>1. QED
      BY <2>1, FS_AddElement DEF BoardOK
  <2>4. Cardinality(held') \in Nat
    BY <2>2, FS_CardinalityType
  <2>5. Cardinality(past) + 1 \in 1 .. MaxLegs
    BY <1>1, <2>2, <2>4 DEF BoardOK
  <2>6. old \in PastLegs
    BY <2>5 DEF PastLegs, LegSet, LegOf
  <2> HIDE DEF leg, old
  <2>7. Cardinality(held') + Cardinality(past') <= MaxLegs
    BY <1>1, <2>2, <2>3 DEF BoardOK
  <2>8. QED
    BY <1>3, <2>1, <2>2, <2>3, <2>6, <2>7 DEF BoardOK
<1>6. QED
  BY <1>4, <1>5

LEMMA BoardStep == BoardOK /\ [BoardNext]_boardVars => BoardOK'
<1> SUFFICES ASSUME BoardOK, [BoardNext]_boardVars PROVE BoardOK'
  OBVIOUS
<1>1. CASE \E e \in Wired, side \in LegSides : LegOpens(e, side) \/ LegCloses(e, side)
  BY <1>1, LegsMove
<1>2. CASE EnsureRunning \/ StopAccount \/ AccountEnds \/ UNCHANGED boardVars
  <2>1. UNCHANGED <<held, past, shown, fetched, closed>>
    BY <1>2
       DEF EnsureRunning, StopAccount, AccountEnds, boardVars, positions, accountWorker, service
  <2>2. QED
    BY <2>1 DEF BoardOK
<1>3. CASE \E e \in Wired : ConsumePositions(e) \/ StreamFails(e)
  <2>1. PICK e \in Wired : ConsumePositions(e) \/ StreamFails(e)
    BY <1>3
  <2>2. UNCHANGED <<held, past, fetched, closed>>
    BY <2>1 DEF ConsumePositions, StreamFails, positions, service
  <2>3. shown' = shown \/ shown' = [shown EXCEPT ![e] = PositionsOf(e)]
    BY <2>1 DEF ConsumePositions, StreamFails
  <2>4. PositionsOf(e) \in SUBSET OpenLegs /\ IsFiniteSet(PositionsOf(e))
    BY FS_Subset DEF BoardOK, PositionsOf
  <2>5. shown' \in [Wired -> SUBSET OpenLegs] /\ \A d \in Wired : IsFiniteSet(shown'[d])
    BY <2>3, <2>4 DEF BoardOK
  <2>6. QED
    BY <2>2, <2>5 DEF BoardOK
<1>4. CASE BeginsFetch
  <2>1. UNCHANGED <<held, past, shown, fetched, closed>>
    BY <1>4 DEF BeginsFetch, positions, accountWorker
  <2>2. QED
    BY <2>1 DEF BoardOK
<1>5. CASE FetchesClosed
  <2>1. UNCHANGED <<held, past, shown>>
    BY <1>5 DEF FetchesClosed, positions, accountWorker
  <2>2. PICK got \in SUBSET past :
          \/ closed' = fetched \cup got /\ fetched' = {}
          \/ closed' = closed /\ fetched' = fetched \cup got
    <3>1. PICK got \in {{l \in past : l.ex = Head(fetching)}}
                  \cup (IF "fetch" \in BoardFaults THEN {{}} ELSE {}) :
            \/ closed' = fetched \cup got /\ fetched' = {}
            \/ closed' = closed /\ fetched' = fetched \cup got
      BY <1>5 DEF FetchesClosed
    <3>2. got \in SUBSET past
      OBVIOUS
    <3>3. QED
      BY <3>1, <3>2
  <2>3. IsFiniteSet(got) /\ got \in SUBSET PastLegs
    BY FS_Subset DEF BoardOK
  <2>4. IsFiniteSet(fetched \cup got) /\ fetched \cup got \in SUBSET PastLegs
    BY <2>3, FS_Union DEF BoardOK
  <2>5. QED
    BY <2>1, <2>2, <2>4, FS_EmptySet DEF BoardOK
<1>6. QED
  BY <1>1, <1>2, <1>3, <1>4, <1>5 DEF BoardNext

LEMMA WiredIsFinite == IsFiniteSet(Wired)
<1>1. Accounts \in [1 .. Len(Accounts) -> Wired] /\ Len(Accounts) \in Nat
  BY BoardAssumption DEF Wired
<1>2. Accounts \in Surjection(1 .. Len(Accounts), Wired)
  BY <1>1 DEF Surjection, Wired, Range
<1>3. QED
  BY <1>1, <1>2, FS_Interval, FS_Surjection

LEMMA PositionsAreOpen ==
  ASSUME BoardOK
  PROVE  ReadPositions \in SUBSET OpenLegs /\ IsFiniteSet(ReadPositions)
<1> DEFINE all == {shown[e] : e \in Wired}
<1>1. shown \in Surjection(Wired, all)
  BY DEF BoardOK, Surjection
<1>2. IsFiniteSet(all)
  BY <1>1, WiredIsFinite, FS_Surjection
<1>3. \A T \in all : IsFiniteSet(T) /\ T \in SUBSET OpenLegs
  BY DEF BoardOK
<1>4. ReadPositions = UNION all
  BY DEF ReadPositions
<1> HIDE DEF all
<1>5. QED
  BY <1>2, <1>3, <1>4, FS_UNION

LEMMA BoardShowsOnce == BoardOK => LegsInOneRow
<1> SUFFICES ASSUME BoardOK PROVE LegsInOneRow
  OBVIOUS
<1> DEFINE now == ReadPositions
           Once(l) == \E r \in Snapshot : l \in r /\ \A q \in Snapshot : l \in q => q = r
<1>1. /\ now \in SUBSET OpenLegs /\ IsFiniteSet(now)
      /\ closed \in SUBSET PastLegs /\ IsFiniteSet(closed)
  BY PositionsAreOpen DEF BoardOK
<1>2. now \in SUBSET LegSet /\ closed \in SUBSET LegSet /\ now \cap closed = {}
  <2>1. OpenLegs \subseteq LegSet /\ PastLegs \subseteq LegSet
    BY DEF OpenLegs, PastLegs
  <2>2. \A l \in OpenLegs : l \notin PastLegs
    BY DEF OpenLegs, PastLegs
  <2>3. QED
    BY <1>1, <2>1, <2>2
<1>3. Snapshot = Rows(now) \cup Rows(closed)
  BY DEF Snapshot
<1> HIDE DEF now
<1>4. /\ \A l \in now : \E r \in Rows(now) : l \in r /\ \A q \in Rows(now) : l \in q => q = r
      /\ \A r \in Rows(now) : r \subseteq now
      /\ \A r \in Rows(now) : \A k, l \in r : k # l => k.side # l.side /\ k.ex # l.ex
  BY <1>1, <1>2, RowsPartition
<1>5. /\ \A l \in closed : \E r \in Rows(closed) : l \in r /\ \A q \in Rows(closed) : l \in q => q = r
      /\ \A r \in Rows(closed) : r \subseteq closed
      /\ \A r \in Rows(closed) : \A k, l \in r : k # l => k.side # l.side /\ k.ex # l.ex
  BY <1>1, <1>2, RowsPartition
<1>6. ASSUME NEW l \in now \cup closed PROVE Once(l)
  <2>1. CASE l \in now
    <3>1. PICK r \in Rows(now) : l \in r /\ \A q \in Rows(now) : l \in q => q = r
      BY <1>4, <2>1
    <3>2. \A q \in Rows(closed) : l \notin q
      BY <1>2, <1>5, <2>1
    <3>3. QED
      BY <1>3, <3>1, <3>2
  <2>2. CASE l \in closed
    <3>1. PICK r \in Rows(closed) : l \in r /\ \A q \in Rows(closed) : l \in q => q = r
      BY <1>5, <2>2
    <3>2. \A q \in Rows(now) : l \notin q
      BY <1>2, <1>4, <2>2
    <3>3. QED
      BY <1>3, <3>1, <3>2
  <2>3. QED
    BY <2>1, <2>2
<1>7. ASSUME NEW l \in now \cup closed PROVE Cardinality({r \in Snapshot : l \in r}) = 1
  <2>1. PICK r \in Snapshot : l \in r /\ \A q \in Snapshot : l \in q => q = r
    BY <1>6
  <2>2. {q \in Snapshot : l \in q} = {r}
    BY <2>1
  <2>3. QED
    BY <2>2, FS_Singleton
<1>8. ASSUME NEW r \in Snapshot, NEW k \in r, NEW l \in r, k # l
      PROVE  k.side # l.side /\ k.ex # l.ex
  BY <1>3, <1>4, <1>5, <1>8
<1>9. QED
  BY <1>7, <1>8 DEF LegsInOneRow, now

\* Every leg the streams have shown or a fetch has brought is in exactly one row,
\* and a row of two is a hedge: for any exchanges, any number of legs and any faults
\* (ExchangeOrdersService._group_legs).
THEOREM LegsAreShownOnce == BoardSpec => []LegsInOneRow
BY BoardStarts, BoardStep, BoardShowsOnce, PTL DEF BoardSpec
=============================================================================
