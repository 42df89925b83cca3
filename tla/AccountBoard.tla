---------------------------- MODULE AccountBoard ----------------------------
(***************************************************************************)
(* The account as the Orders page shows it, for one symbol: the account    *)
(* worker streams the open positions of every exchange, the orders service *)
(* fetches the closed ones from time to time, and whoever asks gets both   *)
(* grouped into pairs and single legs.  Worker and service are threads of  *)
(* their own.                                                              *)
(*                                                                         *)
(* A leg is [ex, side, n]: n tells positions of one exchange apart, n = 0  *)
(* is the open one.  A row is a set of one or two legs.  No order of this  *)
(* program carries an arbitrage marker, so closed legs are grouped as ones *)
(* without it.  Faults:                                                    *)
(*   fetch   an exchange's closed positions cannot be fetched              *)
(*   stream  an exchange's position stream ends                            *)
(***************************************************************************)
EXTENDS Integers, FiniteSets, Sequences, Functions, Folds

CONSTANTS
  Accounts,     \* the exchanges with credentials, in their order
  ReadOnce,     \* those whose positions are read once, without a stream
  MaxLegs,      \* bound: positions ever opened
  BoardFaults

ASSUME BoardAssumption ==
  /\ Accounts \in Seq(Range(Accounts)) /\ MaxLegs \in Nat
  /\ \A i, j \in DOMAIN Accounts : Accounts[i] = Accounts[j] => i = j
  /\ ReadOnce \subseteq Range(Accounts) /\ BoardFaults \subseteq {"fetch", "stream"}

VARIABLES
  held,      \* the open legs on the exchanges
  past,      \* the closed legs on the exchanges
  account,   \* the account worker: "off", "running", "ending", "ended"
  feed,      \* feed[e]: its position stream: "none", "open", "over"
  shown,     \* shown[e]: the positions it last published
  fetching,  \* the exchanges the running fetch has yet to ask; <<>> when none
  fetched,   \* the legs it has got so far
  closed     \* the closed legs the service holds

positions == <<held, past>>
accountWorker == <<account, feed, shown>>
service == <<fetching, fetched, closed>>
boardVars == <<positions, accountWorker, service>>

Wired == Range(Accounts)
LegOf(e, side, n) == [ex |-> e, side |-> side, n |-> n]
LegSides == {"short", "long"}

BoardInit ==
  /\ held = {} /\ past = {}
  /\ account = "off" /\ feed = [e \in Wired |-> "none"] /\ shown = [e \in Wired |-> {}]
  /\ fetching = <<>> /\ fetched = {} /\ closed = {}

-----------------------------------------------------------------------------
\* The exchanges.

LegOpens(e, side) ==
  /\ LegOf(e, side, 0) \notin held
  /\ Cardinality(held) + Cardinality(past) < MaxLegs
  /\ held' = held \cup {LegOf(e, side, 0)}
  /\ UNCHANGED <<past, accountWorker, service>>

LegCloses(e, side) ==
  /\ LegOf(e, side, 0) \in held
  /\ held' = held \ {LegOf(e, side, 0)}
  /\ past' = past \cup {LegOf(e, side, Cardinality(past) + 1)}
  /\ UNCHANGED <<accountWorker, service>>

-----------------------------------------------------------------------------
\* The account worker.

EnsureRunning ==
  /\ account \in {"off", "ended"}
  /\ account' = "running" /\ feed' = [e \in Wired |-> "open"]
  /\ UNCHANGED <<positions, shown, service>>

\* stop(), or ensure_running for other exchanges: it stops the thread and starts
\* none, since the old one is still alive.
StopAccount ==
  /\ account = "running"
  /\ account' = "ending"
  /\ UNCHANGED <<positions, feed, shown, service>>

PositionsOf(e) == {l \in held : l.ex = e}

\* An exchange without a position stream is read once.
ConsumePositions(e) ==
  /\ account \in {"running", "ending"} /\ feed[e] = "open"
  /\ IF account = "ending" THEN feed' = [feed EXCEPT ![e] = "over"] /\ shown' = shown
     ELSE /\ shown' = [shown EXCEPT ![e] = PositionsOf(e)]
          /\ feed' = [feed EXCEPT ![e] = IF e \in ReadOnce THEN "over" ELSE "open"]
  /\ UNCHANGED <<positions, account, service>>

\* Before the first positions: the markets cannot be loaded, or no permission.
StreamFails(e) ==
  /\ "stream" \in BoardFaults /\ account = "running" /\ feed[e] = "open"
  /\ feed' = [feed EXCEPT ![e] = "over"]
  /\ UNCHANGED <<positions, account, shown, service>>

AccountEnds ==
  /\ account \in {"running", "ending"}
  /\ account = "ending" \/ \A e \in Wired : feed[e] = "over"
  /\ account' = "ended" /\ feed' = [e \in Wired |-> "over"]
  /\ UNCHANGED <<positions, shown, service>>

ReadPositions == UNION {shown[e] : e \in Wired}

-----------------------------------------------------------------------------
\* The orders service: the exchanges one by one; what one does not answer is
\* missing from the list that replaces the old one.

BeginsFetch ==
  /\ fetching = <<>> /\ closed # past
  /\ fetching' = Accounts
  /\ UNCHANGED <<positions, accountWorker, fetched, closed>>

FetchesClosed ==
  /\ fetching # <<>>
  /\ \E got \in {{l \in past : l.ex = Head(fetching)}}
             \cup (IF "fetch" \in BoardFaults THEN {{}} ELSE {}) :
       IF Len(fetching) = 1
       THEN closed' = fetched \cup got /\ fetched' = {}
       ELSE closed' = closed /\ fetched' = fetched \cup got
  /\ fetching' = Tail(fetching)
  /\ UNCHANGED <<positions, accountWorker>>

\* Where a leg stands in the lists: by exchange, then by age.
Place(e) == CHOOSE i \in DOMAIN Accounts : Accounts[i] = e
Rank(l) == Place(l.ex) * (MaxLegs + 1) + l.n
Foremost(legs) == CHOOSE l \in legs : \A k \in legs : Rank(l) <= Rank(k)
Hindmost(legs) == CHOOSE l \in legs : \A k \in legs : Rank(k) <= Rank(l)

OfSide(legs, side) == {l \in legs : l.side = side}
Elsewhere(legs, short) == {l \in OfSide(legs, "long") : l.ex # short.ex}

\* Mutant: a leg that has its pair is taken again.
AddPairAgain(legs, short, pairs) ==
  LET free == Elsewhere(legs, short)
  IN IF free = {} THEN pairs ELSE pairs \cup {{short, Foremost(free)}}

\* A short goes with the first long that is on another exchange and still alone.
AddPair(legs, short, pairs) ==
  LET free == Elsewhere(legs, short) \ UNION pairs
  IN IF free = {} THEN pairs ELSE pairs \cup {{short, Foremost(free)}}

\* The shorts one by one, the last one last.
Pairs(legs) ==
  MapThenFoldSet(LAMBDA short, pairs : AddPair(legs, short, pairs), {},
                 LAMBDA l : l, Hindmost, OfSide(legs, "short"))

Singles(legs, pairs) == {{l} : l \in legs \ UNION pairs}

Rows(legs) == Pairs(legs) \cup Singles(legs, Pairs(legs))

-----------------------------------------------------------------------------
\* The rows of a snapshot.

Snapshot == Rows(ReadPositions) \cup Rows(closed)

BoardNext ==
  \/ \E e \in Wired, side \in LegSides : LegOpens(e, side) \/ LegCloses(e, side)
  \/ EnsureRunning \/ StopAccount \/ AccountEnds
  \/ \E e \in Wired : ConsumePositions(e) \/ StreamFails(e)
  \/ BeginsFetch \/ FetchesClosed

BoardSpec == BoardInit /\ [][BoardNext]_boardVars

-----------------------------------------------------------------------------
\* Properties.

\* Every open leg the streams have shown and every closed one that was fetched
\* is in exactly one row, so the totals count it once, however many shorts and
\* longs there are on however many exchanges; and a row of two is a hedge.
LegsInOneRow ==
  LET all == Snapshot IN
  /\ \A l \in ReadPositions \cup closed : Cardinality({r \in all : l \in r}) = 1
  /\ \A r \in all : Cardinality(r) = 2 => \A k, l \in r : k # l => k.side # l.side /\ k.ex # l.ex
=============================================================================
