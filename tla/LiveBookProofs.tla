---------------------------- MODULE LiveBookProofs ----------------------------
(***************************************************************************)
(* The book of the live auto trader against the exchanges, for any symbols,*)
(* exchanges, limits and faults: what the trader tracks is what is held,   *)
(* and what is held stays within the accumulation limit, across its        *)
(* passes, exceptions and restarts.                                        *)
(***************************************************************************)
EXTENDS LiveAutoTraderProofs

Bound == 1 + 2 * MaxLayers

\* The symbol s is held as the hedge k, of u units.
Holds(s, k, u) ==
  \A e \in Exchanges : pos[s][e] = IF e = Short(k) THEN -u ELSE IF e = Long(k) THEN u ELSE 0

Tracked(s) == \E k \in openPairs \ closed : Symbol(k) = s /\ IsHedged(k)
Untracked(s) == IsFlat(s) /\ \A k \in openPairs : Symbol(k) = s => k \in closed
Bounded(s) == \A e \in Exchanges : pos[s][e] \in -Bound .. Bound

\* What the trader may leave behind when its memory is lost, and find again.
Left(s) == IsFlat(s) \/ \E k \in Keys, u \in 1 .. Bound : Symbol(k) = s /\ Holds(s, k, u)

\* The inductive invariant, symbol by symbol.
Truth(s) ==
  /\ Bounded(s)
  /\ pc = "down" => Left(s)
  /\ pc # "down" => Tracked(s) \/ Untracked(s)

Truths == \A s \in Symbols \ blamed : Truth(s)

LEMMA BoundType == MaxLayers \in Nat /\ Bound \in Nat /\ Bound >= 1
BY LimitsAssumption DEF Bound

LEMMA PosType ==
  ASSUME TypeOK, NEW s \in Symbols, NEW e \in Exchanges
  PROVE  pos[s][e] \in Int
<1>1. MaxUnits \in Nat /\ pos[s][e] \in -MaxUnits .. MaxUnits
  BY LimitsAssumption DEF TypeOK
<1>2. QED
  BY <1>1

LEMMA KeyShape ==
  ASSUME NEW k \in Keys
  PROVE  Short(k) # Long(k)
BY DEF Keys, Short, Long

\* A hedge in the book is one the restart would find.
LEMMA HedgedIsLeft ==
  ASSUME TypeOK, NEW k \in Keys, IsHedged(k), Bounded(Symbol(k))
  PROVE  \E u \in 1 .. Bound : Holds(Symbol(k), k, u)
<1>1. layers[k] \in Nat
  BY DEF TypeOK
<1>2. PICK u \in 1 .. 1 + 2 * layers[k] : Holds(Symbol(k), k, u)
  BY DEF IsHedged, Holds
<1>3. Symbol(k) \in Symbols /\ Short(k) \in Exchanges
  BY KeyParts
<1>4. pos[Symbol(k)][Short(k)] = -u /\ pos[Symbol(k)][Short(k)] \in -Bound .. Bound
  BY <1>2, <1>3 DEF Holds, Bounded
<1>5. u \in 1 .. Bound
  BY <1>1, <1>2, <1>4, BoundType
<1>6. QED
  BY <1>2, <1>5

-----------------------------------------------------------------------------
\* Steps that do not concern s.

LEMMA Apart ==
  ASSUME TypeOK, TypeOK', NEW s \in Symbols, Truth(s), pc # "down", pc' # "down",
         pos'[s] = pos[s],
         \A k \in Keys : Symbol(k) = s =>
           /\ k \in openPairs' <=> k \in openPairs
           /\ k \in closed' <=> k \in closed
           /\ layers'[k] = layers[k]
  PROVE  Truth(s)'
<1>1. openPairs \subseteq Keys /\ openPairs' \subseteq Keys
  BY DEF TypeOK
<1>2. Bounded(s)'
  BY DEF Truth, Bounded
<1>3. ASSUME Tracked(s) PROVE Tracked(s)'
  <2>1. PICK k \in openPairs \ closed : Symbol(k) = s /\ IsHedged(k)
    BY <1>3 DEF Tracked
  <2>2. k \in openPairs' \ closed' /\ layers'[k] = layers[k]
    BY <1>1, <2>1
  <2>3. IsHedged(k)'
    BY <2>1, <2>2 DEF IsHedged
  <2>4. QED
    BY <2>1, <2>2, <2>3 DEF Tracked
<1>4. ASSUME Untracked(s) PROVE Untracked(s)'
  BY <1>1, <1>4 DEF Untracked, IsFlat
<1>5. QED
  BY <1>2, <1>3, <1>4 DEF Truth

-----------------------------------------------------------------------------
\* What a call does to the symbol it is made for, when it is not to blame.

LEMMA CallLeaves ==
  ASSUME TypeOK, NEW kind, NEW k \in Keys, NEW n, NEW answer, Calls(kind, k, n, answer)
  PROVE  /\ \A s \in Symbols : s # Symbol(k) => pos'[s] = pos[s]
         /\ \A e \in Exchanges : pos'[Symbol(k)][e] =
              IF e = Short(k) THEN answer.short
              ELSE IF e = Long(k) THEN answer.long ELSE pos[Symbol(k)][e]
         /\ pos'[Symbol(k)] \in [Exchanges -> -MaxUnits .. MaxUnits]
<1>1. /\ Symbol(k) \in Symbols /\ Short(k) \in Exchanges /\ Long(k) \in Exchanges
      /\ Short(k) # Long(k)
  BY KeyParts, KeyShape
<1>2. pos' = [pos EXCEPT ![Symbol(k)][Short(k)] = answer.short,
                         ![Symbol(k)][Long(k)] = answer.long]
  BY DEF Calls, Leaves
<1>3. pos \in [Symbols -> [Exchanges -> -MaxUnits .. MaxUnits]]
  BY DEF TypeOK
<1>4. answer.short \in -MaxUnits .. MaxUnits /\ answer.long \in -MaxUnits .. MaxUnits
  BY DEF Calls, Lent
<1>5. QED
  BY <1>1, <1>2, <1>3, <1>4

LEMMA CallBlames ==
  ASSUME NEW kind, NEW k \in Keys, NEW n, NEW answer, Calls(kind, k, n, answer)
  PROVE  /\ blamed \subseteq blamed'
         /\ answer.status = "raised" => Forgettable \subseteq blamed'
BY DEF Calls

\* A close that is not to blame, and a call that enters and is not.
LEMMA CloseEffect ==
  ASSUME TypeOK, NEW kind, NEW k \in Keys, NEW answer, Calls(kind, k, 0, answer),
         Symbol(k) \notin blamed'
  PROVE  /\ answer.status = "success"
         /\ \A e \in Exchanges : pos'[Symbol(k)][e] =
              IF e \in {Short(k), Long(k)} THEN 0 ELSE pos[Symbol(k)][e]
<1>1. answer = Answer("success", 0, 0)
  BY DEF Calls
<1>2. answer.status = "success" /\ answer.short = 0 /\ answer.long = 0
  BY <1>1 DEF Answer
<1>3. \A e \in Exchanges : pos'[Symbol(k)][e] =
        IF e = Short(k) THEN answer.short
        ELSE IF e = Long(k) THEN answer.long ELSE pos[Symbol(k)][e]
  BY CallLeaves
<1>4. QED
  BY <1>2, <1>3

EnteredWhole(k, n, answer) ==
  /\ answer.status = "success"
  /\ \A e \in Exchanges : pos'[Symbol(k)][e] =
       IF e = Short(k) THEN pos[Symbol(k)][e] - n
       ELSE IF e = Long(k) THEN pos[Symbol(k)][e] + n ELSE pos[Symbol(k)][e]

EnteredNot(k, answer) ==
  /\ answer.status \in {"failed", "rolled_back", "raised"}
  /\ pos'[Symbol(k)] = pos[Symbol(k)]

LEMMA EnterEffect ==
  ASSUME TypeOK, NEW kind, NEW k \in Keys, NEW n \in {1, 2}, NEW answer,
         Calls(kind, k, n, answer), Symbol(k) \notin blamed'
  PROVE  EnteredWhole(k, n, answer) \/ EnteredNot(k, answer)
<1> DEFINE h == HedgeOf(k)
           asked == Answer("success", h.short - n, h.long + n)
           refused == answer.status \in {"failed", "rolled_back", "raised"}
                      /\ answer.short = h.short /\ answer.long = h.long
<1>1. h.short = pos[Symbol(k)][Short(k)] /\ h.long = pos[Symbol(k)][Long(k)]
  BY DEF HedgeOf, Hedge
<1>2. answer = asked \/ refused
  BY DEF Calls
<1>3. \A e \in Exchanges : pos'[Symbol(k)][e] =
        IF e = Short(k) THEN answer.short
        ELSE IF e = Long(k) THEN answer.long ELSE pos[Symbol(k)][e]
  BY CallLeaves
<1>4. CASE answer = asked
  <2>1. answer.status = "success" /\ answer.short = h.short - n /\ answer.long = h.long + n
    BY <1>4 DEF Answer
  <2> HIDE DEF h
  <2>2. QED
    BY <1>1, <1>3, <2>1 DEF EnteredWhole
<1>5. CASE refused
  <2>1. \A e \in Exchanges : pos'[Symbol(k)][e] = pos[Symbol(k)][e]
    BY <1>1, <1>3, <1>5
  <2>2. /\ pos[Symbol(k)] \in [Exchanges -> -MaxUnits .. MaxUnits]
        /\ pos'[Symbol(k)] \in [Exchanges -> -MaxUnits .. MaxUnits]
    BY CallLeaves, KeyParts DEF TypeOK
  <2>3. pos'[Symbol(k)] = pos[Symbol(k)]
    BY <2>1, <2>2
  <2>4. QED
    BY <1>5, <2>3 DEF EnteredNot
<1>6. QED
  BY <1>2, <1>4, <1>5

\* A pair in the book whose close was not sent is held as it should be, and
\* no exchange but its own two holds anything of its symbol.
LEMMA TrackedPair ==
  ASSUME Book, pc # "down", NEW k \in openPairs, Truth(Symbol(k))
  PROVE  /\ k \notin closed => IsHedged(k)
         /\ \A e \in Exchanges : e \notin {Short(k), Long(k)} => pos[Symbol(k)][e] = 0
<1>1. \A j \in openPairs : Symbol(j) = Symbol(k) => j = k
  BY DEF Book, OnePairPerSymbol
<1>2. Tracked(Symbol(k)) \/ Untracked(Symbol(k))
  BY DEF Truth
<1>3. CASE Tracked(Symbol(k))
  <2>1. IsHedged(k)
    BY <1>1, <1>3 DEF Tracked
  <2>2. QED
    BY <2>1 DEF IsHedged
<1>4. CASE Untracked(Symbol(k))
  BY <1>4 DEF Untracked, IsFlat
<1>5. QED
  BY <1>2, <1>3, <1>4

\* After a close that is not to blame nothing of the pair's symbol is left.
LEMMA ClosedIsFlat ==
  ASSUME TypeOK, Book, pc # "down", NEW k \in openPairs, Truth(Symbol(k)), NEW kind, NEW answer,
         Calls(kind, k, 0, answer), Symbol(k) \notin blamed'
  PROVE  IsFlat(Symbol(k))' /\ Bounded(Symbol(k))' /\ answer.status = "success"
<1>1. k \in Keys
  BY DEF TypeOK
<1>2. /\ answer.status = "success"
      /\ \A e \in Exchanges : pos'[Symbol(k)][e] =
           IF e \in {Short(k), Long(k)} THEN 0 ELSE pos[Symbol(k)][e]
  BY <1>1, CloseEffect
<1>3. \A e \in Exchanges : e \notin {Short(k), Long(k)} => pos[Symbol(k)][e] = 0
  BY TrackedPair
<1>4. \A e \in Exchanges : pos'[Symbol(k)][e] = 0
  BY <1>2, <1>3
<1>5. QED
  BY <1>2, <1>4, BoundType DEF IsFlat, Bounded

LEMMA CloseTruth ==
  ASSUME TypeOK, TypeOK', Book, CloseStep, NEW s \in Symbols \ blamed', Truth(s)
  PROVE  Truth(s)'
<1>1. PICK k \in todo : CheckSkipped(k) \/ CheckApart(k) \/ CheckConverged(k) \/ Close(k)
  BY DEF CloseStep
<1>2. /\ pc = "closing" /\ pc' = "closing" /\ k \in openPairs /\ k \in Keys
      /\ UNCHANGED <<openPairs, layers>>
  BY DEF CloseStep, Book, PassesAgree, TypeOK
<1>3. CASE CheckSkipped(k) \/ CheckApart(k) \/ CheckConverged(k)
  <2>1. UNCHANGED <<pos, closed>>
    BY <1>3 DEF CheckSkipped, CheckApart, CheckConverged
  <2>2. QED
    BY <1>2, <2>1, Apart
<1>4. CASE Close(k)
  <2>1. PICK answer : Calls("close", k, 0, answer)
    BY <1>4 DEF Close
  <2>2. closed' = closed \cup {k}
    BY <1>4 DEF Close
  <2>3. CASE s = Symbol(k)
    <3>1. IsFlat(s)' /\ Bounded(s)'
      BY <1>2, <2>1, <2>3, ClosedIsFlat
    <3>2. \A j \in openPairs' : Symbol(j) = s => j \in closed'
      BY <1>2, <2>2, <2>3 DEF Book, OnePairPerSymbol
    <3>3. QED
      BY <1>2, <3>1, <3>2 DEF Truth, Untracked
  <2>4. CASE s # Symbol(k)
    <3>1. pos'[s] = pos[s]
      BY <1>2, <2>1, <2>4, CallLeaves
    <3>2. \A j \in Keys : Symbol(j) = s => (j \in closed' <=> j \in closed)
      BY <2>2, <2>4
    <3>3. QED
      BY <1>2, <3>1, <3>2, Apart
  <2>5. QED
    BY <2>3, <2>4
<1>5. QED
  BY <1>1, <1>3, <1>4

LEMMA EndClosingTruth ==
  ASSUME TypeOK, TypeOK', EndClosing, NEW s \in Symbols \ blamed', Truth(s)
  PROVE  Truth(s)'
<1>1. /\ pc = "closing" /\ pc' = "dca" /\ pos' = pos
      /\ openPairs' = openPairs \ closed /\ closed' = {}
      /\ layers' = [k \in Keys |-> IF k \in closed THEN 0 ELSE layers[k]]
  BY DEF EndClosing, Forget, world
<1>2. CASE Tracked(s)
  <2>1. PICK k \in openPairs \ closed : Symbol(k) = s /\ IsHedged(k)
    BY <1>2 DEF Tracked
  <2>2. k \in Keys /\ k \in openPairs' \ closed' /\ layers'[k] = layers[k]
    BY <1>1, <2>1 DEF TypeOK
  <2>3. IsHedged(k)'
    BY <1>1, <2>1, <2>2 DEF IsHedged
  <2>4. Tracked(s)'
    BY <2>1, <2>2, <2>3 DEF Tracked
  <2>5. QED
    BY <1>1, <2>4 DEF Truth, Bounded
<1>3. CASE Untracked(s)
  <2>1. Untracked(s)'
    BY <1>1, <1>3 DEF Untracked, IsFlat
  <2>2. QED
    BY <1>1, <2>1 DEF Truth, Bounded
<1>4. QED
  BY <1>1, <1>2, <1>3 DEF Truth

LEMMA DcaTruth ==
  ASSUME TypeOK, TypeOK', Book, DcaStep, NEW s \in Symbols \ blamed', Truth(s)
  PROVE  Truth(s)'
<1>1. PICK k \in todo : DcaSkipped \/ Accumulate(k)
  BY DEF DcaStep
<1>2. /\ pc = "dca" /\ pc' = "dca" /\ k \in openPairs /\ k \in Keys /\ closed = {}
      /\ UNCHANGED <<openPairs, closed>>
  BY DEF DcaStep, Book, PassesAgree, TypeOK
<1>3. CASE DcaSkipped
  BY <1>2, <1>3, Apart DEF DcaSkipped
<1>4. CASE Accumulate(k)
  <2>1. PICK answer :
          /\ Calls("dca", k, 2, answer)
          /\ layers' = IF answer.status \in {"success", "partial"}
                       THEN [layers EXCEPT ![k] = @ + 1] ELSE layers
    BY <1>4 DEF Accumulate
  <2>2. layers \in [Keys -> Nat] /\ layers[k] \in Nat /\ layers[k] < MaxLayers
    BY <1>2, <1>4 DEF Accumulate, MayAccumulate, TypeOK
  <2>3. CASE s # Symbol(k)
    <3>1. pos'[s] = pos[s]
      BY <1>2, <2>1, <2>3, CallLeaves
    <3>2. \A j \in Keys : Symbol(j) = s => layers'[j] = layers[j]
      BY <1>2, <2>1, <2>2, <2>3
    <3>3. QED
      BY <1>2, <3>1, <3>2, Apart
  <2>4. CASE s = Symbol(k) /\ answer.status # "success"
    <3>1. EnteredNot(k, answer)
      BY <1>2, <2>1, <2>4, EnterEffect DEF EnteredWhole
    <3>2. layers' = layers /\ pos'[s] = pos[s]
      BY <2>1, <2>4, <3>1 DEF EnteredNot
    <3>3. QED
      BY <1>2, <3>2, Apart
  <2>5. CASE s = Symbol(k) /\ answer.status = "success"
    <3>1. \A e \in Exchanges : pos'[s][e] =
            IF e = Short(k) THEN pos[s][e] - 2
            ELSE IF e = Long(k) THEN pos[s][e] + 2 ELSE pos[s][e]
      <4>1. EnteredWhole(k, 2, answer)
        BY <1>2, <2>1, <2>5, EnterEffect DEF EnteredNot
      <4>2. QED
        BY <2>5, <4>1 DEF EnteredWhole
    <3>2. IsHedged(k)
      BY <1>2, <2>5, TrackedPair
    <3>3. PICK u \in 1 .. 1 + 2 * layers[k] : Holds(s, k, u)
      BY <2>5, <3>2 DEF IsHedged, Holds
    <3>4. Short(k) \in Exchanges /\ Long(k) \in Exchanges /\ Short(k) # Long(k)
      BY <1>2, KeyParts, KeyShape
    <3>5. u \in Int
      BY <2>2, <3>3
    <3>6. \A e \in Exchanges : pos'[s][e] =
            IF e = Short(k) THEN -(u + 2) ELSE IF e = Long(k) THEN u + 2 ELSE 0
      BY <3>1, <3>3, <3>4, <3>5 DEF Holds
    <3>7. layers'[k] = layers[k] + 1 /\ u + 2 \in 1 .. 1 + 2 * layers'[k]
      BY <1>2, <2>1, <2>2, <2>5, <3>3
    <3>8. IsHedged(k)'
      BY <2>5, <3>6, <3>7 DEF IsHedged
    <3>9. Bounded(s)'
      <4>1. u + 2 \in 1 .. Bound
        BY <2>2, <3>3, BoundType DEF Bound
      <4>2. QED
        BY <3>6, <4>1, BoundType DEF Bounded
    <3>10. QED
      BY <1>2, <2>5, <3>8, <3>9 DEF Truth, Tracked
  <2>6. QED
    BY <2>3, <2>4, <2>5
<1>5. QED
  BY <1>1, <1>3, <1>4

LEMMA OpenTruth ==
  ASSUME TypeOK, TypeOK', Book, OpenStep, NEW s \in Symbols \ blamed', Truth(s)
  PROVE  Truth(s)'
<1>1. PICK k \in candidates : OpenSkipped \/ Opened(k) \/ NotOpened(k)
  BY DEF OpenStep
<1>2. pc = "opening" /\ k \in Keys /\ closed = {} /\ closed' = {}
  BY DEF OpenStep, Book, PassesAgree, TypeOK
<1>3. CASE OpenSkipped
  BY <1>2, <1>3, Apart DEF OpenSkipped
<1>4. CASE NotOpened(k)
  <2>1. PICK answer : answer.status \in {"failed", "rolled_back"} /\ Calls("open", k, 1, answer)
    BY <1>4 DEF NotOpened
  <2>2. pc' = "opening" /\ UNCHANGED <<openPairs, layers>>
    BY <1>2, <1>4 DEF NotOpened
  <2>3. pos'[s] = pos[s]
    <3>1. CASE s = Symbol(k)
      <4>1. EnteredNot(k, answer)
        BY <1>2, <2>1, <3>1, EnterEffect DEF EnteredWhole
      <4>2. QED
        BY <3>1, <4>1 DEF EnteredNot
    <3>2. CASE s # Symbol(k)
      BY <1>2, <2>1, <3>2, CallLeaves
    <3>3. QED
      BY <3>1, <3>2
  <2>4. QED
    BY <1>2, <2>2, <2>3, Apart
<1>5. CASE Opened(k)
  <2>1. PICK answer : answer.status \in {"success", "partial"} /\ Calls("open", k, 1, answer)
    BY <1>5 DEF Opened
  <2>2. /\ openPairs' = openPairs \cup {k} /\ layers' = [layers EXCEPT ![k] = 0]
        /\ layers \in [Keys -> Nat] /\ pc' = "guarding" /\ MayOpen(k)
    BY <1>5 DEF Opened, Tracks, TypeOK
  <2>3. CASE s # Symbol(k)
    <3>1. pos'[s] = pos[s]
      BY <1>2, <2>1, <2>3, CallLeaves
    <3>2. \A j \in Keys : Symbol(j) = s =>
            layers'[j] = layers[j] /\ (j \in openPairs' <=> j \in openPairs)
      BY <1>2, <2>2, <2>3
    <3>3. QED
      BY <1>2, <2>2, <3>1, <3>2, Apart
  <2>4. CASE s = Symbol(k)
    <3>1. \A j \in openPairs : Symbol(j) # s
      BY <1>2, <2>2, <2>4, OpenFresh
    <3>2. IsFlat(s)
      BY <1>2, <3>1 DEF Truth, Tracked, Untracked
    <3>3. Short(k) \in Exchanges /\ Long(k) \in Exchanges /\ Short(k) # Long(k)
      BY <1>2, KeyParts, KeyShape
    <3>4. \A e \in Exchanges : pos'[s][e] =
            IF e = Short(k) THEN pos[s][e] - 1
            ELSE IF e = Long(k) THEN pos[s][e] + 1 ELSE pos[s][e]
      <4>1. EnteredWhole(k, 1, answer)
        BY <1>2, <2>1, <2>4, EnterEffect DEF EnteredNot
      <4>2. QED
        BY <2>4, <4>1 DEF EnteredWhole
    <3>5. \A e \in Exchanges : pos'[s][e] =
            IF e = Short(k) THEN -1 ELSE IF e = Long(k) THEN 1 ELSE 0
      BY <3>2, <3>4 DEF IsFlat
    <3>6. layers'[k] = 0 /\ 1 \in 1 .. 1 + 2 * layers'[k]
      BY <1>2, <2>2
    <3>7. IsHedged(k)'
      BY <2>4, <3>5, <3>6 DEF IsHedged
    <3>8. Bounded(s)'
      BY <3>5, BoundType DEF Bounded
    <3>9. QED
      BY <1>2, <2>2, <2>4, <3>7, <3>8 DEF Truth, Tracked
  <2>5. QED
    BY <2>3, <2>4
<1>6. QED
  BY <1>1, <1>3, <1>4, <1>5

LEMMA GuardTruth ==
  ASSUME TypeOK, TypeOK', Book, GuardCloses, NEW s \in Symbols \ blamed', Truth(s)
  PROVE  Truth(s)'
<1>1. PICK answer : Calls("guard", filled, 0, answer)
  BY DEF GuardCloses
<1>2. /\ pc = "guarding" /\ pc' = "opening" /\ filled \in openPairs /\ filled \in Keys
      /\ closed = {} /\ closed' = {} /\ openPairs' = openPairs \ {filled}
      /\ layers' = [k \in Keys |-> IF k \in {filled} THEN 0 ELSE layers[k]]
  BY DEF GuardCloses, LowSpread, Forget, Book, Bookkeeping, PassesAgree, TypeOK
<1>3. CASE s = Symbol(filled)
  <2>1. IsFlat(s)' /\ Bounded(s)'
    BY <1>1, <1>2, <1>3, ClosedIsFlat
  <2>2. \A j \in openPairs' : Symbol(j) # s
    BY <1>2, <1>3 DEF Book, OnePairPerSymbol
  <2>3. QED
    BY <1>2, <2>1, <2>2 DEF Truth, Untracked
<1>4. CASE s # Symbol(filled)
  <2>1. pos'[s] = pos[s]
    BY <1>1, <1>2, <1>4, CallLeaves
  <2>2. \A j \in Keys : Symbol(j) = s =>
          layers'[j] = layers[j] /\ (j \in openPairs' <=> j \in openPairs)
    BY <1>2, <1>4
  <2>3. QED
    BY <1>2, <2>1, <2>2, Apart
<1>5. QED
  BY <1>3, <1>4

-----------------------------------------------------------------------------
\* Steps that call nobody, exceptions, restarts.

LEMMA QuietTruth ==
  ASSUME TypeOK, TypeOK', Book, NEW s \in Symbols, Truth(s),
         \/ MarketMoves \/ GoesLive \/ IdleTick \/ StartTick \/ EndDca
         \/ GuardPasses \/ EndTick
  PROVE  Truth(s)'
<1>1. UNCHANGED <<pos, openPairs, layers>>
  BY DEF MarketMoves, GoesLive, IdleTick, StartTick, EndDca, GuardPasses, EndTick, world, memory
<1>2. closed' = closed
  BY DEF MarketMoves, GoesLive, IdleTick, StartTick, EndDca, GuardPasses, EndTick, control,
     TickOver, Book, PassesAgree
<1>3. CASE pc' = pc
  BY <1>1, <1>2, <1>3 DEF Truth, Bounded, Left, IsFlat, Holds, Tracked, Untracked, IsHedged
<1>4. CASE pc' # pc
  <2>1. pc # "down" /\ pc' # "down"
    BY <1>4 DEF MarketMoves, GoesLive, IdleTick, StartTick, EndDca, GuardPasses, EndTick,
       control, TickOver
  <2>2. QED
    BY <1>1, <1>2, <2>1, Apart
<1>5. QED
  BY <1>3, <1>4

\* An exception blames the symbols whose close was sent and not yet forgotten.
LEMMA RaisesTruth ==
  ASSUME TypeOK, TypeOK', Book, Raises, NEW s \in Symbols \ blamed', Truth(s)
  PROVE  Truth(s)'
<1>1. /\ pc # "down" /\ pc' # "down" /\ closed' = {}
      /\ UNCHANGED <<openPairs, layers>>
  BY DEF Raises, CloseRaises, DcaRaises, OpenRaises, GuardRaises, TickRaises, LowSpread,
     TickOver, memory
<1>2. pos'[s] = pos[s] /\ (s \notin Forgettable \/ closed = {})
  <2>1. ASSUME NEW kind, NEW k \in Keys, NEW answer, NEW n \in {0, 1, 2},
               Calls(kind, k, n, answer), answer.status = "raised"
        PROVE  pos'[s] = pos[s] /\ s \notin Forgettable
    <3>1. s \notin Forgettable
      BY <2>1, CallBlames
    <3>2. CASE s # Symbol(k)
      BY <2>1, <3>1, <3>2, CallLeaves
    <3>3. CASE s = Symbol(k) /\ n = 0
      <4>1. answer.status = "success"
        BY <2>1, <3>3, CloseEffect
      <4>2. QED
        BY <2>1, <4>1
    <3>4. CASE s = Symbol(k) /\ n \in {1, 2}
      <4>1. EnteredNot(k, answer)
        BY <2>1, <3>4, EnterEffect DEF EnteredWhole
      <4>2. QED
        BY <3>1, <3>4, <4>1 DEF EnteredNot
    <3>5. QED
      BY <2>1, <3>2, <3>3, <3>4
  <2>2. CASE CloseRaises
    <3>1. PICK k \in todo : \E answer : answer.status = "raised" /\ Calls("close", k, 0, answer)
      BY <2>2 DEF CloseRaises
    <3>2. k \in Keys
      BY DEF TypeOK
    <3>3. QED
      BY <2>1, <3>1, <3>2
  <2>3. CASE DcaRaises
    <3>1. PICK k \in todo : \E answer : answer.status = "raised" /\ Calls("dca", k, 2, answer)
      BY <2>3 DEF DcaRaises
    <3>2. k \in Keys
      BY DEF TypeOK
    <3>3. QED
      BY <2>1, <3>1, <3>2
  <2>4. CASE OpenRaises
    <3>1. PICK k \in candidates :
            \E answer : answer.status = "raised" /\ Calls("open", k, 1, answer)
      BY <2>4 DEF OpenRaises
    <3>2. k \in Keys
      BY DEF TypeOK
    <3>3. QED
      BY <2>1, <3>1, <3>2
  <2>5. CASE GuardRaises
    <3>1. PICK answer : answer.status = "raised" /\ Calls("guard", filled, 0, answer)
      BY <2>5 DEF GuardRaises
    <3>2. filled \in Keys
      BY <2>5 DEF GuardRaises, LowSpread, Book, Bookkeeping, TypeOK
    <3>3. QED
      BY <2>1, <3>1, <3>2
  <2>6. CASE TickRaises
    BY <2>6 DEF TickRaises, world
  <2>7. QED
    BY <2>2, <2>3, <2>4, <2>5, <2>6 DEF Raises
<1>3. \A k \in Keys : Symbol(k) = s => k \notin closed
  BY <1>2 DEF Forgettable
<1>4. QED
  BY <1>1, <1>2, <1>3, Apart

LEMMA CrashTruth ==
  ASSUME TypeOK, Crash, NEW s \in Symbols, Truth(s)
  PROVE  Truth(s)'
<1>1. pc # "down" /\ pc' = "down" /\ pos' = pos
  BY DEF Crash, world
<1>2. Left(s)
  <2>1. CASE Tracked(s)
    <3>1. PICK k \in openPairs : Symbol(k) = s /\ IsHedged(k)
      BY <2>1 DEF Tracked
    <3>2. k \in Keys /\ Bounded(Symbol(k))
      BY <3>1 DEF TypeOK, Truth
    <3>3. QED
      BY <3>1, <3>2, HedgedIsLeft DEF Left
  <2>2. CASE Untracked(s)
    BY <2>2 DEF Untracked, Left
  <2>3. QED
    BY <1>1, <2>1, <2>2 DEF Truth
<1>3. QED
  BY <1>1, <1>2 DEF Truth, Bounded, Left, IsFlat, Holds

\* What a restart makes of the exchanges that answered.
RestoreFinds(seen, pairs, priced) ==
  /\ pairs \subseteq Restorable(seen) /\ priced \subseteq pairs
  /\ \A k \in Restorable(seen) : \E j \in pairs : Symbol(j) = Symbol(k)
  /\ openPairs' = pairs
  /\ layers' = [k \in Keys |-> IF k \in priced THEN RestoredLayers(k) ELSE 0]
  /\ \A k \in pairs \ priced : Symbol(k) \in blamed'
  /\ \A s \in Symbols, e \in Exchanges \ seen : pos[s][e] # 0 => s \in blamed'

LEMMA RestoreFound ==
  ASSUME Restore
  PROVE  \E seen, pairs, priced : RestoreFinds(seen, pairs, priced)
<1>1. PICK seen \in {Exchanges} \cup When("blind", SUBSET Exchanges) :
        \E pairs \in SUBSET Restorable(seen) :
         \E priced \in {pairs} \cup When("blind", SUBSET pairs) :
            /\ \A j, k \in pairs : Symbol(j) = Symbol(k) => j = k
            /\ {Symbol(k) : k \in Restorable(seen)} = {Symbol(k) : k \in pairs}
            /\ openPairs' = pairs
            /\ spreads' = priced
            /\ layers' = [k \in Keys |-> IF k \in priced THEN RestoredLayers(k) ELSE 0]
            /\ blamed' = blamed \cup {Symbol(k) : k \in pairs \ priced}
                               \cup {s \in Symbols : \E e \in Exchanges \ seen : pos[s][e] # 0}
  BY Zenon DEF Restore
<1>2. PICK pairs \in SUBSET Restorable(seen) :
         \E priced \in {pairs} \cup When("blind", SUBSET pairs) :
            /\ {Symbol(k) : k \in Restorable(seen)} = {Symbol(k) : k \in pairs}
            /\ openPairs' = pairs
            /\ layers' = [k \in Keys |-> IF k \in priced THEN RestoredLayers(k) ELSE 0]
            /\ blamed' = blamed \cup {Symbol(k) : k \in pairs \ priced}
                               \cup {s \in Symbols : \E e \in Exchanges \ seen : pos[s][e] # 0}
  BY <1>1, Zenon
<1>3. PICK priced \in {pairs} \cup When("blind", SUBSET pairs) :
            /\ {Symbol(k) : k \in Restorable(seen)} = {Symbol(k) : k \in pairs}
            /\ openPairs' = pairs
            /\ layers' = [k \in Keys |-> IF k \in priced THEN RestoredLayers(k) ELSE 0]
            /\ blamed' = blamed \cup {Symbol(k) : k \in pairs \ priced}
                               \cup {s \in Symbols : \E e \in Exchanges \ seen : pos[s][e] # 0}
  BY <1>2
<1>4. priced \subseteq pairs
  BY WhenIsPart
<1>5. RestoreFinds(seen, pairs, priced)
  BY <1>3, <1>4 DEF RestoreFinds
<1>6. QED
  BY <1>5

\* The restart finds the hedge that was left, and its layers account for it.
LEMMA RestoreTruth ==
  ASSUME TypeOK, TypeOK', Book, Restore, NEW s \in Symbols \ blamed', Truth(s)
  PROVE  Truth(s)'
<1>0. PICK seen, pairs, priced : RestoreFinds(seen, pairs, priced)
  BY RestoreFound
<1>1. pairs \subseteq Restorable(seen) /\ priced \subseteq pairs
  BY <1>0 DEF RestoreFinds
<1>2. pc = "down" /\ pc' = "asleep" /\ pos' = pos /\ closed' = closed /\ closed = {}
  BY DEF Restore, world, Book, PassesAgree
<1>3. /\ \A k \in pairs : Symbol(k) = s => k \in priced
      /\ \A e \in Exchanges : pos[s][e] # 0 => e \in seen
  BY <1>0, <1>1 DEF RestoreFinds
<1>4. Bounded(s)'
  BY <1>2 DEF Truth, Bounded
<1>5. CASE IsFlat(s)
  <2>1. \A k \in Restorable(seen) : Symbol(k) # s
    <3>1. SUFFICES ASSUME NEW k \in Restorable(seen), Symbol(k) = s PROVE FALSE
      OBVIOUS
    <3>2. k \in Keys /\ pos[s][Short(k)] < 0
      BY <3>1 DEF Restorable, Shorts
    <3>3. pos[s][Short(k)] = 0
      BY <1>5, <3>2, KeyParts DEF IsFlat
    <3>4. QED
      BY <3>2, <3>3
  <2>2. Untracked(s)'
    BY <1>0, <1>1, <1>2, <1>5, <2>1 DEF RestoreFinds, Untracked, IsFlat
  <2>3. QED
    BY <1>2, <1>4, <2>2 DEF Truth
<1>6. ASSUME NEW k \in Keys, NEW u \in 1 .. Bound, Symbol(k) = s, Holds(s, k, u)
      PROVE  Truth(s)'
  <2>1. u \in Nat /\ u >= 1
    BY BoundType
  <2>2. /\ Short(k) \in Exchanges /\ Long(k) \in Exchanges /\ Short(k) # Long(k)
        /\ pos[s][Short(k)] = -u /\ pos[s][Long(k)] = u
    BY <1>6, KeyParts, KeyShape DEF Holds
  <2>3. k \in Restorable(seen)
    <3>1. Short(k) \in seen /\ Long(k) \in seen
      BY <1>3, <2>1, <2>2
    <3>2. QED
      BY <1>6, <2>1, <2>2, <3>1 DEF Restorable, Shorts, Longs
  <2>4. PICK j \in pairs : Symbol(j) = s
    BY <1>0, <1>6, <2>3 DEF RestoreFinds
  <2>5. j \in Keys /\ pos[s][Short(j)] < 0 /\ pos[s][Long(j)] > 0
    BY <1>1, <2>4 DEF Restorable, Shorts, Longs
  <2>6. Short(j) = Short(k) /\ Long(j) = Long(k)
    <3>1. Short(j) \in Exchanges /\ Long(j) \in Exchanges
      BY <2>5, KeyParts
    <3>2. QED
      BY <1>6, <2>1, <2>5, <3>1 DEF Holds
  <2>7. layers'[j] = IF u > 1 THEN u - 1 ELSE 0
    <3>1. j \in priced /\ -pos[Symbol(j)][Short(j)] = u
      BY <1>3, <2>1, <2>2, <2>4, <2>6
    <3>2. layers'[j] = RestoredLayers(j)
      BY <1>0, <2>5, <3>1 DEF RestoreFinds
    <3>3. QED
      BY <3>1, <3>2 DEF RestoredLayers
  <2>8. u \in 1 .. 1 + 2 * layers'[j]
    BY <2>1, <2>7
  <2>9. IsHedged(j)'
    BY <1>2, <1>6, <2>4, <2>6, <2>8 DEF IsHedged, Holds
  <2>10. Tracked(s)'
    BY <1>0, <1>2, <2>4, <2>9 DEF RestoreFinds, Tracked
  <2>11. QED
    BY <1>2, <1>4, <2>10 DEF Truth
<1>7. QED
  BY <1>2, <1>5, <1>6 DEF Truth, Left

-----------------------------------------------------------------------------
\* Theorems.

LEMMA TruthInit == Init => Truths
<1> SUFFICES ASSUME Init, NEW s \in Symbols PROVE Truth(s)
  BY DEF Truths
<1>1. IsFlat(s) /\ pc = "down"
  BY DEF Init, IsFlat
<1>2. QED
  BY <1>1, BoundType DEF Truth, Left, IsFlat, Bounded

LEMMA TruthStep ==
  ASSUME TypeOK, TypeOK', Book, Truths, [Next]_vars
  PROVE  Truths'
<1>1. CASE UNCHANGED vars
  BY <1>1 DEF vars, world, control, memory, history, Truths, Truth, Bounded, Left, IsFlat,
     Holds, Tracked, Untracked, IsHedged
<1>2. CASE Next
  <2> SUFFICES ASSUME NEW s \in Symbols \ blamed' PROVE Truth(s)'
    BY DEF Truths
  <2>1. blamed \subseteq blamed'
    <3>1. ASSUME NEW kind, NEW k, NEW n, NEW answer, Calls(kind, k, n, answer)
          PROVE  blamed \subseteq blamed'
      BY <3>1 DEF Calls
    <3>2. CASE \/ CloseStep \/ DcaStep \/ OpenStep \/ GuardCloses
               \/ CloseRaises \/ DcaRaises \/ OpenRaises \/ GuardRaises
      BY <3>1, <3>2 DEF CloseStep, CheckSkipped, CheckApart, CheckConverged, Close,
         DcaStep, DcaSkipped, Accumulate, OpenStep, OpenSkipped, Opened, NotOpened,
         GuardCloses, CloseRaises, DcaRaises, OpenRaises, GuardRaises
    <3>3. CASE \/ Restore \/ IdleTick \/ StartTick \/ EndClosing \/ EndDca \/ GuardPasses
               \/ EndTick \/ TickRaises \/ Crash \/ MarketMoves \/ GoesLive
      BY <3>3 DEF Restore, IdleTick, StartTick, EndClosing, EndDca, GuardPasses,
         EndTick, TickRaises, Crash, MarketMoves, GoesLive
    <3>4. QED
      BY <1>2, <3>2, <3>3 DEF Next, Trader, Raises
  <2>2. Truth(s)
    BY <2>1 DEF Truths
  <2>3. QED
    BY <1>2, <2>2, QuietTruth, RaisesTruth, CrashTruth, RestoreTruth, CloseTruth,
       EndClosingTruth, DcaTruth, OpenTruth, GuardTruth DEF Next, Trader
<1>3. QED
  BY <1>1, <1>2

LEMMA TruthsHold == Spec => []Truths
<1>1. Truths /\ (TypeOK /\ Book) /\ (TypeOK /\ Book)' /\ [Next]_vars => Truths'
  BY TruthStep DEF Book
<1>2. QED
  BY <1>1, TruthInit, Inductive, PTL DEF Spec

\* On a symbol where every call did what it was asked or nothing and every read
\* arrived, a tracked pair is a hedge on its own two exchanges and nothing is
\* held that is not tracked, whatever exceptions end the trader's ticks and
\* however often it restarts.
THEOREM BookIsTheTruth == Spec => []BookMatchesExchanges
<1>1. Truths => BookMatchesExchanges
  BY DEF Truths, Truth, Tracked, Untracked, BookMatchesExchanges
<1>2. QED
  BY <1>1, TruthsHold, PTL

\* No number of ticks, exceptions and restarts lets the trader accumulate such a
\* symbol beyond the base layer and MaxLayers accumulations.
THEOREM ExposureStaysBounded == Spec => []LayersBoundExposure
<1>1. Truths => LayersBoundExposure
  BY DEF Truths, Truth, Bounded, Bound, LayersBoundExposure
<1>2. QED
  BY <1>1, TruthsHold, PTL
=============================================================================
