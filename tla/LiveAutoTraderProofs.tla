------------------------- MODULE LiveAutoTraderProofs -------------------------
(***************************************************************************)
(* Theorems of LiveAutoTrader, for any symbols, exchanges, limits and      *)
(* faults.                                                                 *)
(***************************************************************************)
EXTENDS LiveAutoTrader, FiniteSetTheorems, TLAPS

-----------------------------------------------------------------------------
\* Keys.

LEMMA KeyParts ==
  ASSUME NEW k \in Keys
  PROVE  Symbol(k) \in Symbols /\ Short(k) \in Exchanges /\ Long(k) \in Exchanges
BY DEF Keys, Symbol, Short, Long

\* There are finitely many pairs: a triple is a pair whose first part is a pair.
LEMMA KeysFinite == IsFiniteSet(Keys)
<1> DEFINE Flat == (Symbols \X Exchanges) \X Exchanges
           Nested == [k \in Keys |-> <<<<k[1], k[2]>>, k[3]>>]
<1>1. IsFiniteSet(Flat)
  <2>1. IsFiniteSet(Symbols \X Exchanges)
    BY LimitsAssumption, FS_Product
  <2>2. QED
    BY <2>1, LimitsAssumption, FS_Product
<1>2. Nested \in Injection(Keys, Flat)
  <2>1. Nested \in [Keys -> Flat]
    BY DEF Keys
  <2>2. \A j, k \in Keys : Nested[j] = Nested[k] => j = k
    BY DEF Keys
  <2>3. QED
    BY <2>1, <2>2 DEF Injection, IsInjective
<1>3. QED
  BY <1>1, <1>2, FS_Injection

LEMMA CountOfPairs ==
  ASSUME NEW pairs \in SUBSET Keys
  PROVE  IsFiniteSet(pairs) /\ Cardinality(pairs) \in Nat
BY KeysFinite, FS_Subset, FS_CardinalityType

LEMMA OneMorePair ==
  ASSUME NEW pairs \in SUBSET Keys, NEW k \in Keys
  PROVE  Cardinality(pairs \cup {k}) <= Cardinality(pairs) + 1
<1>1. Cardinality(pairs \cup {k}) \in {Cardinality(pairs), Cardinality(pairs) + 1}
  BY CountOfPairs, FS_AddElement
<1>2. QED
  BY <1>1, CountOfPairs

LEMMA FewerPairs ==
  ASSUME NEW pairs \in SUBSET Keys, NEW fewer \in SUBSET pairs
  PROVE  Cardinality(fewer) <= Cardinality(pairs)
BY CountOfPairs, FS_Subset

-----------------------------------------------------------------------------
\* The executor's answers.

LEMMA WhenIsPart ==
  ASSUME NEW fault, NEW answers, NEW a \in When(fault, answers)
  PROVE  a \in answers
BY DEF When

LEMMA RollbackStatuses ==
  ASSUME NEW short, NEW long, NEW a \in RollbackAnswers(short, long)
  PROVE  a.status \in AnswerStatuses
BY DEF RollbackAnswers, When, Answer, AnswerStatuses

LEMMA EnteredStatus ==
  ASSUME NEW s, NEW l
  PROVE  Entered(s, l) \in AnswerStatuses
BY DEF Entered, AnswerStatuses

LEMMA AfterShortStatuses ==
  ASSUME NEW short, NEW long, NEW n, NEW s, NEW a \in AnswersAfterShort(short, long, n, s)
  PROVE  a.status \in AnswerStatuses
<1>1. \A m : \A b \in LongAnswers(short, long, s, m) : b.status \in AnswerStatuses
  BY EnteredStatus DEF LongAnswers, When, Answer, AnswerStatuses
<1>2. \A m : \A b \in LongRaisedAnswers(short, long, s, m) : b.status \in AnswerStatuses
  BY RollbackStatuses DEF LongRaisedAnswers, Answer, AnswerStatuses
<1>3. \A b \in When("abort", {Answer("raised", short, long)}) : b.status \in AnswerStatuses
  BY DEF When, Answer, AnswerStatuses
<1>4. QED
  BY <1>1, <1>2, <1>3 DEF AnswersAfterShort

LEMMA EnterStatuses ==
  ASSUME NEW h, NEW n, NEW a \in EnterAnswers(h, n)
  PROVE  a.status \in AnswerStatuses
BY AfterShortStatuses DEF EnterAnswers, When, Answer, AnswerStatuses

LEMMA CloseStatuses ==
  ASSUME NEW h, NEW a \in CloseAnswers(h)
  PROVE  a.status \in AnswerStatuses
<1>1. \A x, y : \A b \in Closings(h, x, y) : b.status \in AnswerStatuses
  BY DEF Closings, Exited, When, Answer, AnswerStatuses
<1>2. \A b \in {Answer("failed", 0, 0)} \cup When("abort", {Answer("raised", 0, 0)})
               \cup When("blind", {Answer("failed", h.short, h.long)}) :
        b.status \in AnswerStatuses
  BY DEF When, Answer, AnswerStatuses
<1> DEFINE Others == {Answer("failed", 0, 0)} \cup When("abort", {Answer("raised", 0, 0)})
                     \cup When("blind", {Answer("failed", h.short, h.long)})
           Made == {Closings(h, x, y) : x \in LegCloses(h.short), y \in LegCloses(h.long)}
<1>3. a \in Others \/ a \in UNION Made
  BY DEF CloseAnswers
<1>4. ASSUME a \in UNION Made
      PROVE  \E x, y : a \in Closings(h, x, y)
  <2>1. PICK part \in Made : a \in part
    BY <1>4
  <2>2. PICK x \in LegCloses(h.short), y \in LegCloses(h.long) : part = Closings(h, x, y)
    BY <2>1
  <2>3. QED
    BY <2>1, <2>2
<1> HIDE DEF Made
<1>5. QED
  BY <1>1, <1>2, <1>3, <1>4

LEMMA CallStatus ==
  ASSUME NEW kind, NEW k, NEW n, NEW answer, Calls(kind, k, n, answer)
  PROVE  answer.status \in AnswerStatuses
BY EnterStatuses, CloseStatuses DEF Calls

-----------------------------------------------------------------------------
\* Types.

LEMMA CallTypes ==
  ASSUME TypeOK,
         NEW kind \in {"open", "dca", "close", "guard"}, NEW k \in Keys, NEW n, NEW answer,
         Calls(kind, k, n, answer)
  PROVE  /\ pos' \in [Symbols -> [Exchanges -> -MaxUnits .. MaxUnits]]
         /\ sent' \in CallRecords
         /\ sent'.kind = kind /\ sent'.key = k
         /\ blamed' \subseteq Symbols
<1>1. pos' \in [Symbols -> [Exchanges -> -MaxUnits .. MaxUnits]]
  <2>1. answer.short \in -MaxUnits .. MaxUnits /\ answer.long \in -MaxUnits .. MaxUnits
    BY DEF Calls, Lent
  <2>2. Leaves(k, answer)
    BY DEF Calls
  <2>3. QED
    BY <2>1, <2>2, KeyParts DEF TypeOK, Leaves
<1>2. sent' = [kind |-> kind, key |-> k, status |-> answer.status]
  BY DEF Calls
<1>3. blamed' \subseteq Symbols
  <2>1. blamed' \subseteq blamed \cup {Symbol(k)} \cup Forgettable
    BY DEF Calls
  <2>2. Forgettable \subseteq Symbols
    BY KeyParts DEF Forgettable, TypeOK
  <2>3. QED
    BY <2>1, <2>2, KeyParts DEF TypeOK
<1>4. QED
  BY <1>1, <1>2, <1>3, CallStatus DEF CallRecords

LEMMA TickOverTypes ==
  ASSUME TickOver
  PROVE  /\ pc' \in PCs
         /\ {todo, candidates, closed}' \subseteq SUBSET Keys
         /\ count' \in Nat /\ taken' \subseteq Symbols
         /\ filled' \in {NoKey} \cup Keys
BY DEF TickOver, PCs

LEMMA ConfirmsTypes ==
  ASSUME TypeOK, NEW k \in Keys, Confirms(k)
  PROVE  confirm' \in [Keys -> 0 .. 2] /\ seenClose' \in [Keys -> 0 .. 2]
<1>1. \A n \in 0 .. 2 : Counted(n) \in 0 .. 2
  BY DEF Counted
<1>2. QED
  BY <1>1 DEF TypeOK, Confirms

LEMMA TypeInit == Init => TypeOK
<1>1. SUFFICES ASSUME Init PROVE TypeOK
  OBVIOUS
<1>2. 0 \in -MaxUnits .. MaxUnits /\ 0 \in 0 .. Cooldown /\ 0 \in 0 .. 2 /\ 0 \in Nat
  BY LimitsAssumption
<1>3. pos \in [Symbols -> [Exchanges -> -MaxUnits .. MaxUnits]]
  BY <1>1, <1>2 DEF Init
<1>4. market \in [Symbols -> Markets] /\ live \in BOOLEAN /\ pc \in PCs
  BY <1>1 DEF Init, Markets, PCs
<1>5. /\ confirm \in [Keys -> 0 .. 2] /\ seenClose \in [Keys -> 0 .. 2]
      /\ layers \in [Keys -> Nat] /\ cooldown \in [Keys -> 0 .. Cooldown]
  BY <1>1, <1>2 DEF Init
<1>6. QED
  BY <1>1, <1>3, <1>4, <1>5 DEF Init, TypeOK

LEMMA RestoreTypes ==
  ASSUME TypeOK, Restore
  PROVE  TypeOK'
<1>1. PICK seen, pairs, priced :
        /\ pairs \subseteq Restorable(seen) /\ priced \subseteq pairs
        /\ openPairs' = pairs
        /\ spreads' = priced
        /\ layers' = [k \in Keys |-> IF k \in priced THEN RestoredLayers(k) ELSE 0]
        /\ blamed' = blamed \cup {Symbol(k) : k \in pairs \ priced}
                           \cup {s \in Symbols : \E e \in Exchanges \ seen : pos[s][e] # 0}
  BY DEF Restore, When
<1>2. pairs \subseteq Keys
  BY <1>1 DEF Restorable
<1>3. \A k \in Keys : RestoredLayers(k) \in Nat
  <2>1. SUFFICES ASSUME NEW k \in Keys PROVE RestoredLayers(k) \in Nat
    OBVIOUS
  <2>2. pos[Symbol(k)][Short(k)] \in Int
    BY KeyParts, LimitsAssumption DEF TypeOK
  <2>3. QED
    BY <2>2 DEF RestoredLayers
<1>4. layers' \in [Keys -> Nat]
  BY <1>1, <1>3
<1>5. blamed' \subseteq Symbols
  BY <1>1, <1>2, KeyParts DEF TypeOK
<1>6. pc' = "asleep" /\ sent' = NoCall
      /\ UNCHANGED <<world, todo, candidates, closed, count, taken, filled, confirm, cooldown, seenClose>>
  BY DEF Restore
<1>7. QED
  BY <1>1, <1>2, <1>4, <1>5, <1>6 DEF TypeOK, world, PCs

LEMMA CrashTypes ==
  ASSUME TypeOK, Crash
  PROVE  TypeOK'
<1>1. 0 \in 0 .. Cooldown /\ 0 \in 0 .. 2 /\ 0 \in Nat
  BY LimitsAssumption
<1>2. /\ confirm' \in [Keys -> 0 .. 2] /\ seenClose' \in [Keys -> 0 .. 2]
      /\ layers' \in [Keys -> Nat] /\ cooldown' \in [Keys -> 0 .. Cooldown]
  BY <1>1 DEF Crash
<1>3. QED
  BY <1>2 DEF TypeOK, Crash, world, PCs

LEMMA TimeTypes ==
  ASSUME TypeOK, TimePasses
  PROVE  cooldown' \in [Keys -> 0 .. Cooldown]
<1>1. \A n \in 0 .. Cooldown : (IF n > 0 THEN n - 1 ELSE 0) \in 0 .. Cooldown
  BY LimitsAssumption
<1>2. QED
  BY <1>1 DEF TypeOK, TimePasses

LEMMA IdleTypes ==
  ASSUME TypeOK, MarketMoves \/ GoesLive \/ IdleTick
  PROVE  TypeOK'
<1>1. CASE MarketMoves
  <2>1. market' \in [Symbols -> Markets]
    BY <1>1 DEF MarketMoves, TypeOK
  <2>2. QED
    BY <1>1, <2>1 DEF MarketMoves, TypeOK, control, memory
<1>2. CASE GoesLive
  BY <1>2 DEF GoesLive, TypeOK, control, memory
<1>3. CASE IdleTick
  <2>1. cooldown' \in [Keys -> 0 .. Cooldown]
    BY <1>3, TimeTypes DEF IdleTick
  <2>2. QED
    BY <1>3, <2>1 DEF IdleTick, TypeOK, world, control
<1>4. QED
  BY <1>1, <1>2, <1>3

LEMMA StartTypes ==
  ASSUME TypeOK, StartTick
  PROVE  TypeOK'
<1>1. cooldown' \in [Keys -> 0 .. Cooldown]
  BY TimeTypes DEF StartTick
<1>2. candidates' \subseteq Keys
  BY DEF StartTick
<1>3. QED
  BY <1>1, <1>2 DEF StartTick, TypeOK, world, PCs

LEMMA CloseStepTypes ==
  ASSUME TypeOK, CloseStep
  PROVE  TypeOK'
<1>1. PICK k \in todo :
        /\ todo' = todo \ {k}
        /\ CheckSkipped(k) \/ CheckApart(k) \/ CheckConverged(k) \/ Close(k)
  BY DEF CloseStep
<1>2. k \in Keys
  BY DEF TypeOK
<1>3. UNCHANGED <<market, live, pc, candidates, count, taken, filled,
                  openPairs, spreads, layers, cooldown>>
  BY DEF CloseStep
<1>4. CASE CheckSkipped(k)
  BY <1>1, <1>3, <1>4 DEF CheckSkipped, TypeOK
<1>5. CASE CheckApart(k)
  <2>1. confirm' \in [Keys -> 0 .. 2] /\ seenClose' \in [Keys -> 0 .. 2]
    BY <1>5 DEF CheckApart, TypeOK
  <2>2. QED
    BY <1>1, <1>3, <1>5, <2>1 DEF CheckApart, TypeOK
<1>6. CASE CheckConverged(k)
  <2>1. confirm' \in [Keys -> 0 .. 2] /\ seenClose' \in [Keys -> 0 .. 2]
    BY <1>2, <1>6, ConfirmsTypes DEF CheckConverged
  <2>2. QED
    BY <1>1, <1>3, <1>6, <2>1 DEF CheckConverged, TypeOK
<1>7. CASE Close(k)
  <2>1. confirm' \in [Keys -> 0 .. 2] /\ seenClose' \in [Keys -> 0 .. 2]
    BY <1>2, <1>7, ConfirmsTypes DEF Close
  <2>2. PICK answer : Calls("close", k, 0, answer)
    BY <1>7 DEF Close
  <2>3. /\ pos' \in [Symbols -> [Exchanges -> -MaxUnits .. MaxUnits]]
        /\ sent' \in CallRecords /\ blamed' \subseteq Symbols
    BY <1>2, <2>2, CallTypes
  <2>4. closed' = closed \cup {k}
    BY <1>7 DEF Close
  <2>5. QED
    BY <1>1, <1>2, <1>3, <2>1, <2>3, <2>4 DEF TypeOK
<1>8. QED
  BY <1>1, <1>4, <1>5, <1>6, <1>7

LEMMA EndClosingTypes ==
  ASSUME TypeOK, EndClosing
  PROVE  TypeOK'
<1>1. /\ confirm' \in [Keys -> 0 .. 2]
      /\ layers' \in [Keys -> Nat]
  BY DEF EndClosing, Forget, TypeOK
<1>2. openPairs' \subseteq Keys /\ spreads' \subseteq Keys
  BY DEF EndClosing, Forget, TypeOK
<1>3. QED
  BY <1>1, <1>2 DEF EndClosing, TypeOK, world, PCs

LEMMA DcaStepTypes ==
  ASSUME TypeOK, DcaStep
  PROVE  TypeOK'
<1>1. PICK k \in todo : todo' = todo \ {k} /\ (DcaSkipped \/ Accumulate(k))
  BY DEF DcaStep
<1>2. k \in Keys
  BY DEF TypeOK
<1>3. UNCHANGED <<market, live, pc, candidates, closed, count, taken, filled,
                  openPairs, confirm, spreads, cooldown, seenClose>>
  BY DEF DcaStep
<1>4. CASE DcaSkipped
  BY <1>1, <1>3, <1>4 DEF DcaSkipped, TypeOK
<1>5. CASE Accumulate(k)
  <2>1. PICK answer :
          /\ Calls("dca", k, 2, answer)
          /\ layers' = IF answer.status \in {"success", "partial"}
                       THEN [layers EXCEPT ![k] = @ + 1] ELSE layers
    BY <1>5 DEF Accumulate
  <2>2. /\ pos' \in [Symbols -> [Exchanges -> -MaxUnits .. MaxUnits]]
        /\ sent' \in CallRecords /\ blamed' \subseteq Symbols
    BY <1>2, <2>1, CallTypes
  <2>3. layers' \in [Keys -> Nat]
    BY <2>1 DEF TypeOK
  <2>4. QED
    BY <1>1, <1>3, <2>2, <2>3 DEF TypeOK
<1>6. QED
  BY <1>1, <1>4, <1>5

LEMMA EndDcaTypes ==
  ASSUME TypeOK, EndDca
  PROVE  TypeOK'
<1>1. openPairs \subseteq Keys
  BY DEF TypeOK
<1>2. count' \in Nat
  BY <1>1, CountOfPairs DEF EndDca
<1>3. taken' \subseteq Symbols
  BY <1>1, KeyParts DEF EndDca
<1>4. QED
  BY <1>2, <1>3 DEF EndDca, TypeOK, world, memory, PCs

LEMMA OpenStepTypes ==
  ASSUME TypeOK, OpenStep
  PROVE  TypeOK'
<1>1. PICK k \in candidates :
        candidates' = candidates \ {k} /\ (OpenSkipped \/ Opened(k) \/ NotOpened(k))
  BY DEF OpenStep
<1>2. k \in Keys
  BY DEF TypeOK
<1>3. UNCHANGED <<market, live, todo, closed, confirm>>
  BY DEF OpenStep
<1>4. CASE OpenSkipped
  BY <1>1, <1>3, <1>4 DEF OpenSkipped, TypeOK
<1>5. CASE Opened(k)
  <2>1. PICK answer : Calls("open", k, 1, answer)
    BY <1>5 DEF Opened
  <2>2. /\ pos' \in [Symbols -> [Exchanges -> -MaxUnits .. MaxUnits]]
        /\ sent' \in CallRecords /\ blamed' \subseteq Symbols
    BY <1>2, <2>1, CallTypes
  <2>3. layers' \in [Keys -> Nat] /\ seenClose' \in [Keys -> 0 .. 2]
    BY <1>5 DEF Opened, TypeOK
  <2>4. /\ openPairs' \subseteq Keys /\ spreads' \subseteq Keys
        /\ count' \in Nat /\ taken' \subseteq Symbols
    BY <1>2, <1>5, KeyParts DEF Opened, Tracks, TypeOK
  <2>5. pc' \in PCs /\ filled' \in Keys /\ cooldown' = cooldown
    BY <1>2, <1>5 DEF Opened, PCs
  <2>6. QED
    BY <1>1, <1>3, <2>2, <2>3, <2>4, <2>5 DEF TypeOK
<1>6. CASE NotOpened(k)
  <2>1. PICK answer : Calls("open", k, 1, answer)
    BY <1>6 DEF NotOpened
  <2>2. /\ pos' \in [Symbols -> [Exchanges -> -MaxUnits .. MaxUnits]]
        /\ sent' \in CallRecords /\ blamed' \subseteq Symbols
    BY <1>2, <2>1, CallTypes
  <2>3. Cooldown \in 0 .. Cooldown
    BY LimitsAssumption
  <2>4. cooldown' \in [Keys -> 0 .. Cooldown]
    BY <1>6, <2>3 DEF NotOpened, TypeOK
  <2>5. QED
    BY <1>1, <1>3, <1>6, <2>2, <2>4 DEF NotOpened, TypeOK
<1>7. QED
  BY <1>1, <1>4, <1>5, <1>6

LEMMA GuardTypes ==
  ASSUME TypeOK, Bookkeeping, GuardPasses \/ GuardCloses \/ EndTick
  PROVE  TypeOK'
<1>1. CASE GuardPasses
  BY <1>1 DEF GuardPasses, TypeOK, world, memory, PCs
<1>2. CASE GuardCloses
  <2>1. filled \in Keys
    BY <1>2 DEF GuardCloses, LowSpread, Bookkeeping, TypeOK
  <2>2. PICK answer : Calls("guard", filled, 0, answer)
    BY <1>2 DEF GuardCloses
  <2>3. /\ pos' \in [Symbols -> [Exchanges -> -MaxUnits .. MaxUnits]]
        /\ sent' \in CallRecords /\ blamed' \subseteq Symbols
    BY <2>1, <2>2, CallTypes
  <2>4. /\ openPairs' \subseteq Keys /\ spreads' \subseteq Keys
        /\ layers' \in [Keys -> Nat]
    BY <1>2 DEF GuardCloses, Forget, TypeOK
  <2>5. pc' \in PCs /\ filled' = NoKey
    BY <1>2 DEF GuardCloses, PCs
  <2>6. QED
    BY <1>2, <2>3, <2>4, <2>5 DEF GuardCloses, TypeOK
<1>3. CASE EndTick
  BY <1>3, TickOverTypes DEF EndTick, TypeOK, world, memory
<1>4. QED
  BY <1>1, <1>2, <1>3

LEMMA RaisesTypes ==
  ASSUME TypeOK, Bookkeeping, Raises
  PROVE  TypeOK'
<1>1. CASE CloseRaises
  <2>1. PICK k, answer : k \in todo /\ Confirms(k) /\ Calls("close", k, 0, answer)
    BY <1>1 DEF CloseRaises
  <2>2. k \in Keys
    BY <2>1 DEF TypeOK
  <2>3. /\ pos' \in [Symbols -> [Exchanges -> -MaxUnits .. MaxUnits]]
        /\ sent' \in CallRecords /\ blamed' \subseteq Symbols
    BY <2>1, <2>2, CallTypes
  <2>4. confirm' \in [Keys -> 0 .. 2] /\ seenClose' \in [Keys -> 0 .. 2]
    BY <2>1, <2>2, ConfirmsTypes
  <2>5. QED
    BY <1>1, <2>3, <2>4, TickOverTypes DEF CloseRaises, TypeOK
<1>2. CASE DcaRaises
  <2>1. PICK k, answer : k \in todo /\ Calls("dca", k, 2, answer)
    BY <1>2 DEF DcaRaises
  <2>2. k \in Keys
    BY <2>1 DEF TypeOK
  <2>3. /\ pos' \in [Symbols -> [Exchanges -> -MaxUnits .. MaxUnits]]
        /\ sent' \in CallRecords /\ blamed' \subseteq Symbols
    BY <2>1, <2>2, CallTypes
  <2>4. QED
    BY <1>2, <2>3, TickOverTypes DEF DcaRaises, TypeOK, memory
<1>3. CASE OpenRaises
  <2>1. PICK k, answer : k \in candidates /\ Calls("open", k, 1, answer)
    BY <1>3 DEF OpenRaises
  <2>2. k \in Keys
    BY <2>1 DEF TypeOK
  <2>3. /\ pos' \in [Symbols -> [Exchanges -> -MaxUnits .. MaxUnits]]
        /\ sent' \in CallRecords /\ blamed' \subseteq Symbols
    BY <2>1, <2>2, CallTypes
  <2>4. QED
    BY <1>3, <2>3, TickOverTypes DEF OpenRaises, TypeOK, memory
<1>4. CASE GuardRaises
  <2>1. PICK answer : Calls("guard", filled, 0, answer)
    BY <1>4 DEF GuardRaises
  <2>2. filled \in Keys
    BY <1>4 DEF GuardRaises, LowSpread, Bookkeeping, TypeOK
  <2>3. /\ pos' \in [Symbols -> [Exchanges -> -MaxUnits .. MaxUnits]]
        /\ sent' \in CallRecords /\ blamed' \subseteq Symbols
    BY <2>1, <2>2, CallTypes
  <2>4. QED
    BY <1>4, <2>3, TickOverTypes DEF GuardRaises, TypeOK, memory
<1>5. CASE TickRaises
  <2>1. blamed' \subseteq Symbols
    BY <1>5, KeyParts DEF TickRaises, Forgettable, TypeOK
  <2>2. QED
    BY <1>5, <2>1, TickOverTypes DEF TickRaises, TypeOK, world, memory
<1>6. QED
  BY <1>1, <1>2, <1>3, <1>4, <1>5 DEF Raises

LEMMA TypeStep ==
  ASSUME TypeOK, Bookkeeping, [Next]_vars
  PROVE  TypeOK'
<1>1. CASE Next
  BY <1>1, RestoreTypes, CrashTypes, IdleTypes, StartTypes, CloseStepTypes, EndClosingTypes,
     DcaStepTypes, EndDcaTypes, OpenStepTypes, GuardTypes, RaisesTypes DEF Next, Trader
<1>2. CASE UNCHANGED vars
  BY <1>2 DEF vars, world, control, memory, history, TypeOK
<1>3. QED
  BY <1>1, <1>2

-----------------------------------------------------------------------------
\* The book.

\* The inductive invariant: the three invariants of the book need each other
\* and what the passes remember.
Book == Bookkeeping /\ OnePairPerSymbol /\ PassesAgree

LEMMA BookInit == Init => Book
<1>1. Cardinality({}) = 0
  BY FS_EmptySet
<1>2. QED
  BY <1>1 DEF Init, Book, Bookkeeping, OnePairPerSymbol, PassesAgree

\* A step of the tick that leaves the book and the counts alone.
LEMMA QuietStep ==
  ASSUME TypeOK, Book, UNCHANGED <<openPairs, spreads, layers, confirm, seenClose>>,
         pc' # "down", closed' = {},
         pc' \in {"closing", "dca"} => todo' \subseteq openPairs,
         pc' \in {"opening", "guarding"} =>
           pc \in {"opening", "guarding"} /\ taken' = taken /\ count' = count,
         pc' # "guarding"
  PROVE  Book'
<1>1. Bookkeeping' /\ OnePairPerSymbol'
  BY DEF Book, Bookkeeping, OnePairPerSymbol
<1>2. PassesAgree'
  BY DEF Book, PassesAgree
<1>3. QED
  BY <1>1, <1>2 DEF Book

LEMMA RestoreBook ==
  ASSUME TypeOK, Book, Restore
  PROVE  Book'
<1>1. PICK seen, pairs, priced :
        /\ pairs \subseteq Restorable(seen) /\ priced \subseteq pairs
        /\ \A j, k \in pairs : Symbol(j) = Symbol(k) => j = k
        /\ openPairs' = pairs
        /\ spreads' = priced
        /\ layers' = [k \in Keys |-> IF k \in priced THEN RestoredLayers(k) ELSE 0]
  BY DEF Restore, When
<1>2. /\ pc = "down" /\ pc' = "asleep"
      /\ closed' = closed /\ confirm' = confirm /\ seenClose' = seenClose
  BY DEF Restore
<1>3. openPairs = {} /\ closed = {}
  BY <1>2 DEF Book, PassesAgree
<1>4. \A k \in Keys : ~(confirm[k] > 0)
  BY <1>3 DEF Book, Bookkeeping
<1>5. \A k \in Keys : layers'[k] > 0 => k \in openPairs'
  BY <1>1
<1>6. Bookkeeping'
  BY <1>1, <1>2, <1>3, <1>4, <1>5 DEF Bookkeeping
<1>7. OnePairPerSymbol'
  BY <1>1 DEF OnePairPerSymbol
<1>8. PassesAgree'
  BY <1>2, <1>3 DEF Book, PassesAgree
<1>9. QED
  BY <1>6, <1>7, <1>8 DEF Book

LEMMA CrashBook ==
  ASSUME Crash
  PROVE  Book'
BY DEF Crash, Book, Bookkeeping, OnePairPerSymbol, PassesAgree

LEMMA IdleBook ==
  ASSUME Book, MarketMoves \/ GoesLive \/ IdleTick
  PROVE  Book'
<1>1. UNCHANGED <<control, openPairs, spreads, layers, confirm, seenClose>>
  BY DEF MarketMoves, GoesLive, IdleTick, memory
<1>2. QED
  BY <1>1 DEF control, Book, Bookkeeping, OnePairPerSymbol, PassesAgree

LEMMA StartBook ==
  ASSUME TypeOK, Book, StartTick
  PROVE  Book'
BY QuietStep DEF StartTick

\* A check of the pair k: only k's counts may change, and the pairs closed so far.
LEMMA CheckBook ==
  ASSUME TypeOK, Book, CloseStep
  PROVE  Book'
<1>1. PICK k \in todo :
        /\ todo' = todo \ {k}
        /\ CheckSkipped(k) \/ CheckApart(k) \/ CheckConverged(k) \/ Close(k)
  BY DEF CloseStep
<1>2. /\ pc = "closing" /\ pc' = pc
      /\ UNCHANGED <<filled, openPairs, spreads, layers>>
  BY DEF CloseStep
<1>3. k \in openPairs /\ k \in Keys /\ todo' \subseteq openPairs
  BY <1>1, <1>2 DEF Book, PassesAgree, TypeOK
<1>4. \A j \in Keys : j # k => confirm'[j] = confirm[j] /\ seenClose'[j] = seenClose[j]
  BY <1>1 DEF CheckSkipped, CheckApart, CheckConverged, Close, Confirms, TypeOK
<1>5. confirm'[k] <= seenClose'[k]
  <2>1. confirm[k] \in 0 .. 2 /\ seenClose[k] \in 0 .. 2 /\ confirm[k] <= seenClose[k]
    BY <1>3 DEF TypeOK, Book, PassesAgree
  <2>2. CASE CheckSkipped(k)
    BY <2>1, <2>2 DEF CheckSkipped
  <2>3. CASE CheckApart(k)
    BY <1>3, <2>1, <2>3 DEF CheckApart, TypeOK
  <2>4. ASSUME Confirms(k) PROVE confirm'[k] <= seenClose'[k]
    <3>1. confirm'[k] = Counted(confirm[k]) /\ seenClose'[k] = Counted(seenClose[k])
      BY <1>3, <2>4 DEF Confirms, TypeOK
    <3>2. QED
      BY <2>1, <3>1 DEF Counted
  <2>5. QED
    BY <1>1, <2>2, <2>3, <2>4 DEF CheckConverged, Close
<1>6. closed' \subseteq openPairs
  BY <1>1, <1>3 DEF CheckSkipped, CheckApart, CheckConverged, Close, Book, Bookkeeping
<1>7. Bookkeeping'
  BY <1>2, <1>3, <1>4, <1>6 DEF Book, Bookkeeping
<1>8. OnePairPerSymbol'
  BY <1>2 DEF Book, OnePairPerSymbol
<1>9. PassesAgree'
  BY <1>2, <1>3, <1>4, <1>5 DEF Book, PassesAgree
<1>10. QED
  BY <1>7, <1>8, <1>9 DEF Book

LEMMA EndClosingBook ==
  ASSUME TypeOK, Book, EndClosing
  PROVE  Book'
<1>1. /\ openPairs' = openPairs \ closed /\ spreads' = spreads \ closed
      /\ layers' = [k \in Keys |-> IF k \in closed THEN 0 ELSE layers[k]]
      /\ confirm' = [k \in Keys |-> IF k \in closed THEN 0 ELSE confirm[k]]
      /\ pc' = "dca" /\ todo' = openPairs' /\ closed' = {} /\ seenClose' = seenClose
  BY DEF EndClosing, Forget
<1>2. Bookkeeping'
  BY <1>1 DEF Book, Bookkeeping
<1>3. OnePairPerSymbol'
  BY <1>1 DEF Book, OnePairPerSymbol
<1>4. \A k \in Keys : confirm'[k] <= seenClose'[k]
  <2>1. \A k \in Keys : confirm[k] <= seenClose[k] /\ 0 <= seenClose[k]
    BY DEF TypeOK, Book, PassesAgree
  <2>2. QED
    BY <1>1, <2>1
<1>5. PassesAgree'
  BY <1>1, <1>4 DEF PassesAgree
<1>6. QED
  BY <1>2, <1>3, <1>5 DEF Book

LEMMA DcaBook ==
  ASSUME TypeOK, Book, DcaStep
  PROVE  Book'
<1>1. PICK k \in todo : todo' = todo \ {k} /\ (DcaSkipped \/ Accumulate(k))
  BY DEF DcaStep
<1>2. /\ pc = "dca" /\ pc' = pc
      /\ UNCHANGED <<closed, filled, openPairs, confirm, spreads, seenClose>>
  BY DEF DcaStep
<1>3. k \in openPairs /\ k \in Keys /\ todo' \subseteq openPairs
  BY <1>1, <1>2 DEF Book, PassesAgree, TypeOK
<1>4. \A j \in Keys : j # k => layers'[j] = layers[j]
  BY <1>1 DEF DcaSkipped, Accumulate, TypeOK
<1>5. Bookkeeping'
  BY <1>2, <1>3, <1>4 DEF Book, Bookkeeping
<1>6. OnePairPerSymbol'
  BY <1>2 DEF Book, OnePairPerSymbol
<1>7. PassesAgree'
  BY <1>2, <1>3 DEF Book, PassesAgree
<1>8. QED
  BY <1>5, <1>6, <1>7 DEF Book

LEMMA EndDcaBook ==
  ASSUME TypeOK, Book, EndDca
  PROVE  Book'
<1>1. /\ pc = "dca" /\ pc' = "opening"
      /\ count' = Cardinality(openPairs) /\ taken' = {Symbol(k) : k \in openPairs}
      /\ UNCHANGED <<todo, closed, openPairs, spreads, confirm, layers, seenClose>>
  BY DEF EndDca, memory
<1>2. Cardinality(openPairs) \in Nat
  BY CountOfPairs DEF TypeOK
<1>3. Bookkeeping' /\ OnePairPerSymbol'
  BY <1>1 DEF Book, Bookkeeping, OnePairPerSymbol
<1>4. PassesAgree'
  BY <1>1, <1>2 DEF Book, PassesAgree
<1>5. QED
  BY <1>3, <1>4 DEF Book

\* A pair that may be opened is not tracked, so nothing is left of its last life.
LEMMA OpenFresh ==
  ASSUME TypeOK, Book, pc = "opening", NEW k \in Keys, MayOpen(k)
  PROVE  /\ k \notin openPairs /\ confirm[k] = 0
         /\ \A j \in openPairs : Symbol(j) # Symbol(k)
         /\ Cardinality(openPairs) < MaxPos
<1>1. \A j \in openPairs : Symbol(j) # Symbol(k)
  BY DEF Book, PassesAgree, MayOpen
<1>2. k \notin openPairs
  BY <1>1
<1>3. confirm[k] \in 0 .. 2 /\ ~(confirm[k] > 0)
  BY <1>2 DEF TypeOK, Book, Bookkeeping
<1>4. Cardinality(openPairs) \in Nat /\ Cardinality(openPairs) <= count
      /\ count \in Nat /\ count < MaxPos
  BY CountOfPairs DEF TypeOK, Book, PassesAgree, MayOpen
<1>5. QED
  BY <1>1, <1>2, <1>3, <1>4, LimitsAssumption

LEMMA OpenedBook ==
  ASSUME TypeOK, Book, pc = "opening", NEW k \in Keys, Opened(k),
         UNCHANGED <<todo, closed, confirm>>
  PROVE  Book'
<1>1. /\ MayOpen(k)
      /\ openPairs' = openPairs \cup {k} /\ spreads' = spreads \cup {k}
      /\ layers' = [layers EXCEPT ![k] = 0] /\ seenClose' = [seenClose EXCEPT ![k] = 0]
      /\ count' = count + 1 /\ taken' = taken \cup {Symbol(k)}
      /\ pc' = "guarding" /\ filled' = k
  BY DEF Opened, Tracks
<1>2. /\ k \notin openPairs /\ confirm[k] = 0
      /\ \A j \in openPairs : Symbol(j) # Symbol(k)
  BY <1>1, OpenFresh
<1>3. /\ \A j \in Keys : j # k => layers'[j] = layers[j] /\ seenClose'[j] = seenClose[j]
      /\ seenClose'[k] = 0
  BY <1>1 DEF TypeOK
<1>4. Bookkeeping'
  BY <1>1, <1>2, <1>3 DEF Book, Bookkeeping
<1>5. OnePairPerSymbol'
  BY <1>1, <1>2 DEF Book, OnePairPerSymbol
<1>6. \A j \in Keys : confirm'[j] <= seenClose'[j]
  BY <1>2, <1>3 DEF Book, PassesAgree
<1>7. Cardinality(openPairs') <= count'
  <2>1. openPairs \subseteq Keys /\ count \in Nat
    BY DEF TypeOK
  <2>2. Cardinality(openPairs \cup {k}) <= Cardinality(openPairs) + 1
    BY <2>1, OneMorePair
  <2>3. Cardinality(openPairs) <= count
    BY DEF Book, PassesAgree
  <2>4. Cardinality(openPairs) \in Nat /\ Cardinality(openPairs \cup {k}) \in Nat
    BY <2>1, CountOfPairs
  <2>5. QED
    BY <1>1, <2>1, <2>2, <2>3, <2>4
<1>8. PassesAgree'
  BY <1>1, <1>6, <1>7 DEF Book, PassesAgree
<1>9. QED
  BY <1>4, <1>5, <1>8 DEF Book

LEMMA OpenStepBook ==
  ASSUME TypeOK, Book, OpenStep
  PROVE  Book'
<1>1. PICK k \in candidates : OpenSkipped \/ Opened(k) \/ NotOpened(k)
  BY DEF OpenStep
<1>2. /\ k \in Keys /\ pc = "opening"
      /\ UNCHANGED <<todo, closed, confirm>>
  BY DEF OpenStep, TypeOK
<1>3. CASE Opened(k)
  BY <1>2, <1>3, OpenedBook
<1>4. CASE OpenSkipped \/ NotOpened(k)
  <2>1. UNCHANGED <<pc, count, taken, filled, openPairs, spreads, layers, seenClose>>
    BY <1>4 DEF OpenSkipped, NotOpened
  <2>2. QED
    BY <1>2, <2>1 DEF Book, Bookkeeping, OnePairPerSymbol, PassesAgree
<1>5. QED
  BY <1>1, <1>3, <1>4

LEMMA GuardBook ==
  ASSUME TypeOK, Book, GuardPasses \/ GuardCloses \/ EndTick
  PROVE  Book'
<1>1. CASE GuardPasses
  BY <1>1 DEF GuardPasses, memory, Book, Bookkeeping, OnePairPerSymbol, PassesAgree
<1>2. CASE GuardCloses
  <2>1. /\ pc = "guarding" /\ pc' = "opening"
        /\ openPairs' = openPairs \ {filled} /\ spreads' = spreads \ {filled}
        /\ layers' = [k \in Keys |-> IF k \in {filled} THEN 0 ELSE layers[k]]
        /\ UNCHANGED <<todo, closed, count, taken, confirm, seenClose>>
    BY <1>2 DEF GuardCloses, LowSpread, Forget
  <2>2. /\ filled \in openPairs /\ confirm[filled] = 0 /\ closed = {}
        /\ openPairs \subseteq Keys /\ count \in Nat
    BY <2>1 DEF Book, Bookkeeping, PassesAgree, TypeOK
  <2>3. Bookkeeping'
    BY <2>1, <2>2 DEF Book, Bookkeeping
  <2>4. OnePairPerSymbol'
    BY <2>1 DEF Book, OnePairPerSymbol
  <2>5. Cardinality(openPairs') <= count'
    <3>1. openPairs' \subseteq openPairs /\ openPairs' \subseteq Keys
      BY <2>1, <2>2
    <3>2. Cardinality(openPairs') <= Cardinality(openPairs)
      BY <2>2, <3>1, FewerPairs
    <3>3. Cardinality(openPairs) <= count
      BY <2>1 DEF Book, PassesAgree
    <3>4. Cardinality(openPairs) \in Nat /\ Cardinality(openPairs') \in Nat
      BY <2>2, <3>1, CountOfPairs
    <3>5. QED
      BY <2>1, <2>2, <3>2, <3>3, <3>4
  <2>6. PassesAgree'
    BY <2>1, <2>2, <2>5 DEF Book, PassesAgree
  <2>7. QED
    BY <2>3, <2>4, <2>6 DEF Book
<1>3. CASE EndTick
  BY <1>3, QuietStep DEF EndTick, TickOver, memory
<1>4. QED
  BY <1>1, <1>2, <1>3

LEMMA RaisesBook ==
  ASSUME TypeOK, Book, Raises
  PROVE  Book'
<1>1. CASE CloseRaises
  <2>1. PICK k \in todo : Confirms(k)
    BY <1>1 DEF CloseRaises
  <2>2. /\ pc = "closing" /\ pc' = "asleep" /\ closed' = {}
        /\ UNCHANGED <<openPairs, spreads, layers>>
    BY <1>1 DEF CloseRaises, TickOver
  <2>3. k \in openPairs /\ k \in Keys
    BY <2>1, <2>2 DEF Book, PassesAgree, TypeOK
  <2>4. /\ \A j \in Keys : j # k => confirm'[j] = confirm[j] /\ seenClose'[j] = seenClose[j]
        /\ confirm'[k] = Counted(confirm[k]) /\ seenClose'[k] = Counted(seenClose[k])
    BY <2>1, <2>3 DEF Confirms, TypeOK
  <2>5. confirm'[k] <= seenClose'[k]
    <3>1. confirm[k] \in 0 .. 2 /\ seenClose[k] \in 0 .. 2 /\ confirm[k] <= seenClose[k]
      BY <2>3 DEF TypeOK, Book, PassesAgree
    <3>2. QED
      BY <2>4, <3>1 DEF Counted
  <2>6. Bookkeeping' /\ OnePairPerSymbol'
    BY <2>2, <2>3, <2>4 DEF Book, Bookkeeping, OnePairPerSymbol
  <2>7. PassesAgree'
    BY <2>2, <2>4, <2>5 DEF Book, PassesAgree
  <2>8. QED
    BY <2>6, <2>7 DEF Book
<1>2. CASE DcaRaises \/ OpenRaises \/ GuardRaises \/ TickRaises
  BY <1>2, QuietStep DEF DcaRaises, OpenRaises, GuardRaises, TickRaises, TickOver, memory
<1>3. QED
  BY <1>1, <1>2 DEF Raises

LEMMA BookStep ==
  ASSUME TypeOK, Book, [Next]_vars
  PROVE  Book'
<1>1. CASE Next
  BY <1>1, RestoreBook, CrashBook, IdleBook, StartBook, CheckBook, EndClosingBook,
     DcaBook, EndDcaBook, OpenStepBook, GuardBook, RaisesBook DEF Next, Trader
<1>2. CASE UNCHANGED vars
  BY <1>2 DEF vars, world, control, memory, history, Book, Bookkeeping, OnePairPerSymbol,
     PassesAgree
<1>3. QED
  BY <1>1, <1>2

-----------------------------------------------------------------------------
\* Which steps send which calls.

LEMMA CallSent ==
  ASSUME NEW kind, NEW k, NEW n, NEW answer, Calls(kind, k, n, answer)
  PROVE  sent'.kind = kind /\ sent'.key = k
BY DEF Calls

LEMMA SilentSteps ==
  ASSUME \/ Restore \/ Crash \/ MarketMoves \/ GoesLive \/ IdleTick \/ StartTick
         \/ EndClosing \/ EndDca \/ GuardPasses \/ EndTick \/ TickRaises
  PROVE  sent'.kind = "none"
<1>1. sent' = NoCall
  BY DEF Restore, Crash, MarketMoves, GoesLive, IdleTick, StartTick, EndClosing, EndDca,
         GuardPasses, EndTick, TickRaises
<1>2. QED
  BY <1>1 DEF NoCall

LEMMA CloseSteps ==
  ASSUME TypeOK, CloseStep \/ CloseRaises
  PROVE  \/ sent'.kind = "none"
         \/ /\ sent'.kind = "close"
            /\ \E k \in Keys : sent'.key = k /\ Confirms(k) /\ Counted(confirm[k]) = 2
<1>1. ASSUME NEW k \in todo, NEW answer, Calls("close", k, 0, answer), Confirms(k),
             Counted(confirm[k]) = 2
      PROVE  /\ sent'.kind = "close"
             /\ \E j \in Keys : sent'.key = j /\ Confirms(j) /\ Counted(confirm[j]) = 2
  BY <1>1, CallSent DEF TypeOK
<1>2. CASE CloseStep
  <2>1. PICK k \in todo : CheckSkipped(k) \/ CheckApart(k) \/ CheckConverged(k) \/ Close(k)
    BY <1>2 DEF CloseStep
  <2>2. CASE CheckSkipped(k) \/ CheckApart(k) \/ CheckConverged(k)
    BY <2>2 DEF CheckSkipped, CheckApart, CheckConverged, NoCall
  <2>3. CASE Close(k)
    BY <1>1, <2>3 DEF Close
  <2>4. QED
    BY <2>1, <2>2, <2>3
<1>3. CASE CloseRaises
  BY <1>1, <1>3 DEF CloseRaises
<1>4. QED
  BY <1>2, <1>3

LEMMA DcaAndGuardSteps ==
  ASSUME DcaStep \/ DcaRaises \/ GuardCloses \/ GuardRaises
  PROVE  sent'.kind \in {"none", "dca", "guard"}
<1>1. CASE DcaStep
  BY <1>1, CallSent DEF DcaStep, DcaSkipped, Accumulate, NoCall
<1>2. CASE DcaRaises
  BY <1>2, CallSent DEF DcaRaises
<1>3. CASE GuardCloses
  BY <1>3, CallSent DEF GuardCloses
<1>4. CASE GuardRaises
  BY <1>4, CallSent DEF GuardRaises
<1>5. QED
  BY <1>1, <1>2, <1>3, <1>4

LEMMA OpenSteps ==
  ASSUME TypeOK, OpenStep \/ OpenRaises
  PROVE  \/ sent'.kind = "none"
         \/ /\ sent'.kind = "open" /\ pc = "opening"
            /\ \E k \in Keys : sent'.key = k /\ MayOpen(k)
<1>1. CASE OpenStep
  <2>1. PICK k \in candidates : OpenSkipped \/ Opened(k) \/ NotOpened(k)
    BY <1>1 DEF OpenStep
  <2>2. CASE OpenSkipped
    BY <2>2 DEF OpenSkipped, NoCall
  <2>3. CASE Opened(k) \/ NotOpened(k)
    <3>1. PICK answer : Calls("open", k, 1, answer)
      BY <2>3 DEF Opened, NotOpened
    <3>2. MayOpen(k)
      BY <2>3 DEF Opened, NotOpened
    <3>3. QED
      BY <1>1, <3>1, <3>2, CallSent DEF OpenStep, TypeOK
  <2>4. QED
    BY <2>1, <2>2, <2>3
<1>2. CASE OpenRaises
  <2>1. PICK k, answer : k \in candidates /\ MayOpen(k) /\ Calls("open", k, 1, answer)
    BY <1>2 DEF OpenRaises
  <2>2. QED
    BY <1>2, <2>1, CallSent DEF OpenRaises, TypeOK
<1>3. QED
  BY <1>1, <1>2

-----------------------------------------------------------------------------
\* Theorems.

LEMMA Inductive == Spec => [](TypeOK /\ Book)
<1>1. Init => TypeOK /\ Book
  BY TypeInit, BookInit
<1>2. TypeOK /\ Book /\ [Next]_vars => (TypeOK /\ Book)'
  BY TypeStep, BookStep DEF Book
<1>3. QED
  BY <1>1, <1>2, PTL DEF Spec

\* Every reachable state of live_auto_trader.py's trader is well typed: no pass
\* leaves a count negative or a pair that is not one of two different exchanges.
THEOREM TraderTypes == Spec => []TypeOK
BY Inductive, PTL

\* The dictionaries of the trader never speak of a pair it does not track.
THEOREM BookkeepingHolds == Spec => []Bookkeeping
<1>1. TypeOK /\ Book => Bookkeeping
  BY DEF Book
<1>2. QED
  BY <1>1, Inductive, PTL

\* The trader never tracks two pairs of one symbol, whatever a restart finds.
THEOREM OnePairPerSymbolHolds == Spec => []OnePairPerSymbol
<1>1. TypeOK /\ Book => OnePairPerSymbol
  BY DEF Book
<1>2. QED
  BY <1>1, Inductive, PTL

\* What the passes read before they await stays true of the book.
THEOREM PassesAgreeHolds == Spec => []PassesAgree
<1>1. TypeOK /\ Book => PassesAgree
  BY DEF Book
<1>2. QED
  BY <1>1, Inductive, PTL

\* An open is sent only below MaxPos tracked pairs and for an untracked symbol.
THEOREM OpensStayWithinLimits == Spec => OpensWithinLimits
<1>1. ASSUME TypeOK, Book, [Next]_vars
      PROVE  [sent'.kind = "open"
                => /\ Cardinality(openPairs) < MaxPos
                   /\ \A k \in openPairs : Symbol(k) # Symbol(sent'.key)]_vars
  <2>1. CASE OpenStep \/ OpenRaises
    <3>1. SUFFICES ASSUME sent'.kind = "open"
                   PROVE  /\ Cardinality(openPairs) < MaxPos
                          /\ \A k \in openPairs : Symbol(k) # Symbol(sent'.key)
      OBVIOUS
    <3>2. PICK k \in Keys : pc = "opening" /\ sent'.key = k /\ MayOpen(k)
      BY <2>1, <3>1, <1>1, OpenSteps
    <3>3. QED
      BY <1>1, <3>2, OpenFresh
  <2>2. CASE CloseStep \/ CloseRaises
    <3>1. sent'.kind \in {"none", "close"}
      BY <1>1, <2>2, CloseSteps
    <3>2. QED
      BY <3>1
  <2>3. CASE DcaStep \/ DcaRaises \/ GuardCloses \/ GuardRaises
    <3>1. sent'.kind \in {"none", "dca", "guard"}
      BY <2>3, DcaAndGuardSteps
    <3>2. QED
      BY <3>1
  <2>4. CASE \/ Restore \/ Crash \/ MarketMoves \/ GoesLive \/ IdleTick \/ StartTick
             \/ EndClosing \/ EndDca \/ GuardPasses \/ EndTick \/ TickRaises
    <3>1. sent'.kind = "none"
      BY <2>4, SilentSteps
    <3>2. QED
      BY <3>1
  <2>5. QED
    BY <1>1, <2>1, <2>2, <2>3, <2>4 DEF Next, Trader, Raises
<1>2. QED
  BY <1>1, Inductive, PTL DEF Spec, OpensWithinLimits
=============================================================================
