--------------------- MODULE HedgedKeepsContractProofs ---------------------
(***************************************************************************)
(* The executor keeps the contract its callers are modelled with, for any  *)
(* number of callers, any sizes and lots and every combination of faults:  *)
(* what is proved of the auto trader from the contract holds of the code.  *)
(***************************************************************************)
EXTENDS HedgedKeepsContract, HedgedExecutionProofs

\* What a read of the position p may show.
Sights(p) == {p} \cup Contract!When("blind", {0})

\* The legs as c's call found them, and what it asked for.
StartShort(c) == from[c][Short(c)]
StartLong(c) == from[c][Long(c)]

ShortDone(c) == \E k \in Contract!Fills(Size(c)) : pos[Short(c)] = StartShort(c) - k
Planned(c) == IF mem[c].filled = 0 THEN Size(c) ELSE mem[c].filled
Raised(n) == Contract!When("reject", {0}) \cup Contract!When("lost", Contract!Fills(n))
LongDone(c, amounts) == \E m \in amounts : pos[Long(c)] = StartLong(c) + m
LegDone(ok, before, after) == [ok |-> ok, rest |-> after] \in Contract!LegCloses(before)

\* Where an entering call stands between its first await and its answer, as the
\* contract tells it.
Entering(c) ==
  /\ Size(c) # 0 /\ Whole(Short(c), StartShort(c))
  /\ pc[c] \in {"read_before_short", "send_short"} => pos[Short(c)] = StartShort(c)
  /\ pc[c] \in EnterPCs \ {"read_before_short", "send_short"} => ShortDone(c)
  /\ pc[c] \in {"read_before_short", "send_short", "read_after_short",
                "read_before_long", "send_long"} => pos[Long(c)] = StartLong(c)
  /\ pc[c] \in {"send_short", "read_after_short"} => mem[c].before \in Contract!Looks(StartShort(c))
  /\ pc[c] \in {"read_before_long", "send_long", "read_after_long",
                "rollback_find", "rollback_close"} =>
       mem[c].filled \in Contract!Measured(StartShort(c), pos[Short(c)])
  /\ pc[c] \in {"send_long", "read_after_long"} => mem[c].beforeLong \in Contract!Looks(StartLong(c))
  /\ pc[c] = "read_after_long" => LongDone(c, Contract!Fills(Planned(c)))
  /\ pc[c] \in {"rollback_find", "rollback_close"} =>
       mem[c].filled > 0 /\ LongDone(c, Raised(mem[c].filled))
  /\ pc[c] = "rollback_close" => mem[c].shortLeg = pos[Short(c)] /\ mem[c].shortLeg # 0

\* The same for a call that closes everything.
Closing(c) ==
  /\ pc[c] \in {"find_short", "find_long", "close_short"} => pos[Short(c)] = StartShort(c)
  /\ pc[c] \in {"find_short", "find_long", "close_short", "close_long"} =>
       pos[Long(c)] = StartLong(c)
  /\ pc[c] \in {"find_long", "close_short"} => mem[c].shortLeg \in Sights(StartShort(c))
  /\ pc[c] \in {"close_short", "close_long"} => mem[c].longLeg \in Sights(StartLong(c))
  /\ pc[c] \in ExitPCs \ {"find_short", "find_long"} => StartShort(c) # 0 \/ StartLong(c) # 0
  /\ pc[c] \in {"close_long", "read_short_after", "read_long_after"} =>
       LegDone(mem[c].shortOk, StartShort(c), pos[Short(c)])
  /\ pc[c] \in {"read_short_after", "read_long_after"} =>
       LegDone(mem[c].longOk, StartLong(c), pos[Long(c)])
  /\ pc[c] = "read_long_after" => mem[c].shortAfter \in Contract!Looks(pos[Short(c)])

OnCourse(c) ==
  /\ pc[c] \in EnterPCs => Entering(c)
  /\ pc[c] \in ExitPCs /\ req[c].percent = 100 => Closing(c)

AllOnCourse == \A c \in Live : alone[c] => OnCourse(c)

ContractTypeOK ==
  /\ from \in [Live -> [Exchanges -> Int]]
  /\ alone \in [Live -> BOOLEAN]

ContractInv ==
  ContractTypeOK /\ \A c \in Live : alone[c] /\ pc[c] # "idle" => OnCourse(c)

-----------------------------------------------------------------------------
\* What the contract allows.

LEMMA SameMagnitude == \A n : Contract!Magnitude(n) = Abs(n)
BY DEF Contract!Magnitude, Abs

LEMMA Looked ==
  \A p : Contract!Looks(p) = {Abs(p)} \cup Contract!When("blind", {0})
BY SameMagnitude DEF Contract!Looks

LEMMA SeenLooks ==
  ASSUME NEW e, NEW seen \in Seen(e)
  PROVE  seen \in Sights(pos[e]) /\ Abs(seen) \in Contract!Looks(pos[e])
<1>1. Abs(0) = 0
  BY DEF Abs
<1>2. QED
  BY <1>1, Looked DEF Seen, Sights, Contract!When

LEMMA LooksMeasure ==
  ASSUME NEW p, NEW q, NEW b \in Contract!Looks(p), NEW a \in Contract!Looks(q)
  PROVE  Abs(a - b) \in Contract!Measured(p, q)
<1>1. Contract!Magnitude(a - b) \in Contract!Measured(p, q)
  BY DEF Contract!Measured
<1>2. QED
  BY <1>1, SameMagnitude

LEMMA MeasuredType ==
  ASSUME NEW p \in Int, NEW q \in Int, NEW s \in Contract!Measured(p, q)
  PROVE  s \in Nat /\ \E b \in Contract!Looks(p), a \in Contract!Looks(q) : s = Abs(a - b)
<1>1. \A n \in Int : Abs(n) \in Nat
  BY DEF Abs
<1>2. PICK b \in Contract!Looks(p), a \in Contract!Looks(q) : s = Contract!Magnitude(a - b)
  BY DEF Contract!Measured
<1>3. s = Abs(a - b)
  BY <1>2, SameMagnitude
<1>4. a \in Int /\ b \in Int
  BY <1>1, Looked DEF Contract!When
<1>5. a - b \in Int
  BY <1>4
<1>6. QED
  BY <1>1, <1>3, <1>5

LEMMA SomethingMeasured ==
  ASSUME NEW p, NEW q
  PROVE  \E s : s \in Contract!Measured(p, q)
<1>1. Abs(p) \in Contract!Looks(p) /\ Abs(q) \in Contract!Looks(q)
  BY Looked
<1>2. QED
  BY <1>1, LooksMeasure

LEMMA LotsFill ==
  ASSUME NEW n, NEW e, NEW k \in Lots(n, e, "part_open")
  PROVE  k \in Contract!Fills(n)
BY DEF Lots, Contract!Fills, Contract!When

LEMMA FillsType ==
  ASSUME NEW n \in Nat, NEW k \in Contract!Fills(n)
  PROVE  k \in Nat /\ ("part_open" \notin Faults => k = n)
BY DEF Contract!Fills, Contract!When

LEMMA WholeFills == \A n : n \in Contract!Fills(n)
BY DEF Contract!Fills

\* The answers of an entering call, by how far it got.
LEMMA AnswersAfterFill ==
  ASSUME NEW short, NEW long, NEW n, NEW k \in Contract!Fills(n),
         NEW s \in Contract!Measured(short, short - k),
         NEW x \in Contract!AnswersAfterShort(short - k, long, n, s)
  PROVE  x \in Contract!EnterAnswers(Contract!Hedge(short, long), n)
<1> DEFINE h == Contract!Hedge(short, long)
<1>1. h.short = short /\ h.long = long
  BY DEF Contract!Hedge
<1>2. x \in UNION {Contract!AnswersAfterShort(h.short - k, h.long, n, t) :
                     t \in Contract!Measured(h.short, h.short - k)}
  BY <1>1
<1>3. x \in UNION {UNION {Contract!AnswersAfterShort(h.short - j, h.long, n, t) :
                            t \in Contract!Measured(h.short, h.short - j)} :
                     j \in Contract!Fills(n)}
  BY <1>2
<1> HIDE DEF h
<1>4. x \in Contract!EnterAnswers(h, n)
  BY <1>3 DEF Contract!EnterAnswers
<1>5. QED
  BY <1>4 DEF h

LEMMA EarlyAnswers ==
  ASSUME NEW short, NEW long, NEW n
  PROVE  LET answers == Contract!EnterAnswers(Contract!Hedge(short, long), n)
         IN  /\ Contract!Answer("failed", short, long) \in answers
             /\ "lost" \in Faults => Contract!Answer("failed", short - n, long) \in answers
             /\ "abort" \in Faults => Contract!Answer("raised", short, long) \in answers
<1> DEFINE h == Contract!Hedge(short, long)
<1>1. h.short = short /\ h.long = long
  BY DEF Contract!Hedge
<1> HIDE DEF h
<1>2. /\ Contract!Answer("failed", h.short, h.long) \in Contract!EnterAnswers(h, n)
      /\ "lost" \in Faults =>
           Contract!Answer("failed", h.short - n, h.long) \in Contract!EnterAnswers(h, n)
      /\ "abort" \in Faults =>
           Contract!Answer("raised", h.short, h.long) \in Contract!EnterAnswers(h, n)
  BY DEF Contract!EnterAnswers, Contract!When
<1>3. QED
  BY <1>1, <1>2 DEF h

LEMMA AnswersAfterLong ==
  ASSUME NEW short, NEW long, NEW n, NEW s
  PROVE  LET amount == IF s = 0 THEN n ELSE s
             answers == Contract!AnswersAfterShort(short, long, n, s)
         IN  /\ "abort" \in Faults => Contract!Answer("raised", short, long) \in answers
             /\ \A m \in Contract!Fills(amount) :
                  Contract!LongAnswers(short, long, s, m) \subseteq answers
             /\ \A m \in Raised(amount) :
                  Contract!LongRaisedAnswers(short, long, s, m) \subseteq answers
<1> DEFINE amount == IF s = 0 THEN n ELSE s
           fills == UNION {Contract!LongAnswers(short, long, s, m) : m \in Contract!Fills(amount)}
           raises == UNION {Contract!LongRaisedAnswers(short, long, s, m) : m \in Raised(amount)}
<1>1. Contract!AnswersAfterShort(short, long, n, s)
        = (Contract!When("abort", {Contract!Answer("raised", short, long)}) \cup fills) \cup raises
  BY DEF Contract!AnswersAfterShort, Raised
<1>2. /\ \A m \in Contract!Fills(amount) :
           Contract!LongAnswers(short, long, s, m) \subseteq fills
      /\ \A m \in Raised(amount) :
           Contract!LongRaisedAnswers(short, long, s, m) \subseteq raises
  OBVIOUS
<1>3. "abort" \in Faults => Contract!Answer("raised", short, long)
                              \in Contract!When("abort", {Contract!Answer("raised", short, long)})
  BY DEF Contract!When
<1> HIDE DEF fills, raises
<1>4. QED
  BY <1>1, <1>2, <1>3

LEMMA AnswersOfLong ==
  ASSUME NEW short, NEW long, NEW s, NEW m
  PROVE  LET answers == Contract!LongAnswers(short, long, s, m)
         IN  /\ \A l \in Contract!Measured(long, long + m) :
                  Contract!Answer(Contract!Entered(s, l), short, long + m) \in answers
             /\ "abort" \in Faults => Contract!Answer("raised", short, long + m) \in answers
BY DEF Contract!LongAnswers, Contract!When

LEMMA AnswersOfRollback ==
  ASSUME NEW short, NEW long, NEW ok, NEW rest, LegDone(ok, short, rest)
  PROVE  Contract!Answer(IF ok THEN "rolled_back" ELSE "failed", rest, long)
           \in Contract!RollbackAnswers(short, long)
<1> DEFINE close == [ok |-> ok, rest |-> rest]
<1>1. close \in Contract!LegCloses(short) /\ close.ok = ok /\ close.rest = rest
  BY DEF LegDone
<1> HIDE DEF close
<1>2. Contract!Answer(IF close.ok THEN "rolled_back" ELSE "failed", close.rest, long)
        \in Contract!RollbackAnswers(short, long)
  BY <1>1 DEF Contract!RollbackAnswers
<1>3. QED
  BY <1>1, <1>2

\* The answers of a close.
LEMMA AnswersOfClose ==
  ASSUME NEW short \in Int, NEW long \in Int, short # 0 \/ long # 0,
         NEW okA, NEW restA, LegDone(okA, short, restA),
         NEW okB, NEW restB, LegDone(okB, long, restB)
  PROVE  LET answers == Contract!CloseAnswers(Contract!Hedge(short, long))
             a == [ok |-> okA, rest |-> restA]
             b == [ok |-> okB, rest |-> restB]
         IN  /\ \A status \in Contract!Exited(a, b) :
                  Contract!Answer(status, restA, restB) \in answers
             /\ "abort" \in Faults =>
                  /\ Contract!Answer("raised", restA, restB) \in answers
                  /\ Contract!Answer("raised", restA, long) \in answers
                  /\ Contract!Answer("raised", short, long) \in answers
             /\ "blind" \in Faults => Contract!Answer("failed", short, long) \in answers
<1> DEFINE h == Contract!Hedge(short, long)
           a == [ok |-> okA, rest |-> restA]
           b == [ok |-> okB, rest |-> restB]
           closings == UNION {Contract!Closings(h, x, y) :
                                x \in Contract!LegCloses(h.short), y \in Contract!LegCloses(h.long)}
<1>1. h.short = short /\ h.long = long
  BY DEF Contract!Hedge
<1>2. a \in Contract!LegCloses(short) /\ b \in Contract!LegCloses(long)
  BY DEF LegDone
<1>3. a.rest = restA /\ b.rest = restB
  OBVIOUS
<1> HIDE DEF h, a, b
<1>4. \A x \in Contract!Closings(h, a, b) : x \in closings
  BY <1>1, <1>2
<1>5. Contract!CloseAnswers(h)
        = closings \cup Contract!When("blind", {Contract!Answer("failed", h.short, h.long)})
  BY <1>1 DEF Contract!CloseAnswers
<1> HIDE DEF closings
<1>6. \A status \in Contract!Exited(a, b) :
        Contract!Answer(status, a.rest, b.rest) \in Contract!Closings(h, a, b)
  BY DEF Contract!Closings
<1>7. "abort" \in Faults =>
        /\ Contract!Answer("raised", a.rest, b.rest) \in Contract!Closings(h, a, b)
        /\ Contract!Answer("raised", a.rest, h.long) \in Contract!Closings(h, a, b)
        /\ Contract!Answer("raised", h.short, h.long) \in Contract!Closings(h, a, b)
  BY DEF Contract!Closings, Contract!When
<1>8. "blind" \in Faults => Contract!Answer("failed", h.short, h.long)
                              \in Contract!When("blind", {Contract!Answer("failed", h.short, h.long)})
  BY DEF Contract!When
<1>9. /\ \A status \in Contract!Exited(a, b) :
           Contract!Answer(status, restA, restB) \in Contract!CloseAnswers(h)
      /\ "abort" \in Faults =>
           /\ Contract!Answer("raised", restA, restB) \in Contract!CloseAnswers(h)
           /\ Contract!Answer("raised", restA, long) \in Contract!CloseAnswers(h)
           /\ Contract!Answer("raised", short, long) \in Contract!CloseAnswers(h)
      /\ "blind" \in Faults => Contract!Answer("failed", short, long) \in Contract!CloseAnswers(h)
  BY <1>1, <1>3, <1>4, <1>5, <1>6, <1>7, <1>8
<1>10. QED
  BY <1>9 DEF h, a, b

LEMMA SomeClose == \A p : LegDone(TRUE, p, 0)
BY DEF LegDone, Contract!LegCloses

\* The answers of a call to close a pair of which nothing is seen.
LEMMA AnswersOfNothing ==
  ASSUME NEW short \in Int, NEW long \in Int, 0 \in Sights(short), 0 \in Sights(long)
  PROVE  Contract!Answer("failed", short, long)
           \in Contract!CloseAnswers(Contract!Hedge(short, long))
<1> DEFINE h == Contract!Hedge(short, long)
<1>1. h.short = short /\ h.long = long
  BY DEF Contract!Hedge
<1>2. CASE short = 0 /\ long = 0
  <2> HIDE DEF h
  <2>1. Contract!Answer("failed", 0, 0) \in Contract!CloseAnswers(h)
    BY <1>1, <1>2 DEF Contract!CloseAnswers
  <2>2. QED
    BY <1>2, <2>1 DEF h
<1>3. CASE short # 0 \/ long # 0
  <2>1. "blind" \in Faults
    BY <1>3 DEF Sights, Contract!When
  <2>2. QED
    BY <1>3, <2>1, SomeClose, AnswersOfClose
<1>4. QED
  BY <1>2, <1>3

LEMMA AnswersAborted ==
  ASSUME NEW short \in Int, NEW long \in Int, "abort" \in Faults
  PROVE  Contract!Answer("raised", short, long)
           \in Contract!CloseAnswers(Contract!Hedge(short, long))
<1> DEFINE h == Contract!Hedge(short, long)
<1>1. h.short = short /\ h.long = long
  BY DEF Contract!Hedge
<1>2. CASE short = 0 /\ long = 0
  <2> HIDE DEF h
  <2>1. Contract!Answer("raised", 0, 0) \in Contract!CloseAnswers(h)
    BY <1>1, <1>2 DEF Contract!CloseAnswers, Contract!When
  <2>2. QED
    BY <1>2, <2>1 DEF h
<1>3. CASE short # 0 \/ long # 0
  BY <1>3, SomeClose, AnswersOfClose
<1>4. QED
  BY <1>2, <1>3

-----------------------------------------------------------------------------
\* The history.

LEMMA OwnHistory ==
  ASSUME ContractTypeOK, KeepFrom, KeepAlone, NEW c \in Live, pc[c] # "idle"
  PROVE  from'[c] = from[c] /\ (alone'[c] => alone[c] /\ ~Disturbed(c))
<1>1. ~Begins(c)
  BY DEF Begins
<1>2. QED
  BY <1>1 DEF KeepFrom, KeepAlone

LEMMA HistoryType ==
  ASSUME TypeOK, ContractTypeOK, KeepFrom, KeepAlone
  PROVE  ContractTypeOK'
<1>1. pos \in [Exchanges -> Int]
  BY DEF TypeOK, LedgerTypeOK
<1>2. from' \in [Live -> [Exchanges -> Int]]
  BY <1>1 DEF KeepFrom, ContractTypeOK
<1>3. \A c \in Live : (Begins(c) \/ (alone[c] /\ ~Disturbed(c))) \in BOOLEAN
  OBVIOUS
<1>4. alone' \in [Live -> BOOLEAN]
  BY <1>3, Zenon DEF KeepAlone
<1>5. QED
  BY <1>2, <1>4 DEF ContractTypeOK

\* The positions and the size of a running call of a live caller.
LEMMA CourseType ==
  ASSUME TypeOK, ContractTypeOK, NEW c \in Live, pc[c] # "idle"
  PROVE  /\ c \in Callers /\ c \notin DryRun
         /\ Short(c) \in Exchanges /\ Long(c) \in Exchanges /\ Short(c) # Long(c)
         /\ StartShort(c) \in Int /\ StartLong(c) \in Int
         /\ pos[Short(c)] \in Int /\ pos[Long(c)] \in Int
         /\ mem[c] \in Locals
         /\ pc[c] \in EnterPCs => Size(c) \in Nat
<1>1. c \in Callers /\ c \notin DryRun
  BY DEF Live
<1>2. /\ Short(c) \in Exchanges /\ Long(c) \in Exchanges /\ Short(c) # Long(c)
      /\ pc[c] \in EnterPCs => Size(c) \in Nat
  BY <1>1, CallType
<1>3. pos \in [Exchanges -> Int] /\ from[c] \in [Exchanges -> Int] /\ mem[c] \in Locals
  BY <1>1 DEF TypeOK, ControlTypeOK, LedgerTypeOK, ContractTypeOK
<1>4. QED
  BY <1>1, <1>2, <1>3 DEF StartShort, StartLong

\* A step that goes on keeps the call's request and its start.
LEMMA GoesOn ==
  ASSUME TypeOK, NEW c \in Callers, from'[c] = from[c], NEW x, NEW label,
         Remember(c, x, label)
  PROVE  /\ pc'[c] = label /\ mem'[c] = x /\ req'[c] = req[c]
         /\ Short(c)' = Short(c) /\ Long(c)' = Long(c) /\ Size(c)' = Size(c)
         /\ StartShort(c)' = StartShort(c) /\ StartLong(c)' = StartLong(c)
<1>1. /\ pc'[c] = label /\ mem'[c] = x /\ req' = req
      /\ Short(c)' = Short(c) /\ Long(c)' = Long(c)
  BY OwnRemember DEF Remember
<1>2. Size(c)' = Size(c)
  BY <1>1 DEF Size, Harmonized, Floored, CommonStep
<1>3. QED
  BY <1>1, <1>2 DEF StartShort, StartLong

\* What a step of another caller leaves to a call it does not disturb.
LEMMA OthersKeepCourse ==
  ASSUME TypeOK, NEW c \in Live, pc[c] # "idle", from'[c] = from[c],
         pc'[c] = pc[c], req'[c] = req[c], mem'[c] = mem[c],
         ~Disturbed(c), OnCourse(c)
  PROVE  OnCourse(c)'
<1>1. pos'[Short(c)] = pos[Short(c)] /\ pos'[Long(c)] = pos[Long(c)]
  BY DEF Disturbed
<1>2. Short(c)' = Short(c) /\ Long(c)' = Long(c)
  BY DEF Short, Long
<1>3. Size(c)' = Size(c)
  BY <1>2 DEF Size, Harmonized, Floored, CommonStep
<1>4. StartShort(c)' = StartShort(c) /\ StartLong(c)' = StartLong(c)
  BY <1>2 DEF StartShort, StartLong
<1>5. Planned(c)' = Planned(c) /\ Raised(mem[c].filled)' = Raised(mem[c].filled)
  BY <1>3 DEF Planned, Raised
<1>6. Entering(c) => Entering(c)'
  BY <1>1, <1>2, <1>3, <1>4, <1>5 DEF Entering, ShortDone, LongDone, Whole
<1>7. Closing(c) => Closing(c)'
  BY <1>1, <1>2, <1>4 DEF Closing, LegDone
<1>8. QED
  BY <1>6, <1>7 DEF OnCourse

\* An order on one leg of a call.
LEMMA OwnMove ==
  ASSUME TypeOK, NEW c, NEW e \in Exchanges, NEW change, NEW deceived,
         Executes(c, e, change, deceived)
  PROVE  pos'[e] = pos[e] + change /\ \A f \in Exchanges : f # e => pos'[f] = pos[f]
BY DEF Executes, TypeOK, LedgerTypeOK

-----------------------------------------------------------------------------
\* The orders of a call.

\* A call that goes on to its orders asks for something.
LEMMA NothingIsRejected ==
  ASSUME NEW c, NEW r, Harmonized(r.size, r.legs[1], r.legs[2]) = 0
  PROVE  EnterRejection(c, r) # ""
BY DEF EnterRejection

\* Positions are whole lots, and so is what two reads of one differ by.
LEMMA MeasuredWhole ==
  ASSUME NEW e \in Exchanges, NEW p, NEW q, Whole(e, p), Whole(e, q),
         NEW s \in Contract!Measured(p, q)
  PROVE  Whole(e, s)
<1>1. p \in Int /\ q \in Int
  BY WholeSums
<1>2. PICK b \in Contract!Looks(p), a \in Contract!Looks(q) : s = Abs(a - b)
  BY <1>1, MeasuredType
<1>3. ASSUME NEW n, Whole(e, n) PROVE \A x \in Contract!Looks(n) : Whole(e, x)
  <2>1. Whole(e, Abs(n)) /\ Whole(e, 0)
    BY <1>3, WholeSums, WholeZero
  <2>2. QED
    BY <2>1, Looked DEF Contract!When
<1>4. Whole(e, a - b)
  BY <1>2, <1>3, WholeSums
<1>5. QED
  BY <1>2, <1>4, WholeSums

\* The long order is one the contract allows: after an enlarged or a shrunk
\* measurement too.
LEMMA LongOrderAllowed ==
  ASSUME TypeOK, ContractTypeOK, WholeLots, NEW c \in Live, pc[c] = "send_long", Entering(c)
  PROVE  /\ LongAmount(c) \in Contract!Fills(Planned(c))
         /\ \A k \in Lots(LongAmount(c), Long(c), "part_open") : k \in Contract!Fills(Planned(c))
         /\ LongAmount(c) = 0 => "reject" \in Faults
<1>1. pc[c] \in EnterPCs /\ pc[c] # "idle"
  BY DEF EnterPCs
<1>2. /\ Short(c) \in Exchanges /\ Long(c) \in Exchanges /\ Size(c) \in Nat /\ mem[c] \in Locals /\ c \in Callers
      /\ LotStep[Long(c)] \in Nat \ {0}
  BY <1>1, CourseType, ExchangesAssumption
<1>3. mem[c].filled \in Nat
  BY <1>2 DEF Locals
<1>4. CASE mem[c].filled = 0
  <2>1. LongAmount(c) = Size(c) /\ Planned(c) = Size(c) /\ Size(c) # 0
    BY <1>4 DEF LongAmount, Planned, Entering
  <2>2. QED
    BY <2>1, LotsFill, WholeFills
<1>5. CASE mem[c].filled # 0
  <2>1. /\ LongAmount(c) = Floored(mem[c].filled, LotStep[Long(c)])
        /\ Planned(c) = mem[c].filled
    BY <1>3, <1>5 DEF LongAmount, Planned
  <2>2. LongAmount(c) \in Nat /\ LongAmount(c) <= mem[c].filled
    BY <1>2, <1>3, <2>1, FlooredBelow
  <2>3. CASE {"reject", "part_open"} \subseteq Faults
    <3>1. \A k \in 0 .. mem[c].filled : k \in Contract!Fills(Planned(c))
      BY <2>1, <2>3 DEF Contract!Fills, Contract!When
    <3>2. \A k \in Lots(LongAmount(c), Long(c), "part_open") : k \in Nat /\ k <= LongAmount(c)
      BY <2>2, LotsType
    <3>3. QED
      BY <1>3, <2>2, <2>3, <3>1, <3>2
  <2>4. CASE \A e, f \in Exchanges : LotStep[e] = LotStep[f]
    <3>1. Whole(Short(c), StartShort(c)) /\ Whole(Short(c), pos[Short(c)])
      BY <1>2 DEF Entering, WholeLots
    <3>2. Whole(Short(c), mem[c].filled)
      BY <1>1, <1>2, <3>1, MeasuredWhole DEF Entering
    <3>3. Whole(Long(c), mem[c].filled)
      BY <1>2, <2>4, <3>2 DEF Whole
    <3>4. LongAmount(c) = mem[c].filled
      BY <1>2, <1>3, <2>1, <3>3, FlooredWhole
    <3>5. QED
      BY <1>5, <2>1, <3>4, LotsFill, WholeFills
  <2>5. QED
    BY <2>3, <2>4, ContractAssumption
<1>6. QED
  BY <1>4, <1>5

\* What closing the leg that is there leaves, as the contract counts it.
LEMMA CloseOfLeg ==
  ASSUME TypeOK, NEW c, NEW e \in Exchanges, pos[e] # 0, NEW k \in Nat, k <= Abs(pos[e]),
         NEW deceived, Closes(c, e, pos[e], k, deceived)
  PROVE  /\ k = Abs(pos[e]) => pos'[e] = 0
         /\ pos'[e] \in IF pos[e] < 0 THEN pos[e] .. 0 ELSE 0 .. pos[e]
         /\ \A f \in Exchanges : f # e => pos'[f] = pos[f]
<1>1. pos[e] \in Int
  BY DEF TypeOK, LedgerTypeOK
<1>2. /\ pos'[e] = pos[e] + (IF pos[e] < 0 THEN k ELSE -k)
      /\ \A f \in Exchanges : f # e => pos'[f] = pos[f]
  BY OwnMove DEF Closes
<1>3. QED
  BY <1>1, <1>2 DEF Abs

LEMMA LegClosed ==
  ASSUME TypeOK, NEW c, NEW e \in Exchanges, pos[e] # 0,
         NEW k \in Lots(Abs(pos[e]), e, "part_close"), NEW deceived,
         Closes(c, e, pos[e], k, deceived)
  PROVE  LegDone(TRUE, pos[e], pos'[e]) /\ \A f \in Exchanges : f # e => pos'[f] = pos[f]
<1>1. Abs(pos[e]) \in Nat /\ k \in Nat /\ k <= Abs(pos[e])
  <2>1. Abs(pos[e]) \in Nat
    BY DEF TypeOK, LedgerTypeOK, Abs
  <2>2. QED
    BY <2>1, LotsType
<1>2. /\ k = Abs(pos[e]) => pos'[e] = 0
      /\ pos'[e] \in IF pos[e] < 0 THEN pos[e] .. 0 ELSE 0 .. pos[e]
      /\ \A f \in Exchanges : f # e => pos'[f] = pos[f]
  BY <1>1, CloseOfLeg
<1>3. k = Abs(pos[e]) \/ "part_close" \in Faults
  BY DEF Lots
<1>4. CASE pos'[e] = 0
  BY <1>2, <1>4, SomeClose
<1>5. CASE "part_close" \in Faults
  BY <1>2, <1>5 DEF LegDone, Contract!LegCloses, Contract!When
<1>6. QED
  BY <1>2, <1>3, <1>4, <1>5

LEMMA LegClosedLost ==
  ASSUME TypeOK, NEW c, NEW e \in Exchanges, pos[e] # 0, "lost" \in Faults, NEW deceived,
         Closes(c, e, pos[e], Abs(pos[e]), deceived)
  PROVE  LegDone(FALSE, pos[e], pos'[e]) /\ \A f \in Exchanges : f # e => pos'[f] = pos[f]
<1> DEFINE k == Abs(pos[e])
<1>1. k \in Nat /\ k <= Abs(pos[e])
  BY DEF TypeOK, LedgerTypeOK, Abs
<1>2. k = Abs(pos[e]) /\ Closes(c, e, pos[e], k, deceived)
  OBVIOUS
<1> HIDE DEF k
<1>3. pos'[e] = 0 /\ \A f \in Exchanges : f # e => pos'[f] = pos[f]
  BY <1>1, <1>2, CloseOfLeg
<1>4. QED
  BY <1>3 DEF LegDone, Contract!LegCloses, Contract!When

LEMMA LegRefused ==
  ASSUME NEW p, p # 0, "reject" \in Faults
  PROVE  LegDone(FALSE, p, p)
BY DEF LegDone, Contract!LegCloses, Contract!When

LEMMA LegUnseen ==
  ASSUME NEW p, 0 \in Sights(p)
  PROVE  LegDone(TRUE, p, p)
BY DEF LegDone, Sights, Contract!LegCloses, Contract!When

LEMMA AllClosable ==
  ASSUME TypeOK, NEW e \in Exchanges, pos[e] # 0
  PROVE  Closable(e, pos[e], Abs(pos[e])) = Abs(pos[e]) /\ Abs(pos[e]) \in Nat \ {0}
<1>1. pos[e] \in Int
  BY DEF TypeOK, LedgerTypeOK
<1>2. pos[e] * pos[e] > 0
  BY <1>1, SMT
<1>3. QED
  BY <1>1, <1>2 DEF Closable, Smaller, Abs

\* A long order that raised has executed, if anything, what the contract allows.
LEMMA LongRaisesLeaves ==
  ASSUME TypeOK, ContractTypeOK, WholeLots, NEW c \in Live, LongRaises(c), Entering(c)
  PROVE  /\ pos'[Short(c)] = pos[Short(c)]
         /\ \E m \in Raised(Planned(c)) : pos'[Long(c)] = StartLong(c) + m
<1>1. pc[c] = "send_long" /\ pc[c] # "idle"
  BY DEF LongRaises
<1>2. /\ Short(c) \in Exchanges /\ Long(c) \in Exchanges /\ Short(c) # Long(c)
      /\ StartLong(c) \in Int /\ pos[Long(c)] = StartLong(c)
  BY <1>1, CourseType DEF Entering
<1>3. LongAmount(c) \in Contract!Fills(Planned(c)) /\ (LongAmount(c) = 0 => "reject" \in Faults)
  BY <1>1, LongOrderAllowed
<1>4. \/ "reject" \in Faults /\ Refused
      \/ "lost" \in Faults /\ Executes(c, Long(c), LongAmount(c), TRUE)
  BY <1>3 DEF LongRaises
<1>5. CASE "reject" \in Faults /\ Refused
  <2>1. 0 \in Raised(Planned(c)) /\ pos' = pos /\ StartLong(c) = StartLong(c) + 0
    BY <1>2, <1>5 DEF Raised, Refused, Contract!When
  <2>2. QED
    BY <1>2, <2>1
<1>6. CASE "lost" \in Faults /\ Executes(c, Long(c), LongAmount(c), TRUE)
  <2>1. LongAmount(c) \in Raised(Planned(c))
    BY <1>3, <1>6 DEF Raised, Contract!When
  <2>2. pos'[Long(c)] = pos[Long(c)] + LongAmount(c) /\ pos'[Short(c)] = pos[Short(c)]
    <3> DEFINE deceived == TRUE
    <3>1. Executes(c, Long(c), LongAmount(c), deceived)
      BY <1>6
    <3> HIDE DEF deceived
    <3>2. QED
      BY <1>2, <3>1, OwnMove
  <2>3. QED
    BY <1>2, <2>1, <2>2
<1>7. QED
  BY <1>4, <1>5, <1>6

-----------------------------------------------------------------------------
\* An entering call stays on course.

LEMMA StartEnters ==
  ASSUME TypeOK, WholeLots, NEW c \in Live, StartEnter(c), pc'[c] # "idle", from'[c] = pos
  PROVE  pc'[c] \in EnterPCs /\ Entering(c)'
<1>0. c \in Callers /\ c \notin DryRun
  BY DEF Live
<1>1. ASSUME NEW x, Return(c, x) PROVE FALSE
  BY <1>0, <1>1, OwnReturn
<1>2. PICK r \in Enters :
        /\ Start(c) /\ Begin(c, r, "read_before_short") /\ EnterRejection(c, r) = ""
  BY <1>0, <1>1 DEF StartEnter
<1>3. pc'[c] = "read_before_short" /\ req'[c] = r /\ pos' = pos
  BY <1>0, <1>2 DEF Begin, Goto, Start, TypeOK, ControlTypeOK
<1>4. /\ Short(c)' = r.legs[1] /\ Long(c)' = r.legs[2]
      /\ Size(c)' = Harmonized(r.size, r.legs[1], r.legs[2])
  BY <1>3 DEF Short, Long, Size, Harmonized, Floored, CommonStep
<1>5. Size(c)' # 0
  BY <1>2, <1>4, NothingIsRejected
<1>6. Short(c)' \in Exchanges
  BY <1>4 DEF Enters, Legs
<1>7. /\ StartShort(c)' = pos[Short(c)'] /\ StartLong(c)' = pos[Long(c)']
      /\ pos[Short(c)]' = pos[Short(c)'] /\ pos[Long(c)]' = pos[Long(c)']
  BY <1>3 DEF StartShort, StartLong
<1>8. Whole(Short(c), StartShort(c))'
  BY <1>6, <1>7 DEF WholeLots, Whole
<1>9. QED
  BY <1>3, <1>5, <1>7, <1>8 DEF Entering, EnterPCs

LEMMA EnterStaysOnCourse ==
  ASSUME TypeOK, ContractTypeOK, WholeLots, NEW c \in Live, pc[c] # "idle",
         from'[c] = from[c], Enter(c), Entering(c), pc'[c] # "idle"
  PROVE  pc'[c] \in EnterPCs /\ Entering(c)'
<1>0. /\ c \in Callers /\ c \notin DryRun
      /\ Short(c) \in Exchanges /\ Long(c) \in Exchanges /\ Short(c) # Long(c)
      /\ StartShort(c) \in Int /\ StartLong(c) \in Int
      /\ pos[Short(c)] \in Int /\ pos[Long(c)] \in Int
      /\ mem[c] \in Locals
  BY CourseType
<1>1. ASSUME NEW x, Return(c, x) PROVE FALSE
  BY <1>0, <1>1, OwnReturn
<1>2. ASSUME NEW x, NEW label, Remember(c, x, label)
      PROVE  /\ pc'[c] = label /\ mem'[c] = x /\ req'[c] = req[c]
             /\ Short(c)' = Short(c) /\ Long(c)' = Long(c) /\ Size(c)' = Size(c)
             /\ StartShort(c)' = StartShort(c) /\ StartLong(c)' = StartLong(c)
             /\ Whole(Short(c), StartShort(c))' <=> Whole(Short(c), StartShort(c))
  <2>1. /\ pc'[c] = label /\ mem'[c] = x /\ req'[c] = req[c]
        /\ Short(c)' = Short(c) /\ Long(c)' = Long(c) /\ Size(c)' = Size(c)
        /\ StartShort(c)' = StartShort(c) /\ StartLong(c)' = StartLong(c)
    BY <1>0, <1>2, GoesOn
  <2>2. QED
    BY <2>1 DEF Whole
<1>3. ASSUME NEW e, NEW seen \in Seen(e), Reads(c, e, seen)
      PROVE  pos' = pos /\ seen \in Sights(pos[e]) /\ Abs(seen) \in Contract!Looks(pos[e])
  BY <1>3, SeenLooks DEF Reads
<1>4. Size(c) # 0 /\ Whole(Short(c), StartShort(c))
  BY DEF Entering
<1>5. CASE StartEnter(c)
  BY <1>5 DEF StartEnter, Start
<1>6. CASE ReadBeforeShort(c)
  <2>1. PICK seen \in Seen(Short(c)) :
          /\ Reads(c, Short(c), seen)
          /\ Remember(c, [mem[c] EXCEPT !.before = Abs(seen)], "send_short")
    BY <1>6 DEF ReadBeforeShort
  <2>2. pos' = pos /\ Abs(seen) \in Contract!Looks(pos[Short(c)])
    BY <1>3, <2>1
  <2>3. mem'[c].before = Abs(seen)
    BY <1>0, <1>2, <2>1 DEF Locals
  <2>4. pos[Short(c)] = StartShort(c) /\ pos[Long(c)] = StartLong(c)
    BY <1>6 DEF ReadBeforeShort, Entering
  <2>5. QED
    BY <1>2, <1>4, <2>1, <2>2, <2>3, <2>4 DEF Entering, EnterPCs
<1>7. CASE ShortFilled(c)
  <2>1. PICK k \in Lots(Size(c), Short(c), "part_open") :
          /\ Executes(c, Short(c), -k, FALSE)
          /\ Remember(c, mem[c], "read_after_short")
    BY <1>7 DEF ShortFilled
  <2>2. pos'[Short(c)] = pos[Short(c)] + (-k) /\ pos'[Long(c)] = pos[Long(c)]
    BY <1>0, <2>1, OwnMove
  <2>3. k \in Contract!Fills(Size(c)) /\ k \in Int
    <3>1. Size(c) \in Nat
      BY <1>7, CallType, <1>0 DEF ShortFilled, EnterPCs
    <3>2. QED
      BY <2>1, <3>1, LotsFill, LotsType
  <2>4. /\ pos[Short(c)] = StartShort(c) /\ pos[Long(c)] = StartLong(c)
        /\ mem[c].before \in Contract!Looks(StartShort(c))
    BY <1>7 DEF ShortFilled, Entering
  <2>5. pos'[Short(c)] = StartShort(c) - k
    BY <1>0, <2>2, <2>3, <2>4
  <2>6. ShortDone(c)'
    BY <1>2, <2>1, <2>3, <2>5 DEF ShortDone
  <2>7. QED
    BY <1>2, <1>4, <2>1, <2>2, <2>4, <2>6 DEF Entering, EnterPCs
<1>8. CASE ReadAfterShort(c)
  <2>1. PICK seen \in Seen(Short(c)) :
          /\ Reads(c, Short(c), seen)
          /\ Remember(c, [mem[c] EXCEPT !.filled = Abs(Abs(seen) - mem[c].before)],
                      "read_before_long")
    BY <1>8 DEF ReadAfterShort
  <2>2. pos' = pos /\ Abs(seen) \in Contract!Looks(pos[Short(c)])
    BY <1>3, <2>1
  <2>3. mem'[c].filled = Abs(Abs(seen) - mem[c].before)
    BY <1>0, <1>2, <2>1 DEF Locals
  <2>4. /\ pos[Long(c)] = StartLong(c) /\ ShortDone(c)
        /\ mem[c].before \in Contract!Looks(StartShort(c))
    BY <1>8 DEF ReadAfterShort, Entering, EnterPCs
  <2>5. mem'[c].filled \in Contract!Measured(StartShort(c), pos[Short(c)])
    BY <2>2, <2>3, <2>4, LooksMeasure
  <2>6. ShortDone(c)'
    BY <1>2, <2>1, <2>2, <2>4 DEF ShortDone
  <2>7. QED
    BY <1>2, <1>4, <2>1, <2>2, <2>4, <2>5, <2>6 DEF Entering, EnterPCs
<1>9. CASE ReadBeforeLong(c)
  <2>1. PICK seen \in Seen(Long(c)) :
          /\ Reads(c, Long(c), seen)
          /\ Remember(c, [mem[c] EXCEPT !.beforeLong = Abs(seen)], "send_long")
    BY <1>9 DEF ReadBeforeLong
  <2>2. pos' = pos /\ Abs(seen) \in Contract!Looks(pos[Long(c)])
    BY <1>3, <2>1
  <2>3. mem'[c].beforeLong = Abs(seen) /\ mem'[c].filled = mem[c].filled
    BY <1>0, <1>2, <2>1 DEF Locals
  <2>4. /\ pos[Long(c)] = StartLong(c) /\ ShortDone(c)
        /\ mem[c].filled \in Contract!Measured(StartShort(c), pos[Short(c)])
    BY <1>9 DEF ReadBeforeLong, Entering, EnterPCs
  <2>5. ShortDone(c)'
    BY <1>2, <2>1, <2>2, <2>4 DEF ShortDone
  <2>6. QED
    BY <1>2, <1>4, <2>1, <2>2, <2>3, <2>4, <2>5 DEF Entering, EnterPCs
<1>10. CASE LongFilled(c)
  <2>1. PICK k \in Lots(LongAmount(c), Long(c), "part_open") :
          /\ Executes(c, Long(c), k, FALSE)
          /\ Remember(c, mem[c], "read_after_long")
    BY <1>10 DEF LongFilled
  <2>2. pos'[Long(c)] = pos[Long(c)] + k /\ pos'[Short(c)] = pos[Short(c)]
    BY <1>0, <2>1, OwnMove
  <2>3. k \in Contract!Fills(Planned(c))
    BY <1>10, <2>1, LongOrderAllowed DEF LongFilled
  <2>4. /\ pos[Long(c)] = StartLong(c) /\ ShortDone(c)
        /\ mem[c].filled \in Contract!Measured(StartShort(c), pos[Short(c)])
        /\ mem[c].beforeLong \in Contract!Looks(StartLong(c))
    BY <1>10 DEF LongFilled, Entering, EnterPCs
  <2>5. ShortDone(c)' /\ Planned(c)' = Planned(c)
    BY <1>2, <2>1, <2>2, <2>4 DEF ShortDone, Planned
  <2>6. LongDone(c, Contract!Fills(Planned(c)))'
    BY <1>2, <2>1, <2>2, <2>3, <2>4, <2>5 DEF LongDone
  <2>7. QED
    BY <1>2, <1>4, <2>1, <2>2, <2>4, <2>5, <2>6 DEF Entering, EnterPCs
<1>11. CASE LongRaises(c)
  <2>1. mem[c].filled > 0 /\ Remember(c, mem[c], "rollback_find")
    BY <1>1, <1>11 DEF LongRaises
  <2>2. /\ pos[Long(c)] = StartLong(c) /\ ShortDone(c)
        /\ mem[c].filled \in Contract!Measured(StartShort(c), pos[Short(c)])
    BY <1>11 DEF LongRaises, Entering, EnterPCs
  <2>3. mem[c].filled \in Nat /\ Planned(c) = mem[c].filled
    BY <1>0, <2>1 DEF Locals, Planned
  <2>4. pos'[Short(c)] = pos[Short(c)] /\ \E m \in Raised(mem[c].filled) : pos'[Long(c)] = StartLong(c) + m
    BY <1>11, <2>2, <2>3, LongRaisesLeaves
  <2>5. ShortDone(c)'
    BY <1>2, <2>1, <2>2, <2>4 DEF ShortDone
  <2>6. LongDone(c, Raised(mem[c].filled))'
    BY <1>2, <2>1, <2>4 DEF LongDone, Raised
  <2>7. QED
    BY <1>2, <1>4, <2>1, <2>2, <2>4, <2>5, <2>6 DEF Entering, EnterPCs
<1>12. CASE RollbackFind(c)
  <2>1. PICK seen \in Seen(Short(c)) :
          /\ Reads(c, Short(c), seen) /\ seen # 0
          /\ Remember(c, [mem[c] EXCEPT !.shortLeg = seen], "rollback_close")
    BY <1>1, <1>12 DEF RollbackFind
  <2>2. pos' = pos /\ seen = pos[Short(c)]
    BY <1>3, <2>1 DEF Sights, Contract!When
  <2>3. mem'[c].shortLeg = seen /\ mem'[c].filled = mem[c].filled
    BY <1>0, <1>2, <2>1 DEF Locals
  <2>4. /\ ShortDone(c) /\ mem[c].filled > 0 /\ LongDone(c, Raised(mem[c].filled))
        /\ mem[c].filled \in Contract!Measured(StartShort(c), pos[Short(c)])
    BY <1>12 DEF RollbackFind, Entering, EnterPCs
  <2>5. ShortDone(c)'
    BY <1>2, <2>1, <2>2, <2>4 DEF ShortDone
  <2>6. LongDone(c, Raised(mem[c].filled))'
    BY <1>2, <2>1, <2>2, <2>3, <2>4 DEF LongDone, Raised
  <2>7. QED
    BY <1>2, <1>4, <2>1, <2>2, <2>3, <2>4, <2>5, <2>6 DEF Entering, EnterPCs
<1>13. CASE ShortRaises(c) \/ ReadAfterLong(c) \/ RollbackClosed(c) \/ RollbackRaises(c)
  BY <1>1, <1>13 DEF ShortRaises, ReadAfterLong, RollbackClosed, RollbackRaises
<1>14. QED
  BY <1>5, <1>6, <1>7, <1>8, <1>9, <1>10, <1>11, <1>12, <1>13 DEF Enter

-----------------------------------------------------------------------------
\* What an entering call answers.

\* The statuses agree when amounts within tolerance are equal amounts.
LEMMA BalancedIsEqual ==
  ASSUME NEW m \in Nat, NEW n \in Nat, Fine(m, n)
  PROVE  Balanced(m, n) <=> m = n
<1> DEFINE t == TolPct * Larger(m, n)
<1>1. TolPct \in Nat /\ Larger(m, n) \in Nat
  BY SettingsAssumption DEF Larger
<1>2. t \in Nat /\ t < 100
  BY <1>1, SMT DEF Fine
<1>3. Balanced(m, n) <=> Abs(m - n) * 100 <= t
  BY DEF Balanced
<1> HIDE DEF t
<1>4. QED
  BY <1>2, <1>3 DEF Abs

LEMMA SameEnterStatus ==
  ASSUME NEW s \in Nat, NEW l \in Nat, Fine(s, l)
  PROVE  EnterStatus(s, l) = Contract!Entered(s, l)
BY BalancedIsEqual DEF EnterStatus, Contract!Entered

\* The contract's answers for a call that has placed its short order.
LEMMA AfterShort ==
  ASSUME TypeOK, ContractTypeOK, NEW c \in Live, pc[c] \in EnterPCs, ShortDone(c),
         NEW s \in Contract!Measured(StartShort(c), pos[Short(c)]), NEW x,
         x \in Contract!AnswersAfterShort(pos[Short(c)], StartLong(c), Size(c), s)
  PROVE  x \in Contract!EnterAnswers(Hedged(c), Size(c))
<1>1. PICK k \in Contract!Fills(Size(c)) : pos[Short(c)] = StartShort(c) - k
  BY DEF ShortDone
<1>2. Hedged(c) = Contract!Hedge(StartShort(c), StartLong(c))
  BY DEF Hedged, StartShort, StartLong
<1>3. QED
  BY <1>1, <1>2, AnswersAfterFill

LEMMA ShortRaisesAnswers ==
  ASSUME TypeOK, ContractTypeOK, NEW c \in Live, Entering(c), ShortRaises(c)
  PROVE  Left(c) \in Contract!EnterAnswers(Hedged(c), Size(c))
<1>1. pc[c] = "send_short" /\ pc[c] # "idle" /\ pc[c] \in EnterPCs
  BY DEF ShortRaises, EnterPCs
<1>2. /\ Short(c) \in Exchanges /\ Long(c) \in Exchanges /\ Short(c) # Long(c) /\ c \in Callers
      /\ StartShort(c) \in Int /\ Size(c) \in Nat
  BY <1>1, CourseType
<1>3. pos[Short(c)] = StartShort(c) /\ pos[Long(c)] = StartLong(c)
  BY <1>1 DEF Entering
<1>4. out'[c].status = "failed"
  BY <1>2, ReturnOutcome DEF ShortRaises, Failed
<1>5. Hedged(c) = Contract!Hedge(StartShort(c), StartLong(c))
  BY DEF Hedged, StartShort, StartLong
<1>6. CASE Refused
  <2>1. Left(c) = Contract!Answer("failed", StartShort(c), StartLong(c))
    BY <1>3, <1>4, <1>6 DEF Left, Refused
  <2>2. QED
    BY <1>5, <2>1, EarlyAnswers
<1>7. CASE "lost" \in Faults /\ Executes(c, Short(c), -Size(c), TRUE)
  <2>1. pos'[Short(c)] = StartShort(c) - Size(c) /\ pos'[Long(c)] = StartLong(c)
    <3> DEFINE deceived == TRUE
    <3>1. Executes(c, Short(c), -Size(c), deceived)
      BY <1>7
    <3> HIDE DEF deceived
    <3>2. pos'[Short(c)] = pos[Short(c)] + (-Size(c)) /\ pos'[Long(c)] = pos[Long(c)]
      BY <1>2, <3>1, OwnMove
    <3>3. QED
      BY <1>2, <1>3, <3>2
  <2>2. Left(c) = Contract!Answer("failed", StartShort(c) - Size(c), StartLong(c))
    BY <1>4, <2>1 DEF Left
  <2>3. QED
    BY <1>5, <1>7, <2>2, EarlyAnswers
<1>8. QED
  BY <1>6, <1>7 DEF ShortRaises

LEMMA LongRaisesAnswers ==
  ASSUME TypeOK, ContractTypeOK, WholeLots, NEW c \in Live, Entering(c), LongRaises(c),
         pc'[c] = "idle"
  PROVE  Left(c) \in Contract!EnterAnswers(Hedged(c), Size(c))
<1>1. pc[c] = "send_long" /\ pc[c] # "idle" /\ pc[c] \in EnterPCs
  BY DEF LongRaises, EnterPCs
<1>2. c \in Callers /\ mem[c].filled \in Nat
  BY <1>1, CourseType DEF Locals
<1>3. /\ ShortDone(c) /\ pos[Long(c)] = StartLong(c)
      /\ mem[c].filled \in Contract!Measured(StartShort(c), pos[Short(c)])
  BY <1>1 DEF Entering, EnterPCs
<1>4. mem[c].filled = 0 /\ Return(c, Outcome("failed", "unhedged", mem[c].filled, 0))
  <2>1. ASSUME Remember(c, mem[c], "rollback_find") PROVE FALSE
    BY <1>2, <2>1, OwnRemember
  <2>2. ~(mem[c].filled > 0) /\ Return(c, Outcome("failed", "unhedged", mem[c].filled, 0))
    BY <2>1, ContractAssumption DEF LongRaises
  <2>3. QED
    BY <1>2, <2>2
<1>5. out'[c].status = "failed"
  BY <1>2, <1>4, ReturnOutcome
<1>6. PICK m \in Raised(Planned(c)) : pos'[Long(c)] = StartLong(c) + m
  BY LongRaisesLeaves
<1>7. pos'[Short(c)] = pos[Short(c)]
  BY LongRaisesLeaves
<1>8. Left(c) = Contract!Answer("failed", pos[Short(c)], StartLong(c) + m)
  BY <1>5, <1>6, <1>7 DEF Left
<1>9. Left(c) \in Contract!LongRaisedAnswers(pos[Short(c)], StartLong(c), mem[c].filled, m)
  BY <1>4, <1>8 DEF Contract!LongRaisedAnswers
<1>10. Left(c) \in Contract!AnswersAfterShort(pos[Short(c)], StartLong(c), Size(c), mem[c].filled)
  BY <1>6, <1>9, AnswersAfterLong DEF Planned
<1>11. QED
  BY <1>1, <1>3, <1>10, AfterShort

LEMMA ReadAfterLongAnswers ==
  ASSUME TypeOK, ContractTypeOK, NEW c \in Live, Entering(c), ReadAfterLong(c),
         Fine(out'[c].filledShort, out'[c].filledLong)
  PROVE  Left(c) \in Contract!EnterAnswers(Hedged(c), Size(c))
<1>1. pc[c] = "read_after_long" /\ pc[c] # "idle" /\ pc[c] \in EnterPCs
  BY DEF ReadAfterLong, EnterPCs
<1>2. /\ c \in Callers /\ mem[c].filled \in Nat /\ StartLong(c) \in Int
      /\ pos[Long(c)] \in Int
  BY <1>1, CourseType DEF Locals
<1>3. /\ ShortDone(c) /\ LongDone(c, Contract!Fills(Planned(c)))
      /\ mem[c].filled \in Contract!Measured(StartShort(c), pos[Short(c)])
      /\ mem[c].beforeLong \in Contract!Looks(StartLong(c))
  BY <1>1 DEF Entering, EnterPCs
<1>4. PICK seen \in Seen(Long(c)) :
        LET filledLong == Abs(Abs(seen) - mem[c].beforeLong)
        IN  /\ Reads(c, Long(c), seen)
            /\ Return(c, Outcome(EnterStatus(mem[c].filled, filledLong), "",
                                 mem[c].filled, filledLong))
  BY DEF ReadAfterLong
<1> DEFINE s == mem[c].filled
           l == Abs(Abs(seen) - mem[c].beforeLong)
           status == EnterStatus(s, l)
<1>5. pos' = pos
  BY <1>4 DEF Reads
<1>6. out'[c].status = status /\ out'[c].filledShort = s /\ out'[c].filledLong = l
  <2>1. Return(c, Outcome(status, "", s, l))
    BY <1>4
  <2> HIDE DEF s, l, status
  <2>2. QED
    BY <1>2, <2>1, ReturnOutcome
<1>7. PICK m \in Contract!Fills(Planned(c)) : pos[Long(c)] = StartLong(c) + m
  BY <1>3 DEF LongDone
<1>8. l \in Contract!Measured(StartLong(c), StartLong(c) + m)
  BY <1>3, <1>7, SeenLooks, LooksMeasure
<1>9. l \in Nat
  <2>1. l \in Contract!Measured(StartLong(c), pos[Long(c)])
    BY <1>7, <1>8
  <2> HIDE DEF l
  <2>2. QED
    BY <1>2, <2>1, MeasuredType
<1>10. status = Contract!Entered(s, l)
  BY <1>2, <1>6, <1>9, SameEnterStatus
<1> HIDE DEF l, status
<1>11. Left(c) = Contract!Answer(Contract!Entered(s, l), pos[Short(c)], StartLong(c) + m)
  BY <1>5, <1>6, <1>7, <1>10 DEF Left
<1>12. Left(c) \in Contract!LongAnswers(pos[Short(c)], StartLong(c), s, m)
  BY <1>8, <1>11, AnswersOfLong
<1>13. Left(c) \in Contract!AnswersAfterShort(pos[Short(c)], StartLong(c), Size(c), s)
  BY <1>7, <1>12, AnswersAfterLong DEF Planned
<1>14. QED
  BY <1>1, <1>3, <1>13, AfterShort

\* The rollback, whichever way its close goes.
LEMMA RollbackAnswers ==
  ASSUME TypeOK, ContractTypeOK, NEW c \in Live, Entering(c),
         pc[c] \in {"rollback_find", "rollback_close"}, NEW ok \in BOOLEAN,
         LegDone(ok, pos[Short(c)], pos'[Short(c)]), pos'[Long(c)] = pos[Long(c)],
         out'[c].status = IF ok THEN "rolled_back" ELSE "failed"
  PROVE  Left(c) \in Contract!EnterAnswers(Hedged(c), Size(c))
<1>1. pc[c] # "idle" /\ pc[c] \in EnterPCs
  BY DEF EnterPCs
<1>2. /\ ShortDone(c) /\ mem[c].filled > 0 /\ LongDone(c, Raised(mem[c].filled))
      /\ mem[c].filled \in Contract!Measured(StartShort(c), pos[Short(c)])
  BY <1>1 DEF Entering, EnterPCs
<1>3. PICK m \in Raised(mem[c].filled) : pos[Long(c)] = StartLong(c) + m
  BY <1>2 DEF LongDone
<1>4. Left(c) = Contract!Answer(IF ok THEN "rolled_back" ELSE "failed",
                                pos'[Short(c)], StartLong(c) + m)
  BY <1>3 DEF Left
<1>5. Left(c) \in Contract!RollbackAnswers(pos[Short(c)], StartLong(c) + m)
  BY <1>4, AnswersOfRollback
<1>6. mem[c].filled # 0
  BY <1>1, <1>2, CourseType DEF Locals
<1>7. Left(c) \in Contract!LongRaisedAnswers(pos[Short(c)], StartLong(c), mem[c].filled, m)
  BY <1>5, <1>6 DEF Contract!LongRaisedAnswers
<1>8. Left(c) \in Contract!AnswersAfterShort(pos[Short(c)], StartLong(c), Size(c), mem[c].filled)
  BY <1>3, <1>6, <1>7, AnswersAfterLong
<1>9. QED
  BY <1>1, <1>2, <1>8, AfterShort

LEMMA RollbackStepAnswers ==
  ASSUME TypeOK, ContractTypeOK, NEW c \in Live, Entering(c),
         RollbackFind(c) \/ RollbackClosed(c) \/ RollbackRaises(c), pc'[c] = "idle"
  PROVE  Left(c) \in Contract!EnterAnswers(Hedged(c), Size(c))
<1>1. pc[c] \in {"rollback_find", "rollback_close"} /\ pc[c] # "idle"
  BY DEF RollbackFind, RollbackClosed, RollbackRaises
<1>2. /\ Short(c) \in Exchanges /\ Long(c) \in Exchanges /\ Short(c) # Long(c) /\ c \in Callers
  BY <1>1, CourseType
<1>3. pc[c] = "rollback_close" =>
        /\ pos[Short(c)] # 0 /\ mem[c].shortLeg = pos[Short(c)]
        /\ RollbackAmount(c) = Abs(pos[Short(c)]) /\ RollbackAmount(c) \in Nat \ {0}
  BY <1>2, AllClosable DEF Entering, RollbackAmount
<1>4. CASE RollbackFind(c)
  <2>1. ASSUME NEW x, Remember(c, x, "rollback_close") PROVE FALSE
    BY <1>2, <2>1, OwnRemember
  <2>2. PICK seen \in Seen(Short(c)) :
          /\ Reads(c, Short(c), seen) /\ seen = 0
          /\ Return(c, Outcome("rolled_back", "compensated", 0, 0))
    BY <1>4, <2>1 DEF RollbackFind
  <2>3. pos' = pos /\ 0 \in Sights(pos[Short(c)])
    BY <2>2, SeenLooks DEF Reads
  <2>4. LegDone(TRUE, pos[Short(c)], pos'[Short(c)])
    BY <2>3, LegUnseen
  <2>5. out'[c].status = "rolled_back"
    BY <1>2, <2>2, ReturnOutcome
  <2>6. QED
    BY <1>1, <2>3, <2>4, <2>5, RollbackAnswers
<1>5. CASE RollbackClosed(c)
  <2>1. pc[c] = "rollback_close"
    BY <1>5 DEF RollbackClosed
  <2>2. PICK k \in Lots(Abs(pos[Short(c)]), Short(c), "part_close") :
          \E deceived : Closes(c, Short(c), pos[Short(c)], k, deceived)
    BY <1>3, <1>5, <2>1 DEF RollbackClosed
  <2>3. LegDone(TRUE, pos[Short(c)], pos'[Short(c)]) /\ pos'[Long(c)] = pos[Long(c)]
    BY <1>2, <1>3, <2>1, <2>2, LegClosed
  <2>4. out'[c].status = "rolled_back"
    BY <1>2, <1>5, ReturnOutcome DEF RollbackClosed
  <2>5. QED
    BY <1>1, <2>3, <2>4, RollbackAnswers
<1>6. CASE RollbackRaises(c)
  <2>1. pc[c] = "rollback_close"
    BY <1>6 DEF RollbackRaises
  <2>2. out'[c].status = "failed"
    BY <1>2, <1>6, ReturnOutcome DEF RollbackRaises
  <2>3. \/ "reject" \in Faults /\ Refused
        \/ /\ "lost" \in Faults
           /\ \E deceived : Closes(c, Short(c), pos[Short(c)], Abs(pos[Short(c)]), deceived)
    BY <1>3, <1>6, <2>1 DEF RollbackRaises
  <2>4. LegDone(FALSE, pos[Short(c)], pos'[Short(c)]) /\ pos'[Long(c)] = pos[Long(c)]
    <3>1. CASE "reject" \in Faults /\ Refused
      BY <1>3, <2>1, <3>1, LegRefused DEF Refused
    <3>2. QED
      BY <1>2, <1>3, <2>1, <2>3, <3>1, LegClosedLost
  <2>5. QED
    BY <1>1, <2>2, <2>4, RollbackAnswers
<1>7. QED
  BY <1>4, <1>5, <1>6

LEMMA EnterAbortAnswers ==
  ASSUME TypeOK, ContractTypeOK, NEW c \in Live, pc[c] \in EnterPCs, Entering(c), Abort(c)
  PROVE  Left(c) \in Contract!EnterAnswers(Hedged(c), Size(c))
<1>1. pc[c] # "idle" /\ c \in Callers /\ "abort" \in Faults /\ pos' = pos
  BY DEF Abort, Live
<1>2. Left(c) = Contract!Answer("raised", pos[Short(c)], pos[Long(c)])
  <2>1. ASSUME NEW reason, NEW s, NEW l, Return(c, Outcome("raised", reason, s, l))
        PROVE  out'[c].status = "raised"
    BY <1>1, <2>1, ReturnOutcome
  <2>2. out'[c].status = "raised"
    BY <2>1 DEF Abort
  <2>3. QED
    BY <1>1, <2>2 DEF Left
<1>3. CASE pc[c] \in {"read_before_short", "send_short"}
  <2>1. pos[Short(c)] = StartShort(c) /\ pos[Long(c)] = StartLong(c)
    BY <1>3 DEF Entering
  <2>2. Hedged(c) = Contract!Hedge(StartShort(c), StartLong(c))
    BY DEF Hedged, StartShort, StartLong
  <2>3. QED
    BY <1>1, <1>2, <2>1, <2>2, EarlyAnswers
<1>4. CASE pc[c] \notin {"read_before_short", "send_short"}
  <2>1. ShortDone(c)
    BY <1>4 DEF Entering
  <2>2. CASE pc[c] \in {"read_after_short", "read_before_long", "send_long"}
    <3>1. PICK s : s \in Contract!Measured(StartShort(c), pos[Short(c)])
      BY SomethingMeasured
    <3>2. pos[Long(c)] = StartLong(c)
      BY <2>2 DEF Entering
    <3>3. Left(c) \in Contract!AnswersAfterShort(pos[Short(c)], StartLong(c), Size(c), s)
      BY <1>1, <1>2, <3>2, AnswersAfterLong
    <3>4. QED
      BY <2>1, <3>1, <3>3, AfterShort
  <2>3. CASE pc[c] = "read_after_long"
    <3>1. /\ LongDone(c, Contract!Fills(Planned(c)))
          /\ mem[c].filled \in Contract!Measured(StartShort(c), pos[Short(c)])
      BY <2>3 DEF Entering
    <3>2. PICK m \in Contract!Fills(Planned(c)) : pos[Long(c)] = StartLong(c) + m
      BY <3>1 DEF LongDone
    <3>3. Left(c) \in Contract!LongAnswers(pos[Short(c)], StartLong(c), mem[c].filled, m)
      BY <1>1, <1>2, <3>2, AnswersOfLong
    <3>4. Left(c) \in Contract!AnswersAfterShort(pos[Short(c)], StartLong(c), Size(c), mem[c].filled)
      BY <3>2, <3>3, AnswersAfterLong DEF Planned
    <3>5. QED
      BY <2>1, <3>1, <3>4, AfterShort
  <2>4. CASE pc[c] \in {"rollback_find", "rollback_close"}
    <3>1. /\ mem[c].filled > 0 /\ LongDone(c, Raised(mem[c].filled))
          /\ mem[c].filled \in Contract!Measured(StartShort(c), pos[Short(c)])
      BY <2>4 DEF Entering
    <3>2. PICK m \in Raised(mem[c].filled) : pos[Long(c)] = StartLong(c) + m
      BY <3>1 DEF LongDone
    <3>3. mem[c].filled # 0
      BY <1>1, <3>1, CourseType DEF Locals
    <3>4. Left(c) \in Contract!RollbackAnswers(pos[Short(c)], StartLong(c) + m)
      BY <1>1, <1>2, <3>2 DEF Contract!RollbackAnswers, Contract!When
    <3>5. Left(c) \in Contract!LongRaisedAnswers(pos[Short(c)], StartLong(c), mem[c].filled, m)
      BY <3>3, <3>4 DEF Contract!LongRaisedAnswers
    <3>6. Left(c) \in Contract!AnswersAfterShort(pos[Short(c)], StartLong(c), Size(c), mem[c].filled)
      BY <3>2, <3>3, <3>5, AnswersAfterLong
    <3>7. QED
      BY <2>1, <3>1, <3>6, AfterShort
  <2>5. QED
    BY <1>4, <2>2, <2>3, <2>4 DEF EnterPCs
<1>5. QED
  BY <1>3, <1>4

-----------------------------------------------------------------------------
\* A call that closes everything stays on course.

LEMMA ClosingLeg ==
  ASSUME TypeOK, WholeLots, NEW c \in Callers, req[c].percent = 100, NEW e \in Exchanges,
         NEW leg \in Sights(pos[e]), NEW ok \in BOOLEAN, ClosesLeg(c, e, leg, ok)
  PROVE  LegDone(ok, pos[e], pos'[e]) /\ \A f \in Exchanges : f # e => pos'[f] = pos[f]
<1>1. CASE leg = 0
  <2>1. ok = TRUE /\ pos' = pos
    BY <1>1 DEF ClosesLeg, Refused
  <2>2. QED
    BY <1>1, <2>1, LegUnseen
<1>2. CASE leg # 0
  <2>1. leg = pos[e] /\ pos[e] # 0
    BY <1>2 DEF Sights, Contract!When
  <2>1a. pos[e] # 0
    BY <2>1
  <2> DEFINE n == Closable(e, leg, Floored((Abs(leg) * req[c].percent) \div 100, LotStep[e]))
  <2>2. n = Abs(pos[e]) /\ n \in Nat \ {0}
    <3>1. n = Abs(pos[e])
      BY <2>1, WholeShare
    <3> HIDE DEF n
    <3>2. QED
      BY <2>1, <3>1, AllClosable
  <2>3. \/ ok = TRUE /\ \E k \in Lots(n, e, "part_close") : Closes(c, e, leg, k, FALSE)
        \/ ok = FALSE /\ ("reject" \in Faults \/ n = 0) /\ Refused
        \/ ok = FALSE /\ "lost" \in Faults /\ Closes(c, e, leg, n, TRUE)
    BY <1>2 DEF ClosesLeg
  <2> HIDE DEF n
  <2>4. CASE ok = TRUE /\ \E k \in Lots(n, e, "part_close") : Closes(c, e, leg, k, FALSE)
    <3>1. PICK k \in Lots(Abs(pos[e]), e, "part_close") :
            \E deceived : Closes(c, e, pos[e], k, deceived)
      BY <2>1, <2>2, <2>4
    <3>2. PICK deceived : Closes(c, e, pos[e], k, deceived)
      BY <3>1
    <3>3. LegDone(TRUE, pos[e], pos'[e]) /\ \A f \in Exchanges : f # e => pos'[f] = pos[f]
      BY ONLY TypeOK, e \in Exchanges, <2>1a, k \in Lots(Abs(pos[e]), e, "part_close"), <3>2, LegClosed
    <3>4. QED
      BY <2>4, <3>3
  <2>5. CASE ok = FALSE /\ ("reject" \in Faults \/ n = 0) /\ Refused
    BY <2>1, <2>2, <2>5, LegRefused DEF Refused
  <2>6. CASE ok = FALSE /\ "lost" \in Faults /\ Closes(c, e, leg, n, TRUE)
    <3>1. PICK deceived : Closes(c, e, pos[e], Abs(pos[e]), deceived)
      BY <2>1, <2>2, <2>6
    <3>2. LegDone(FALSE, pos[e], pos'[e]) /\ \A f \in Exchanges : f # e => pos'[f] = pos[f]
      BY ONLY TypeOK, e \in Exchanges, <2>1a, <2>6, <3>1, LegClosedLost
    <3>3. QED
      BY <2>6, <3>2
  <2>7. QED
    BY <2>3, <2>4, <2>5, <2>6
<1>3. QED
  BY <1>1, <1>2

LEMMA StartCloses ==
  ASSUME TypeOK, NEW c \in Live, StartExit(c), pc'[c] # "idle", from'[c] = pos
  PROVE  pc'[c] \in ExitPCs /\ Closing(c)'
<1>0. c \in Callers
  BY DEF Live
<1>1. ASSUME NEW x, Return(c, x) PROVE FALSE
  BY <1>0, <1>1, OwnReturn
<1>2. PICK r \in Exits : Start(c) /\ Begin(c, r, "find_short")
  BY <1>1 DEF StartExit
<1>3. pc'[c] = "find_short" /\ pos' = pos
  BY <1>0, <1>2 DEF Begin, Goto, Start, TypeOK, ControlTypeOK
<1>4. /\ pos[Short(c)]' = StartShort(c)' /\ pos[Long(c)]' = StartLong(c)'
  BY <1>3 DEF StartShort, StartLong
<1>5. QED
  BY <1>3, <1>4 DEF Closing, ExitPCs

LEMMA ExitStaysOnCourse ==
  ASSUME TypeOK, ContractTypeOK, WholeLots, NEW c \in Live, pc[c] # "idle",
         req[c].percent = 100, from'[c] = from[c], Exit(c), Closing(c), pc'[c] # "idle"
  PROVE  pc'[c] \in ExitPCs /\ Closing(c)'
<1>0. /\ c \in Callers /\ c \notin DryRun
      /\ Short(c) \in Exchanges /\ Long(c) \in Exchanges /\ Short(c) # Long(c)
      /\ StartShort(c) \in Int /\ StartLong(c) \in Int
      /\ pos[Short(c)] \in Int /\ pos[Long(c)] \in Int
      /\ mem[c] \in Locals
  BY CourseType
<1>1. ASSUME NEW x, Return(c, x) PROVE FALSE
  BY <1>0, <1>1, OwnReturn
<1>2. ASSUME NEW x, NEW label, Remember(c, x, label)
      PROVE  /\ pc'[c] = label /\ mem'[c] = x
             /\ Short(c)' = Short(c) /\ Long(c)' = Long(c)
             /\ StartShort(c)' = StartShort(c) /\ StartLong(c)' = StartLong(c)
  BY <1>0, <1>2, GoesOn
<1>3. ASSUME NEW e, NEW seen \in Seen(e), Reads(c, e, seen)
      PROVE  pos' = pos /\ seen \in Sights(pos[e]) /\ Abs(seen) \in Contract!Looks(pos[e])
  BY <1>3, SeenLooks DEF Reads
<1>4. CASE StartExit(c)
  BY <1>4 DEF StartExit, Start
<1>5. CASE FindShort(c)
  <2>1. PICK seen \in Seen(Short(c)) :
          /\ Reads(c, Short(c), seen)
          /\ Remember(c, [mem[c] EXCEPT !.shortLeg = seen], "find_long")
    BY <1>5 DEF FindShort
  <2>2. pos[Short(c)] = StartShort(c) /\ pos[Long(c)] = StartLong(c)
    BY <1>5 DEF FindShort, Closing
  <2>3. pos' = pos /\ seen \in Sights(StartShort(c))
    BY <1>3, <2>1, <2>2
  <2>4. mem'[c].shortLeg = seen
    BY <1>0, <1>2, <2>1 DEF Locals
  <2>5. QED
    BY <1>2, <2>1, <2>2, <2>3, <2>4 DEF Closing, ExitPCs
<1>6. CASE FindLong(c)
  <2>1. PICK seen \in Seen(Long(c)) :
          /\ Reads(c, Long(c), seen)
          /\ mem[c].shortLeg # 0 \/ seen # 0
          /\ Remember(c, [mem[c] EXCEPT !.longLeg = seen], "close_short")
    BY <1>0, <1>1, <1>6 DEF FindLong
  <2>2. /\ pos[Short(c)] = StartShort(c) /\ pos[Long(c)] = StartLong(c)
        /\ mem[c].shortLeg \in Sights(StartShort(c))
    BY <1>6 DEF FindLong, Closing
  <2>3. pos' = pos /\ seen \in Sights(StartLong(c))
    BY <1>3, <2>1, <2>2
  <2>4. mem'[c].longLeg = seen /\ mem'[c].shortLeg = mem[c].shortLeg
    BY <1>0, <1>2, <2>1 DEF Locals
  <2>5. StartShort(c) # 0 \/ StartLong(c) # 0
    BY <2>1, <2>2, <2>3 DEF Sights, Contract!When
  <2>6. QED
    BY <1>2, <2>1, <2>2, <2>3, <2>4, <2>5 DEF Closing, ExitPCs
<1>7. CASE CloseShort(c)
  <2>1. PICK ok \in BOOLEAN :
          /\ ClosesLeg(c, Short(c), mem[c].shortLeg, ok)
          /\ Remember(c, [mem[c] EXCEPT !.shortOk = ok], "close_long")
    BY <1>7 DEF CloseShort
  <2>2. /\ pos[Short(c)] = StartShort(c) /\ pos[Long(c)] = StartLong(c)
        /\ mem[c].shortLeg \in Sights(StartShort(c)) /\ mem[c].longLeg \in Sights(StartLong(c))
        /\ StartShort(c) # 0 \/ StartLong(c) # 0
    BY <1>7 DEF CloseShort, Closing, ExitPCs
  <2>3. LegDone(ok, StartShort(c), pos'[Short(c)]) /\ pos'[Long(c)] = pos[Long(c)]
    BY <1>0, <2>1, <2>2, ClosingLeg
  <2>4. mem'[c].shortOk = ok /\ mem'[c].longLeg = mem[c].longLeg
    BY <1>0, <1>2, <2>1 DEF Locals
  <2>5. LegDone(mem[c].shortOk, StartShort(c), pos[Short(c)])'
    BY <1>2, <2>1, <2>3, <2>4 DEF LegDone
  <2>6. QED
    BY <1>2, <2>1, <2>2, <2>3, <2>4, <2>5 DEF Closing, ExitPCs
<1>8. CASE CloseLong(c)
  <2>1. PICK ok \in BOOLEAN :
          /\ ClosesLeg(c, Long(c), mem[c].longLeg, ok)
          /\ Remember(c, [mem[c] EXCEPT !.longOk = ok], "read_short_after")
    BY <1>8 DEF CloseLong
  <2>2. /\ pos[Long(c)] = StartLong(c) /\ mem[c].longLeg \in Sights(StartLong(c))
        /\ LegDone(mem[c].shortOk, StartShort(c), pos[Short(c)])
        /\ StartShort(c) # 0 \/ StartLong(c) # 0
    BY <1>8 DEF CloseLong, Closing, ExitPCs
  <2>3. LegDone(ok, StartLong(c), pos'[Long(c)]) /\ pos'[Short(c)] = pos[Short(c)]
    BY <1>0, <2>1, <2>2, ClosingLeg
  <2>4. mem'[c].longOk = ok /\ mem'[c].shortOk = mem[c].shortOk
    BY <1>0, <1>2, <2>1 DEF Locals
  <2>5. LegDone(mem[c].shortOk, StartShort(c), pos[Short(c)])'
    BY <1>2, <2>1, <2>2, <2>3, <2>4 DEF LegDone
  <2>6. LegDone(mem[c].longOk, StartLong(c), pos[Long(c)])'
    BY <1>2, <2>1, <2>3, <2>4 DEF LegDone
  <2>7. QED
    BY <1>2, <2>1, <2>2, <2>5, <2>6 DEF Closing, ExitPCs
<1>9. CASE ReadShortAfter(c)
  <2>1. PICK seen \in Seen(Short(c)) :
          /\ Reads(c, Short(c), seen)
          /\ Remember(c, [mem[c] EXCEPT !.shortAfter = Abs(seen)], "read_long_after")
    BY <1>9 DEF ReadShortAfter
  <2>2. pos' = pos /\ Abs(seen) \in Contract!Looks(pos[Short(c)])
    BY <1>3, <2>1
  <2>3. /\ mem'[c].longOk = mem[c].longOk /\ mem'[c].shortOk = mem[c].shortOk
        /\ mem'[c].shortAfter = Abs(seen)
    BY <1>0, <1>2, <2>1 DEF Locals
  <2>4. /\ LegDone(mem[c].shortOk, StartShort(c), pos[Short(c)])
        /\ LegDone(mem[c].longOk, StartLong(c), pos[Long(c)])
        /\ StartShort(c) # 0 \/ StartLong(c) # 0
    BY <1>9 DEF ReadShortAfter, Closing, ExitPCs
  <2>5. /\ LegDone(mem[c].shortOk, StartShort(c), pos[Short(c)])'
        /\ LegDone(mem[c].longOk, StartLong(c), pos[Long(c)])'
    BY <1>2, <2>1, <2>2, <2>3, <2>4 DEF LegDone
  <2>6. QED
    BY <1>2, <2>1, <2>2, <2>3, <2>4, <2>5 DEF Closing, ExitPCs
<1>10. CASE ReadLongAfter(c)
  BY <1>1, <1>10 DEF ReadLongAfter
<1>11. QED
  BY <1>4, <1>5, <1>6, <1>7, <1>8, <1>9, <1>10 DEF Exit

-----------------------------------------------------------------------------
\* What a call that closes everything answers.

LEMMA SameExitStatus ==
  ASSUME NEW okA \in BOOLEAN, NEW restA \in Int, NEW okB \in BOOLEAN, NEW restB \in Int,
         Fine(Abs(restA), Abs(restB)),
         NEW s \in Contract!Looks(restA), NEW l \in Contract!Looks(restB)
  PROVE  ExitStatus(okA, okB, s, l)
           \in Contract!Exited([ok |-> okA, rest |-> restA], [ok |-> okB, rest |-> restB])
<1> DEFINE a == [ok |-> okA, rest |-> restA]
           b == [ok |-> okB, rest |-> restB]
<1>1. a.ok = okA /\ a.rest = restA /\ b.ok = okB /\ b.rest = restB
  OBVIOUS
<1>2. Contract!Magnitude(restA) = Abs(restA) /\ Contract!Magnitude(restB) = Abs(restB)
  BY SameMagnitude
<1>3. Abs(restA) \in Nat /\ Abs(restB) \in Nat
  BY DEF Abs
<1>4. Balanced(Abs(restA), Abs(restB)) <=> Abs(restA) = Abs(restB)
  BY <1>3, BalancedIsEqual
<1> HIDE DEF a, b
<1>5. CASE ~(okA /\ okB)
  BY <1>1, <1>5 DEF ExitStatus, Contract!Exited
<1>6. CASE okA /\ okB /\ "blind" \in Faults
  <2>1. ExitStatus(okA, okB, s, l) \in {"success", "partial"}
    BY <1>6 DEF ExitStatus
  <2>2. QED
    BY <1>1, <1>6, <2>1 DEF Contract!Exited, Contract!When
<1>7. CASE okA /\ okB /\ "blind" \notin Faults
  <2>1. s = Abs(restA) /\ l = Abs(restB)
    BY <1>7, Looked DEF Contract!When
  <2>2. ExitStatus(okA, okB, s, l)
          = IF Abs(restA) = Abs(restB) THEN "success" ELSE "partial"
    BY <1>4, <1>7, <2>1 DEF ExitStatus
  <2>3. QED
    BY <1>1, <1>2, <1>7, <2>2 DEF Contract!Exited
<1>8. QED
  BY <1>5, <1>6, <1>7

LEMMA ReadLongAfterAnswers ==
  ASSUME TypeOK, ContractTypeOK, NEW c \in Live, Closing(c), ReadLongAfter(c),
         Fine(Abs(pos'[Short(c)]), Abs(pos'[Long(c)]))
  PROVE  Left(c) \in Contract!CloseAnswers(Hedged(c))
<1>1. pc[c] = "read_long_after" /\ pc[c] # "idle"
  BY DEF ReadLongAfter
<1>2. /\ c \in Callers /\ mem[c] \in Locals /\ StartShort(c) \in Int /\ StartLong(c) \in Int
      /\ pos[Short(c)] \in Int /\ pos[Long(c)] \in Int
  BY <1>1, CourseType
<1>3. mem[c].shortOk \in BOOLEAN /\ mem[c].longOk \in BOOLEAN
  BY <1>2 DEF Locals
<1>4. /\ LegDone(mem[c].shortOk, StartShort(c), pos[Short(c)])
      /\ LegDone(mem[c].longOk, StartLong(c), pos[Long(c)])
      /\ StartShort(c) # 0 \/ StartLong(c) # 0
      /\ mem[c].shortAfter \in Contract!Looks(pos[Short(c)])
  BY <1>1 DEF Closing, ExitPCs
<1>5. PICK seen \in Seen(Long(c)) :
        /\ Reads(c, Long(c), seen)
        /\ Return(c, Outcome(ExitStatus(mem[c].shortOk, mem[c].longOk,
                                        mem[c].shortAfter, Abs(seen)), "", 0, 0))
  BY DEF ReadLongAfter
<1>6. pos' = pos /\ Abs(seen) \in Contract!Looks(pos[Long(c)])
  BY <1>5, SeenLooks DEF Reads
<1> DEFINE status == ExitStatus(mem[c].shortOk, mem[c].longOk, mem[c].shortAfter, Abs(seen))
<1>7. out'[c].status = status
  <2>1. PICK reason : Return(c, Outcome(status, reason, 0, 0))
    BY <1>5
  <2> HIDE DEF status
  <2>2. QED
    BY <1>2, <2>1, ReturnOutcome
<1>8. status \in Contract!Exited([ok |-> mem[c].shortOk, rest |-> pos[Short(c)]],
                                 [ok |-> mem[c].longOk, rest |-> pos[Long(c)]])
  BY <1>2, <1>3, <1>4, <1>6, SameExitStatus
<1> HIDE DEF status
<1>9. Left(c) = Contract!Answer(status, pos[Short(c)], pos[Long(c)])
  BY <1>6, <1>7 DEF Left
<1>10. Hedged(c) = Contract!Hedge(StartShort(c), StartLong(c))
  BY DEF Hedged, StartShort, StartLong
<1>11. QED
  BY <1>2, <1>4, <1>8, <1>9, <1>10, AnswersOfClose

LEMMA FindLongAnswers ==
  ASSUME TypeOK, ContractTypeOK, NEW c \in Live, Closing(c), FindLong(c), pc'[c] = "idle"
  PROVE  Left(c) \in Contract!CloseAnswers(Hedged(c))
<1>1. pc[c] = "find_long" /\ pc[c] # "idle"
  BY DEF FindLong
<1>2. /\ c \in Callers /\ c \notin DryRun /\ StartShort(c) \in Int /\ StartLong(c) \in Int
  BY <1>1, CourseType
<1>3. /\ pos[Short(c)] = StartShort(c) /\ pos[Long(c)] = StartLong(c)
      /\ mem[c].shortLeg \in Sights(StartShort(c))
  BY <1>1 DEF Closing
<1>4. ASSUME NEW x, Remember(c, x, "close_short") PROVE FALSE
  BY <1>2, <1>4, OwnRemember
<1>5. PICK seen \in Seen(Long(c)) :
        /\ Reads(c, Long(c), seen)
        /\ mem[c].shortLeg = 0 /\ seen = 0
        /\ Return(c, Failed("no_position"))
  BY <1>2, <1>4 DEF FindLong
<1>6. pos' = pos /\ 0 \in Sights(StartShort(c)) /\ 0 \in Sights(StartLong(c))
  BY <1>3, <1>5, SeenLooks DEF Reads
<1>7. out'[c].status = "failed"
  BY <1>2, <1>5, ReturnOutcome DEF Failed
<1>8. Left(c) = Contract!Answer("failed", StartShort(c), StartLong(c))
  BY <1>3, <1>6, <1>7 DEF Left
<1>9. Hedged(c) = Contract!Hedge(StartShort(c), StartLong(c))
  BY DEF Hedged, StartShort, StartLong
<1>10. QED
  BY <1>2, <1>6, <1>8, <1>9, AnswersOfNothing

LEMMA ExitAbortAnswers ==
  ASSUME TypeOK, ContractTypeOK, NEW c \in Live, pc[c] \in ExitPCs, Closing(c), Abort(c)
  PROVE  Left(c) \in Contract!CloseAnswers(Hedged(c))
<1>1. pc[c] # "idle" /\ c \in Callers /\ "abort" \in Faults /\ pos' = pos
  BY DEF Abort, Live
<1>2. Left(c) = Contract!Answer("raised", pos[Short(c)], pos[Long(c)])
  <2>1. ASSUME NEW reason, NEW s, NEW l, Return(c, Outcome("raised", reason, s, l))
        PROVE  out'[c].status = "raised"
    BY <1>1, <2>1, ReturnOutcome
  <2>2. out'[c].status = "raised"
    BY <2>1 DEF Abort
  <2>3. QED
    BY <1>1, <2>2 DEF Left
<1>3. StartShort(c) \in Int /\ StartLong(c) \in Int
  BY <1>1, CourseType
<1>4. Hedged(c) = Contract!Hedge(StartShort(c), StartLong(c))
  BY DEF Hedged, StartShort, StartLong
<1>5. CASE pc[c] \in {"find_short", "find_long", "close_short"}
  <2>1. pos[Short(c)] = StartShort(c) /\ pos[Long(c)] = StartLong(c)
    BY <1>5 DEF Closing
  <2>2. QED
    BY <1>1, <1>2, <1>3, <1>4, <2>1, AnswersAborted
<1>6. CASE pc[c] = "close_long"
  <2>1. /\ LegDone(mem[c].shortOk, StartShort(c), pos[Short(c)]) /\ pos[Long(c)] = StartLong(c)
        /\ StartShort(c) # 0 \/ StartLong(c) # 0
    BY <1>6 DEF Closing, ExitPCs
  <2>2. QED
    BY <1>1, <1>2, <1>3, <1>4, <2>1, SomeClose, AnswersOfClose
<1>7. CASE pc[c] \in {"read_short_after", "read_long_after"}
  <2>1. /\ LegDone(mem[c].shortOk, StartShort(c), pos[Short(c)])
        /\ LegDone(mem[c].longOk, StartLong(c), pos[Long(c)])
        /\ StartShort(c) # 0 \/ StartLong(c) # 0
    BY <1>7 DEF Closing, ExitPCs
  <2>2. QED
    BY <1>1, <1>2, <1>3, <1>4, <2>1, AnswersOfClose
<1>8. QED
  BY <1>5, <1>6, <1>7 DEF ExitPCs

-----------------------------------------------------------------------------
\* The contract is kept.

\* The history a call starts with: the positions it finds, nobody but it.
LEMMA ContractStarts == ContractInit => ContractInv
<1> SUFFICES ASSUME ContractInit PROVE ContractInv
  OBVIOUS
<1>1. pos \in [Exchanges -> Int]
  BY InitTypes DEF ContractInit, TypeOK, LedgerTypeOK
<1>2. \A c \in Callers : pc[c] = "idle"
  BY DEF ContractInit, Init
<1>3. ContractTypeOK
  BY <1>1 DEF ContractInit, ContractTypeOK
<1>4. QED
  BY <1>2, <1>3 DEF ContractInv, Live

LEMMA OwnStepKeepsCourse ==
  ASSUME TypeOK, WholeLots, ContractInv, KeepFrom, KeepAlone, NEW c \in Live,
         Enter(c) \/ Exit(c) \/ Abort(c), alone'[c], pc'[c] # "idle"
  PROVE  OnCourse(c)'
<1>1. c \in Callers /\ ContractTypeOK
  BY DEF Live, ContractInv
<1>2. ~Abort(c)
  <2>1. ASSUME NEW x, Return(c, x) PROVE FALSE
    BY <1>1, <2>1, OwnReturn
  <2>2. QED
    BY <2>1 DEF Abort
<1>3. CASE pc[c] = "idle"
  <2>1. from'[c] = pos
    BY <1>3 DEF KeepFrom, Begins
  <2>2. StartEnter(c) \/ StartExit(c)
    BY <1>2, <1>3 DEF Enter, Exit, ReadBeforeShort, ShortFilled, ShortRaises, ReadAfterShort,
       ReadBeforeLong, LongFilled, LongRaises, ReadAfterLong, RollbackFind, RollbackClosed,
       RollbackRaises, FindShort, FindLong, CloseShort, CloseLong, ReadShortAfter, ReadLongAfter
  <2>3. CASE StartEnter(c)
    <3>1. pc'[c] \in EnterPCs /\ Entering(c)'
      BY <2>1, <2>3, StartEnters
    <3>2. QED
      BY <3>1 DEF OnCourse, EnterPCs, ExitPCs
  <2>4. CASE StartExit(c)
    <3>1. pc'[c] \in ExitPCs /\ Closing(c)'
      BY <2>1, <2>4, StartCloses
    <3>2. QED
      BY <3>1 DEF OnCourse, EnterPCs, ExitPCs
  <2>5. QED
    BY <2>2, <2>3, <2>4
<1>4. CASE pc[c] # "idle"
  <2>1. from'[c] = from[c] /\ alone[c]
    BY <1>1, <1>4, OwnHistory
  <2>2. OnCourse(c)
    BY <1>4, <2>1 DEF ContractInv
  <2>3. CASE Enter(c)
    <3>1. pc[c] \in EnterPCs
      BY <1>4, <2>3 DEF Enter, StartEnter, Start, ReadBeforeShort, ShortFilled, ShortRaises,
         ReadAfterShort, ReadBeforeLong, LongFilled, LongRaises, ReadAfterLong, RollbackFind,
         RollbackClosed, RollbackRaises, EnterPCs
    <3>2. pc'[c] \in EnterPCs /\ Entering(c)'
      BY <1>1, <1>4, <2>1, <2>2, <2>3, <3>1, EnterStaysOnCourse DEF OnCourse
    <3>3. QED
      BY <3>2 DEF OnCourse, EnterPCs, ExitPCs
  <2>4. CASE Exit(c)
    <3>1. pc[c] \in ExitPCs
      BY <1>4, <2>4 DEF Exit, StartExit, Start, FindShort, FindLong, CloseShort, CloseLong,
         ReadShortAfter, ReadLongAfter, ExitPCs
    <3>2. req'[c] = req[c] /\ pc'[c] \in ExitPCs
      <4>1. ASSUME NEW x, NEW label, Remember(c, x, label) PROVE pc'[c] = label /\ req'[c] = req[c]
        BY <1>1, <2>1, <4>1, GoesOn
      <4>2. ASSUME NEW x, Return(c, x) PROVE FALSE
        BY <1>1, <4>2, OwnReturn
      <4>3. \E x, label : label \in ExitPCs /\ Remember(c, x, label)
        BY <1>1, <1>4, <2>4, <4>2 DEF Live, Exit, StartExit, Start, FindShort, FindLong, CloseShort,
           CloseLong, ReadShortAfter, ReadLongAfter, ExitPCs
      <4>4. QED
        BY <4>1, <4>3
    <3>3. CASE req[c].percent = 100
      <4>1. Closing(c)'
        BY <1>1, <1>4, <2>1, <2>2, <2>4, <3>1, <3>3, ExitStaysOnCourse DEF OnCourse
      <4>2. QED
        BY <3>2, <4>1 DEF OnCourse, EnterPCs, ExitPCs
    <3>4. QED
      BY <3>2, <3>3 DEF OnCourse, EnterPCs, ExitPCs
  <2>5. QED
    BY <1>2, <2>3, <2>4
<1>5. QED
  BY <1>3, <1>4

LEMMA OtherStepKeepsCourse ==
  ASSUME TypeOK, ContractInv, KeepFrom, KeepAlone, NEW d \in Callers, NEW c \in Live, c # d,
         Enter(d) \/ Exit(d) \/ Abort(d), alone'[c], pc'[c] # "idle"
  PROVE  OnCourse(c)'
<1>1. c \in Callers /\ ContractTypeOK
  BY DEF Live, ContractInv
<1>2. pc'[c] = pc[c] /\ req'[c] = req[c] /\ mem'[c] = mem[c]
  BY <1>1, EnterUndisturbed, ExitUndisturbed, ControlUndisturbed DEF Undisturbed, Abort
<1>3. from'[c] = from[c] /\ alone[c] /\ ~Disturbed(c)
  BY <1>1, <1>2, OwnHistory
<1>4. OnCourse(c)
  BY <1>2, <1>3 DEF ContractInv
<1>5. QED
  BY <1>2, <1>3, <1>4, OthersKeepCourse

LEMMA ContractNextKeeps ==
  TypeOK /\ WholeLots /\ ContractInv /\ [ContractNext]_<<vars, from, alone>> => ContractInv'
<1> SUFFICES ASSUME TypeOK, WholeLots, ContractInv, [ContractNext]_<<vars, from, alone>>
             PROVE  ContractInv'
  OBVIOUS
<1>1. CASE UNCHANGED <<vars, from, alone>>
  <2>1. pos' = pos /\ pc' = pc /\ req' = req /\ mem' = mem /\ from' = from /\ alone' = alone
    BY <1>1 DEF vars
  <2>2. ContractTypeOK'
    BY <2>1 DEF ContractInv, ContractTypeOK
  <2>3. \A c \in Live : ~Disturbed(c)
    BY <2>1 DEF Disturbed
  <2>4. \A c \in Live : alone'[c] /\ pc'[c] # "idle" => OnCourse(c)'
    BY <2>1, <2>3, OthersKeepCourse DEF ContractInv
  <2>5. QED
    BY <2>2, <2>4 DEF ContractInv
<1>2. CASE ContractNext
  <2>1. KeepFrom /\ KeepAlone /\ Next
    BY <1>2 DEF ContractNext
  <2>2. ContractTypeOK'
    BY <2>1, HistoryType DEF ContractInv
  <2>3. ASSUME NEW c \in Live, alone'[c], pc'[c] # "idle" PROVE OnCourse(c)'
    <3>1. CASE \E d \in Callers : Enter(d) \/ Exit(d) \/ Abort(d)
      BY <2>1, <2>3, <3>1, OwnStepKeepsCourse, OtherStepKeepsCourse
    <3>2. CASE Finished
      <4>1. pc'[c] = "idle"
        BY <3>2 DEF Finished, vars, Live
      <4>2. QED
        BY <2>3, <4>1
    <3>3. QED
      BY <2>1, <3>1, <3>2 DEF Next
  <2>4. QED
    BY <2>2, <2>3 DEF ContractInv
<1>3. QED
  BY <1>1, <1>2

\* What a returning call of a live caller answers.
LEMMA EnterIsKept ==
  ASSUME TypeOK, WholeLots, ContractInv, [Next]_vars, NEW c \in Live, alone[c],
         Returns(c, EnterPCs), Fine(out'[c].filledShort, out'[c].filledLong)
  PROVE  Left(c) \in Contract!EnterAnswers(Hedged(c), Size(c))
<1>1. c \in Callers /\ ContractTypeOK
  BY DEF Live, ContractInv
<1>2. pc[c] \in EnterPCs /\ pc'[c] = "idle" /\ pc[c] # "idle"
  BY DEF Returns, EnterPCs
<1>3. Entering(c)
  BY <1>2 DEF ContractInv, OnCourse
<1>4. \/ ShortRaises(c) \/ LongRaises(c) \/ ReadAfterLong(c)
      \/ RollbackFind(c) \/ RollbackClosed(c) \/ RollbackRaises(c)
      \/ Abort(c)
  BY <1>1, EnterReturns
<1>5. QED
  BY <1>1, <1>2, <1>3, <1>4, ShortRaisesAnswers, LongRaisesAnswers, ReadAfterLongAnswers,
     RollbackStepAnswers, EnterAbortAnswers

LEMMA ExitIsKept ==
  ASSUME TypeOK, WholeLots, ContractInv, [Next]_vars, NEW c \in Live, alone[c],
         Returns(c, ExitPCs), req[c].percent = 100,
         Fine(Abs(pos'[Short(c)]), Abs(pos'[Long(c)]))
  PROVE  Left(c) \in Contract!CloseAnswers(Hedged(c))
<1>1. c \in Callers /\ ContractTypeOK
  BY DEF Live, ContractInv
<1>2. pc[c] \in ExitPCs /\ pc[c] \notin EnterPCs /\ pc'[c] = "idle" /\ pc[c] # "idle"
  BY DEF Returns, EnterPCs, ExitPCs
<1>3. Closing(c)
  BY <1>2 DEF ContractInv, OnCourse
<1>4. Enter(c) \/ Exit(c) \/ Abort(c)
  BY <1>1, <1>2, ReturningStep
<1>5. ~Enter(c)
  BY <1>2 DEF Enter, StartEnter, Start, ReadBeforeShort, ShortFilled, ShortRaises,
     ReadAfterShort, ReadBeforeLong, LongFilled, LongRaises, ReadAfterLong, RollbackFind,
     RollbackClosed, RollbackRaises, EnterPCs
<1>6. CASE Exit(c)
  <2>1. ASSUME NEW x, NEW label, Remember(c, x, label) PROVE label = "idle"
    BY <1>1, <1>2, <2>1, OwnRemember
  <2>2. FindLong(c) \/ ReadLongAfter(c)
    BY <1>2, <1>6, <2>1 DEF Exit, StartExit, Start, FindShort, CloseShort, CloseLong, ReadShortAfter
  <2>3. QED
    BY <1>1, <1>2, <1>3, <2>2, FindLongAnswers, ReadLongAfterAnswers
<1>7. CASE Abort(c)
  BY <1>1, <1>2, <1>3, <1>7, ExitAbortAnswers
<1>8. QED
  BY <1>4, <1>5, <1>6, <1>7

\* Every answer of open, accumulate and close_all to a call whose legs nobody
\* else traded, with the positions it leaves, is one HedgeContract allows from
\* the positions the call started on.
THEOREM ContractIsKept == ContractSpec => ContractKept
<1>1. ContractInit => TypeOK /\ HonestCallsKnowTheirLegs /\ FullInv /\ ContractInv
  BY ContractStarts, InitTypes, InitTruth, InitFull DEF ContractInit
<1>2. [ContractNext]_<<vars, from, alone>> => [Next]_vars
  BY DEF ContractNext, vars
<1>3. TypeOK /\ HonestCallsKnowTheirLegs /\ FullInv /\ ContractInv
        /\ [ContractNext]_<<vars, from, alone>>
        => (TypeOK /\ HonestCallsKnowTheirLegs /\ FullInv /\ ContractInv)'
  <2>1. FullInv => WholeLots
    BY DEF FullInv, InLots
  <2>2. QED
    BY <1>2, <2>1, NextKeepsTypes, NextKeepsTruth, NextKeepsFull, ContractNextKeeps
<1>4. TypeOK /\ FullInv /\ ContractInv /\ [Next]_vars =>
        \A c \in Live : alone[c] =>
          /\ Returns(c, EnterPCs) /\ Size(c) <= MaxSize
               /\ Fine(out'[c].filledShort, out'[c].filledLong)
               => Left(c) \in Contract!EnterAnswers(Hedged(c), Size(c))
          /\ Returns(c, ExitPCs) /\ req[c].percent = 100
               /\ Fine(Abs(pos'[Short(c)]), Abs(pos'[Long(c)]))
               => Left(c) \in Contract!CloseAnswers(Hedged(c))
  BY EnterIsKept, ExitIsKept DEF FullInv, InLots
<1>5. QED
  BY <1>1, <1>2, <1>3, <1>4, PTL DEF ContractSpec, ContractKept
=============================================================================
