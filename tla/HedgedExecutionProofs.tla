----------------------- MODULE HedgedExecutionProofs -----------------------
(***************************************************************************)
(* What the hedged executor guarantees for any number of callers, any      *)
(* exchanges and lot steps, and every combination of faults.               *)
(***************************************************************************)
EXTENDS HedgedExecution, WellFoundedInduction, TLAPS

-----------------------------------------------------------------------------
\* Arithmetic of the lot steps.

\* A non-empty set of naturals has a least element.
LEMMA LeastNatural ==
  ASSUME NEW S \in SUBSET Nat, S # {}
  PROVE  \E k \in S : \A j \in S : k <= j
<1>1. IsWellFoundedOn(OpToRel(<, Nat), Nat)
  BY NatLessThanWellFounded
<1>2. PICK k \in S : \A j \in S : ~(<<j, k>> \in OpToRel(<, Nat))
  BY <1>1, WFMin
<1>3. \A j \in S : ~(j < k)
  BY <1>2 DEF OpToRel
<1>4. QED
  BY <1>3

\* _harmonize_amounts: the common step of two lot steps is a positive multiple
\* of both.
LEMMA CommonStepType ==
  ASSUME NEW m \in Nat \ {0}, NEW n \in Nat \ {0}
  PROVE  /\ CommonStep(m, n) \in Nat \ {0}
         /\ CommonStep(m, n) % m = 0
         /\ CommonStep(m, n) % n = 0
<1> DEFINE Multiples == {k \in 1 .. m * n : k % m = 0 /\ k % n = 0}
<1>1. m * n \in Multiples
  <2>1. m * n \in Nat /\ m * n >= 1
    BY SMT
  <2>2. (m * n) % m = 0
    BY SMT
  <2>3. (m * n) % n = 0
    BY SMT
  <2>4. QED
    BY <2>1, <2>2, <2>3
<1>2. PICK k \in Multiples : \A j \in Multiples : k <= j
  <2>1. m * n \in Int
    BY SMT
  <2>2. Multiples \in SUBSET Nat
    BY <2>1
  <2>3. Multiples # {}
    BY <1>1
  <2>4. QED
    BY <2>2, <2>3, LeastNatural
<1>3. \A j \in 1 .. k - 1 : j % m # 0 \/ j % n # 0
  <2>1. SUFFICES ASSUME NEW j \in 1 .. k - 1, j % m = 0, j % n = 0
                 PROVE  FALSE
    OBVIOUS
  <2>2. m * n \in Int /\ k \in 1 .. m * n
    BY SMT
  <2>3. j \in Multiples
    BY <2>1, <2>2
  <2>4. k <= j
    BY <1>2, <2>3
  <2>5. QED
    BY <2>2, <2>4
<1> DEFINE Least(i) ==
             /\ i % m = 0 /\ i % n = 0
             /\ \A j \in 1 .. i - 1 : j % m # 0 \/ j % n # 0
<1>4. \E i \in 1 .. m * n : Least(i)
  BY <1>2, <1>3
<1>5. CommonStep(m, n) = CHOOSE i \in 1 .. m * n : Least(i)
  BY DEF CommonStep
<1>6. CommonStep(m, n) \in 1 .. m * n /\ Least(CommonStep(m, n))
  <2> HIDE DEF Least
  <2>1. QED
    BY <1>4, <1>5
<1>7. QED
  BY <1>6, SMT

LEMMA FlooredType ==
  ASSUME NEW n \in Nat, NEW step \in Nat \ {0}
  PROVE  Floored(n, step) \in Nat
<1>1. n \div step \in Nat
  BY SMT
<1>2. QED
  BY <1>1, SMT DEF Floored

LEMMA FlooredBelow ==
  ASSUME NEW n \in Nat, NEW step \in Nat \ {0}
  PROVE  Floored(n, step) \in Nat /\ Floored(n, step) <= n
<1>1. n = step * (n \div step) + (n % step) /\ n \div step \in Nat /\ n % step \in Nat
  BY SMT
<1>2. (n \div step) * step <= n
  BY <1>1, SMT
<1>3. QED
  BY <1>2, FlooredType DEF Floored

LEMMA HarmonizedType ==
  ASSUME NEW n \in Nat, NEW s \in Exchanges, NEW l \in Exchanges
  PROVE  Harmonized(n, s, l) \in Nat
<1>1. LotStep[s] \in Nat \ {0} /\ LotStep[l] \in Nat \ {0}
  BY ExchangesAssumption
<1>2. CommonStep(LotStep[s], LotStep[l]) \in Nat \ {0}
  BY <1>1, CommonStepType
<1>3. QED
  BY <1>2, FlooredType DEF Harmonized

LEMMA LotsType ==
  ASSUME NEW n \in Nat, NEW e, NEW fault, NEW k \in Lots(n, e, fault)
  PROVE  k \in Nat /\ k <= n
BY DEF Lots

-----------------------------------------------------------------------------
\* Type correctness.

\* The legs and the size of a running call.
LEMMA CallType ==
  ASSUME TypeOK, NEW c \in Callers, pc[c] # "idle"
  PROVE  /\ Short(c) \in Exchanges
         /\ Long(c) \in Exchanges
         /\ Short(c) # Long(c)
         /\ pc[c] \in EnterPCs => Size(c) \in Nat
         /\ pc[c] \in ExitPCs => req[c].percent \in Nat
<1>1. pc[c] \in EnterPCs \/ pc[c] \in ExitPCs
  BY DEF TypeOK, ControlTypeOK
<1>2. req[c] \in Enters \/ req[c] \in Exits
  BY <1>1 DEF TypeOK, ControlTypeOK
<1>3. req[c].legs \in Legs
  BY <1>2 DEF Enters, Exits
<1>4. Short(c) \in Exchanges /\ Long(c) \in Exchanges /\ Short(c) # Long(c)
  BY <1>3 DEF Legs, Short, Long
<1>5. ASSUME pc[c] \in EnterPCs PROVE Size(c) \in Nat
  <2>1. req[c].size \in Nat
    BY <1>5, RequestAssumption DEF TypeOK, ControlTypeOK, Enters
  <2>2. QED
    BY <2>1, <1>4, HarmonizedType DEF Size
<1>6. ASSUME pc[c] \in ExitPCs PROVE req[c].percent \in Nat
  BY <1>6, RequestAssumption DEF TypeOK, ControlTypeOK, Exits
<1>7. QED
  BY <1>4, <1>5, <1>6

LEMMA ReturnType ==
  ASSUME TypeOK, NEW c \in Callers, NEW outcome \in Outcomes, Return(c, outcome)
  PROVE  ControlTypeOK'
<1>1. Clear \in Locals
  BY DEF Clear, Locals
<1>2. pc' = [pc EXCEPT ![c] = "idle"] /\ req' = [req EXCEPT ![c] = NoRequest]
  BY DEF Return, Goto
<1>3. \A d \in Callers :
        /\ pc'[d] \in EnterPCs => req'[d] \in Enters
        /\ pc'[d] \in ExitPCs => req'[d] \in Exits
  BY <1>2 DEF TypeOK, ControlTypeOK, EnterPCs, ExitPCs
<1>4. mem' \in [Callers -> Locals] /\ out' \in [Callers -> Outcomes]
  BY <1>1 DEF Return, TypeOK, ControlTypeOK
<1>5. QED
  BY <1>2, <1>3, <1>4 DEF TypeOK, ControlTypeOK

LEMMA EnterRememberType ==
  ASSUME TypeOK, NEW c \in Callers, pc[c] \in EnterPCs,
         NEW locals \in Locals, NEW label \in EnterPCs, Remember(c, locals, label)
  PROVE  ControlTypeOK'
<1>1. pc' = [pc EXCEPT ![c] = label] /\ req' = req
  BY DEF Remember, Goto
<1>2. \A d \in Callers :
        /\ pc'[d] \in EnterPCs => req'[d] \in Enters
        /\ pc'[d] \in ExitPCs => req'[d] \in Exits
  BY <1>1 DEF TypeOK, ControlTypeOK, EnterPCs, ExitPCs
<1>3. mem' \in [Callers -> Locals] /\ out' = out
  BY DEF Remember, TypeOK, ControlTypeOK
<1>4. QED
  BY <1>1, <1>2, <1>3 DEF TypeOK, ControlTypeOK

LEMMA ExitRememberType ==
  ASSUME TypeOK, NEW c \in Callers, pc[c] \in ExitPCs,
         NEW locals \in Locals, NEW label \in ExitPCs, Remember(c, locals, label)
  PROVE  ControlTypeOK'
<1>1. pc' = [pc EXCEPT ![c] = label] /\ req' = req
  BY DEF Remember, Goto
<1>2. \A d \in Callers :
        /\ pc'[d] \in EnterPCs => req'[d] \in Enters
        /\ pc'[d] \in ExitPCs => req'[d] \in Exits
  BY <1>1 DEF TypeOK, ControlTypeOK, EnterPCs, ExitPCs
<1>3. mem' \in [Callers -> Locals] /\ out' = out
  BY DEF Remember, TypeOK, ControlTypeOK
<1>4. QED
  BY <1>1, <1>2, <1>3 DEF TypeOK, ControlTypeOK

LEMMA OutcomeType ==
  ASSUME NEW status \in Statuses, NEW reason \in Reasons,
         NEW s \in Nat, NEW l \in Nat
  PROVE  Outcome(status, reason, s, l) \in Outcomes
BY DEF Outcome, Outcomes

LEMMA FailedType ==
  ASSUME NEW reason \in Reasons
  PROVE  Failed(reason) \in Outcomes
<1>1. "failed" \in Statuses
  BY DEF Statuses
<1>2. QED
  BY <1>1, OutcomeType DEF Failed

\* The effect of the exchange steps.

LEMMA SeenType ==
  ASSUME TypeOK, NEW e \in Exchanges, NEW seen \in Seen(e)
  PROVE  seen \in Int /\ Abs(seen) \in Nat
BY DEF Seen, TypeOK, LedgerTypeOK, Abs

LEMMA ReadsType ==
  ASSUME TypeOK, NEW c \in Callers, NEW e, NEW seen, Reads(c, e, seen)
  PROVE  LedgerTypeOK'
<1>1. misled' \in [Callers -> BOOLEAN]
  BY DEF Reads, TypeOK, LedgerTypeOK
<1>2. QED
  BY <1>1 DEF Reads, TypeOK, LedgerTypeOK

LEMMA RefusedType ==
  ASSUME TypeOK, Refused
  PROVE  LedgerTypeOK'
BY DEF Refused, TypeOK, LedgerTypeOK

LEMMA ExecutesType ==
  ASSUME TypeOK, NEW c \in Callers, NEW e \in Exchanges, NEW change \in Int,
         NEW deceived, Executes(c, e, change, deceived),
         done' \in [Callers -> [sold : Nat, bought : Nat, undone : Nat]]
  PROVE  LedgerTypeOK'
<1>1. pos' \in [Exchanges -> Int]
  BY DEF Executes, TypeOK, LedgerTypeOK
<1>2. misled' \in [Callers -> BOOLEAN]
  BY Zenon DEF Executes, TypeOK, LedgerTypeOK
<1>3. calls' \in 0 .. MaxCalls
  BY DEF Executes, TypeOK, LedgerTypeOK
<1>4. QED
  BY <1>1, <1>2, <1>3 DEF LedgerTypeOK

LEMMA DoneType ==
  ASSUME TypeOK, NEW c \in Callers, NEW k \in Nat,
         \/ done' = done
         \/ done' = [done EXCEPT ![c].sold = k]
         \/ done' = [done EXCEPT ![c].bought = k]
         \/ done' = [done EXCEPT ![c].undone = k]
  PROVE  done' \in [Callers -> [sold : Nat, bought : Nat, undone : Nat]]
BY DEF TypeOK, LedgerTypeOK

LEMMA ClosableType ==
  ASSUME TypeOK, NEW e \in Exchanges, NEW leg \in Int, NEW amount \in Nat
  PROVE  Closable(e, leg, amount) \in Nat
<1>1. pos[e] \in Int
  BY DEF TypeOK, LedgerTypeOK
<1>2. QED
  BY <1>1 DEF Closable, Smaller, Abs

LEMMA StartType ==
  ASSUME TypeOK, NEW c \in Callers, Start(c)
  PROVE  LedgerTypeOK'
<1>1. pos' \in [Exchanges -> Int] /\ misled' \in [Callers -> BOOLEAN]
  BY DEF Start, TypeOK, LedgerTypeOK
<1>2. calls' \in 0 .. MaxCalls
  BY BoundsAssumption DEF Start, TypeOK, LedgerTypeOK
<1>3. done' \in [Callers -> [sold : Nat, bought : Nat, undone : Nat]]
  BY DEF Start, TypeOK, LedgerTypeOK
<1>4. QED
  BY <1>1, <1>2, <1>3 DEF LedgerTypeOK

LEMMA LongAmountType ==
  ASSUME TypeOK, NEW c \in Callers, pc[c] = "send_long"
  PROVE  Long(c) \in Exchanges /\ LongAmount(c) \in Nat
<1>1. Long(c) \in Exchanges /\ Size(c) \in Nat
  BY CallType DEF EnterPCs
<1>2. mem[c].filled \in Nat /\ LotStep[Long(c)] \in Nat \ {0}
  BY <1>1, ExchangesAssumption DEF TypeOK, ControlTypeOK, Locals
<1>3. QED
  BY <1>1, <1>2, FlooredType DEF LongAmount

LEMMA RollbackAmountType ==
  ASSUME TypeOK, NEW c \in Callers, pc[c] = "rollback_close"
  PROVE  RollbackAmount(c) \in Nat /\ Short(c) \in Exchanges
<1>1. Short(c) \in Exchanges
  BY CallType
<1>2. mem[c].shortLeg \in Int
  BY DEF TypeOK, ControlTypeOK, Locals
<1>3. Abs(mem[c].shortLeg) \in Nat
  BY <1>2 DEF Abs
<1>4. QED
  BY <1>1, <1>2, <1>3, ClosableType DEF RollbackAmount

LEMMA ClosesType ==
  ASSUME TypeOK, NEW c \in Callers, NEW e \in Exchanges, NEW leg, NEW k \in Nat,
         NEW deceived, Closes(c, e, leg, k, deceived),
         done' \in [Callers -> [sold : Nat, bought : Nat, undone : Nat]]
  PROVE  LedgerTypeOK'
<1>1. (IF leg < 0 THEN k ELSE -k) \in Int
  OBVIOUS
<1>2. QED
  BY <1>1, ExecutesType DEF Closes

\* Every step of an entering call keeps the types.
LEMMA EnterKeepsTypes ==
  ASSUME TypeOK, NEW c \in Callers, Enter(c)
  PROVE  TypeOK'
<1> USE DEF Statuses, Reasons
<1>0. mem[c] \in Locals
  BY DEF TypeOK, ControlTypeOK
<1>1. CASE StartEnter(c)
  <2>1. PICK r \in Enters :
          /\ Start(c)
          /\ LET reason == EnterRejection(c, r)
                 size == Harmonized(r.size, r.legs[1], r.legs[2])
             IN  \/ reason # "" /\ Return(c, Failed(reason))
                 \/ /\ reason = "" /\ c \in DryRun
                    /\ Return(c, Outcome("simulated", "", size, size))
                 \/ /\ reason = "" /\ c \notin DryRun
                    /\ Begin(c, r, "read_before_short")
    BY <1>1 DEF StartEnter
  <2>2. LedgerTypeOK'
    BY <2>1, StartType
  <2>3. EnterRejection(c, r) \in Reasons
    BY DEF EnterRejection
  <2>4. Harmonized(r.size, r.legs[1], r.legs[2]) \in Nat
    <3>1. r.size \in Nat /\ r.legs[1] \in Exchanges /\ r.legs[2] \in Exchanges
      BY RequestAssumption DEF Enters, Legs
    <3>2. QED
      BY <3>1, HarmonizedType
  <2>5. CASE Return(c, Failed(EnterRejection(c, r)))
    BY <2>2, <2>3, <2>5, FailedType, ReturnType DEF TypeOK
  <2>6. CASE Return(c, Outcome("simulated", "",
                              Harmonized(r.size, r.legs[1], r.legs[2]),
                              Harmonized(r.size, r.legs[1], r.legs[2])))
    <3>1. Outcome("simulated", "", Harmonized(r.size, r.legs[1], r.legs[2]),
                  Harmonized(r.size, r.legs[1], r.legs[2])) \in Outcomes
      BY <2>4, OutcomeType
    <3>2. QED
      BY <3>1, <2>2, <2>6, ReturnType DEF TypeOK
  <2>7. CASE Begin(c, r, "read_before_short")
    <3>1. ControlTypeOK'
      BY <2>7 DEF Begin, Goto, TypeOK, ControlTypeOK, EnterPCs, ExitPCs, Requests
    <3>2. QED
      BY <3>1, <2>2 DEF TypeOK
  <2>8. QED
    BY <2>1, <2>5, <2>6, <2>7
<1>2. CASE ReadBeforeShort(c)
  <2>1. Short(c) \in Exchanges
    BY <1>2, CallType DEF ReadBeforeShort
  <2>2. PICK seen \in Seen(Short(c)) :
          /\ Reads(c, Short(c), seen)
          /\ Remember(c, [mem[c] EXCEPT !.before = Abs(seen)], "send_short")
    BY <1>2 DEF ReadBeforeShort
  <2>3. [mem[c] EXCEPT !.before = Abs(seen)] \in Locals
    BY <1>0, <2>1, SeenType DEF Locals
  <2>4. ControlTypeOK'
    <3>1. pc[c] \in EnterPCs /\ "send_short" \in EnterPCs
      BY <1>2 DEF ReadBeforeShort, EnterPCs
    <3>2. QED
      BY <2>2, <2>3, <3>1, EnterRememberType
  <2>5. QED
    BY <2>1, <2>2, <2>4, ReadsType DEF TypeOK
<1>3. CASE ShortFilled(c)
  <2>1. Short(c) \in Exchanges /\ Size(c) \in Nat
    BY <1>3, CallType DEF ShortFilled, EnterPCs
  <2>2. PICK k \in Lots(Size(c), Short(c), "part_open") :
          /\ Executes(c, Short(c), -k, FALSE)
          /\ done' = [done EXCEPT ![c].sold = k]
          /\ Remember(c, mem[c], "read_after_short")
    BY <1>3 DEF ShortFilled
  <2>3. k \in Nat /\ -k \in Int
    BY <2>1, LotsType
  <2>4. ControlTypeOK'
    <3>1. pc[c] \in EnterPCs /\ "read_after_short" \in EnterPCs
      BY <1>3 DEF ShortFilled, EnterPCs
    <3>2. QED
      BY <1>0, <2>2, <3>1, EnterRememberType
  <2>5. QED
    BY <2>1, <2>2, <2>3, <2>4, DoneType, ExecutesType DEF TypeOK
<1>4. CASE ShortRaises(c)
  <2>1. Short(c) \in Exchanges /\ Size(c) \in Nat /\ -Size(c) \in Int
    BY <1>4, CallType DEF ShortRaises, EnterPCs
  <2>2. ControlTypeOK'
    BY <1>4, FailedType, ReturnType DEF ShortRaises
  <2>3. LedgerTypeOK'
    BY <1>4, <2>1, RefusedType, DoneType, ExecutesType DEF ShortRaises
  <2>4. QED
    BY <2>2, <2>3 DEF TypeOK
<1>5. CASE ReadAfterShort(c)
  <2>1. Short(c) \in Exchanges
    BY <1>5, CallType DEF ReadAfterShort
  <2>2. PICK seen \in Seen(Short(c)) :
          /\ Reads(c, Short(c), seen)
          /\ Remember(c, [mem[c] EXCEPT !.filled = Abs(Abs(seen) - mem[c].before)],
                      "read_before_long")
    BY <1>5 DEF ReadAfterShort
  <2>3. [mem[c] EXCEPT !.filled = Abs(Abs(seen) - mem[c].before)] \in Locals
    <3>1. Abs(Abs(seen) - mem[c].before) \in Nat
      BY <1>0, <2>1, SeenType DEF Locals, Abs
    <3>2. QED
      BY <1>0, <3>1 DEF Locals
  <2>4. ControlTypeOK'
    <3>1. pc[c] \in EnterPCs /\ "read_before_long" \in EnterPCs
      BY <1>5 DEF ReadAfterShort, EnterPCs
    <3>2. QED
      BY <2>2, <2>3, <3>1, EnterRememberType
  <2>5. QED
    BY <2>1, <2>2, <2>4, ReadsType DEF TypeOK
<1>6. CASE ReadBeforeLong(c)
  <2>1. Long(c) \in Exchanges
    BY <1>6, CallType DEF ReadBeforeLong
  <2>2. PICK seen \in Seen(Long(c)) :
          /\ Reads(c, Long(c), seen)
          /\ Remember(c, [mem[c] EXCEPT !.beforeLong = Abs(seen)], "send_long")
    BY <1>6 DEF ReadBeforeLong
  <2>3. [mem[c] EXCEPT !.beforeLong = Abs(seen)] \in Locals
    BY <1>0, <2>1, SeenType DEF Locals
  <2>4. ControlTypeOK'
    <3>1. pc[c] \in EnterPCs /\ "send_long" \in EnterPCs
      BY <1>6 DEF ReadBeforeLong, EnterPCs
    <3>2. QED
      BY <2>2, <2>3, <3>1, EnterRememberType
  <2>5. QED
    BY <2>1, <2>2, <2>4, ReadsType DEF TypeOK
<1>7. CASE LongFilled(c)
  <2>1. Long(c) \in Exchanges /\ LongAmount(c) \in Nat
    BY <1>7, LongAmountType DEF LongFilled
  <2>2. PICK k \in Lots(LongAmount(c), Long(c), "part_open") :
          /\ Executes(c, Long(c), k, FALSE)
          /\ done' = [done EXCEPT ![c].bought = k]
          /\ Remember(c, mem[c], "read_after_long")
    BY <1>7 DEF LongFilled
  <2>3. k \in Nat /\ k \in Int
    BY <2>1, LotsType
  <2>4. ControlTypeOK'
    <3>1. pc[c] \in EnterPCs /\ "read_after_long" \in EnterPCs
      BY <1>7 DEF LongFilled, EnterPCs
    <3>2. QED
      BY <1>0, <2>2, <3>1, EnterRememberType
  <2>5. QED
    BY <2>1, <2>2, <2>3, <2>4, DoneType, ExecutesType DEF TypeOK
<1>8. CASE LongRaises(c)
  <2>1. Long(c) \in Exchanges /\ LongAmount(c) \in Nat /\ LongAmount(c) \in Int
    BY <1>8, LongAmountType DEF LongRaises
  <2>2. mem[c].filled \in Nat
    BY <1>0 DEF Locals
  <2>3. ControlTypeOK'
    <3>1. pc[c] \in EnterPCs /\ "rollback_find" \in EnterPCs
      BY <1>8 DEF LongRaises, EnterPCs
    <3>2. Outcome("failed", "unhedged", mem[c].filled, 0) \in Outcomes
      BY <2>2, OutcomeType
    <3>3. \/ Remember(c, mem[c], "rollback_find")
          \/ Return(c, Outcome("failed", "unhedged", mem[c].filled, 0))
      BY <1>8 DEF LongRaises
    <3>4. QED
      BY <1>0, <3>1, <3>2, <3>3, ReturnType, EnterRememberType
  <2>4. LedgerTypeOK'
    BY <1>8, <2>1, RefusedType, DoneType, ExecutesType DEF LongRaises
  <2>5. QED
    BY <2>3, <2>4 DEF TypeOK
<1>9. CASE ReadAfterLong(c)
  <2>1. Long(c) \in Exchanges
    BY <1>9, CallType DEF ReadAfterLong
  <2>2. PICK seen \in Seen(Long(c)) :
          LET filledLong == Abs(Abs(seen) - mem[c].beforeLong)
          IN  /\ Reads(c, Long(c), seen)
              /\ Return(c, Outcome(EnterStatus(mem[c].filled, filledLong), "",
                                   mem[c].filled, filledLong))
    BY <1>9 DEF ReadAfterLong
  <2>3. Abs(Abs(seen) - mem[c].beforeLong) \in Nat /\ mem[c].filled \in Nat
    BY <1>0, <2>1, SeenType DEF Locals, Abs
  <2>4. EnterStatus(mem[c].filled, Abs(Abs(seen) - mem[c].beforeLong)) \in Statuses
    BY DEF EnterStatus
  <2>5. ControlTypeOK'
    <3>1. Outcome(EnterStatus(mem[c].filled, Abs(Abs(seen) - mem[c].beforeLong)), "",
                  mem[c].filled, Abs(Abs(seen) - mem[c].beforeLong)) \in Outcomes
      BY <2>3, <2>4, OutcomeType
    <3>2. QED
      BY <2>2, <3>1, ReturnType
  <2>6. QED
    BY <2>1, <2>2, <2>5, ReadsType DEF TypeOK
<1>10. CASE RollbackFind(c)
  <2>1. Short(c) \in Exchanges
    BY <1>10, CallType DEF RollbackFind
  <2>2. PICK seen \in Seen(Short(c)) :
          /\ Reads(c, Short(c), seen)
          /\ IF seen = 0 THEN Return(c, Outcome("rolled_back", "compensated", 0, 0))
             ELSE Remember(c, [mem[c] EXCEPT !.shortLeg = seen], "rollback_close")
    BY <1>10 DEF RollbackFind
  <2>3. [mem[c] EXCEPT !.shortLeg = seen] \in Locals
    BY <1>0, <2>1, SeenType DEF Locals
  <2>4. ControlTypeOK'
    <3>1. pc[c] \in EnterPCs /\ "rollback_close" \in EnterPCs
      BY <1>10 DEF RollbackFind, EnterPCs
    <3>2. Outcome("rolled_back", "compensated", 0, 0) \in Outcomes
      BY OutcomeType
    <3>3. QED
      BY <2>2, <2>3, <3>1, <3>2, ReturnType, EnterRememberType
  <2>5. QED
    BY <2>1, <2>2, <2>4, ReadsType DEF TypeOK
<1>11. CASE RollbackClosed(c)
  <2>1. RollbackAmount(c) \in Nat /\ Short(c) \in Exchanges
    BY <1>11, RollbackAmountType DEF RollbackClosed
  <2>2. PICK k \in Lots(RollbackAmount(c), Short(c), "part_close") :
          /\ Closes(c, Short(c), mem[c].shortLeg, k, k < Abs(mem[c].shortLeg))
          /\ done' = [done EXCEPT ![c].undone = k]
    BY <1>11 DEF RollbackClosed
  <2>3. k \in Nat
    BY <2>1, LotsType
  <2>4. ControlTypeOK'
    <3>1. Outcome("rolled_back", "compensated", 0, 0) \in Outcomes
      BY OutcomeType
    <3>2. QED
      BY <1>11, <3>1, ReturnType DEF RollbackClosed
  <2>5. QED
    BY <2>1, <2>2, <2>3, <2>4, DoneType, ClosesType DEF TypeOK
<1>12. CASE RollbackRaises(c)
  <2>1. RollbackAmount(c) \in Nat /\ Short(c) \in Exchanges
    BY <1>12, RollbackAmountType DEF RollbackRaises
  <2>2. ControlTypeOK'
    <3>1. mem[c].filled \in Nat
      BY <1>0 DEF Locals
    <3>2. Outcome("failed", "unhedged", mem[c].filled, 0) \in Outcomes
      BY <3>1, OutcomeType
    <3>3. QED
      BY <1>12, <3>2, ReturnType DEF RollbackRaises
  <2>3. LedgerTypeOK'
    BY <1>12, <2>1, RefusedType, DoneType, ClosesType DEF RollbackRaises
  <2>4. QED
    BY <2>2, <2>3 DEF TypeOK
<1>13. QED
  BY <1>1, <1>2, <1>3, <1>4, <1>5, <1>6, <1>7, <1>8, <1>9, <1>10, <1>11, <1>12
     DEF Enter

\* What a closing order may do.
LEMMA ClosesLegCases ==
  ASSUME TypeOK, NEW c \in Callers, pc[c] \in ExitPCs, NEW e \in Exchanges,
         NEW leg \in Int, NEW ok, ClosesLeg(c, e, leg, ok)
  PROVE  \/ Refused
         \/ \E change \in Int, deceived \in BOOLEAN :
              Executes(c, e, change, deceived) /\ done' = done
<1> DEFINE n == Closable(e, leg, Floored((Abs(leg) * req[c].percent) \div 100, LotStep[e]))
<1>1. n \in Nat
  <2>1. Abs(leg) \in Nat /\ req[c].percent \in Nat
    <3>1. pc[c] # "idle"
      BY DEF ExitPCs
    <3>2. QED
      BY <3>1, CallType DEF Abs
  <2>2. (Abs(leg) * req[c].percent) \div 100 \in Nat
    BY <2>1, SMT
  <2>3. QED
    BY <2>2, ExchangesAssumption, FlooredType, ClosableType
<1>2. \/ Refused
      \/ \E k \in Lots(n, e, "part_close") : Closes(c, e, leg, k, FALSE) /\ done' = done
      \/ Closes(c, e, leg, n, TRUE) /\ done' = done
  BY DEF ClosesLeg
<1>3. ASSUME NEW k \in Nat, NEW deceived \in BOOLEAN, Closes(c, e, leg, k, deceived)
      PROVE  \E change \in Int, dcv \in BOOLEAN : Executes(c, e, change, dcv)
  <2>1. (IF leg < 0 THEN k ELSE -k) \in Int
    OBVIOUS
  <2>2. QED
    BY <1>3, <2>1 DEF Closes
<1>4. \A k \in Lots(n, e, "part_close") : k \in Nat
  BY <1>1, LotsType
<1>5. QED
  BY <1>1, <1>2, <1>3, <1>4

LEMMA ClosesLegType ==
  ASSUME TypeOK, NEW c \in Callers, pc[c] \in ExitPCs, NEW e \in Exchanges,
         NEW leg \in Int, NEW ok, ClosesLeg(c, e, leg, ok)
  PROVE  LedgerTypeOK'
<1>1. CASE Refused
  BY <1>1, RefusedType
<1>2. ASSUME NEW change \in Int, NEW deceived \in BOOLEAN,
             Executes(c, e, change, deceived), done' = done
      PROVE  LedgerTypeOK'
  BY <1>2, DoneType, ExecutesType
<1>3. QED
  BY <1>1, <1>2, ClosesLegCases

\* Every step of a closing call keeps the types.
LEMMA ExitKeepsTypes ==
  ASSUME TypeOK, NEW c \in Callers, Exit(c)
  PROVE  TypeOK'
<1> USE DEF Statuses, Reasons
<1>0. mem[c] \in Locals /\ mem[c].shortLeg \in Int /\ mem[c].longLeg \in Int
  BY DEF TypeOK, ControlTypeOK, Locals
<1>1. CASE StartExit(c)
  <2>1. PICK r \in Exits :
          /\ Start(c)
          /\ \/ Return(c, Failed("invalid_close_percent"))
             \/ Return(c, Failed("gateway_missing"))
             \/ Begin(c, r, "find_short")
    BY <1>1 DEF StartExit
  <2>2. LedgerTypeOK'
    BY <2>1, StartType
  <2>3. CASE Return(c, Failed("invalid_close_percent")) \/ Return(c, Failed("gateway_missing"))
    BY <2>2, <2>3, FailedType, ReturnType DEF TypeOK
  <2>4. CASE Begin(c, r, "find_short")
    <3>1. ControlTypeOK'
      BY <2>4 DEF Begin, Goto, TypeOK, ControlTypeOK, EnterPCs, ExitPCs, Requests
    <3>2. QED
      BY <3>1, <2>2 DEF TypeOK
  <2>5. QED
    BY <2>1, <2>3, <2>4
<1>2. CASE FindShort(c)
  <2>1. Short(c) \in Exchanges
    BY <1>2, CallType DEF FindShort
  <2>2. PICK seen \in Seen(Short(c)) :
          /\ Reads(c, Short(c), seen)
          /\ Remember(c, [mem[c] EXCEPT !.shortLeg = seen], "find_long")
    BY <1>2 DEF FindShort
  <2>3. [mem[c] EXCEPT !.shortLeg = seen] \in Locals
    BY <1>0, <2>1, SeenType DEF Locals
  <2>4. pc[c] \in ExitPCs /\ "find_long" \in ExitPCs
    BY <1>2 DEF FindShort, ExitPCs
  <2>5. QED
    BY <2>2, <2>3, <2>4, ExitRememberType, ReadsType DEF TypeOK
<1>3. CASE FindLong(c)
  <2>1. Long(c) \in Exchanges
    BY <1>3, CallType DEF FindLong
  <2>2. PICK seen \in Seen(Long(c)) :
          /\ Reads(c, Long(c), seen)
          /\ \/ Return(c, Failed("no_position"))
             \/ Return(c, Outcome("simulated", "", 0, 0))
             \/ Remember(c, [mem[c] EXCEPT !.longLeg = seen], "close_short")
    BY <1>3 DEF FindLong
  <2>3. [mem[c] EXCEPT !.longLeg = seen] \in Locals
    BY <1>0, <2>1, SeenType DEF Locals
  <2>4. pc[c] \in ExitPCs /\ "close_short" \in ExitPCs
    BY <1>3 DEF FindLong, ExitPCs
  <2>5. Failed("no_position") \in Outcomes /\ Outcome("simulated", "", 0, 0) \in Outcomes
    BY FailedType, OutcomeType
  <2>6. QED
    BY <2>2, <2>3, <2>4, <2>5, ReturnType, ExitRememberType, ReadsType DEF TypeOK
<1>4. CASE CloseShort(c)
  <2>1. Short(c) \in Exchanges /\ pc[c] \in ExitPCs /\ "close_long" \in ExitPCs
    BY <1>4, CallType DEF CloseShort, ExitPCs
  <2>2. PICK ok \in BOOLEAN :
          /\ ClosesLeg(c, Short(c), mem[c].shortLeg, ok)
          /\ Remember(c, [mem[c] EXCEPT !.shortOk = ok], "close_long")
    BY <1>4 DEF CloseShort
  <2>3. [mem[c] EXCEPT !.shortOk = ok] \in Locals
    BY <1>0 DEF Locals
  <2>4. QED
    BY <1>0, <2>1, <2>2, <2>3, ClosesLegType, ExitRememberType DEF TypeOK
<1>5. CASE CloseLong(c)
  <2>1. Long(c) \in Exchanges /\ pc[c] \in ExitPCs /\ "read_short_after" \in ExitPCs
    BY <1>5, CallType DEF CloseLong, ExitPCs
  <2>2. PICK ok \in BOOLEAN :
          /\ ClosesLeg(c, Long(c), mem[c].longLeg, ok)
          /\ Remember(c, [mem[c] EXCEPT !.longOk = ok], "read_short_after")
    BY <1>5 DEF CloseLong
  <2>3. [mem[c] EXCEPT !.longOk = ok] \in Locals
    BY <1>0 DEF Locals
  <2>4. QED
    BY <1>0, <2>1, <2>2, <2>3, ClosesLegType, ExitRememberType DEF TypeOK
<1>6. CASE ReadShortAfter(c)
  <2>1. Short(c) \in Exchanges
    BY <1>6, CallType DEF ReadShortAfter
  <2>2. PICK seen \in Seen(Short(c)) :
          /\ Reads(c, Short(c), seen)
          /\ Remember(c, [mem[c] EXCEPT !.shortAfter = Abs(seen)], "read_long_after")
    BY <1>6 DEF ReadShortAfter
  <2>3. [mem[c] EXCEPT !.shortAfter = Abs(seen)] \in Locals
    BY <1>0, <2>1, SeenType DEF Locals
  <2>4. pc[c] \in ExitPCs /\ "read_long_after" \in ExitPCs
    BY <1>6 DEF ReadShortAfter, ExitPCs
  <2>5. QED
    BY <2>2, <2>3, <2>4, ExitRememberType, ReadsType DEF TypeOK
<1>7. CASE ReadLongAfter(c)
  <2>1. PICK seen \in Seen(Long(c)) :
          /\ Reads(c, Long(c), seen)
          /\ Return(c, Outcome(ExitStatus(mem[c].shortOk, mem[c].longOk,
                                          mem[c].shortAfter, Abs(seen)), "", 0, 0))
    BY <1>7 DEF ReadLongAfter
  <2>2. ExitStatus(mem[c].shortOk, mem[c].longOk, mem[c].shortAfter, Abs(seen)) \in Statuses
    BY DEF ExitStatus
  <2>3. Outcome(ExitStatus(mem[c].shortOk, mem[c].longOk, mem[c].shortAfter, Abs(seen)),
                "", 0, 0) \in Outcomes
    BY <2>2, OutcomeType
  <2>4. QED
    BY <2>1, <2>3, ReturnType, ReadsType DEF TypeOK
<1>8. QED
  BY <1>1, <1>2, <1>3, <1>4, <1>5, <1>6, <1>7 DEF Exit

LEMMA AbortKeepsTypes ==
  ASSUME TypeOK, NEW c \in Callers, Abort(c)
  PROVE  TypeOK'
<1>1. Outcome("raised", "", 0, 0) \in Outcomes
  BY OutcomeType DEF Statuses, Reasons
<1>2. ControlTypeOK'
  BY <1>1, ReturnType DEF Abort
<1>3. LedgerTypeOK'
  BY DEF Abort, TypeOK, LedgerTypeOK
<1>4. QED
  BY <1>2, <1>3 DEF TypeOK

LEMMA InitTypes == Init => TypeOK
<1> SUFFICES ASSUME Init PROVE TypeOK
  OBVIOUS
<1>1. Clear \in Locals
  BY DEF Clear, Locals
<1>2. Outcome("none", "", 0, 0) \in Outcomes
  BY OutcomeType DEF Statuses, Reasons
<1>3. ControlTypeOK
  BY <1>1, <1>2 DEF Init, ControlTypeOK, EnterPCs, ExitPCs
<1>4. calls \in 0 .. MaxCalls
  <2>1. calls = 0
    BY DEF Init
  <2>2. QED
    BY <2>1, BoundsAssumption
<1>5. done \in [Callers -> [sold : Nat, bought : Nat, undone : Nat]]
  BY DEF Init
<1>6. pos \in [Exchanges -> Int] /\ misled \in [Callers -> BOOLEAN]
  <2>1. pos = [e \in Exchanges |-> 0]
    BY DEF Init
  <2>2. misled = [c \in Callers |-> FALSE]
    BY DEF Init
  <2>3. QED
    BY <2>1, <2>2
<1>7. QED
  BY <1>3, <1>4, <1>5, <1>6 DEF TypeOK, LedgerTypeOK

LEMMA NextKeepsTypes == TypeOK /\ [Next]_vars => TypeOK'
<1> SUFFICES ASSUME TypeOK, [Next]_vars PROVE TypeOK'
  OBVIOUS
<1>1. CASE UNCHANGED vars
  BY <1>1 DEF vars, TypeOK, ControlTypeOK, LedgerTypeOK
<1>2. CASE Finished
  BY <1>1, <1>2 DEF Finished
<1>3. ASSUME NEW c \in Callers, Enter(c) \/ Exit(c) \/ Abort(c)
      PROVE  TypeOK'
  BY <1>3, EnterKeepsTypes, ExitKeepsTypes, AbortKeepsTypes
<1>4. QED
  BY <1>1, <1>2, <1>3 DEF Next

\* The executor's variables keep their types under every interleaving and
\* every fault: no fill is ever recorded as negative, and a running call always
\* holds a request of its own kind.
THEOREM TypeCorrect == Spec => []TypeOK
<1>1. QED
  BY InitTypes, NextKeepsTypes, PTL DEF Spec

-----------------------------------------------------------------------------
\* Calls that were not deceived know their legs.

\* What a step of another caller leaves to c.
Undisturbed(c) ==
  /\ pc'[c] = pc[c] /\ req'[c] = req[c]
  /\ mem'[c] = mem[c] /\ done'[c] = done[c]
  /\ misled[c] => misled'[c]
  /\ \/ misled'[c]
     \/ pc[c] = "idle"
     \/ pos'[Short(c)] = pos[Short(c)] /\ pos'[Long(c)] = pos[Long(c)]

LEMMA UndisturbedKeeps ==
  ASSUME TypeOK, NEW c \in Callers, Undisturbed(c), misled[c] \/ LocalsTrue(c)
  PROVE  misled'[c] \/ LocalsTrue(c)'
<1>1. CASE misled'[c]
  BY <1>1
<1>2. CASE pc[c] = "idle"
  BY <1>2 DEF Undisturbed, LocalsTrue
<1>3. CASE ~misled'[c] /\ pc[c] # "idle"
  <2>1. /\ LocalsTrue(c)
        /\ pos'[Short(c)] = pos[Short(c)] /\ pos'[Long(c)] = pos[Long(c)]
    BY <1>3 DEF Undisturbed
  <2>2. pc'[c] = pc[c] /\ req'[c] = req[c] /\ mem'[c] = mem[c] /\ done'[c] = done[c]
    BY DEF Undisturbed
  <2>3. Short(c)' = Short(c) /\ Long(c)' = Long(c)
    BY <2>2 DEF Short, Long
  <2>4. LocalsTrue(c)'
    BY <2>1, <2>2, <2>3 DEF LocalsTrue, NothingTraded, ShortMoved, ShortMeasured
  <2>5. QED
    BY <2>4
<1>4. QED
  BY <1>1, <1>2, <1>3

LEMMA OrderUndisturbed ==
  ASSUME TypeOK, NEW d \in Callers, NEW c \in Callers, c # d,
         NEW e, NEW change \in Int, NEW deceived, Executes(d, e, change, deceived)
  PROVE  /\ misled[c] => misled'[c]
         /\ \/ misled'[c]
            \/ pc[c] = "idle"
            \/ pos'[Short(c)] = pos[Short(c)] /\ pos'[Long(c)] = pos[Long(c)]
<1>1. misled'[c] = (\/ misled[c]
                    \/ c = d /\ (deceived \/ Crosses(pos[e], change))
                    \/ c # d /\ change # 0 /\ pc[c] # "idle" /\ e \in {Short(c), Long(c)})
  BY Zenon DEF Executes
<1>2. misled[c] => misled'[c]
  BY <1>1
<1>3. CASE pc[c] # "idle" /\ ~misled'[c]
  <2>1. Short(c) \in Exchanges /\ Long(c) \in Exchanges
    BY <1>3, CallType
  <2>2. change = 0 \/ e \notin {Short(c), Long(c)}
    BY <1>1, <1>3
  <2>3. pos \in [Exchanges -> Int] /\ pos' = [pos EXCEPT ![e] = @ + change]
    BY DEF Executes, TypeOK, LedgerTypeOK
  <2>4. QED
    BY <1>2, <2>1, <2>2, <2>3
<1>4. QED
  BY <1>2, <1>3

LEMMA ReadUndisturbed ==
  ASSUME TypeOK, NEW d \in Callers, NEW c \in Callers, c # d,
         NEW e, NEW seen, Reads(d, e, seen)
  PROVE  misled'[c] = misled[c] /\ pos' = pos /\ done' = done
BY DEF Reads, TypeOK, LedgerTypeOK

LEMMA ControlUndisturbed ==
  ASSUME TypeOK, NEW d \in Callers, NEW c \in Callers, c # d, NEW x, NEW label,
         Return(d, x) \/ Remember(d, x, label) \/ Begin(d, x, label)
  PROVE  pc'[c] = pc[c] /\ req'[c] = req[c] /\ mem'[c] = mem[c]
BY DEF Return, Remember, Begin, Goto, TypeOK, ControlTypeOK

LEMMA DoneUndisturbed ==
  ASSUME TypeOK, NEW d \in Callers, NEW c \in Callers, c # d, NEW k,
         \/ done' = done
         \/ done' = [done EXCEPT ![d] = k]
         \/ done' = [done EXCEPT ![d].sold = k]
         \/ done' = [done EXCEPT ![d].bought = k]
         \/ done' = [done EXCEPT ![d].undone = k]
  PROVE  done'[c] = done[c]
BY DEF TypeOK, LedgerTypeOK

LEMMA EnterUndisturbed ==
  ASSUME TypeOK, NEW d \in Callers, NEW c \in Callers, c # d, Enter(d)
  PROVE  Undisturbed(c)
<1> USE DEF Undisturbed
<1>1. CASE StartEnter(d)
  <2>1. PICK r \in Enters :
          /\ Start(d)
          /\ \E x : Return(d, x) \/ Begin(d, r, "read_before_short")
    BY <1>1 DEF StartEnter
  <2>2. pc'[c] = pc[c] /\ req'[c] = req[c] /\ mem'[c] = mem[c]
    BY <2>1, ControlUndisturbed
  <2>3. done'[c] = done[c] /\ misled'[c] = misled[c] /\ pos' = pos
    BY <2>1 DEF Start, TypeOK, LedgerTypeOK
  <2>4. QED
    BY <2>2, <2>3
<1>2. CASE ReadBeforeShort(d) \/ ReadAfterShort(d) \/ ReadBeforeLong(d)
             \/ ReadAfterLong(d) \/ RollbackFind(d)
  <2>1. \E e, seen : Reads(d, e, seen)
    BY <1>2 DEF ReadBeforeShort, ReadAfterShort, ReadBeforeLong, ReadAfterLong, RollbackFind
  <2>2. \E x, label : Return(d, x) \/ Remember(d, x, label)
    BY <1>2 DEF ReadBeforeShort, ReadAfterShort, ReadBeforeLong, ReadAfterLong, RollbackFind
  <2>3. pc'[c] = pc[c] /\ req'[c] = req[c] /\ mem'[c] = mem[c]
    BY <2>2, ControlUndisturbed
  <2>4. misled'[c] = misled[c] /\ pos' = pos /\ done' = done
    BY <2>1, ReadUndisturbed
  <2>5. QED
    BY <2>3, <2>4
<1>3. CASE ShortFilled(d)
  <2>1. Short(d) \in Exchanges /\ Size(d) \in Nat
    BY <1>3, CallType DEF ShortFilled, EnterPCs
  <2>2. PICK k \in Lots(Size(d), Short(d), "part_open") :
          /\ Executes(d, Short(d), -k, FALSE)
          /\ done' = [done EXCEPT ![d].sold = k]
          /\ Remember(d, mem[d], "read_after_short")
    BY <1>3 DEF ShortFilled
  <2>3. -k \in Int
    BY <2>1, LotsType
  <2>4. pc'[c] = pc[c] /\ req'[c] = req[c] /\ mem'[c] = mem[c]
    BY <2>2, ControlUndisturbed
  <2>5. QED
    BY <2>2, <2>3, <2>4, DoneUndisturbed, OrderUndisturbed
<1>4. CASE ShortRaises(d)
  <2>1. -Size(d) \in Int
    BY <1>4, CallType DEF ShortRaises, EnterPCs
  <2>2. pc'[c] = pc[c] /\ req'[c] = req[c] /\ mem'[c] = mem[c]
    BY <1>4, ControlUndisturbed DEF ShortRaises
  <2>3. CASE Refused
    BY <2>2, <2>3 DEF Refused
  <2>4. CASE Executes(d, Short(d), -Size(d), TRUE) /\ done' = [done EXCEPT ![d].sold = Size(d)]
    BY <2>1, <2>2, <2>4, DoneUndisturbed, OrderUndisturbed
  <2>5. QED
    BY <1>4, <2>3, <2>4 DEF ShortRaises
<1>5. CASE LongFilled(d)
  <2>1. LongAmount(d) \in Nat
    BY <1>5, LongAmountType DEF LongFilled
  <2>2. PICK k \in Lots(LongAmount(d), Long(d), "part_open") :
          /\ Executes(d, Long(d), k, FALSE)
          /\ done' = [done EXCEPT ![d].bought = k]
          /\ Remember(d, mem[d], "read_after_long")
    BY <1>5 DEF LongFilled
  <2>3. k \in Int
    BY <2>1, LotsType
  <2>4. pc'[c] = pc[c] /\ req'[c] = req[c] /\ mem'[c] = mem[c]
    BY <2>2, ControlUndisturbed
  <2>5. QED
    BY <2>2, <2>3, <2>4, DoneUndisturbed, OrderUndisturbed
<1>6. CASE LongRaises(d)
  <2>1. LongAmount(d) \in Int
    BY <1>6, LongAmountType DEF LongRaises
  <2>2. \E x, label : Return(d, x) \/ Remember(d, x, label)
    BY <1>6 DEF LongRaises
  <2>3. pc'[c] = pc[c] /\ req'[c] = req[c] /\ mem'[c] = mem[c]
    BY <2>2, ControlUndisturbed
  <2>4. CASE Refused
    BY <2>3, <2>4 DEF Refused
  <2>5. CASE /\ Executes(d, Long(d), LongAmount(d), TRUE)
             /\ done' = [done EXCEPT ![d].bought = LongAmount(d)]
    BY <2>1, <2>3, <2>5, DoneUndisturbed, OrderUndisturbed
  <2>6. QED
    BY <1>6, <2>4, <2>5 DEF LongRaises
<1>7. CASE RollbackClosed(d)
  <2>1. RollbackAmount(d) \in Nat
    BY <1>7, RollbackAmountType DEF RollbackClosed
  <2>2. PICK k \in Lots(RollbackAmount(d), Short(d), "part_close") :
          /\ Closes(d, Short(d), mem[d].shortLeg, k, k < Abs(mem[d].shortLeg))
          /\ done' = [done EXCEPT ![d].undone = k]
    BY <1>7 DEF RollbackClosed
  <2>3. (IF mem[d].shortLeg < 0 THEN k ELSE -k) \in Int
    BY <2>1, LotsType
  <2>4. pc'[c] = pc[c] /\ req'[c] = req[c] /\ mem'[c] = mem[c]
    BY <1>7, ControlUndisturbed DEF RollbackClosed
  <2>5. QED
    BY <2>2, <2>3, <2>4, DoneUndisturbed, OrderUndisturbed DEF Closes
<1>8. CASE RollbackRaises(d)
  <2>1. RollbackAmount(d) \in Nat
    BY <1>8, RollbackAmountType DEF RollbackRaises
  <2>2. (IF mem[d].shortLeg < 0 THEN RollbackAmount(d) ELSE -RollbackAmount(d)) \in Int
    BY <2>1
  <2>3. pc'[c] = pc[c] /\ req'[c] = req[c] /\ mem'[c] = mem[c]
    BY <1>8, ControlUndisturbed DEF RollbackRaises
  <2>4. CASE Refused
    BY <2>3, <2>4 DEF Refused
  <2>5. CASE /\ Closes(d, Short(d), mem[d].shortLeg, RollbackAmount(d), TRUE)
             /\ done' = [done EXCEPT ![d].undone = RollbackAmount(d)]
    BY <2>2, <2>3, <2>5, DoneUndisturbed, OrderUndisturbed DEF Closes
  <2>6. QED
    BY <1>8, <2>4, <2>5 DEF RollbackRaises
<1>9. QED
  BY <1>1, <1>2, <1>3, <1>4, <1>5, <1>6, <1>7, <1>8 DEF Enter

LEMMA ExitUndisturbed ==
  ASSUME TypeOK, NEW d \in Callers, NEW c \in Callers, c # d, Exit(d)
  PROVE  Undisturbed(c)
<1> USE DEF Undisturbed
<1>1. CASE StartExit(d)
  <2>1. PICK r \in Exits :
          /\ Start(d)
          /\ \E x : Return(d, x) \/ Begin(d, r, "find_short")
    BY <1>1 DEF StartExit
  <2>2. pc'[c] = pc[c] /\ req'[c] = req[c] /\ mem'[c] = mem[c]
    BY <2>1, ControlUndisturbed
  <2>3. done'[c] = done[c] /\ misled'[c] = misled[c] /\ pos' = pos
    BY <2>1 DEF Start, TypeOK, LedgerTypeOK
  <2>4. QED
    BY <2>2, <2>3
<1>2. CASE FindShort(d) \/ FindLong(d) \/ ReadShortAfter(d) \/ ReadLongAfter(d)
  <2>1. \E e, seen : Reads(d, e, seen)
    BY <1>2 DEF FindShort, FindLong, ReadShortAfter, ReadLongAfter
  <2>2. \E x, label : Return(d, x) \/ Remember(d, x, label)
    BY <1>2 DEF FindShort, FindLong, ReadShortAfter, ReadLongAfter
  <2>3. pc'[c] = pc[c] /\ req'[c] = req[c] /\ mem'[c] = mem[c]
    BY <2>2, ControlUndisturbed
  <2>4. misled'[c] = misled[c] /\ pos' = pos /\ done' = done
    BY <2>1, ReadUndisturbed
  <2>5. QED
    BY <2>3, <2>4
<1>3. CASE CloseShort(d) \/ CloseLong(d)
  <2>1. pc[d] \in ExitPCs /\ pc[d] # "idle"
    BY <1>3 DEF CloseShort, CloseLong, ExitPCs
  <2>2. mem[d].shortLeg \in Int /\ mem[d].longLeg \in Int
    BY DEF TypeOK, ControlTypeOK, Locals
  <2>3. Short(d) \in Exchanges /\ Long(d) \in Exchanges
    BY <2>1, CallType
  <2>4. \/ Refused
        \/ \E e \in Exchanges, change \in Int, deceived \in BOOLEAN :
             Executes(d, e, change, deceived) /\ done' = done
    BY <1>3, <2>1, <2>2, <2>3, ClosesLegCases DEF CloseShort, CloseLong
  <2>5. \E x, label : Remember(d, x, label)
    BY <1>3 DEF CloseShort, CloseLong
  <2>6. pc'[c] = pc[c] /\ req'[c] = req[c] /\ mem'[c] = mem[c]
    BY <2>5, ControlUndisturbed
  <2>7. CASE Refused
    BY <2>6, <2>7 DEF Refused
  <2>8. CASE \E e \in Exchanges, change \in Int, deceived \in BOOLEAN :
               Executes(d, e, change, deceived) /\ done' = done
    BY <2>6, <2>8, OrderUndisturbed
  <2>9. QED
    BY <2>4, <2>7, <2>8
<1>4. QED
  BY <1>1, <1>2, <1>3 DEF Exit

\* The effect of a call's own steps on itself.

LEMMA OwnRead ==
  ASSUME TypeOK, NEW c \in Callers, NEW e, NEW seen, Reads(c, e, seen), ~misled'[c]
  PROVE  ~misled[c] /\ seen = pos[e] /\ pos' = pos /\ done' = done
BY DEF Reads, TypeOK, LedgerTypeOK

LEMMA OwnOrder ==
  ASSUME TypeOK, NEW c \in Callers, NEW e \in Exchanges, NEW change \in Int,
         NEW deceived \in BOOLEAN, Executes(c, e, change, deceived), ~misled'[c]
  PROVE  /\ ~misled[c] /\ ~deceived
         /\ pos[e] \in Int /\ pos'[e] = pos[e] + change
         /\ \A f \in Exchanges : f # e => pos'[f] = pos[f]
         /\ Abs(Abs(pos'[e]) - Abs(pos[e])) = Abs(change)
<1>1. misled'[c] = (\/ misled[c]
                    \/ c = c /\ (deceived \/ Crosses(pos[e], change))
                    \/ c # c /\ change # 0 /\ pc[c] # "idle" /\ e \in {Short(c), Long(c)})
  BY Zenon DEF Executes
<1>2. ~misled[c] /\ ~deceived /\ ~Crosses(pos[e], change)
  BY <1>1
<1>3. /\ pos[e] \in Int /\ pos'[e] = pos[e] + change
      /\ \A f \in Exchanges : f # e => pos'[f] = pos[f]
  BY DEF Executes, TypeOK, LedgerTypeOK
<1>4. Abs(Abs(pos'[e]) - Abs(pos[e])) = Abs(change)
  BY <1>2, <1>3 DEF Crosses, Abs
<1>5. QED
  BY <1>2, <1>3, <1>4

LEMMA DeceivedOrder ==
  ASSUME TypeOK, NEW c \in Callers, NEW e \in Exchanges, NEW change \in Int,
         Executes(c, e, change, TRUE)
  PROVE  misled'[c]
<1> DEFINE deceived == TRUE
<1>1. Executes(c, e, change, deceived) /\ deceived \in BOOLEAN /\ deceived
  OBVIOUS
<1> HIDE DEF deceived
<1>2. QED
  BY <1>1, OwnOrder

LEMMA OwnReturn ==
  ASSUME TypeOK, NEW c \in Callers, NEW x, Return(c, x)
  PROVE  pc'[c] = "idle" /\ out'[c] = x /\ LocalsTrue(c)'
<1>1. pc'[c] = "idle" /\ out'[c] = x
  BY DEF Return, Goto, TypeOK, ControlTypeOK
<1>2. QED
  BY <1>1 DEF LocalsTrue

LEMMA OwnRemember ==
  ASSUME TypeOK, NEW c \in Callers, NEW x, NEW label, Remember(c, x, label)
  PROVE  /\ pc'[c] = label /\ mem'[c] = x
         /\ Short(c)' = Short(c) /\ Long(c)' = Long(c)
BY DEF Remember, Goto, Short, Long, TypeOK, ControlTypeOK

LEMMA EnterKeepsTruth ==
  ASSUME TypeOK, NEW c \in Callers, Enter(c), misled[c] \/ LocalsTrue(c)
  PROVE  misled'[c] \/ LocalsTrue(c)'
<1> SUFFICES ASSUME ~misled'[c] PROVE LocalsTrue(c)'
  OBVIOUS
<1> USE DEF NothingTraded, ShortMoved, ShortMeasured
<1>0. /\ mem[c] \in Locals
      /\ done[c] \in [sold : Nat, bought : Nat, undone : Nat]
  BY DEF TypeOK, ControlTypeOK, LedgerTypeOK
<1>1. CASE StartEnter(c)
  <2>1. PICK r \in Enters :
          /\ Start(c)
          /\ \E x : Return(c, x) \/ Begin(c, r, "read_before_short")
    BY <1>1 DEF StartEnter
  <2>2. CASE \E x : Return(c, x)
    BY <2>2, OwnReturn
  <2>3. CASE Begin(c, r, "read_before_short")
    <3>1. pc'[c] = "read_before_short"
      BY <2>3 DEF Begin, Goto, TypeOK, ControlTypeOK
    <3>2. done'[c] = [sold |-> 0, bought |-> 0, undone |-> 0]
      BY <2>1 DEF Start, TypeOK, LedgerTypeOK
    <3>3. QED
      BY <3>1, <3>2 DEF LocalsTrue
  <2>4. QED
    BY <2>1, <2>2, <2>3
<1>2. CASE ReadBeforeShort(c)
  <2>1. PICK seen \in Seen(Short(c)) :
          /\ Reads(c, Short(c), seen)
          /\ Remember(c, [mem[c] EXCEPT !.before = Abs(seen)], "send_short")
    BY <1>2 DEF ReadBeforeShort
  <2>2. ~misled[c] /\ seen = pos[Short(c)] /\ pos' = pos /\ done' = done
    BY <2>1, OwnRead
  <2>3. NothingTraded(c)
    BY <1>2, <2>2 DEF ReadBeforeShort, LocalsTrue
  <2>4. pc'[c] = "send_short" /\ mem'[c].before = Abs(pos[Short(c)]) /\ Short(c)' = Short(c)
    BY <1>0, <2>1, <2>2, OwnRemember DEF Locals
  <2>5. QED
    BY <2>2, <2>3, <2>4 DEF LocalsTrue
<1>3. CASE ShortFilled(c)
  <2>1. Short(c) \in Exchanges /\ Size(c) \in Nat
    BY <1>3, CallType DEF ShortFilled, EnterPCs
  <2>2. PICK k \in Lots(Size(c), Short(c), "part_open") :
          /\ Executes(c, Short(c), -k, FALSE)
          /\ done' = [done EXCEPT ![c].sold = k]
          /\ Remember(c, mem[c], "read_after_short")
    BY <1>3 DEF ShortFilled
  <2>3. k \in Nat /\ -k \in Int /\ Abs(-k) = k
    BY <2>1, LotsType DEF Abs
  <2>4. /\ ~misled[c]
        /\ Abs(Abs(pos'[Short(c)]) - Abs(pos[Short(c)])) = k
    BY <2>1, <2>2, <2>3, OwnOrder
  <2>5. NothingTraded(c) /\ mem[c].before = Abs(pos[Short(c)])
    BY <1>3, <2>4 DEF ShortFilled, LocalsTrue
  <2>6. done'[c].sold = k /\ done'[c].bought = 0 /\ done'[c].undone = 0
    BY <1>0, <2>2, <2>5 DEF TypeOK, LedgerTypeOK
  <2>7. pc'[c] = "read_after_short" /\ mem'[c] = mem[c] /\ Short(c)' = Short(c)
    BY <2>2, OwnRemember
  <2>8. QED
    BY <2>4, <2>5, <2>6, <2>7 DEF LocalsTrue
<1>4. CASE ShortRaises(c)
  BY <1>4, OwnReturn DEF ShortRaises
<1>5. CASE ReadAfterShort(c)
  <2>1. PICK seen \in Seen(Short(c)) :
          /\ Reads(c, Short(c), seen)
          /\ Remember(c, [mem[c] EXCEPT !.filled = Abs(Abs(seen) - mem[c].before)],
                      "read_before_long")
    BY <1>5 DEF ReadAfterShort
  <2>2. ~misled[c] /\ seen = pos[Short(c)] /\ pos' = pos /\ done' = done
    BY <2>1, OwnRead
  <2>3. ShortMoved(c) /\ done[c].bought = 0 /\ done[c].undone = 0
    BY <1>5, <2>2 DEF ReadAfterShort, LocalsTrue
  <2>4. /\ pc'[c] = "read_before_long" /\ Short(c)' = Short(c)
        /\ mem'[c].filled = Abs(Abs(seen) - mem[c].before)
        /\ mem'[c].before = mem[c].before
    BY <1>0, <2>1, OwnRemember DEF Locals
  <2>5. QED
    BY <2>2, <2>3, <2>4 DEF LocalsTrue
<1>6. CASE ReadBeforeLong(c)
  <2>1. PICK seen \in Seen(Long(c)) :
          /\ Reads(c, Long(c), seen)
          /\ Remember(c, [mem[c] EXCEPT !.beforeLong = Abs(seen)], "send_long")
    BY <1>6 DEF ReadBeforeLong
  <2>2. ~misled[c] /\ seen = pos[Long(c)] /\ pos' = pos /\ done' = done
    BY <2>1, OwnRead
  <2>3. ShortMoved(c) /\ ShortMeasured(c) /\ done[c].bought = 0
    BY <1>6, <2>2 DEF ReadBeforeLong, LocalsTrue
  <2>4. /\ pc'[c] = "send_long" /\ Short(c)' = Short(c) /\ Long(c)' = Long(c)
        /\ mem'[c].filled = mem[c].filled /\ mem'[c].before = mem[c].before
        /\ mem'[c].beforeLong = Abs(seen)
    BY <1>0, <2>1, OwnRemember DEF Locals
  <2>5. QED
    BY <2>2, <2>3, <2>4 DEF LocalsTrue
<1>7. CASE LongFilled(c)
  <2>1. Long(c) \in Exchanges /\ LongAmount(c) \in Nat
    BY <1>7, LongAmountType DEF LongFilled
  <2>2. PICK k \in Lots(LongAmount(c), Long(c), "part_open") :
          /\ Executes(c, Long(c), k, FALSE)
          /\ done' = [done EXCEPT ![c].bought = k]
          /\ Remember(c, mem[c], "read_after_long")
    BY <1>7 DEF LongFilled
  <2>3. k \in Nat /\ k \in Int /\ Abs(k) = k
    BY <2>1, LotsType DEF Abs
  <2>4. ~misled[c] /\ Abs(Abs(pos'[Long(c)]) - Abs(pos[Long(c)])) = k
    BY <2>1, <2>2, <2>3, OwnOrder
  <2>5. ShortMeasured(c) /\ mem[c].beforeLong = Abs(pos[Long(c)])
    BY <1>7, <2>4 DEF LongFilled, LocalsTrue
  <2>6. /\ done'[c].sold = done[c].sold /\ done'[c].bought = k
        /\ done'[c].undone = done[c].undone
    BY <1>0, <2>2 DEF TypeOK, LedgerTypeOK
  <2>7. pc'[c] = "read_after_long" /\ mem'[c] = mem[c] /\ Long(c)' = Long(c)
    BY <2>2, OwnRemember
  <2>8. QED
    BY <2>4, <2>5, <2>6, <2>7 DEF LocalsTrue
<1>8. CASE LongRaises(c)
  <2>1. Long(c) \in Exchanges /\ LongAmount(c) \in Nat
    BY <1>8, LongAmountType DEF LongRaises
  <2>2. CASE \E x : Return(c, x)
    BY <2>2, OwnReturn
  <2>3. CASE Remember(c, mem[c], "rollback_find")
    <3>1. ASSUME Executes(c, Long(c), LongAmount(c), TRUE)
          PROVE  FALSE
      <4>1. LongAmount(c) \in Int
        BY <2>1
      <4>2. misled'[c]
        BY <2>1, <3>1, <4>1, DeceivedOrder, Zenon
      <4>3. QED
        BY <4>2
    <3>2. Refused
      BY <1>8, <3>1 DEF LongRaises
    <3>3. ~misled[c] /\ pos' = pos /\ done' = done
      BY <3>2 DEF Refused
    <3>4. ShortMoved(c) /\ ShortMeasured(c) /\ done[c].bought = 0
      BY <1>8, <3>3 DEF LongRaises, LocalsTrue
    <3>5. pc'[c] = "rollback_find" /\ mem'[c] = mem[c] /\ Short(c)' = Short(c)
      BY <2>3, OwnRemember
    <3>6. QED
      BY <3>3, <3>4, <3>5 DEF LocalsTrue
  <2>4. QED
    BY <1>8, <2>2, <2>3 DEF LongRaises
<1>9. CASE ReadAfterLong(c)
  BY <1>9, OwnReturn DEF ReadAfterLong
<1>10. CASE RollbackFind(c)
  <2>1. PICK seen \in Seen(Short(c)) :
          /\ Reads(c, Short(c), seen)
          /\ IF seen = 0 THEN Return(c, Outcome("rolled_back", "compensated", 0, 0))
             ELSE Remember(c, [mem[c] EXCEPT !.shortLeg = seen], "rollback_close")
    BY <1>10 DEF RollbackFind
  <2>2. ~misled[c] /\ seen = pos[Short(c)] /\ pos' = pos /\ done' = done
    BY <2>1, OwnRead
  <2>3. ShortMoved(c) /\ ShortMeasured(c) /\ done[c].bought = 0
    BY <1>10, <2>2 DEF RollbackFind, LocalsTrue
  <2>4. CASE seen = 0
    BY <2>1, <2>4, OwnReturn
  <2>5. CASE seen # 0
    <3>1. /\ pc'[c] = "rollback_close" /\ Short(c)' = Short(c)
          /\ mem'[c].filled = mem[c].filled /\ mem'[c].before = mem[c].before
          /\ mem'[c].shortLeg = seen
      BY <1>0, <2>1, <2>5, OwnRemember DEF Locals
    <3>2. QED
      BY <2>2, <2>3, <3>1 DEF LocalsTrue
  <2>6. QED
    BY <2>4, <2>5
<1>11. CASE RollbackClosed(c)
  BY <1>11, OwnReturn DEF RollbackClosed
<1>12. CASE RollbackRaises(c)
  BY <1>12, OwnReturn DEF RollbackRaises
<1>13. QED
  BY <1>1, <1>2, <1>3, <1>4, <1>5, <1>6, <1>7, <1>8, <1>9, <1>10, <1>11, <1>12
     DEF Enter

LEMMA ExitKeepsTruth ==
  ASSUME TypeOK, NEW c \in Callers, Exit(c), misled[c] \/ LocalsTrue(c)
  PROVE  misled'[c] \/ LocalsTrue(c)'
<1> SUFFICES ASSUME ~misled'[c] PROVE LocalsTrue(c)'
  OBVIOUS
<1>0. mem[c] \in Locals
  BY DEF TypeOK, ControlTypeOK
<1>1. CASE StartExit(c)
  <2>1. PICK r \in Exits : \E x : Return(c, x) \/ Begin(c, r, "find_short")
    BY <1>1 DEF StartExit
  <2>2. CASE \E x : Return(c, x)
    BY <2>2, OwnReturn
  <2>3. CASE Begin(c, r, "find_short")
    <3>1. pc'[c] = "find_short"
      BY <2>3 DEF Begin, Goto, TypeOK, ControlTypeOK
    <3>2. QED
      BY <3>1 DEF LocalsTrue
  <2>4. QED
    BY <2>1, <2>2, <2>3
<1>2. CASE FindShort(c)
  <2>1. PICK seen \in Seen(Short(c)) :
          /\ Reads(c, Short(c), seen)
          /\ Remember(c, [mem[c] EXCEPT !.shortLeg = seen], "find_long")
    BY <1>2 DEF FindShort
  <2>2. seen = pos[Short(c)] /\ pos' = pos
    BY <2>1, OwnRead
  <2>3. pc'[c] = "find_long" /\ mem'[c].shortLeg = seen /\ Short(c)' = Short(c)
    BY <1>0, <2>1, OwnRemember DEF Locals
  <2>4. QED
    BY <2>2, <2>3 DEF LocalsTrue
<1>3. CASE FindLong(c)
  <2>1. PICK seen \in Seen(Long(c)) :
          /\ Reads(c, Long(c), seen)
          /\ \/ \E x : Return(c, x)
             \/ Remember(c, [mem[c] EXCEPT !.longLeg = seen], "close_short")
    BY <1>3 DEF FindLong
  <2>2. ~misled[c] /\ seen = pos[Long(c)] /\ pos' = pos
    BY <2>1, OwnRead
  <2>3. mem[c].shortLeg = pos[Short(c)]
    BY <1>3, <2>2 DEF FindLong, LocalsTrue
  <2>4. CASE \E x : Return(c, x)
    BY <2>4, OwnReturn
  <2>5. CASE Remember(c, [mem[c] EXCEPT !.longLeg = seen], "close_short")
    <3>1. /\ pc'[c] = "close_short" /\ Short(c)' = Short(c) /\ Long(c)' = Long(c)
          /\ mem'[c].shortLeg = mem[c].shortLeg /\ mem'[c].longLeg = seen
      BY <1>0, <2>5, OwnRemember DEF Locals
    <3>2. QED
      BY <2>2, <2>3, <3>1 DEF LocalsTrue
  <2>6. QED
    BY <2>1, <2>4, <2>5
<1>4. CASE CloseShort(c)
  <2>1. pc[c] = "close_short" /\ pc[c] # "idle" /\ pc[c] \in ExitPCs
    BY <1>4 DEF CloseShort, ExitPCs
  <2>2. Short(c) \in Exchanges /\ Long(c) \in Exchanges /\ Short(c) # Long(c)
    BY <2>1, CallType
  <2>3. PICK ok \in BOOLEAN :
          /\ ClosesLeg(c, Short(c), mem[c].shortLeg, ok)
          /\ Remember(c, [mem[c] EXCEPT !.shortOk = ok], "close_long")
    BY <1>4 DEF CloseShort
  <2>4. mem[c].shortLeg \in Int
    BY <1>0 DEF Locals
  <2>5. \/ Refused
        \/ \E change \in Int, deceived \in BOOLEAN :
             Executes(c, Short(c), change, deceived) /\ done' = done
    BY <2>1, <2>2, <2>3, <2>4, ClosesLegCases
  <2>6. ~misled[c] /\ pos'[Long(c)] = pos[Long(c)]
    <3>1. CASE Refused
      BY <3>1 DEF Refused
    <3>2. CASE \E change \in Int, deceived \in BOOLEAN :
                 Executes(c, Short(c), change, deceived) /\ done' = done
      BY <2>2, <3>2, OwnOrder
    <3>3. QED
      BY <2>5, <3>1, <3>2
  <2>7. mem[c].longLeg = pos[Long(c)]
    BY <2>1, <2>6 DEF LocalsTrue
  <2>8. pc'[c] = "close_long" /\ mem'[c].longLeg = mem[c].longLeg /\ Long(c)' = Long(c)
    BY <1>0, <2>3, OwnRemember DEF Locals
  <2>9. QED
    BY <2>6, <2>7, <2>8 DEF LocalsTrue
<1>5. CASE CloseLong(c)
  <2>1. pc'[c] = "read_short_after"
    BY <1>5, OwnRemember DEF CloseLong
  <2>2. QED
    BY <2>1 DEF LocalsTrue
<1>6. CASE ReadShortAfter(c)
  <2>1. PICK seen \in Seen(Short(c)) :
          /\ Reads(c, Short(c), seen)
          /\ Remember(c, [mem[c] EXCEPT !.shortAfter = Abs(seen)], "read_long_after")
    BY <1>6 DEF ReadShortAfter
  <2>2. seen = pos[Short(c)] /\ pos' = pos
    BY <2>1, OwnRead
  <2>3. /\ pc'[c] = "read_long_after" /\ Short(c)' = Short(c)
        /\ mem'[c].shortAfter = Abs(seen)
    BY <1>0, <2>1, OwnRemember DEF Locals
  <2>4. QED
    BY <2>2, <2>3 DEF LocalsTrue
<1>7. CASE ReadLongAfter(c)
  BY <1>7, OwnReturn DEF ReadLongAfter
<1>8. QED
  BY <1>1, <1>2, <1>3, <1>4, <1>5, <1>6, <1>7 DEF Exit

LEMMA InitTruth == Init => HonestCallsKnowTheirLegs
BY DEF Init, HonestCallsKnowTheirLegs, LocalsTrue

LEMMA NextKeepsTruth ==
  TypeOK /\ HonestCallsKnowTheirLegs /\ [Next]_vars => HonestCallsKnowTheirLegs'
<1> SUFFICES ASSUME TypeOK, HonestCallsKnowTheirLegs, [Next]_vars, NEW c \in Callers
             PROVE  misled'[c] \/ LocalsTrue(c)'
  BY DEF HonestCallsKnowTheirLegs
<1>1. misled[c] \/ LocalsTrue(c)
  BY DEF HonestCallsKnowTheirLegs
<1>2. CASE UNCHANGED vars
  <2>1. Undisturbed(c)
    BY <1>2 DEF Undisturbed, vars
  <2>2. QED
    BY <1>1, <2>1, UndisturbedKeeps
<1>3. ASSUME NEW d \in Callers, d # c, Enter(d) \/ Exit(d)
      PROVE  misled'[c] \/ LocalsTrue(c)'
  BY <1>1, <1>3, EnterUndisturbed, ExitUndisturbed, UndisturbedKeeps
<1>4. CASE Enter(c)
  BY <1>1, <1>4, EnterKeepsTruth
<1>5. CASE Exit(c)
  BY <1>1, <1>5, ExitKeepsTruth
<1>6. ASSUME NEW d \in Callers, Abort(d)
      PROVE  misled'[c] \/ LocalsTrue(c)'
  <2>1. CASE d = c
    BY <1>6, <2>1, OwnReturn DEF Abort
  <2>2. CASE d # c
    <3>1. pc'[c] = pc[c] /\ req'[c] = req[c] /\ mem'[c] = mem[c]
      BY <1>6, <2>2, ControlUndisturbed DEF Abort
    <3>2. Undisturbed(c)
      BY <1>6, <3>1 DEF Abort, Undisturbed
    <3>3. QED
      BY <1>1, <3>2, UndisturbedKeeps
  <2>3. QED
    BY <2>1, <2>2
<1>7. CASE Finished
  BY <1>2, <1>7 DEF Finished
<1>8. QED
  BY <1>2, <1>3, <1>4, <1>5, <1>6, <1>7 DEF Next

\* For every number of callers, exchanges, lot sizes and faults: a call whose
\* legs were left alone and whose replies arrived knows its legs at every await.
THEOREM HonestCallsKnow == Spec => []HonestCallsKnowTheirLegs
<1>1. TypeOK /\ HonestCallsKnowTheirLegs /\ [Next]_vars => HonestCallsKnowTheirLegs'
  BY NextKeepsTruth
<1>2. QED
  BY <1>1, InitTruth, TypeCorrect, PTL DEF Spec

-----------------------------------------------------------------------------
\* What a returning call may answer.

LEMMA ReturningStep ==
  ASSUME TypeOK, [Next]_vars, NEW c \in Callers, pc[c] # "idle", pc'[c] = "idle"
  PROVE  Enter(c) \/ Exit(c) \/ Abort(c)
<1>1. ASSUME NEW d \in Callers, d # c, Enter(d) \/ Exit(d)
      PROVE  FALSE
  BY <1>1, EnterUndisturbed, ExitUndisturbed DEF Undisturbed
<1>2. ASSUME NEW d \in Callers, d # c, Abort(d)
      PROVE  FALSE
  BY <1>2, ControlUndisturbed DEF Abort
<1>3. ~(UNCHANGED vars) /\ ~Finished
  BY DEF vars, Finished
<1>4. QED
  BY <1>1, <1>2, <1>3 DEF Next

LEMMA ReturnOutcome ==
  ASSUME TypeOK, NEW c \in Callers, NEW status, NEW reason, NEW s, NEW l,
         Return(c, Outcome(status, reason, s, l))
  PROVE  /\ out'[c].status = status /\ out'[c].reason = reason
         /\ out'[c].filledShort = s /\ out'[c].filledLong = l
<1>1. out'[c] = Outcome(status, reason, s, l)
  BY OwnReturn
<1>2. QED
  BY <1>1 DEF Outcome

LEMMA EnterReturns ==
  ASSUME TypeOK, [Next]_vars, NEW c \in Callers, Returns(c, EnterPCs)
  PROVE  \/ ShortRaises(c) \/ LongRaises(c) \/ ReadAfterLong(c)
         \/ RollbackFind(c) \/ RollbackClosed(c) \/ RollbackRaises(c)
         \/ Abort(c)
<1>1. pc[c] \in EnterPCs /\ pc[c] # "idle" /\ pc[c] \notin ExitPCs /\ pc'[c] = "idle"
  BY DEF Returns, EnterPCs, ExitPCs
<1>2. ~Exit(c)
  BY <1>1 DEF Exit, StartExit, Start, FindShort, FindLong, CloseShort, CloseLong,
       ReadShortAfter, ReadLongAfter, ExitPCs
<1>3. ~StartEnter(c)
  BY <1>1 DEF StartEnter, Start
<1>4. ASSUME NEW x, NEW label, Remember(c, x, label)
      PROVE  label = "idle"
  BY <1>1, <1>4, OwnRemember
<1>5. /\ ~ReadBeforeShort(c) /\ ~ShortFilled(c) /\ ~ReadAfterShort(c)
      /\ ~ReadBeforeLong(c) /\ ~LongFilled(c)
  BY <1>4 DEF ReadBeforeShort, ShortFilled, ReadAfterShort, ReadBeforeLong, LongFilled
<1>6. QED
  BY <1>1, <1>2, <1>3, <1>5, ReturningStep DEF Enter

\* The measurement behind a success or a partial answer.
LEMMA MeasuredReturn ==
  ASSUME TypeOK, NEW c \in Callers, ReadAfterLong(c), ~misled'[c],
         misled[c] \/ LocalsTrue(c)
  PROVE  /\ out'[c].filledShort = done'[c].sold
         /\ out'[c].filledLong = done'[c].bought
         /\ out'[c].status = EnterStatus(done'[c].sold, done'[c].bought)
         /\ done'[c].undone = 0
<1>1. PICK seen \in Seen(Long(c)) :
        LET filledLong == Abs(Abs(seen) - mem[c].beforeLong)
        IN  /\ Reads(c, Long(c), seen)
            /\ Return(c, Outcome(EnterStatus(mem[c].filled, filledLong), "",
                                 mem[c].filled, filledLong))
  BY DEF ReadAfterLong
<1>2. ~misled[c] /\ seen = pos[Long(c)] /\ done' = done
  BY <1>1, OwnRead
<1>3. /\ ShortMeasured(c)
      /\ Abs(Abs(pos[Long(c)]) - mem[c].beforeLong) = done[c].bought
  BY <1>2 DEF ReadAfterLong, LocalsTrue
<1>4. Return(c, Outcome(EnterStatus(done[c].sold, done[c].bought), "",
                        done[c].sold, done[c].bought))
  BY <1>1, <1>2, <1>3 DEF ShortMeasured
<1>5. /\ out'[c].filledShort = done[c].sold /\ out'[c].filledLong = done[c].bought
      /\ out'[c].status = EnterStatus(done[c].sold, done[c].bought)
  <2> DEFINE s == done[c].sold
             l == done[c].bought
             status == EnterStatus(s, l)
  <2>1. Return(c, Outcome(status, "", s, l))
    BY <1>4
  <2> HIDE DEF s, l, status
  <2>2. out'[c].filledShort = s /\ out'[c].filledLong = l /\ out'[c].status = status
    BY <2>1, ReturnOutcome
  <2>3. QED
    BY <2>2 DEF s, l, status
<1>6. done[c].undone = 0
  BY <1>3 DEF ShortMeasured
<1>7. QED
  BY <1>2, <1>5, <1>6

LEMMA FillsStep == TypeOK /\ HonestCallsKnowTheirLegs /\ [Next]_vars =>
  \A c \in Callers :
    Returns(c, EnterPCs) /\ Honest(c) /\ out'[c].status \in {"success", "partial"}
      => /\ out'[c].filledShort = done'[c].sold
         /\ out'[c].filledLong = done'[c].bought
<1> SUFFICES ASSUME TypeOK, HonestCallsKnowTheirLegs, [Next]_vars, NEW c \in Callers,
                    Returns(c, EnterPCs), Honest(c),
                    out'[c].status \in {"success", "partial"}
             PROVE  /\ out'[c].filledShort = done'[c].sold
                    /\ out'[c].filledLong = done'[c].bought
  OBVIOUS
<1>1. ASSUME NEW status \in {"failed", "rolled_back", "raised"}, NEW reason, NEW s, NEW l,
             Return(c, Outcome(status, reason, s, l))
      PROVE  FALSE
  BY <1>1, ReturnOutcome
<1>2. pc'[c] = "idle"
  BY DEF Returns
<1>3. ASSUME NEW l, NEW label, Remember(c, l, label), label # "idle"
      PROVE  FALSE
  BY <1>2, <1>3, OwnRemember
<1>4. ~ShortRaises(c) /\ ~RollbackClosed(c) /\ ~RollbackRaises(c) /\ ~Abort(c)
  BY <1>1 DEF ShortRaises, RollbackClosed, RollbackRaises, Abort, Failed
<1>5. ~LongRaises(c) /\ ~RollbackFind(c)
  BY <1>1, <1>3 DEF LongRaises, RollbackFind
<1>6. ReadAfterLong(c)
  BY <1>4, <1>5, EnterReturns
<1>7. QED
  BY <1>6, MeasuredReturn DEF HonestCallsKnowTheirLegs, Honest

\* For every number of callers and lot sizes, and whatever is refused, lost,
\* filled in part or misread: fills reported by a call that was not deceived
\* are what its orders executed (FR-012).
THEOREM ReportedFillsAreActual == Spec => FillsAreActual
<1>1. QED
  BY FillsStep, TypeCorrect, HonestCallsKnow, PTL DEF Spec, FillsAreActual

LEMMA FlatIsBalanced == Balanced(0, 0)
<1>1. TolPct * 0 = 0 /\ Abs(0 - 0) * 100 = 0 /\ Larger(0, 0) = 0
  BY SettingsAssumption DEF Abs, Larger
<1>2. QED
  BY <1>1 DEF Balanced

LEMMA EnterStatusBalanced ==
  ASSUME NEW s \in Nat, NEW l \in Nat
  PROVE  EnterStatus(s, l) = "partial" \/ Balanced(s, l)
BY FlatIsBalanced DEF EnterStatus

LEMMA ExposureStep == TypeOK /\ HonestCallsKnowTheirLegs /\ [Next]_vars =>
  \A c \in Callers :
    Returns(c, EnterPCs) /\ Honest(c) /\ mem[c].before = 0
      => \/ Balanced(done'[c].sold - done'[c].undone, done'[c].bought)
         \/ out'[c].status \in {"partial", "raised"}
         \/ out'[c].reason = "unhedged"
<1> SUFFICES ASSUME TypeOK, HonestCallsKnowTheirLegs, [Next]_vars, NEW c \in Callers,
                    Returns(c, EnterPCs), ~misled'[c], mem[c].before = 0
             PROVE  \/ Balanced(done'[c].sold - done'[c].undone, done'[c].bought)
                    \/ out'[c].status \in {"partial", "raised"}
                    \/ out'[c].reason = "unhedged"
  BY DEF Honest
<1>0. /\ misled[c] \/ LocalsTrue(c)
      /\ mem[c] \in Locals
      /\ done[c] \in [sold : Nat, bought : Nat, undone : Nat]
      /\ pc'[c] = "idle"
  BY DEF HonestCallsKnowTheirLegs, TypeOK, ControlTypeOK, LedgerTypeOK, Returns
<1>1. CASE ShortRaises(c)
  <2>1. Short(c) \in Exchanges /\ -Size(c) \in Int
    BY <1>1, CallType DEF ShortRaises, EnterPCs
  <2>2. ~Executes(c, Short(c), -Size(c), TRUE)
    BY <2>1, DeceivedOrder
  <2>3. ~misled[c] /\ done' = done
    BY <1>1, <2>2 DEF ShortRaises, Refused
  <2>4. done[c].sold = 0 /\ done[c].bought = 0 /\ done[c].undone = 0
    BY <1>0, <1>1, <2>3 DEF ShortRaises, LocalsTrue, NothingTraded
  <2>5. done'[c].sold - done'[c].undone = 0 /\ done'[c].bought = 0
    BY <2>3, <2>4
  <2>6. QED
    BY <2>5, FlatIsBalanced
<1>2. CASE LongRaises(c)
  <2>1. ~Remember(c, mem[c], "rollback_find")
    BY <1>0, OwnRemember
  <2>2. Return(c, Outcome("failed", "unhedged", mem[c].filled, 0))
    BY <1>2, <2>1 DEF LongRaises
  <2>3. QED
    BY <2>2, OwnReturn DEF Outcome
<1>3. CASE ReadAfterLong(c)
  <2>1. /\ out'[c].status = EnterStatus(done'[c].sold, done'[c].bought)
        /\ done'[c].undone = 0
    BY <1>0, <1>3, MeasuredReturn
  <2>2. done' = done
    BY <1>0, <1>3, OwnRead DEF ReadAfterLong
  <2>3. done'[c].sold - done'[c].undone = done'[c].sold
    BY <1>0, <2>1, <2>2
  <2>4. QED
    BY <1>0, <2>1, <2>2, <2>3, EnterStatusBalanced
<1>4. CASE RollbackFind(c)
  <2>1. PICK seen \in Seen(Short(c)) :
          /\ Reads(c, Short(c), seen)
          /\ IF seen = 0 THEN Return(c, Outcome("rolled_back", "compensated", 0, 0))
             ELSE Remember(c, [mem[c] EXCEPT !.shortLeg = seen], "rollback_close")
    BY <1>4 DEF RollbackFind
  <2>2. ~misled[c] /\ seen = pos[Short(c)] /\ done' = done
    BY <2>1, OwnRead
  <2>3. seen = 0
    BY <1>0, <2>1, OwnRemember
  <2>4. ShortMoved(c) /\ ShortMeasured(c) /\ done[c].bought = 0
    BY <1>0, <1>4, <2>2 DEF RollbackFind, LocalsTrue
  <2>5. done[c].sold = 0
    BY <2>2, <2>3, <2>4 DEF ShortMoved, Abs
  <2>6. done'[c].sold - done'[c].undone = 0 /\ done'[c].bought = 0
    BY <2>2, <2>4, <2>5 DEF ShortMeasured
  <2>7. QED
    BY <2>6, FlatIsBalanced
<1>5. CASE RollbackClosed(c)
  <2>1. Short(c) \in Exchanges /\ RollbackAmount(c) \in Nat
    BY <1>5, CallType, RollbackAmountType DEF RollbackClosed, EnterPCs
  <2>2. PICK k \in Lots(RollbackAmount(c), Short(c), "part_close") :
          /\ Closes(c, Short(c), mem[c].shortLeg, k, k < Abs(mem[c].shortLeg))
          /\ done' = [done EXCEPT ![c].undone = k]
    BY <1>5 DEF RollbackClosed
  <2>3. k \in Nat /\ k <= RollbackAmount(c)
    BY <2>1, <2>2 DEF Lots
  <2>4. mem[c].shortLeg \in Int /\ pos[Short(c)] \in Int
    BY <1>0, <2>1 DEF Locals, TypeOK, LedgerTypeOK
  <2>5. ~misled[c] /\ ~(k < Abs(mem[c].shortLeg))
    <3> DEFINE change == IF mem[c].shortLeg < 0 THEN k ELSE -k
               deceived == k < Abs(mem[c].shortLeg)
    <3>1. change \in Int
      BY <2>3
    <3>2. deceived \in BOOLEAN
      OBVIOUS
    <3>3. Executes(c, Short(c), change, deceived)
      BY <2>2 DEF Closes
    <3> HIDE DEF change, deceived
    <3>4. ~misled[c] /\ ~deceived
      BY <2>1, <3>1, <3>2, <3>3, OwnOrder
    <3>5. QED
      BY <3>4 DEF deceived
  <2>6. RollbackAmount(c) <= Abs(mem[c].shortLeg)
    BY <2>4 DEF RollbackAmount, Closable, Smaller, Abs
  <2>7. k = Abs(mem[c].shortLeg)
    BY <2>3, <2>4, <2>5, <2>6, <2>1 DEF Abs
  <2>8. /\ ShortMoved(c) /\ ShortMeasured(c) /\ done[c].bought = 0
        /\ mem[c].shortLeg = pos[Short(c)]
    BY <1>0, <1>5, <2>5 DEF RollbackClosed, LocalsTrue
  <2>9. done[c].sold = k
    BY <2>4, <2>7, <2>8 DEF ShortMoved, Abs
  <2>10. done'[c].sold = k /\ done'[c].undone = k /\ done'[c].bought = 0
    BY <1>0, <2>2, <2>8, <2>9 DEF TypeOK, LedgerTypeOK
  <2>11. done'[c].sold - done'[c].undone = 0
    BY <2>3, <2>10
  <2>12. QED
    BY <2>10, <2>11, FlatIsBalanced
<1>6. CASE RollbackRaises(c)
  BY <1>6, ReturnOutcome DEF RollbackRaises
<1>7. CASE Abort(c)
  BY <1>7, ReturnOutcome DEF Abort
<1>8. \/ ShortRaises(c) \/ LongRaises(c) \/ ReadAfterLong(c)
      \/ RollbackFind(c) \/ RollbackClosed(c) \/ RollbackRaises(c)
      \/ Abort(c)
  BY EnterReturns
<1>9. QED
  BY <1>1, <1>2, <1>3, <1>4, <1>5, <1>6, <1>7, <1>8

\* FR-013 for every instance: a call that found its short leg flat and was not
\* deceived leaves balanced legs, or says that it did not.
THEOREM NoExposureIsSilent == Spec => NoSilentExposure
<1>1. QED
  BY ExposureStep, TypeCorrect, HonestCallsKnow, PTL DEF Spec, NoSilentExposure

LEMMA ExitStep == TypeOK /\ HonestCallsKnowTheirLegs /\ [Next]_vars =>
  \A c \in Callers :
    Returns(c, ExitPCs) /\ Honest(c) /\ out'[c].status = "success"
      => Balanced(Abs(pos'[Short(c)]), Abs(pos'[Long(c)]))
<1> SUFFICES ASSUME TypeOK, HonestCallsKnowTheirLegs, [Next]_vars, NEW c \in Callers,
                    Returns(c, ExitPCs), ~misled'[c], out'[c].status = "success"
             PROVE  Balanced(Abs(pos'[Short(c)]), Abs(pos'[Long(c)]))
  BY DEF Honest
<1>1. pc[c] \in ExitPCs /\ pc[c] \notin EnterPCs /\ pc[c] # "idle" /\ pc'[c] = "idle"
  BY DEF Returns, EnterPCs, ExitPCs
<1>2. ~Enter(c)
  BY <1>1 DEF Enter, StartEnter, Start, ReadBeforeShort, ShortFilled, ShortRaises,
       ReadAfterShort, ReadBeforeLong, LongFilled, LongRaises, ReadAfterLong,
       RollbackFind, RollbackClosed, RollbackRaises, EnterPCs
<1>3. ~Abort(c)
  BY ReturnOutcome DEF Abort
<1>4. Exit(c)
  BY <1>1, <1>2, <1>3, ReturningStep
<1>5. ASSUME NEW l, NEW label, Remember(c, l, label)
      PROVE  label = "idle"
  BY <1>1, <1>5, OwnRemember
<1>6. ~StartExit(c) /\ ~FindShort(c) /\ ~CloseShort(c) /\ ~CloseLong(c) /\ ~ReadShortAfter(c)
  BY <1>1, <1>5 DEF StartExit, Start, FindShort, CloseShort, CloseLong, ReadShortAfter
<1>7. ~FindLong(c)
  <2>1. ASSUME NEW status \in {"failed", "simulated"}, NEW reason, NEW s, NEW l,
               Return(c, Outcome(status, reason, s, l))
        PROVE  FALSE
    BY <2>1, ReturnOutcome
  <2>2. QED
    BY <1>5, <2>1 DEF FindLong, Failed
<1>8. PICK seen \in Seen(Long(c)) :
        /\ pc[c] = "read_long_after"
        /\ Reads(c, Long(c), seen)
        /\ Return(c, Outcome(ExitStatus(mem[c].shortOk, mem[c].longOk,
                                        mem[c].shortAfter, Abs(seen)), "", 0, 0))
  BY <1>4, <1>6, <1>7 DEF Exit, ReadLongAfter
<1>9. ~misled[c] /\ seen = pos[Long(c)] /\ pos' = pos
  BY <1>8, OwnRead
<1>10. mem[c].shortAfter = Abs(pos[Short(c)])
  BY <1>8, <1>9 DEF HonestCallsKnowTheirLegs, LocalsTrue
<1>11. ExitStatus(mem[c].shortOk, mem[c].longOk, mem[c].shortAfter, Abs(seen)) = "success"
  BY <1>8, ReturnOutcome
<1>12. QED
  BY <1>9, <1>10, <1>11 DEF ExitStatus

\* Whatever was refused or filled in part, a close that answers success leaves
\* legs within tolerance.
THEOREM SuccessfulExitIsBalanced == Spec => ExitSuccessIsBalanced
<1>1. QED
  BY ExitStep, TypeCorrect, HonestCallsKnow, PTL DEF Spec, ExitSuccessIsBalanced, Honest

-----------------------------------------------------------------------------
\* A dry-run call never gets past the searches for its legs.
OnlyLooks == \A c \in DryRun : pc[c] \in {"idle", "find_short", "find_long"}

LEMMA OnlyLooksInit == Init => OnlyLooks
BY SettingsAssumption DEF Init, OnlyLooks

LEMMA DryRunStep ==
  ASSUME TypeOK, OnlyLooks, [Next]_vars, NEW c \in DryRun
  PROVE  /\ pc'[c] \in {"idle", "find_short", "find_long"}
         /\ pc'[c] # pc[c] => UNCHANGED pos
<1>0. c \in Callers /\ pc[c] \in {"idle", "find_short", "find_long"}
  BY SettingsAssumption DEF OnlyLooks
<1>1. CASE UNCHANGED vars
  BY <1>0, <1>1 DEF vars
<1>2. ASSUME NEW d \in Callers, d # c, Enter(d) \/ Exit(d)
      PROVE  pc'[c] = pc[c]
  BY <1>0, <1>2, EnterUndisturbed, ExitUndisturbed DEF Undisturbed
<1>3. ASSUME NEW d \in Callers, Abort(d)
      PROVE  pc'[c] \in {pc[c], "idle"} /\ UNCHANGED pos
  BY <1>0, <1>3, ControlUndisturbed, OwnReturn DEF Abort
<1>4. CASE StartEnter(c)
  <2>1. UNCHANGED pos /\ \E x : Return(c, x)
    BY <1>4 DEF StartEnter, Start
  <2>2. QED
    BY <1>0, <2>1, OwnReturn
<1>5. CASE StartExit(c)
  <2>1. /\ UNCHANGED pos
        /\ \E x, r : Return(c, x) \/ Begin(c, r, "find_short")
    BY <1>5 DEF StartExit, Start
  <2>2. QED
    BY <1>0, <2>1 DEF Return, Begin, Goto, TypeOK, ControlTypeOK
<1>6. CASE FindShort(c)
  <2>1. UNCHANGED pos /\ \E x : Remember(c, x, "find_long")
    BY <1>6 DEF FindShort, Reads
  <2>2. QED
    BY <1>0, <2>1, OwnRemember
<1>7. CASE FindLong(c)
  <2>1. UNCHANGED pos /\ \E x : Return(c, x)
    BY <1>7 DEF FindLong, Reads
  <2>2. QED
    BY <1>0, <2>1, OwnReturn
<1>8. ~(CloseShort(c) \/ CloseLong(c) \/ ReadShortAfter(c) \/ ReadLongAfter(c))
  BY <1>0 DEF CloseShort, CloseLong, ReadShortAfter, ReadLongAfter
<1>9. Enter(c) => StartEnter(c)
  BY <1>0 DEF Enter, ReadBeforeShort, ShortFilled, ShortRaises, ReadAfterShort,
       ReadBeforeLong, LongFilled, LongRaises, ReadAfterLong, RollbackFind,
       RollbackClosed, RollbackRaises
<1>10. CASE Finished
  BY <1>1, <1>10 DEF Finished
<1>11. QED
  BY <1>0, <1>1, <1>2, <1>3, <1>4, <1>5, <1>6, <1>7, <1>8, <1>9, <1>10 DEF Next, Exit

\* On two futures legs no step of a dry-run service moves a position, for any number
\* of live callers.
THEOREM SimulationIsHarmless == Spec => SimulationPlacesNoOrder
<1>1. TypeOK /\ OnlyLooks /\ [Next]_vars => OnlyLooks'
  BY DryRunStep DEF OnlyLooks
<1>2. TypeOK /\ OnlyLooks /\ [Next]_vars
        => \A c \in DryRun : pc'[c] # pc[c] => UNCHANGED pos
  BY DryRunStep
<1>3. QED
  BY <1>1, <1>2, OnlyLooksInit, TypeCorrect, PTL DEF Spec, SimulationPlacesNoOrder

-----------------------------------------------------------------------------
\* Positions in whole lots.

\* A number of whole lots of e.
Whole(e, n) == \E k \in Int : n = k * LotStep[e]

LEMMA WholeSums ==
  ASSUME NEW e \in Exchanges, NEW m, NEW n, Whole(e, m), Whole(e, n)
  PROVE  /\ m \in Int /\ n \in Int
         /\ Whole(e, m + n) /\ Whole(e, m - n) /\ Whole(e, -n) /\ Whole(e, Abs(n))
<1>1. LotStep[e] \in Nat \ {0}
  BY ExchangesAssumption
<1>2. PICK j \in Int : m = j * LotStep[e]
  BY DEF Whole
<1>3. PICK k \in Int : n = k * LotStep[e]
  BY DEF Whole
<1> DEFINE L == LotStep[e]
<1>4. L \in Int /\ m = j * L /\ n = k * L
  BY <1>1, <1>2, <1>3
<1> HIDE DEF L
<1>5. m \in Int /\ n \in Int
  BY <1>4, SMT
<1>6. m + n = (j + k) * L /\ m - n = (j - k) * L /\ -n = (-k) * L
  BY <1>4, SMT
<1>7. Whole(e, m + n) /\ Whole(e, m - n) /\ Whole(e, -n)
  <2>1. j + k \in Int /\ j - k \in Int /\ -k \in Int
    OBVIOUS
  <2>2. QED
    BY <1>6, <2>1 DEF Whole, L
<1>8. Abs(n) \in {n, -n}
  BY <1>5 DEF Abs
<1>9. QED
  BY <1>5, <1>7, <1>8

LEMMA WholeZero == \A e \in Exchanges : Whole(e, 0)
<1> SUFFICES ASSUME NEW e \in Exchanges PROVE Whole(e, 0)
  OBVIOUS
<1>1. LotStep[e] \in Nat
  BY ExchangesAssumption
<1>2. 0 = 0 * LotStep[e]
  BY <1>1, SMT
<1>3. QED
  BY <1>2 DEF Whole

LEMMA MultipleOf ==
  ASSUME NEW n \in Nat, NEW k \in Nat \ {0}, n % k = 0
  PROVE  n = (n \div k) * k /\ n \div k \in Nat
<1>1. n = k * (n \div k) + (n % k) /\ n \div k \in Nat
  BY SMT
<1>2. QED
  BY <1>1, SMT

LEMMA WholeRest ==
  ASSUME NEW e \in Exchanges, NEW n \in Nat, n % LotStep[e] = 0
  PROVE  Whole(e, n)
<1>1. LotStep[e] \in Nat \ {0}
  BY ExchangesAssumption
<1>2. n = (n \div LotStep[e]) * LotStep[e] /\ n \div LotStep[e] \in Nat
  BY <1>1, MultipleOf
<1>3. QED
  BY <1>2 DEF Whole

LEMMA FlooredWhole ==
  ASSUME NEW e \in Exchanges, NEW n \in Nat
  PROVE  /\ Whole(e, Floored(n, LotStep[e]))
         /\ Whole(e, n) => Floored(n, LotStep[e]) = n
<1>1. LotStep[e] \in Nat \ {0}
  BY ExchangesAssumption
<1>2. n \div LotStep[e] \in Nat
  BY <1>1, SMT
<1>3. Whole(e, Floored(n, LotStep[e]))
  BY <1>2 DEF Whole, Floored
<1>4. ASSUME Whole(e, n) PROVE Floored(n, LotStep[e]) = n
  <2>1. PICK k \in Int : n = k * LotStep[e]
    BY <1>4 DEF Whole
  <2> DEFINE L == LotStep[e]
  <2>2. L \in Nat \ {0} /\ n = k * L
    BY <1>1, <2>1
  <2> HIDE DEF L
  <2>3. n \div L = k
    BY <2>2, SMT
  <2>4. QED
    BY <2>1, <2>3 DEF Floored, L
<1>5. QED
  BY <1>3, <1>4

LEMMA TimesTimes ==
  ASSUME NEW q \in Int, NEW k \in Int, NEW n \in Int
  PROVE  q * (k * n) = (q * k) * n /\ q * k \in Int
BY SMT

LEMMA HarmonizedWhole ==
  ASSUME NEW n \in Nat, NEW s \in Exchanges, NEW l \in Exchanges
  PROVE  Whole(s, Harmonized(n, s, l)) /\ Whole(l, Harmonized(n, s, l))
<1> DEFINE C == CommonStep(LotStep[s], LotStep[l])
<1>1. LotStep[s] \in Nat \ {0} /\ LotStep[l] \in Nat \ {0}
  BY ExchangesAssumption
<1>2. C \in Nat \ {0} /\ C % LotStep[s] = 0 /\ C % LotStep[l] = 0
  BY <1>1, CommonStepType
<1>3. Harmonized(n, s, l) = (n \div C) * C
  BY DEF Harmonized, Floored
<1> HIDE DEF C
<1>4. n \div C \in Nat
  BY <1>2, SMT
<1>5. ASSUME NEW e \in {s, l} PROVE Whole(e, Harmonized(n, s, l))
  <2>1. e \in Exchanges /\ LotStep[e] \in Nat \ {0} /\ C % LotStep[e] = 0
    BY <1>1, <1>2
  <2>2. Whole(e, C)
    BY <1>2, <2>1, WholeRest
  <2>3. PICK k \in Int : C = k * LotStep[e]
    BY <2>2 DEF Whole
  <2>4. (n \div C) * (k * LotStep[e]) = ((n \div C) * k) * LotStep[e] /\ (n \div C) * k \in Int
    BY <1>4, <2>1, TimesTimes
  <2>5. Harmonized(n, s, l) = ((n \div C) * k) * LotStep[e]
    BY <1>3, <2>3, <2>4
  <2>6. QED
    BY <2>4, <2>5 DEF Whole
<1>6. QED
  BY <1>5

LEMMA LotsWhole ==
  ASSUME NEW e \in Exchanges, NEW n \in Nat, Whole(e, n), NEW fault, NEW k \in Lots(n, e, fault)
  PROVE  Whole(e, k)
<1>1. k = n \/ (k \in Nat /\ k % LotStep[e] = 0)
  BY DEF Lots
<1>2. QED
  BY <1>1, WholeRest

\* Every order is in whole lots of its exchange, so every position is.
WholeLots == \A e \in Exchanges : Whole(e, pos[e])

\* The leg a rollback is about to close is one that was held.
WholeLeg(c) == pc[c] = "rollback_close" => Whole(Short(c), mem[c].shortLeg)

InLots == WholeLots /\ \A c \in Callers : WholeLeg(c)

LEMMA SeenWhole ==
  ASSUME WholeLots, NEW e \in Exchanges, NEW seen \in Seen(e)
  PROVE  Whole(e, seen)
BY WholeZero DEF WholeLots, Seen

LEMMA OrderWhole ==
  ASSUME TypeOK, WholeLots, NEW c, NEW e \in Exchanges, NEW change, Whole(e, change),
         NEW deceived, Executes(c, e, change, deceived)
  PROVE  WholeLots'
<1>1. pos \in [Exchanges -> Int] /\ pos' = [pos EXCEPT ![e] = @ + change]
  BY DEF Executes, TypeOK, LedgerTypeOK
<1>2. Whole(e, pos[e] + change)
  BY WholeSums DEF WholeLots
<1>3. \A f \in Exchanges : Whole(f, pos'[f])
  BY <1>1, <1>2 DEF WholeLots
<1>4. QED
  BY <1>3 DEF WholeLots, Whole

LEMMA SideWhole ==
  ASSUME NEW e \in Exchanges, NEW k, Whole(e, k), NEW leg
  PROVE  Whole(e, IF leg < 0 THEN k ELSE -k)
<1>1. Whole(e, -k)
  BY WholeSums
<1>2. QED
  BY <1>1

LEMMA ClosableWhole ==
  ASSUME TypeOK, WholeLots, NEW e \in Exchanges, NEW leg, NEW amount, Whole(e, amount)
  PROVE  Whole(e, Closable(e, leg, amount))
<1>1. Whole(e, Abs(pos[e]))
  BY WholeSums DEF WholeLots
<1>2. Closable(e, leg, amount) \in {amount, Abs(pos[e]), 0}
  BY DEF Closable, Smaller
<1>3. QED
  BY <1>1, <1>2, WholeZero

\* An order to close part of a leg moves whole lots.
LEMMA ClosesLegWhole ==
  ASSUME TypeOK, WholeLots, NEW c \in Callers, pc[c] \in ExitPCs, NEW e \in Exchanges,
         NEW leg \in Int, NEW ok, ClosesLeg(c, e, leg, ok)
  PROVE  WholeLots'
<1> DEFINE share == Floored((Abs(leg) * req[c].percent) \div 100, LotStep[e])
           n == Closable(e, leg, share)
<1>1. share \in Nat /\ Whole(e, share)
  <2>1. pc[c] # "idle"
    BY DEF ExitPCs
  <2>2. Abs(leg) \in Nat /\ req[c].percent \in Nat
    BY <2>1, CallType DEF Abs
  <2>3. (Abs(leg) * req[c].percent) \div 100 \in Nat
    BY <2>2, SMT
  <2>4. QED
    BY <2>3, ExchangesAssumption, FlooredType, FlooredWhole
<1>2. n \in Nat /\ Whole(e, n)
  BY <1>1, ClosableType, ClosableWhole
<1>3. \/ Refused
      \/ \E k \in Lots(n, e, "part_close") : Closes(c, e, leg, k, FALSE)
      \/ Closes(c, e, leg, n, TRUE)
  BY DEF ClosesLeg
<1>4. ASSUME NEW k, Whole(e, k), NEW deceived, Closes(c, e, leg, k, deceived)
      PROVE  WholeLots'
  BY <1>4, SideWhole, OrderWhole DEF Closes
<1>5. \A k \in Lots(n, e, "part_close") : Whole(e, k)
  BY <1>2, LotsWhole
<1>6. CASE Refused
  BY <1>6 DEF Refused, WholeLots, Whole
<1>7. QED
  BY <1>2, <1>3, <1>4, <1>5, <1>6

LEMMA SamePositionsWhole ==
  ASSUME WholeLots, pos' = pos
  PROVE  WholeLots'
BY DEF WholeLots, Whole

LEMMA ExitWhole ==
  ASSUME TypeOK, WholeLots, NEW c \in Callers, Exit(c)
  PROVE  WholeLots' /\ WholeLeg(c)'
<1>0. pc'[c] # "rollback_close"
  <2>1. ASSUME NEW x, NEW label, Remember(c, x, label)
        PROVE  pc'[c] = label
    BY <2>1, OwnRemember
  <2>2. ASSUME NEW x, Return(c, x) PROVE pc'[c] = "idle"
    BY <2>2, OwnReturn
  <2>3. ASSUME NEW r, Begin(c, r, "find_short") PROVE pc'[c] = "find_short"
    BY <2>3 DEF Begin, Goto, TypeOK, ControlTypeOK
  <2>4. QED
    BY <2>1, <2>2, <2>3 DEF Exit, StartExit, FindShort, FindLong, CloseShort, CloseLong,
       ReadShortAfter, ReadLongAfter
<1>1. WholeLeg(c)'
  BY <1>0 DEF WholeLeg
<1>2. CASE StartExit(c) \/ FindShort(c) \/ FindLong(c) \/ ReadShortAfter(c) \/ ReadLongAfter(c)
  <2>1. pos' = pos
    BY <1>2 DEF StartExit, Start, FindShort, FindLong, ReadShortAfter, ReadLongAfter, Reads
  <2>2. QED
    BY <1>1, <2>1, SamePositionsWhole
<1>3. CASE CloseShort(c) \/ CloseLong(c)
  <2>1. pc[c] \in ExitPCs /\ pc[c] # "idle"
    BY <1>3 DEF CloseShort, CloseLong, ExitPCs
  <2>2. mem[c].shortLeg \in Int /\ mem[c].longLeg \in Int
    BY DEF TypeOK, ControlTypeOK, Locals
  <2>3. Short(c) \in Exchanges /\ Long(c) \in Exchanges
    BY <2>1, CallType
  <2>4. \E ok : ClosesLeg(c, Short(c), mem[c].shortLeg, ok) \/ ClosesLeg(c, Long(c), mem[c].longLeg, ok)
    BY <1>3 DEF CloseShort, CloseLong
  <2>5. QED
    BY <1>1, <2>1, <2>2, <2>3, <2>4, ClosesLegWhole
<1>4. QED
  BY <1>2, <1>3 DEF Exit

LEMMA EnterWhole ==
  ASSUME TypeOK, WholeLots, NEW c \in Callers, WholeLeg(c), Enter(c)
  PROVE  WholeLots' /\ WholeLeg(c)'
<1>0. mem[c] \in Locals
  BY DEF TypeOK, ControlTypeOK
<1>a. ASSUME NEW x, NEW label, label # "rollback_close", Remember(c, x, label)
      PROVE  WholeLeg(c)'
  BY <1>a, OwnRemember DEF WholeLeg
<1>b. ASSUME NEW x, Return(c, x)
      PROVE  WholeLeg(c)'
  <2>1. pc'[c] = "idle"
    BY <1>b, OwnReturn
  <2>2. QED
    BY <2>1 DEF WholeLeg
<1>1. CASE StartEnter(c)
  <2>1. pos' = pos
    BY <1>1 DEF StartEnter, Start
  <2>2. CASE \E x : Return(c, x)
    BY <1>b, <2>1, <2>2, SamePositionsWhole
  <2>3. CASE \E r : Begin(c, r, "read_before_short")
    <3>1. pc'[c] = "read_before_short"
      BY <2>3 DEF Begin, Goto, TypeOK, ControlTypeOK
    <3>2. QED
      BY <2>1, <3>1, SamePositionsWhole DEF WholeLeg
  <2>4. QED
    BY <1>1, <2>2, <2>3 DEF StartEnter
<1>2. CASE ReadBeforeShort(c) \/ ReadAfterShort(c) \/ ReadBeforeLong(c)
  <2>1. pos' = pos
    BY <1>2 DEF ReadBeforeShort, ReadAfterShort, ReadBeforeLong, Reads
  <2>2. \E x, label : label # "rollback_close" /\ Remember(c, x, label)
    BY <1>2 DEF ReadBeforeShort, ReadAfterShort, ReadBeforeLong
  <2>3. QED
    BY <1>a, <2>1, <2>2, SamePositionsWhole
<1>3. CASE ReadAfterLong(c)
  <2>1. pos' = pos /\ \E x : Return(c, x)
    BY <1>3 DEF ReadAfterLong, Reads
  <2>2. QED
    BY <1>b, <2>1, SamePositionsWhole
<1>4. CASE ShortFilled(c) \/ ShortRaises(c)
  <2>1. pc[c] = "send_short" /\ pc[c] \in EnterPCs
    BY <1>4 DEF ShortFilled, ShortRaises, EnterPCs
  <2>2. Short(c) \in Exchanges /\ Long(c) \in Exchanges /\ Size(c) \in Nat
    BY <2>1, CallType
  <2>3. Whole(Short(c), Size(c))
    <3>1. req[c].size \in Nat
      BY <2>1, RequestAssumption DEF TypeOK, ControlTypeOK, Enters
    <3>2. QED
      BY <2>2, <3>1, HarmonizedWhole DEF Size
  <2>4. \A k \in Lots(Size(c), Short(c), "part_open") : Whole(Short(c), k) /\ Whole(Short(c), -k)
    BY <2>2, <2>3, LotsWhole, WholeSums
  <2>5. Whole(Short(c), -Size(c))
    BY <2>2, <2>3, WholeSums
  <2>6. Refused \/ \E k, dcv : Whole(Short(c), -k) /\ Executes(c, Short(c), -k, dcv)
    BY <1>4, <2>4, <2>5 DEF ShortFilled, ShortRaises
  <2>7. WholeLots'
    BY <2>2, <2>6, OrderWhole, SamePositionsWhole DEF Refused
  <2>8. QED
    BY <1>4, <1>a, <1>b, <2>7 DEF ShortFilled, ShortRaises
<1>5. CASE LongFilled(c) \/ LongRaises(c)
  <2>1. pc[c] = "send_long" /\ pc[c] \in EnterPCs
    BY <1>5 DEF LongFilled, LongRaises, EnterPCs
  <2>2. Short(c) \in Exchanges /\ Long(c) \in Exchanges /\ Size(c) \in Nat /\ LongAmount(c) \in Nat
    BY <2>1, CallType, LongAmountType
  <2>3. Whole(Long(c), LongAmount(c))
    <3>1. req[c].size \in Nat
      BY <2>1, RequestAssumption DEF TypeOK, ControlTypeOK, Enters
    <3>2. Whole(Long(c), Size(c))
      BY <2>2, <3>1, HarmonizedWhole DEF Size
    <3>3. mem[c].filled \in Nat
      BY <1>0 DEF Locals
    <3>4. Whole(Long(c), Floored(mem[c].filled, LotStep[Long(c)]))
      BY <2>2, <3>3, FlooredWhole
    <3>5. QED
      BY <3>2, <3>4 DEF LongAmount
  <2>4. \A k \in Lots(LongAmount(c), Long(c), "part_open") : Whole(Long(c), k)
    BY <2>2, <2>3, LotsWhole
  <2>5. Refused \/ \E k, dcv : Whole(Long(c), k) /\ Executes(c, Long(c), k, dcv)
    BY <1>5, <2>3, <2>4 DEF LongFilled, LongRaises
  <2>6. WholeLots'
    BY <2>2, <2>5, OrderWhole, SamePositionsWhole DEF Refused
  <2>7. QED
    BY <1>5, <1>a, <1>b, <2>6 DEF LongFilled, LongRaises
<1>6. CASE RollbackFind(c)
  <2>1. PICK seen \in Seen(Short(c)) :
          /\ Reads(c, Short(c), seen)
          /\ \/ \E x : Return(c, x)
             \/ Remember(c, [mem[c] EXCEPT !.shortLeg = seen], "rollback_close")
    BY <1>6 DEF RollbackFind
  <2>2. pos' = pos
    BY <2>1 DEF Reads
  <2>3. Short(c) \in Exchanges
    BY <1>6, CallType DEF RollbackFind
  <2>4. CASE Remember(c, [mem[c] EXCEPT !.shortLeg = seen], "rollback_close")
    <3>1. mem'[c].shortLeg = seen /\ Short(c)' = Short(c)
      BY <1>0, <2>4, OwnRemember DEF Locals
    <3>2. Whole(Short(c), seen)
      BY <2>1, <2>3, SeenWhole
    <3>3. WholeLeg(c)'
      BY <3>1, <3>2 DEF WholeLeg, Whole
    <3>4. QED
      BY <2>2, <3>3, SamePositionsWhole
  <2>5. QED
    BY <1>b, <2>1, <2>2, <2>4, SamePositionsWhole
<1>7. CASE RollbackClosed(c) \/ RollbackRaises(c)
  <2>1. pc[c] = "rollback_close"
    BY <1>7 DEF RollbackClosed, RollbackRaises
  <2>2. Short(c) \in Exchanges /\ RollbackAmount(c) \in Nat /\ Whole(Short(c), mem[c].shortLeg)
    BY <2>1, RollbackAmountType DEF WholeLeg
  <2>3. Whole(Short(c), Abs(mem[c].shortLeg))
    BY <2>2, WholeSums
  <2>4. Whole(Short(c), RollbackAmount(c))
    BY <2>2, <2>3, ClosableWhole DEF RollbackAmount
  <2>5. \A k \in Lots(RollbackAmount(c), Short(c), "part_close") : Whole(Short(c), k)
    BY <2>2, <2>4, LotsWhole
  <2>6. \/ Refused
        \/ \E k, dcv : Whole(Short(c), k) /\ Closes(c, Short(c), mem[c].shortLeg, k, dcv)
    BY <1>7, <2>4, <2>5 DEF RollbackClosed, RollbackRaises
  <2>7. ASSUME NEW k, NEW dcv, Whole(Short(c), k), Closes(c, Short(c), mem[c].shortLeg, k, dcv)
        PROVE  WholeLots'
    BY <2>2, <2>7, SideWhole, OrderWhole DEF Closes
  <2>8. WholeLots'
    BY <2>6, <2>7, SamePositionsWhole DEF Refused
  <2>9. QED
    BY <1>7, <1>b, <2>8 DEF RollbackClosed, RollbackRaises
<1>8. QED
  BY <1>1, <1>2, <1>3, <1>4, <1>5, <1>6, <1>7 DEF Enter

\* What a step of the others leaves of that.
LEMMA OthersWhole ==
  ASSUME NEW c \in Callers, Undisturbed(c), WholeLeg(c)
  PROVE  WholeLeg(c)'
BY DEF Undisturbed, WholeLeg, Whole, Short

-----------------------------------------------------------------------------
\* A close of everything leaves nothing.

\* The legs a full close has reported closed are gone.
Gone(c) ==
  /\ pc[c] = "close_long" /\ mem[c].shortOk => pos[Short(c)] = 0
  /\ pc[c] \in {"read_short_after", "read_long_after"} =>
       /\ mem[c].shortOk => pos[Short(c)] = 0
       /\ mem[c].longOk => pos[Long(c)] = 0

FullClose(c) ==
  pc[c] \in {"close_long", "read_short_after", "read_long_after"} /\ req[c].percent = 100

ClosedIsGone == \A c \in Callers : ~misled[c] /\ FullClose(c) => Gone(c)

\* The share a close of everything orders is the whole leg.
LEMMA WholeShare ==
  ASSUME TypeOK, WholeLots, NEW c, req[c].percent = 100, NEW e \in Exchanges, pos[e] # 0
  PROVE  Closable(e, pos[e], Floored((Abs(pos[e]) * req[c].percent) \div 100, LotStep[e]))
           = Abs(pos[e])
<1> DEFINE leg == pos[e]
           share == Floored((Abs(leg) * req[c].percent) \div 100, LotStep[e])
<1>1. leg \in Int /\ Abs(leg) \in Nat \ {0}
  BY DEF TypeOK, LedgerTypeOK, Abs
<1>2. (Abs(leg) * 100) \div 100 = Abs(leg)
  <2> DEFINE a == Abs(leg)
  <2>1. a \in Nat
    BY <1>1
  <2> HIDE DEF a
  <2>2. (a * 100) \div 100 = a
    BY <2>1, SMT
  <2>3. QED
    BY <2>2 DEF a
<1>3. Whole(e, Abs(leg))
  BY WholeSums DEF WholeLots
<1>4. share = Abs(leg)
  BY <1>1, <1>2, <1>3, FlooredWhole
<1>5. leg * leg > 0
  BY <1>1, SMT
<1>6. QED
  BY <1>1, <1>4, <1>5 DEF Closable, Smaller

\* A close of the whole leg, of a true picture of it, that does not fill in part.
LEMMA WholeLegCloses ==
  ASSUME TypeOK, WholeLots, "part_close" \notin Faults, NEW c \in Callers, pc[c] \in ExitPCs,
         req[c].percent = 100, NEW e \in Exchanges, ClosesLeg(c, e, pos[e], TRUE)
  PROVE  pos'[e] = 0 /\ \A f \in Exchanges : f # e => pos'[f] = pos[f]
<1> DEFINE leg == pos[e]
           share == Floored((Abs(leg) * req[c].percent) \div 100, LotStep[e])
           n == Closable(e, leg, share)
<1>1. leg \in Int /\ pos \in [Exchanges -> Int]
  BY DEF TypeOK, LedgerTypeOK
<1>2. CASE leg = 0
  BY <1>1, <1>2 DEF ClosesLeg, Refused
<1>3. CASE leg # 0
  <2>1. n = Abs(leg)
    BY <1>3, WholeShare
  <2>2. Lots(n, e, "part_close") = {n}
    BY DEF Lots
  <2>3. PICK k \in Lots(n, e, "part_close") : Closes(c, e, leg, k, FALSE)
    BY <1>3 DEF ClosesLeg
  <2>4. Executes(c, e, IF leg < 0 THEN Abs(leg) ELSE -Abs(leg), FALSE)
    BY <2>1, <2>2, <2>3 DEF Closes
  <2>5. pos' = [pos EXCEPT ![e] = @ + (IF leg < 0 THEN Abs(leg) ELSE -Abs(leg))]
    BY <2>4 DEF Executes
  <2>6. QED
    BY <1>1, <2>5 DEF Abs
<1>4. QED
  BY <1>2, <1>3

LEMMA OthersGone ==
  ASSUME NEW c \in Callers, Undisturbed(c), ~misled[c] /\ FullClose(c) => Gone(c)
  PROVE  ~misled'[c] /\ FullClose(c)' => Gone(c)'
BY DEF Undisturbed, FullClose, Gone, Short, Long

LEMMA EnterGone ==
  ASSUME TypeOK, NEW c \in Callers, Enter(c)
  PROVE  ~FullClose(c)'
<1>1. ASSUME NEW x, NEW label, Remember(c, x, label)
      PROVE  pc'[c] = label
  BY <1>1, OwnRemember
<1>2. ASSUME NEW x, Return(c, x) PROVE pc'[c] = "idle"
  BY <1>2, OwnReturn
<1>3. ASSUME NEW r, Begin(c, r, "read_before_short") PROVE pc'[c] = "read_before_short"
  BY <1>3 DEF Begin, Goto, TypeOK, ControlTypeOK
<1>4. pc'[c] \in EnterPCs \cup {"idle"}
  BY <1>1, <1>2, <1>3 DEF Enter, StartEnter, ReadBeforeShort, ShortFilled, ShortRaises,
     ReadAfterShort, ReadBeforeLong, LongFilled, LongRaises, ReadAfterLong,
     RollbackFind, RollbackClosed, RollbackRaises, EnterPCs
<1>5. QED
  BY <1>4 DEF FullClose, EnterPCs

LEMMA ExitGone ==
  ASSUME TypeOK, WholeLots, "part_close" \notin Faults, NEW c \in Callers, Exit(c),
         misled[c] \/ LocalsTrue(c), ~misled[c] /\ FullClose(c) => Gone(c)
  PROVE  ~misled'[c] /\ FullClose(c)' => Gone(c)'
<1> SUFFICES ASSUME ~misled'[c], FullClose(c)' PROVE Gone(c)'
  OBVIOUS
<1>0. mem[c] \in Locals /\ pos \in [Exchanges -> Int]
  BY DEF TypeOK, ControlTypeOK, LedgerTypeOK
<1>1. pc'[c] \in {"close_long", "read_short_after", "read_long_after"} /\ req'[c].percent = 100
  BY DEF FullClose
<1>2. ASSUME NEW x, Return(c, x) PROVE FALSE
  BY <1>1, <1>2, OwnReturn
<1>3. ASSUME NEW x, NEW label, Remember(c, x, label)
      PROVE  pc'[c] = label /\ mem'[c] = x /\ req' = req
             /\ Short(c)' = Short(c) /\ Long(c)' = Long(c)
  BY <1>3, OwnRemember DEF Remember
<1>4. ~StartExit(c)
  <2>1. ASSUME NEW r, Begin(c, r, "find_short") PROVE pc'[c] = "find_short"
    BY <2>1 DEF Begin, Goto, TypeOK, ControlTypeOK
  <2>2. QED
    BY <1>1, <1>2, <2>1 DEF StartExit
<1>5. ~FindShort(c) /\ ~FindLong(c)
  <2>1. ASSUME NEW x, NEW label, Remember(c, x, label) PROVE label \notin {"find_long", "close_short"}
    BY <1>1, <2>1, OwnRemember
  <2>2. QED
    BY <1>2, <2>1 DEF FindShort, FindLong
<1>6. CASE CloseShort(c)
  <2>1. pc[c] = "close_short" /\ pc[c] \in ExitPCs /\ pc[c] # "idle"
    BY <1>6 DEF CloseShort, ExitPCs
  <2>2. Short(c) \in Exchanges
    BY <2>1, CallType
  <2>3. PICK ok \in BOOLEAN :
          /\ ClosesLeg(c, Short(c), mem[c].shortLeg, ok)
          /\ Remember(c, [mem[c] EXCEPT !.shortOk = ok], "close_long")
    BY <1>6 DEF CloseShort
  <2>4. pc'[c] = "close_long" /\ mem'[c].shortOk = ok /\ req' = req /\ Short(c)' = Short(c)
    BY <1>0, <1>3, <2>3 DEF Locals
  <2>5. mem[c].shortLeg \in Int
    BY <1>0 DEF Locals
  <2>6. \/ Refused
        \/ \E change \in Int, deceived \in BOOLEAN :
             Executes(c, Short(c), change, deceived) /\ done' = done
    BY <2>1, <2>2, <2>3, <2>5, ClosesLegCases
  <2>7. ~misled[c]
    BY <2>2, <2>6, OwnOrder DEF Refused
  <2>8. mem[c].shortLeg = pos[Short(c)]
    BY <2>1, <2>7 DEF LocalsTrue
  <2>9. CASE ok = TRUE
    <3>1. pos'[Short(c)] = 0
      BY <1>1, <2>1, <2>2, <2>3, <2>4, <2>8, <2>9, WholeLegCloses
    <3>2. QED
      BY <2>4, <3>1 DEF Gone
  <2>10. CASE ok = FALSE
    BY <2>4, <2>10 DEF Gone
  <2>11. QED
    BY <2>9, <2>10
<1>7. CASE CloseLong(c)
  <2>1. pc[c] = "close_long" /\ pc[c] \in ExitPCs /\ pc[c] # "idle"
    BY <1>7 DEF CloseLong, ExitPCs
  <2>2. Long(c) \in Exchanges /\ Short(c) \in Exchanges /\ Short(c) # Long(c)
    BY <2>1, CallType
  <2>3. PICK ok \in BOOLEAN :
          /\ ClosesLeg(c, Long(c), mem[c].longLeg, ok)
          /\ Remember(c, [mem[c] EXCEPT !.longOk = ok], "read_short_after")
    BY <1>7 DEF CloseLong
  <2>4. /\ pc'[c] = "read_short_after" /\ mem'[c].longOk = ok /\ mem'[c].shortOk = mem[c].shortOk
        /\ req' = req /\ Short(c)' = Short(c) /\ Long(c)' = Long(c)
    BY <1>0, <1>3, <2>3 DEF Locals
  <2>5. mem[c].longLeg \in Int
    BY <1>0 DEF Locals
  <2>6. \/ Refused
        \/ \E change \in Int, deceived \in BOOLEAN :
             Executes(c, Long(c), change, deceived) /\ done' = done
    BY <2>1, <2>2, <2>3, <2>5, ClosesLegCases
  <2>7. ~misled[c] /\ pos'[Short(c)] = pos[Short(c)]
    BY <2>2, <2>6, OwnOrder DEF Refused
  <2>8. mem[c].longLeg = pos[Long(c)]
    BY <2>1, <2>7 DEF LocalsTrue
  <2>9. mem[c].shortOk => pos[Short(c)] = 0
    BY <1>1, <2>1, <2>4, <2>7 DEF FullClose, Gone
  <2>10. ok => pos'[Long(c)] = 0
    <3>1. CASE ok = TRUE
      BY <1>1, <2>1, <2>2, <2>3, <2>4, <2>8, <3>1, WholeLegCloses
    <3>2. CASE ok = FALSE
      BY <3>2
    <3>3. QED
      BY <3>1, <3>2
  <2>11. QED
    BY <2>4, <2>7, <2>9, <2>10 DEF Gone
<1>8. CASE ReadShortAfter(c)
  <2>1. PICK seen \in Seen(Short(c)) :
          /\ Reads(c, Short(c), seen)
          /\ Remember(c, [mem[c] EXCEPT !.shortAfter = Abs(seen)], "read_long_after")
    BY <1>8 DEF ReadShortAfter
  <2>2. ~misled[c] /\ pos' = pos
    BY <2>1, OwnRead
  <2>3. /\ mem'[c].longOk = mem[c].longOk /\ mem'[c].shortOk = mem[c].shortOk
        /\ req' = req /\ Short(c)' = Short(c) /\ Long(c)' = Long(c)
    BY <1>0, <1>3, <2>1 DEF Locals
  <2>4. pc[c] = "read_short_after" /\ Gone(c)
    BY <1>1, <1>8, <2>2, <2>3 DEF ReadShortAfter, FullClose
  <2>5. QED
    BY <2>2, <2>3, <2>4 DEF Gone
<1>9. ~ReadLongAfter(c)
  BY <1>2 DEF ReadLongAfter
<1>10. QED
  BY <1>4, <1>5, <1>6, <1>7, <1>8, <1>9 DEF Exit

\* The answer of a close.
LEMMA ExitAnswers ==
  ASSUME TypeOK, NEW c \in Callers, Exit(c), Returns(c, ExitPCs), out'[c].status = "success"
  PROVE  /\ pc[c] = "read_long_after" /\ mem[c].shortOk /\ mem[c].longOk /\ pos' = pos
         /\ Short(c) \in Exchanges /\ Long(c) \in Exchanges
         /\ ~misled'[c] => ~misled[c]
<1>1. pc[c] \in ExitPCs /\ pc[c] \notin EnterPCs /\ pc[c] # "idle" /\ pc'[c] = "idle"
  BY DEF Returns, EnterPCs, ExitPCs
<1>2. ASSUME NEW l, NEW label, Remember(c, l, label)
      PROVE  label = "idle"
  BY <1>1, <1>2, OwnRemember
<1>3. ~StartExit(c) /\ ~FindShort(c) /\ ~CloseShort(c) /\ ~CloseLong(c) /\ ~ReadShortAfter(c)
  BY <1>1, <1>2 DEF StartExit, Start, FindShort, CloseShort, CloseLong, ReadShortAfter
<1>4. ~FindLong(c)
  <2>1. ASSUME NEW status \in {"failed", "simulated"}, NEW reason, NEW s, NEW l,
               Return(c, Outcome(status, reason, s, l))
        PROVE  FALSE
    BY <2>1, ReturnOutcome
  <2>2. QED
    BY <1>2, <2>1 DEF FindLong, Failed
<1>5. PICK seen \in Seen(Long(c)) :
        /\ pc[c] = "read_long_after"
        /\ Reads(c, Long(c), seen)
        /\ Return(c, Outcome(ExitStatus(mem[c].shortOk, mem[c].longOk,
                                        mem[c].shortAfter, Abs(seen)), "", 0, 0))
  BY <1>3, <1>4 DEF Exit, ReadLongAfter
<1>6. ExitStatus(mem[c].shortOk, mem[c].longOk, mem[c].shortAfter, Abs(seen)) = "success"
  BY <1>5, ReturnOutcome
<1>7. mem[c].shortOk /\ mem[c].longOk
  BY <1>6 DEF ExitStatus
<1>8. pos' = pos /\ (~misled'[c] => ~misled[c])
  BY <1>5, OwnRead DEF Reads
<1>9. QED
  BY <1>1, <1>5, <1>7, <1>8, CallType

LEMMA FlattensStep ==
  ASSUME TypeOK, NEW c \in Callers, Enter(c) \/ Exit(c) \/ Abort(c),
         ~misled[c] /\ FullClose(c) => Gone(c),
         Returns(c, ExitPCs), Honest(c), out'[c].status = "success", req[c].percent = 100
  PROVE  pos'[Short(c)] = 0 /\ pos'[Long(c)] = 0
<1>1. pc[c] \in ExitPCs /\ pc[c] \notin EnterPCs /\ pc[c] # "idle"
  BY DEF Returns, EnterPCs, ExitPCs
<1>2. ~Enter(c)
  BY <1>1 DEF Enter, StartEnter, Start, ReadBeforeShort, ShortFilled, ShortRaises,
       ReadAfterShort, ReadBeforeLong, LongFilled, LongRaises, ReadAfterLong,
       RollbackFind, RollbackClosed, RollbackRaises, EnterPCs
<1>3. ~Abort(c)
  <2>1. ASSUME NEW reason, NEW s, NEW l, Return(c, Outcome("raised", reason, s, l)) PROVE FALSE
    BY <2>1, ReturnOutcome
  <2>2. QED
    BY <2>1 DEF Abort
<1>4. /\ pc[c] = "read_long_after" /\ mem[c].shortOk /\ mem[c].longOk /\ pos' = pos
      /\ ~misled[c]
  BY <1>2, <1>3, ExitAnswers DEF Honest
<1>5. QED
  BY <1>4 DEF FullClose, Gone

FullInv == InLots /\ ("part_close" \notin Faults => ClosedIsGone)

LEMMA InitFull == Init => FullInv
<1> SUFFICES ASSUME Init PROVE FullInv
  OBVIOUS
<1>1. \A e \in Exchanges : pos[e] = 0
  BY DEF Init
<1>2. \A c \in Callers : pc[c] = "idle"
  BY DEF Init
<1>3. QED
  BY <1>1, <1>2, WholeZero DEF FullInv, InLots, WholeLots, WholeLeg, ClosedIsGone, FullClose

\* What a step of the executor and one of the others have in common.
LEMMA CallKeepsFull ==
  ASSUME TypeOK, HonestCallsKnowTheirLegs, FullInv, NEW d \in Callers,
         Enter(d) \/ Exit(d) \/ Abort(d)
  PROVE  FullInv'
<1>1. \A c \in Callers \ {d} : Undisturbed(c)
  <2>1. ASSUME NEW c \in Callers \ {d}, Abort(d) PROVE Undisturbed(c)
    <3>1. pc'[c] = pc[c] /\ req'[c] = req[c] /\ mem'[c] = mem[c]
      BY <2>1, ControlUndisturbed DEF Abort
    <3>2. QED
      BY <2>1, <3>1 DEF Abort, Undisturbed
  <2>2. QED
    BY <2>1, EnterUndisturbed, ExitUndisturbed
<1>2. WholeLots' /\ WholeLeg(d)'
  <2>1. CASE Abort(d)
    <3>1. pc'[d] = "idle" /\ pos' = pos
      BY <2>1, OwnReturn DEF Abort
    <3>2. QED
      BY <3>1, SamePositionsWhole DEF WholeLeg, FullInv, InLots
  <2>2. QED
    BY <2>1, EnterWhole, ExitWhole DEF FullInv, InLots
<1>3. \A c \in Callers \ {d} : WholeLeg(c)'
  BY <1>1, OthersWhole DEF FullInv, InLots
<1>4. ASSUME "part_close" \notin Faults, NEW c \in Callers
      PROVE  ~misled'[c] /\ FullClose(c)' => Gone(c)'
  <2>1. ~misled[c] /\ FullClose(c) => Gone(c)
    BY <1>4 DEF FullInv, ClosedIsGone
  <2>2. CASE c # d
    BY <1>1, <2>1, <2>2, OthersGone
  <2>3. CASE c = d
    <3>1. CASE Enter(c)
      BY <3>1, EnterGone
    <3>2. CASE Exit(c)
      BY <1>4, <2>1, <3>2, ExitGone DEF FullInv, InLots, HonestCallsKnowTheirLegs
    <3>3. CASE Abort(c)
      <4>1. pc'[c] = "idle"
        BY <3>3, OwnReturn DEF Abort
      <4>2. QED
        BY <4>1 DEF FullClose
    <3>4. QED
      BY <2>3, <3>1, <3>2, <3>3
  <2>4. QED
    BY <2>2, <2>3
<1>5. ("part_close" \notin Faults => ClosedIsGone)'
  BY <1>4 DEF ClosedIsGone
<1>6. QED
  BY <1>2, <1>3, <1>5 DEF FullInv, InLots

LEMMA NextKeepsFull == TypeOK /\ HonestCallsKnowTheirLegs /\ FullInv /\ [Next]_vars => FullInv'
<1> SUFFICES ASSUME TypeOK, HonestCallsKnowTheirLegs, FullInv, [Next]_vars PROVE FullInv'
  OBVIOUS
<1>1. CASE UNCHANGED vars
  BY <1>1 DEF vars, FullInv, InLots, WholeLots, WholeLeg, Whole, ClosedIsGone, FullClose, Gone,
     Short, Long
<1>2. CASE Finished
  BY <1>1, <1>2 DEF Finished
<1>3. QED
  BY <1>1, <1>2, CallKeepsFull DEF Next

\* Whatever the lots, a close of the whole pair whose orders fill, whose reads and
\* replies arrived and whose legs were left alone has left nothing when it answers
\* success (close_all).
THEOREM SuccessfulCloseAllFlattens == Spec => CloseAllFlattens
<1>1. TypeOK /\ FullInv /\ [Next]_vars =>
        \A c \in Callers :
          Returns(c, ExitPCs) /\ Honest(c) /\ out'[c].status = "success"
            /\ req[c].percent = 100 /\ "part_close" \notin Faults
            => pos'[Short(c)] = 0 /\ pos'[Long(c)] = 0
  <2>1. SUFFICES ASSUME TypeOK, FullInv, [Next]_vars, NEW c \in Callers,
                        Returns(c, ExitPCs), Honest(c), out'[c].status = "success",
                        req[c].percent = 100, "part_close" \notin Faults
                 PROVE  pos'[Short(c)] = 0 /\ pos'[Long(c)] = 0
    OBVIOUS
  <2>2. pc[c] # "idle" /\ pc'[c] = "idle"
    BY <2>1 DEF Returns, ExitPCs
  <2>3. Enter(c) \/ Exit(c) \/ Abort(c)
    BY <2>1, <2>2, ReturningStep
  <2>4. ~misled[c] /\ FullClose(c) => Gone(c)
    BY <2>1 DEF FullInv, ClosedIsGone
  <2>5. QED
    BY <2>1, <2>3, <2>4, FlattensStep
<1>2. QED
  BY <1>1, InitFull, NextKeepsFull, TypeCorrect, HonestCallsKnow, PTL DEF Spec, CloseAllFlattens
=============================================================================
