--------------------------- MODULE SpotHedgeProofs ---------------------------
(***************************************************************************)
(* Proofs about SpotHedge, for every lot, all amounts and percentages, any *)
(* number of calls and every combination of faults.                        *)
(***************************************************************************)
EXTENDS SpotHedge, TLAPS

-----------------------------------------------------------------------------
\* Types.

Labels == {"idle", "check", "read_before", "send_short", "read_after", "buy_spot",
           "rollback", "find_short", "close_short", "read_balance", "sell_spot"}
Exiting == at \in {"find_short", "close_short", "read_balance", "sell_spot"}

Locals == [planned : Nat, before : Nat, filled : Nat, shortOk : BOOLEAN, selling : Nat]

SpotTypeOK ==
  /\ short \in Nat /\ spot \in Nat
  /\ at \in Labels /\ want \in Nat /\ made \in Nat
  /\ local \in Locals
  /\ warned \in BOOLEAN /\ deceived \in BOOLEAN
  /\ slack \in Nat

\* A percentage is at most all of a leg, and a sale at most all the tokens.
SharesOK ==
  /\ Exiting => want \in 0 .. 100
  /\ at = "sell_spot" => local.selling <= spot

\* What a reduction can take is whole and no more than the leg.
LEMMA ClosedIsLess ==
  ASSUME NEW n \in Nat, NEW k \in Closed(n)
  PROVE  k \in 0 .. n
BY DEF Closed

\* What an order is cut to is whole and no more than what was asked.
LEMMA FlooredIsLess ==
  ASSUME NEW n \in Nat
  PROVE  Floored(n) \in 0 .. n
<1>1. n \div Lot \in Nat /\ (n \div Lot) * Lot <= n
  BY SpotAssumption, SMT
<1>2. (n \div Lot) * Lot \in Nat
  BY <1>1, SpotAssumption, SMT
<1>3. QED
  BY <1>1, <1>2, SMT DEF Floored

LEMMA ExecutedIsLess ==
  ASSUME NEW n \in Nat, NEW k \in Executed(n)
  PROVE  k \in 0 .. n
BY DEF Executed

\* A share in percent is at most the whole.
LEMMA ShareIsLess ==
  ASSUME NEW n \in Nat, NEW p \in 0 .. 100
  PROVE  (n * p) \div 100 \in 0 .. n
<1>1. n * p \in Nat /\ n * p <= n * 100
  BY SMT
<1>2. QED
  BY <1>1, SMT

\* What a close leaves undone of a share covers the difference, rounded up.
LEMMA UnclosedCovers ==
  ASSUME NEW n \in Nat, NEW p \in 0 .. 100, NEW k \in 0 .. ((n * p) \div 100)
  PROVE  LET u == (n * p - 100 * k + 99) \div 100
         IN  u \in Nat /\ n * p - 100 * k \in 0 .. (100 * u)
<1> DEFINE share == n * p
<1>1. share \in Nat
  BY SMT
<1> HIDE DEF share
<1>2. ASSUME k \in 0 .. (share \div 100)
      PROVE  LET u == (share - 100 * k + 99) \div 100
             IN  u \in Nat /\ share - 100 * k \in 0 .. (100 * u)
  BY <1>1, <1>2, SMT
<1>3. QED
  BY <1>2 DEF share

LEMMA SpotTypeInit == SpotInit => SpotTypeOK /\ SharesOK
<1> SUFFICES ASSUME SpotInit PROVE SpotTypeOK /\ SharesOK
  OBVIOUS
<1>1. local \in Locals
  BY DEF SpotInit, Clean, Locals
<1>2. warned \in BOOLEAN /\ deceived \in BOOLEAN /\ slack \in Nat
  BY DEF SpotInit
<1>3. /\ short \in Nat /\ spot \in Nat /\ at \in Labels /\ want \in Nat /\ made \in Nat
      /\ SharesOK
  BY DEF SpotInit, SharesOK, Exiting, Labels
<1>4. QED
  BY <1>1, <1>2, <1>3 DEF SpotTypeOK

\* The end of a call, and a step between two awaits.
LEMMA ReturnTypes ==
  ASSUME SpotTypeOK, short' \in Nat, spot' \in Nat, deceived' \in BOOLEAN, slack' \in Nat,
         NEW outcome, Return(outcome)
  PROVE  SpotTypeOK' /\ SharesOK'
<1>1. local' \in Locals
  BY DEF Return, Clean, Locals
<1>2. warned' \in BOOLEAN
  BY DEF Return, SpotTypeOK
<1>3. at' = "idle" /\ want' = 0 /\ made' = made
  BY DEF Return
<1>4. QED
  BY <1>1, <1>2, <1>3 DEF SpotTypeOK, SharesOK, Exiting, Labels

LEMMA RememberTypes ==
  ASSUME SpotTypeOK, short' \in Nat, spot' \in Nat, deceived' \in BOOLEAN, slack' \in Nat,
         NEW locals \in Locals, NEW label \in Labels, Remember(locals, label)
  PROVE  SpotTypeOK'
BY DEF SpotTypeOK, Remember

LEMMA ReadsTypes ==
  ASSUME SpotTypeOK, NEW seen \in Seen, Reads(seen)
  PROVE  /\ seen \in Nat /\ short' = short /\ spot' = spot /\ slack' = slack
         /\ deceived' \in BOOLEAN
BY DEF SpotTypeOK, Seen, Reads, legs

\* Opening and accumulating.
LEMMA EnterTypes ==
  ASSUME SpotTypeOK, SharesOK,
         \/ EntersSpot \/ ChecksSize \/ ReadsBefore \/ SellsShort \/ ShortRaises
         \/ ReadsAfter \/ BuysSpot \/ BuyRaises \/ RollsBack
  PROVE  SpotTypeOK' /\ SharesOK'
<1>1. CASE EntersSpot
  <2>1. PICK n \in SpotSizes : Begins(n, "check")
    BY <1>1 DEF EntersSpot
  <2>2. n \in Nat
    BY SpotAssumption
  <2>3. Clean \in Locals
    BY DEF Clean, Locals
  <2>4. QED
    BY <2>1, <2>2, <2>3 DEF Begins, legs, SpotTypeOK, SharesOK, Exiting, Labels
<1>2. CASE ChecksSize
  <2>1. short' = short /\ spot' = spot /\ deceived' = deceived /\ slack' = slack
    BY <1>2 DEF ChecksSize, legs
  <2>2. CASE Return("simulated") \/ Return("amount_rounds_to_zero")
    BY <2>1, <2>2, ReturnTypes DEF SpotTypeOK
  <2>3. CASE Remember([local EXCEPT !.planned = Floored(want)], "read_before")
    <3>1. [local EXCEPT !.planned = Floored(want)] \in Locals
      BY FlooredIsLess DEF SpotTypeOK, Locals
    <3>2. SpotTypeOK'
      BY <2>1, <2>3, <3>1, RememberTypes DEF SpotTypeOK, Labels
    <3>3. QED
      BY <2>3, <3>2 DEF Remember, SharesOK, Exiting
  <2>4. QED
    BY <1>2, <2>2, <2>3 DEF ChecksSize
<1>3. CASE ReadsBefore
  <2>1. PICK seen \in Seen :
          Reads(seen) /\ Remember([local EXCEPT !.before = seen], "send_short")
    BY <1>3 DEF ReadsBefore
  <2>2. [local EXCEPT !.before = seen] \in Locals
    BY <2>1, ReadsTypes DEF SpotTypeOK, Locals
  <2>3. SpotTypeOK'
    BY <2>1, <2>2, ReadsTypes, RememberTypes DEF SpotTypeOK, Labels
  <2>4. QED
    BY <2>1, <2>3 DEF Remember, SharesOK, Exiting
<1>4. CASE SellsShort
  <2>1. /\ short' \in Nat /\ spot' = spot /\ deceived' = deceived /\ slack' = slack
        /\ Remember(local, "read_after")
    BY <1>4 DEF SellsShort, SpotTypeOK, Locals
  <2>2. SpotTypeOK'
    BY <2>1, RememberTypes DEF SpotTypeOK, Labels
  <2>3. QED
    BY <2>1, <2>2 DEF Remember, SharesOK, Exiting
<1>5. CASE ShortRaises
  <2>1. /\ short' \in Nat /\ spot' = spot /\ deceived' = deceived /\ slack' = slack
        /\ Return("short_leg_failed")
    BY <1>5 DEF ShortRaises, SpotTypeOK, Locals
  <2>2. QED
    BY <2>1, ReturnTypes DEF SpotTypeOK
<1>6. CASE ReadsAfter
  <2>1. PICK seen \in Seen :
          Reads(seen) /\ Remember([local EXCEPT !.filled = Abs(seen - local.before)], "buy_spot")
    BY <1>6 DEF ReadsAfter
  <2>2. Abs(seen - local.before) \in Nat
    BY <2>1, ReadsTypes DEF SpotTypeOK, Locals, Abs
  <2>3. [local EXCEPT !.filled = Abs(seen - local.before)] \in Locals
    BY <2>2 DEF SpotTypeOK, Locals
  <2>4. SpotTypeOK'
    BY <2>1, <2>3, ReadsTypes, RememberTypes DEF SpotTypeOK, Labels
  <2>5. QED
    BY <2>1, <2>4 DEF Remember, SharesOK, Exiting
<1>7. SpotAmount \in Nat
  BY DEF SpotAmount, SpotTypeOK, Locals
<1>8. CASE BuysSpot
  <2>0. PICK k \in Executed(SpotAmount) : spot' = spot + k /\ slack' = slack + SpotAmount - k
    BY <1>8 DEF BuysSpot
  <2>1. short' = short /\ spot' \in Nat /\ slack' \in Nat /\ deceived' = deceived
    BY <1>7, <1>8, <2>0, ExecutedIsLess DEF BuysSpot, SpotTypeOK
  <2>2. QED
    BY <1>8, <2>1, ReturnTypes DEF BuysSpot, SpotTypeOK
<1>9. CASE BuyRaises
  <2>0. short' = short /\ deceived' = deceived /\ slack' = slack
    BY <1>9 DEF BuyRaises
  <2>1. spot' \in Nat
    BY <1>7, <1>9, ExecutedIsLess DEF BuyRaises, SpotTypeOK
  <2>2. CASE Return("spot_long_leg_failed")
    BY <2>0, <2>1, <2>2, ReturnTypes DEF SpotTypeOK
  <2>3. CASE Remember(local, "rollback")
    <3>1. SpotTypeOK'
      BY <2>0, <2>1, <2>3, RememberTypes DEF SpotTypeOK, Labels
    <3>2. QED
      BY <2>3, <3>1 DEF Remember, SharesOK, Exiting
  <2>4. QED
    BY <1>9, <2>2, <2>3 DEF BuyRaises
<1>10. CASE RollsBack
  <2>1. short' \in Nat
    <3>1. CASE UNCHANGED short
      BY <3>1 DEF SpotTypeOK
    <3>2. ASSUME NEW seen \in Seen, NEW k \in Closed(seen), short' = short - k
          PROVE  short' \in Nat
      <4>1. seen \in 0 .. short
        BY DEF Seen, SpotTypeOK
      <4>2. k \in 0 .. seen
        BY <4>1, ClosedIsLess DEF SpotTypeOK
      <4>3. QED
        BY <3>2, <4>1, <4>2 DEF SpotTypeOK
    <3>3. QED
      BY <1>10, <3>1, <3>2 DEF RollsBack
  <2>2. QED
    BY <1>10, <2>1, ReturnTypes DEF RollsBack, SpotTypeOK
<1>11. QED
  BY <1>1, <1>2, <1>3, <1>4, <1>5, <1>6, <1>8, <1>9, <1>10

\* Closing.
LEMMA ExitTypes ==
  ASSUME SpotTypeOK, SharesOK,
         \/ ExitsSpot \/ FindsShort \/ ClosesShort \/ CloseRaises \/ ReadsBalance
         \/ SellsSpot \/ SellRaises \/ ShortGoes
  PROVE  SpotTypeOK' /\ SharesOK'
<1>1. CASE ExitsSpot
  <2>1. PICK p \in SpotPercents : Begins(p, "find_short")
    BY <1>1 DEF ExitsSpot
  <2>2. p \in 1 .. 100
    BY SpotAssumption
  <2>3. Clean \in Locals
    BY DEF Clean, Locals
  <2>4. QED
    BY <2>1, <2>2, <2>3 DEF Begins, legs, SpotTypeOK, SharesOK, Exiting, Labels
<1>2. CASE FindsShort
  <2>1. PICK seen \in Seen :
          /\ Reads(seen)
          /\ \/ Remember([local EXCEPT !.shortOk = TRUE], "read_balance")
             \/ Remember([local EXCEPT !.before = seen], "close_short")
    BY <1>2 DEF FindsShort
  <2>2. [local EXCEPT !.shortOk = TRUE] \in Locals /\ [local EXCEPT !.before = seen] \in Locals
    BY <2>1, ReadsTypes DEF SpotTypeOK, Locals
  <2>3. SpotTypeOK'
    BY <2>1, <2>2, ReadsTypes, RememberTypes DEF SpotTypeOK, Labels
  <2>4. QED
    BY <1>2, <2>1, <2>3 DEF FindsShort, Remember, SharesOK, Exiting
<1>3. CASE ClosesShort
  <2>1. want \in 0 .. 100 /\ local.before \in Nat
    BY <1>3 DEF ClosesShort, SharesOK, Exiting, SpotTypeOK, Locals
  <2>2. PICK due, k : /\ due = Floored((local.before * want) \div 100)
                      /\ k \in Closed(Smaller(due, short)) /\ short' = short - k
                      /\ slack' = slack + Unclosed(k)
    BY <1>3 DEF ClosesShort
  <2>3. due \in 0 .. ((local.before * want) \div 100)
    BY <2>1, <2>2, ShareIsLess, FlooredIsLess
  <2>4. Smaller(due, short) \in 0 .. short /\ Smaller(due, short) <= due
    BY <2>1, <2>3, ShareIsLess DEF Smaller, SpotTypeOK
  <2>5. k \in 0 .. short /\ k \in 0 .. ((local.before * want) \div 100)
    <3>1. k \in 0 .. Smaller(due, short)
      BY <2>2, <2>4, ClosedIsLess DEF SpotTypeOK
    <3>2. (local.before * want) \div 100 \in Nat
      BY <2>1, ShareIsLess
    <3>3. QED
      BY <2>3, <2>4, <3>1, <3>2 DEF SpotTypeOK
  <2>56. short' \in Nat /\ slack' \in Nat /\ spot' = spot
    <3>1. Unclosed(k) \in Nat
      BY <2>1, <2>5, UnclosedCovers DEF Unclosed
    <3>2. QED
      BY <1>3, <2>2, <2>5, <3>1 DEF ClosesShort, SpotTypeOK
  <2>6. [local EXCEPT !.shortOk = TRUE] \in Locals
    BY DEF SpotTypeOK, Locals
  <2>7. Remember([local EXCEPT !.shortOk = TRUE], "read_balance")
    BY <1>3 DEF ClosesShort
  <2>8. deceived' \in BOOLEAN
    BY <1>3 DEF ClosesShort, SpotTypeOK
  <2>9. SpotTypeOK'
    BY <2>56, <2>6, <2>7, <2>8, RememberTypes DEF SpotTypeOK, Labels
  <2>10. QED
    BY <1>3, <2>7, <2>9 DEF ClosesShort, Remember, SharesOK, Exiting
<1>4. CASE CloseRaises
  <2>1. SpotTypeOK'
    BY <1>4, RememberTypes DEF CloseRaises, legs, SpotTypeOK, Labels
  <2>2. QED
    BY <1>4, <2>1 DEF CloseRaises, Remember, SharesOK, Exiting
<1>5. CASE ReadsBalance
  <2>1. short' = short /\ spot' = spot /\ deceived' = deceived /\ slack' = slack
    BY <1>5 DEF ReadsBalance, legs
  <2>2. CASE Remember([local EXCEPT !.selling = (spot * want) \div 100], "sell_spot")
    <3>0. want \in 0 .. 100
      BY <1>5 DEF ReadsBalance, SharesOK, Exiting
    <3>1. (spot * want) \div 100 \in 0 .. spot /\ want \in 0 .. 100
      BY <3>0, ShareIsLess DEF SpotTypeOK
    <3>2. [local EXCEPT !.selling = (spot * want) \div 100] \in Locals
      <4>1. \A n \in Nat : [local EXCEPT !.selling = n] \in Locals
        BY DEF SpotTypeOK, Locals
      <4>2. (spot * want) \div 100 \in Nat
        BY <3>1 DEF SpotTypeOK
      <4>3. QED
        BY <4>1, <4>2
    <3>3. SpotTypeOK'
      BY <2>1, <2>2, <3>2, RememberTypes DEF SpotTypeOK, Labels
    <3>4. local'.selling = (spot * want) \div 100 /\ want' = want
      BY <2>2 DEF Remember, SpotTypeOK, Locals
    <3>5. at' = "sell_spot" /\ want' \in 0 .. 100 /\ local'.selling <= spot'
      BY <2>1, <2>2, <3>0, <3>1, <3>4 DEF Remember
    <3>6. QED
      BY <3>3, <3>5 DEF SharesOK
  <2>3. CASE \E ok \in BOOLEAN : Return(ExitStatus(local.shortOk, ok))
    BY <2>1, <2>3, ReturnTypes DEF SpotTypeOK
  <2>4. QED
    BY <1>5, <2>2, <2>3 DEF ReadsBalance
<1>6. CASE SellsSpot \/ SellRaises
  <2>0. at = "sell_spot"
    BY <1>6 DEF SellsSpot, SellRaises
  <2>1. local.selling \in 0 .. spot
    BY <2>0 DEF SharesOK, SpotTypeOK, Locals
  <2>2. short' = short /\ deceived' = deceived
    BY <1>6 DEF SellsSpot, SellRaises
  <2>3. spot' \in Nat /\ slack' \in Nat
    <3>1. CASE UNCHANGED <<spot, slack>>
      BY <3>1 DEF SpotTypeOK
    <3>2. ASSUME NEW k \in Executed(local.selling), spot' = spot - k,
                 slack' = slack + local.selling - k \/ slack' = slack
          PROVE  spot' \in Nat /\ slack' \in Nat
      <4>1. k \in 0 .. local.selling
        BY <2>1, ExecutedIsLess DEF SpotTypeOK
      <4>2. QED
        BY <2>1, <3>2, <4>1 DEF SpotTypeOK
    <3>3. QED
      BY <1>6, <3>1, <3>2 DEF SellsSpot, SellRaises
  <2>4. Return(ExitStatus(local.shortOk, TRUE)) \/ Return(ExitStatus(local.shortOk, FALSE))
    BY <1>6 DEF SellsSpot, SellRaises
  <2>5. QED
    BY <2>2, <2>3, <2>4, ReturnTypes DEF SpotTypeOK
<1>7. CASE ShortGoes
  BY <1>7 DEF ShortGoes, SpotTypeOK, SharesOK, Exiting
<1>8. QED
  BY <1>1, <1>2, <1>3, <1>4, <1>5, <1>6, <1>7

LEMMA SpotTypeStep ==
  SpotTypeOK /\ SharesOK /\ [SpotNext]_spotVars => SpotTypeOK' /\ SharesOK'
<1> SUFFICES ASSUME SpotTypeOK, SharesOK, [SpotNext]_spotVars PROVE SpotTypeOK' /\ SharesOK'
  OBVIOUS
<1>1. CASE UNCHANGED spotVars
  BY <1>1 DEF spotVars, legs, SpotTypeOK, SharesOK, Exiting
<1>2. CASE SpotNext
  BY <1>2, EnterTypes, ExitTypes DEF SpotNext
<1>3. QED
  BY <1>1, <1>2

\* Every reachable state of the spot hedge is well typed: no sale exceeds the
\* tokens, no reduction the short.
THEOREM SpotTypeCorrect == SpotSpec => [](SpotTypeOK /\ SharesOK)
BY SpotTypeInit, SpotTypeStep, PTL DEF SpotSpec

-----------------------------------------------------------------------------
\* The hedge.

Within(n) == -slack <= n /\ n <= slack

\* What the legs are to each other at every await, while nothing went wrong.
Tracked ==
  /\ at \in {"idle", "check", "read_before", "send_short", "find_short", "close_short"} =>
       Within(spot - short)
  /\ at \in {"find_short", "close_short"} => ~local.shortOk
  /\ at \in {"send_short", "close_short"} => local.before = short
  /\ at = "read_after" => Within(spot - local.before) /\ local.before <= short
  /\ at = "buy_spot" => Within(spot + local.filled - short)
  /\ at = "read_balance" /\ local.shortOk =>
       /\ -(100 * slack) <= 100 * (spot - short) - spot * want
       /\ 100 * (spot - short) - spot * want <= 100 * slack
  /\ at = "sell_spot" /\ local.shortOk => Within(spot - local.selling - short)

Kept == ~warned /\ ~deceived => Tracked

LEMMA KeptInit == SpotInit => Kept
BY DEF SpotInit, Kept, Tracked, Within

\* A call that says nothing went wrong leaves two legs behind that differ by no
\* more than the slack.
LEMMA ReturnKeeps ==
  ASSUME NEW outcome, Return(outcome),
         outcome \notin Warnings /\ ~warned /\ ~deceived' => Within(spot - short)'
  PROVE  Kept'
BY DEF Return, Kept, Tracked

\* The legs after a close, from what they were before it: with d the difference
\* of the legs, c the percentage that stays and u what is left unclosed.
LEMMA ShareOfDifference ==
  ASSUME NEW d \in Int, NEW s \in Nat, NEW c \in 0 .. 100, -s <= d, d <= s
  PROVE  -(100 * s) <= d * c /\ d * c <= 100 * s
<1>1. CASE d >= 0
  <2>1. d * c >= 0 /\ d * c <= d * 100
    BY <1>1, SMT
  <2>2. QED
    BY <2>1, SMT
<1>2. CASE d < 0
  <2>1. (-d) * c >= 0 /\ (-d) * c <= (-d) * 100
    BY <1>2, SMT
  <2>2. d * c = -((-d) * c)
    BY SMT
  <2>3. QED
    BY <2>1, <2>2, SMT
<1>3. QED
  BY <1>1, <1>2, SMT

LEMMA CloseDifference ==
  ASSUME NEW tokens \in Nat, NEW sold \in Nat, NEW k \in Nat, NEW w \in 0 .. 100,
         NEW s \in Nat, NEW u \in Nat,
         -s <= tokens - sold, tokens - sold <= s,
         sold * w - 100 * k >= 0, sold * w - 100 * k <= 100 * u
  PROVE  /\ -(100 * (s + u)) <= 100 * (tokens - (sold - k)) - tokens * w
         /\ 100 * (tokens - (sold - k)) - tokens * w <= 100 * (s + u)
<1>1. 100 * (tokens - (sold - k)) - tokens * w
        = (tokens - sold) * (100 - w) - (sold * w - 100 * k)
  BY SMT
<1>2. -(100 * s) <= (tokens - sold) * (100 - w) /\ (tokens - sold) * (100 - w) <= 100 * s
  BY ShareOfDifference
<1> DEFINE x == (tokens - sold) * (100 - w)
           y == sold * w - 100 * k
           z == 100 * (tokens - (sold - k)) - tokens * w
<1>3. x \in Int /\ y \in Int /\ z \in Int
  BY SMT
<1>4. z = x - y /\ -(100 * s) <= x /\ x <= 100 * s /\ y >= 0 /\ y <= 100 * u
  BY <1>1, <1>2
<1> HIDE DEF x, y, z
<1>5. -(100 * (s + u)) <= z /\ z <= 100 * (s + u)
  BY <1>3, <1>4, SMT
<1>6. QED
  BY <1>5 DEF z

\* Opening and accumulating: the fill is what the short grew by; what is not
\* bought of it is slack.
LEMMA EnterKeeps ==
  ASSUME SpotTypeOK, Kept,
         \/ EntersSpot \/ ChecksSize \/ ReadsBefore \/ SellsShort \/ ShortRaises
         \/ ReadsAfter \/ BuysSpot \/ BuyRaises \/ RollsBack
  PROVE  Kept'
<1>1. CASE EntersSpot
  BY <1>1 DEF EntersSpot, Begins, legs, Kept, Tracked, Within
<1>2. CASE ChecksSize
  BY <1>2 DEF ChecksSize, Remember, Return, legs, Kept, Tracked, Within
<1>3. CASE ReadsBefore
  <2>1. PICK seen \in Seen :
          Reads(seen) /\ Remember([local EXCEPT !.before = seen], "send_short")
    BY <1>3 DEF ReadsBefore
  <2>2. local'.before = seen
    BY <2>1 DEF Remember, SpotTypeOK, Locals
  <2>3. at = "read_before" /\ at' = "send_short" /\ warned' = warned
    BY <1>3, <2>1 DEF ReadsBefore, Remember
  <2>4. deceived' = (deceived \/ seen # short) /\ UNCHANGED <<short, spot, slack>>
    BY <2>1 DEF Reads, legs
  <2>5. QED
    BY <2>2, <2>3, <2>4 DEF Kept, Tracked, Within
<1>4. CASE SellsShort
  <2>1. /\ short' \in Int /\ short <= short'
        /\ UNCHANGED <<spot, deceived, slack, local, warned>>
    BY <1>4 DEF SellsShort, Remember, SpotTypeOK, Locals
  <2>2. at = "send_short" /\ at' = "read_after"
    BY <1>4 DEF SellsShort, Remember
  <2>3. QED
    BY <2>1, <2>2 DEF Kept, Tracked, Within, SpotTypeOK
<1>5. CASE ShortRaises
  BY <1>5, ReturnKeeps DEF ShortRaises, Warnings
<1>6. CASE ReadsAfter
  <2>1. PICK seen \in Seen :
          Reads(seen) /\ Remember([local EXCEPT !.filled = Abs(seen - local.before)], "buy_spot")
    BY <1>6 DEF ReadsAfter
  <2>2. local'.filled = Abs(seen - local.before)
    BY <2>1 DEF Remember, SpotTypeOK, Locals
  <2>3. at = "read_after" /\ at' = "buy_spot" /\ warned' = warned
    BY <1>6, <2>1 DEF ReadsAfter, Remember
  <2>4. deceived' = (deceived \/ seen # short) /\ UNCHANGED <<short, spot, slack>>
    BY <2>1 DEF Reads, legs
  <2>5. SUFFICES ASSUME ~warned', ~deceived' PROVE Within(spot + local'.filled - short)
    BY <2>3, <2>4 DEF Kept, Tracked, Within
  <2>6. seen = short /\ Within(spot - local.before) /\ local.before <= short
    BY <2>3, <2>4, <2>5 DEF Kept, Tracked
  <2>7. local'.filled = short - local.before
    BY <2>2, <2>6 DEF Abs, SpotTypeOK, Locals
  <2>8. spot + local'.filled - short = spot - local.before
    BY <2>7 DEF SpotTypeOK, Locals
  <2>9. QED
    BY <2>6, <2>8
<1>7. CASE BuysSpot
  <2>1. CASE local.filled > 0
    <3>1. PICK k \in Executed(local.filled) :
            spot' = spot + k /\ slack' = slack + local.filled - k
      BY <1>7, <2>1 DEF BuysSpot, SpotAmount
    <3>2. k \in 0 .. local.filled
      BY ExecutedIsLess DEF SpotTypeOK, Locals
    <3>3. ~warned /\ ~deceived => Within(spot + local.filled - short)
      BY <1>7 DEF BuysSpot, Kept, Tracked
    <3>4. Return("success") /\ short' = short /\ deceived' = deceived
      BY <1>7, <2>1 DEF BuysSpot
    <3>5. ~warned /\ ~deceived' => Within(spot - short)'
      BY <3>1, <3>2, <3>3, <3>4 DEF Within, SpotTypeOK, Locals
    <3>6. QED
      BY <3>4, <3>5, ReturnKeeps
  <2>2. CASE ~(local.filled > 0)
    BY <1>7, <2>2, ReturnKeeps DEF BuysSpot, Warnings
  <2>3. QED
    BY <2>1, <2>2
<1>8. CASE BuyRaises
  <2>1. CASE Return("spot_long_leg_failed")
    BY <2>1, ReturnKeeps DEF Warnings
  <2>2. CASE Remember(local, "rollback")
    BY <2>2 DEF Remember, Kept, Tracked
  <2>3. QED
    BY <1>8, <2>1, <2>2 DEF BuyRaises
<1>9. CASE RollsBack
  BY <1>9, ReturnKeeps DEF RollsBack, Warnings
<1>10. QED
  BY <1>1, <1>2, <1>3, <1>4, <1>5, <1>6, <1>7, <1>8, <1>9

\* Closing: of the share of the short and the share of the tokens, what is not
\* closed and what is not sold is slack.
LEMMA ExitKeeps ==
  ASSUME SpotTypeOK, SharesOK, Kept,
         \/ ExitsSpot \/ FindsShort \/ ClosesShort \/ CloseRaises \/ ReadsBalance
         \/ SellsSpot \/ SellRaises \/ ShortGoes
  PROVE  Kept'
<1>1. CASE ExitsSpot
  BY <1>1 DEF ExitsSpot, Begins, Clean, legs, Kept, Tracked, Within
<1>2. CASE FindsShort
  <2>1. PICK seen \in Seen :
          /\ Reads(seen)
          /\ IF seen = 0 THEN Remember([local EXCEPT !.shortOk = TRUE], "read_balance")
             ELSE Remember([local EXCEPT !.before = seen], "close_short")
    BY <1>2 DEF FindsShort
  <2>2. deceived' = (deceived \/ seen # short) /\ UNCHANGED <<short, spot, slack, want, warned>>
    BY <2>1 DEF Reads, Remember, legs
  <2>3. ~warned' /\ ~deceived' => Within(spot - short) /\ seen = short
    BY <1>2, <2>2 DEF FindsShort, Kept, Tracked
  <2>4. CASE seen = 0
    <3>1. at' = "read_balance"
      BY <2>1, <2>4 DEF Remember
    <3>2. SUFFICES ASSUME ~warned', ~deceived'
                   PROVE  /\ -(100 * slack) <= 100 * (spot - short) - spot * want
                          /\ 100 * (spot - short) - spot * want <= 100 * slack
      BY <2>2, <3>1 DEF Kept, Tracked
    <3>3. short = 0 /\ -slack <= spot - short /\ spot - short <= slack
      BY <2>3, <2>4, <3>2 DEF Within
    <3>4. want \in 0 .. 100
      BY <1>2 DEF FindsShort, SharesOK, Exiting
    <3>5. spot \in Nat /\ slack \in Nat
      BY DEF SpotTypeOK
    <3>6. /\ -(100 * (slack + 0)) <= 100 * (spot - (0 - 0)) - spot * want
          /\ 100 * (spot - (0 - 0)) - spot * want <= 100 * (slack + 0)
      BY <3>3, <3>4, <3>5, CloseDifference
    <3>7. QED
      BY <3>3, <3>5, <3>6
  <2>5. CASE seen # 0
    <3>1. /\ at = "find_short" /\ at' = "close_short"
          /\ local'.before = seen /\ local'.shortOk = local.shortOk
      BY <1>2, <2>1, <2>5 DEF FindsShort, Remember, SpotTypeOK, Locals
    <3>2. QED
      BY <2>2, <2>3, <3>1 DEF Kept, Tracked, Within
  <2>6. QED
    BY <2>4, <2>5
<1>3. CASE ClosesShort
  <2>0. /\ want \in 0 .. 100 /\ local.before \in Nat
        /\ short \in Nat /\ spot \in Nat /\ slack \in Nat
    BY <1>3 DEF ClosesShort, SharesOK, Exiting, SpotTypeOK, Locals
  <2>1. PICK due, k : /\ due = Floored((local.before * want) \div 100)
                      /\ k \in Closed(Smaller(due, short)) /\ short' = short - k
                      /\ slack' = slack + Unclosed(k)
    BY <1>3 DEF ClosesShort
  <2>2. /\ at = "close_short" /\ at' = "read_balance"
        /\ UNCHANGED <<spot, want, warned, deceived>>
    BY <1>3 DEF ClosesShort, Remember
  <2>3. k \in 0 .. ((local.before * want) \div 100)
    <3>1. due \in 0 .. ((local.before * want) \div 100)
      BY <2>0, <2>1, ShareIsLess, FlooredIsLess
    <3>2. Smaller(due, short) \in Nat /\ Smaller(due, short) <= due
      BY <2>0, <3>1, ShareIsLess DEF Smaller, SpotTypeOK
    <3>3. k \in 0 .. Smaller(due, short)
      BY <2>1, <3>2, ClosedIsLess
    <3>4. QED
      BY <2>0, <3>1, <3>2, <3>3, ShareIsLess
  <2> DEFINE u == Unclosed(k)
  <2>4. u \in Nat /\ local.before * want - 100 * k \in 0 .. (100 * u)
    BY <2>0, <2>3, UnclosedCovers DEF Unclosed
  <2> HIDE DEF u
  <2>5. SUFFICES ASSUME ~warned', ~deceived'
                 PROVE  /\ -(100 * slack') <= 100 * (spot' - short') - spot' * want'
                        /\ 100 * (spot' - short') - spot' * want' <= 100 * slack'
    BY <2>2 DEF Kept, Tracked
  <2>6. local.before = short /\ -slack <= spot - short /\ spot - short <= slack
    BY <2>2, <2>5 DEF Kept, Tracked, Within
  <2>7. k \in Nat /\ short * want - 100 * k >= 0 /\ short * want - 100 * k <= 100 * u
    <3>1. k \in Nat
      BY <2>0, <2>3, ShareIsLess
    <3>2. QED
      BY <2>4, <2>6, <3>1
  <2>8. /\ -(100 * (slack + u)) <= 100 * (spot - (short - k)) - spot * want
        /\ 100 * (spot - (short - k)) - spot * want <= 100 * (slack + u)
    BY <2>0, <2>4, <2>6, <2>7, CloseDifference
  <2>9. spot' = spot /\ want' = want /\ short' = short - k /\ slack' = slack + u
    BY <2>1, <2>2 DEF u
  <2>10. QED
    BY <2>8, <2>9
<1>4. CASE CloseRaises
  <2>1. at = "close_short" /\ at' = "read_balance" /\ UNCHANGED <<warned, deceived, local>>
    BY <1>4 DEF CloseRaises, Remember
  <2>2. QED
    BY <2>1 DEF Kept, Tracked
<1>5. CASE ReadsBalance
  <2>1. /\ at = "read_balance" /\ UNCHANGED <<short, spot, slack, deceived>>
        /\ want \in 0 .. 100
    BY <1>5 DEF ReadsBalance, legs, SharesOK, Exiting
  <2>2. ~warned /\ ~deceived /\ local.shortOk =>
          /\ -(100 * slack) <= 100 * (spot - short) - spot * want
          /\ 100 * (spot - short) - spot * want <= 100 * slack
    BY <2>1 DEF Kept, Tracked
  <2>3. spot * want \in Nat
    BY <2>1, SMT DEF SpotTypeOK
  <2>4. CASE Remember([local EXCEPT !.selling = (spot * want) \div 100], "sell_spot")
    <3>1. /\ local'.selling = (spot * want) \div 100 /\ local'.shortOk = local.shortOk
          /\ at' = "sell_spot" /\ warned' = warned
      BY <2>4 DEF Remember, SpotTypeOK, Locals
    <3>2. ASSUME NEW m \in Nat,
                 -(100 * slack) <= 100 * (spot - short) - m,
                 100 * (spot - short) - m <= 100 * slack
          PROVE  Within(spot - (m \div 100) - short)
      BY <3>2, SMT DEF SpotTypeOK, Within
    <3>3. ~warned /\ ~deceived /\ local.shortOk =>
            Within(spot - ((spot * want) \div 100) - short)
      BY <2>2, <2>3, <3>2
    <3>4. QED
      BY <2>1, <3>1, <3>3 DEF Kept, Tracked, Within
  <2>5. CASE spot * want < 100 /\ Return(ExitStatus(local.shortOk, TRUE))
    <3>1. ASSUME NEW m \in 0 .. 99,
                 -(100 * slack) <= 100 * (spot - short) - m,
                 100 * (spot - short) - m <= 100 * slack
          PROVE  Within(spot - short)
      BY <3>1, SMT DEF SpotTypeOK, Within
    <3>2. ~warned /\ ~deceived /\ local.shortOk => Within(spot - short)
      BY <2>2, <2>3, <2>5, <3>1
    <3>3. local.shortOk \/ ExitStatus(local.shortOk, TRUE) = "partial"
      BY DEF ExitStatus, SpotTypeOK, Locals
    <3>4. Within(spot - short) => Within(spot - short)'
      BY <2>1 DEF Within
    <3>5. QED
      BY <2>1, <2>5, <3>2, <3>3, <3>4, ReturnKeeps DEF Warnings
  <2>6. CASE Return(ExitStatus(local.shortOk, FALSE))
    <3>1. ExitStatus(local.shortOk, FALSE) \in Warnings
      BY DEF ExitStatus, Warnings, SpotTypeOK, Locals
    <3>2. QED
      BY <2>6, <3>1, ReturnKeeps
  <2>7. QED
    BY <1>5, <2>4, <2>5, <2>6 DEF ReadsBalance
<1>6. CASE SellsSpot
  <2>1. PICK k \in Executed(local.selling) :
          spot' = spot - k /\ slack' = slack + local.selling - k
    BY <1>6 DEF SellsSpot
  <2>2. /\ at = "sell_spot" /\ short' = short /\ deceived' = deceived
        /\ Return(ExitStatus(local.shortOk, TRUE))
    BY <1>6 DEF SellsSpot
  <2>3. k \in 0 .. local.selling
    BY ExecutedIsLess DEF SpotTypeOK, Locals
  <2>4. ~warned /\ ~deceived /\ local.shortOk => Within(spot - local.selling - short)
    BY <2>2 DEF Kept, Tracked
  <2>5. local.shortOk \/ ExitStatus(local.shortOk, TRUE) = "partial"
    BY DEF ExitStatus, SpotTypeOK, Locals
  <2>6. ~warned /\ ~deceived /\ local.shortOk => Within(spot - short)'
    BY <2>1, <2>2, <2>3, <2>4 DEF Within, SpotTypeOK, Locals
  <2>7. QED
    BY <2>2, <2>5, <2>6, ReturnKeeps DEF Warnings
<1>7. CASE SellRaises
  <2>1. ExitStatus(local.shortOk, FALSE) \in Warnings
    BY DEF ExitStatus, Warnings, SpotTypeOK, Locals
  <2>2. QED
    BY <1>7, <2>1, ReturnKeeps DEF SellRaises
<1>8. CASE ShortGoes
  BY <1>8 DEF ShortGoes, Kept
<1>9. QED
  BY <1>1, <1>2, <1>3, <1>4, <1>5, <1>6, <1>7, <1>8

LEMMA KeptStep == SpotTypeOK /\ SharesOK /\ Kept /\ [SpotNext]_spotVars => Kept'
<1> SUFFICES ASSUME SpotTypeOK, SharesOK, Kept, [SpotNext]_spotVars PROVE Kept'
  OBVIOUS
<1>1. CASE UNCHANGED spotVars
  BY <1>1 DEF spotVars, legs, Kept, Tracked, Within
<1>2. CASE SpotNext
  BY <1>2, EnterKeeps, ExitKeeps DEF SpotNext
<1>3. QED
  BY <1>1, <1>2

\* Part fills of both legs, opens, accumulations and closes in any order and
\* number, successful or simulated, keep the difference of the legs within what
\* orders left undone, until a call warns or a read of the short was wrong.
THEOREM SpotHedgeIsKept == SpotSpec => []SpotHedgeHolds
<1>1. SpotSpec => []Kept
  BY SpotTypeCorrect, KeptInit, KeptStep, PTL DEF SpotSpec
<1>2. SpotTypeOK /\ Kept => SpotHedgeHolds
  BY DEF Kept, Tracked, Within, SpotHedgeHolds, Abs, SpotTypeOK
<1>3. QED
  BY <1>1, <1>2, SpotTypeCorrect, PTL
==============================================================================
