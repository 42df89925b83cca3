--------------------------- MODULE HedgedExecution ---------------------------
(***************************************************************************)
(* The hedged order executor (application/trading/                         *)
(* hedged_execution_service.py) step by step: one step for every await of  *)
(* _enter, _rollback_open and _exit on two futures legs of one symbol.     *)
(*                                                                         *)
(* Callers are the coroutines that run it: the live auto trader, the       *)
(* guards, the operator's trade command.  Each has a service and gateways  *)
(* of its own and nothing serialises them, so their steps interleave; what *)
(* they share is the positions held at the exchanges.                      *)
(*                                                                         *)
(* Amounts are tokens.  An exchange nets the orders of a symbol into one   *)
(* position (no order carries a position side): positive long, negative    *)
(* short, and a position reads back as one leg.                            *)
(*                                                                         *)
(* Faults is the set of ways an exchange may disappoint a call:            *)
(*   reject      an order is refused and the gateway raises                *)
(*   lost        an order executes but the gateway raises all the same     *)
(*   part_open   an opening market order fills in part                     *)
(*   part_close  a closing market order fills in part                      *)
(*   blind       a position read fails: fetch_open_positions answers []    *)
(*   abort       an exception or a cancellation leaves the call at an await*)
(***************************************************************************)
EXTENDS Integers

CONSTANTS
  Callers,          \* coroutines running the service
  Exchanges,        \* futures exchanges
  LotStep,          \* LotStep[e]: amount step of the symbol on e, in tokens
  Sizes,            \* token amounts a caller asks for
  Percents,         \* percentages a caller closes
  TolPct,           \* leg_imbalance_tolerance_pct
  RollbackEnabled,  \* execution_rollback_enabled
  Cached,           \* callers whose service was given the market cache
  DryRun,           \* callers whose service simulates
  Faults,
  MaxCalls          \* bound: calls started in a behaviour

FaultKinds == {"reject", "lost", "part_open", "part_close", "blind", "abort"}

ASSUME ExchangesAssumption == LotStep \in [Exchanges -> Nat \ {0}]
ASSUME RequestAssumption == Sizes \subseteq Nat /\ Percents \subseteq Nat
ASSUME SettingsAssumption ==
  /\ TolPct \in Nat
  /\ RollbackEnabled \in BOOLEAN
  /\ Cached \subseteq Callers
  /\ DryRun \subseteq Callers
ASSUME BoundsAssumption == Faults \subseteq FaultKinds /\ MaxCalls \in Nat

VARIABLES
  pos,      \* pos[e]: the net position the exchange holds
  pc,       \* pc[c]: the await caller c stands at
  req,      \* req[c]: what the running call of c asks for
  mem,      \* mem[c]: the locals of c's call
  out,      \* out[c]: the ExecutionOutcome of c's last call
  calls,    \* number of calls started
  done,     \* history: what the orders of c's call really executed
  misled    \* history: c's call was deceived about its legs

vars == <<pos, pc, req, mem, out, calls, done, misled>>

-----------------------------------------------------------------------------
Abs(n) == IF n < 0 THEN -n ELSE n
Larger(m, n) == IF m < n THEN n ELSE m
Smaller(m, n) == IF m < n THEN m ELSE n

\* The amount floored to a step.
Floored(n, step) == (n \div step) * step

\* _harmonize_amounts: the target floored to the least step both legs can trade.
CommonStep(m, n) ==
  CHOOSE k \in 1 .. m * n :
    /\ k % m = 0 /\ k % n = 0
    /\ \A j \in 1 .. k - 1 : j % m # 0 \/ j % n # 0

Harmonized(n, short, long) ==
  Floored(n, CommonStep(LotStep[short], LotStep[long]))

\* _imbalance <= tolerance
Balanced(s, l) == Abs(s - l) * 100 <= TolPct * Larger(s, l)

Legs == {p \in Exchanges \X Exchanges : p[1] # p[2]}

\* What the caches say when a call starts: is the market info of both legs
\* known, does the cached balance cover the margin, are both gateways wired
\* and the symbol listed on them.
Enters == [kind : {"enter"}, legs : Legs, size : Sizes,
           info : BOOLEAN, funds : BOOLEAN, wired : BOOLEAN]
Exits == [kind : {"exit"}, legs : Legs, percent : Percents, wired : BOOLEAN]
Requests == Enters \cup Exits

NoRequest == [kind |-> "none"]
Short(c) == req[c].legs[1]
Long(c) == req[c].legs[2]
Size(c) == Harmonized(req[c].size, Short(c), Long(c))

Clear == [before |-> 0, filled |-> 0, beforeLong |-> 0,
          shortLeg |-> 0, longLeg |-> 0, shortOk |-> FALSE, longOk |-> FALSE,
          shortAfter |-> 0]

Outcome(status, reason, s, l) ==
  [status |-> status, reason |-> reason, filledShort |-> s, filledLong |-> l]
Failed(reason) == Outcome("failed", reason, 0, 0)

Statuses == {"none", "success", "partial", "failed", "rolled_back",
             "simulated", "raised"}
Reasons == {"", "market_info_missing", "cache_missing", "margin",
            "amount_rounds_to_zero", "gateway_missing", "invalid_close_percent",
            "short_leg_failed", "unhedged", "compensated", "no_position"}

EnterPCs == {"read_before_short", "send_short", "read_after_short",
             "read_before_long", "send_long", "read_after_long",
             "rollback_find", "rollback_close"}
ExitPCs == {"find_short", "find_long", "close_short", "close_long",
            "read_short_after", "read_long_after"}

Init ==
  /\ pos = [e \in Exchanges |-> 0]
  /\ pc = [c \in Callers |-> "idle"]
  /\ req = [c \in Callers |-> NoRequest]
  /\ mem = [c \in Callers |-> Clear]
  /\ out = [c \in Callers |-> Outcome("none", "", 0, 0)]
  /\ calls = 0
  /\ done = [c \in Callers |-> [sold |-> 0, bought |-> 0, undone |-> 0]]
  /\ misled = [c \in Callers |-> FALSE]

-----------------------------------------------------------------------------
\* The steps of a call.

Goto(c, label) == pc' = [pc EXCEPT ![c] = label]

Return(c, outcome) ==
  /\ Goto(c, "idle")
  /\ out' = [out EXCEPT ![c] = outcome]
  /\ mem' = [mem EXCEPT ![c] = Clear]
  /\ req' = [req EXCEPT ![c] = NoRequest]

Remember(c, locals, label) ==
  /\ mem' = [mem EXCEPT ![c] = locals]
  /\ Goto(c, label)
  /\ UNCHANGED <<out, req>>

\* What fetch_open_positions of exchange e may answer: the position, or no
\* leg at all when the request failed.
Seen(e) == {pos[e]} \cup (IF "blind" \in Faults THEN {0} ELSE {})

Reads(c, e, seen) ==
  /\ misled' = [misled EXCEPT ![c] = @ \/ seen # pos[e]]
  /\ UNCHANGED <<pos, calls, done>>

Crosses(p, change) == (p < 0 /\ p + change > 0) \/ (p > 0 /\ p + change < 0)

\* An order of c moves the position on e.  It deceives the other callers whose
\* legs it touches, and c itself when the size no longer measures the change.
Executes(c, e, change, deceived) ==
  /\ pos' = [pos EXCEPT ![e] = @ + change]
  /\ misled' = [d \in Callers |->
       \/ misled[d]
       \/ d = c /\ (deceived \/ Crosses(pos[e], change))
       \/ d # c /\ change # 0 /\ pc[d] # "idle" /\ e \in {Short(d), Long(d)}]
  /\ UNCHANGED calls

Refused == UNCHANGED <<pos, calls, done, misled>>

Lots(n, e, fault) ==
  IF fault \in Faults THEN {k \in 0 .. n : k % LotStep[e] = 0} ELSE {n}

\* Rejections of _enter before its first await, in the order of the code; ""
\* when the call goes on.
EnterRejection(c, r) ==
  CASE c \in Cached /\ ~r.info -> "market_info_missing"
    [] c \notin DryRun /\ c \notin Cached -> "cache_missing"
    [] c \notin DryRun /\ ~r.funds -> "margin"
    [] Harmonized(r.size, r.legs[1], r.legs[2]) = 0 -> "amount_rounds_to_zero"
    [] ~r.wired -> "gateway_missing"
    [] OTHER -> ""

Start(c) ==
  /\ pc[c] = "idle"
  /\ calls < MaxCalls
  /\ calls' = calls + 1
  /\ done' = [done EXCEPT ![c] = [sold |-> 0, bought |-> 0, undone |-> 0]]
  /\ misled' = [misled EXCEPT ![c] = FALSE]
  /\ UNCHANGED pos

Begin(c, r, label) ==
  /\ req' = [req EXCEPT ![c] = r]
  /\ Goto(c, label)
  /\ UNCHANGED <<mem, out>>

\* open and accumulate
StartEnter(c) ==
  \E r \in Enters :
    /\ Start(c)
    /\ LET reason == EnterRejection(c, r)
           size == Harmonized(r.size, r.legs[1], r.legs[2])
       IN  \/ reason # "" /\ Return(c, Failed(reason))
           \/ /\ reason = "" /\ c \in DryRun
              /\ Return(c, Outcome("simulated", "", size, size))
           \/ /\ reason = "" /\ c \notin DryRun
              /\ Begin(c, r, "read_before_short")

\* close_partial and close_all
StartExit(c) ==
  \E r \in Exits :
    /\ Start(c)
    /\ \/ /\ r.percent \notin 1 .. 100
          /\ Return(c, Failed("invalid_close_percent"))
       \/ /\ r.percent \in 1 .. 100 /\ ~r.wired
          /\ Return(c, Failed("gateway_missing"))
       \/ /\ r.percent \in 1 .. 100 /\ r.wired
          /\ Begin(c, r, "find_short")

ReadBeforeShort(c) ==
  /\ pc[c] = "read_before_short"
  /\ \E seen \in Seen(Short(c)) :
       /\ Reads(c, Short(c), seen)
       /\ Remember(c, [mem[c] EXCEPT !.before = Abs(seen)], "send_short")

ShortFilled(c) ==
  /\ pc[c] = "send_short"
  /\ \E k \in Lots(Size(c), Short(c), "part_open") :
       /\ Executes(c, Short(c), -k, FALSE)
       /\ done' = [done EXCEPT ![c].sold = k]
       /\ Remember(c, mem[c], "read_after_short")

\* The order raises: the call gives up without looking at the position.
ShortRaises(c) ==
  /\ pc[c] = "send_short"
  /\ \/ "reject" \in Faults /\ Refused
     \/ /\ "lost" \in Faults
        /\ Executes(c, Short(c), -Size(c), TRUE)
        /\ done' = [done EXCEPT ![c].sold = Size(c)]
  /\ Return(c, Failed("short_leg_failed"))

\* Mutants of ReadAfterShort, one with a signed fill, one that takes the whole
\* position for the fill.
SignedFill(c) ==
  /\ pc[c] = "read_after_short"
  /\ \E seen \in Seen(Short(c)) :
       /\ Reads(c, Short(c), seen)
       /\ Remember(c, [mem[c] EXCEPT !.filled = seen - mem[c].before], "read_before_long")

PositionAsFill(c) ==
  /\ pc[c] = "read_after_short"
  /\ \E seen \in Seen(Short(c)) :
       /\ Reads(c, Short(c), seen)
       /\ Remember(c, [mem[c] EXCEPT !.filled = Abs(seen)], "read_before_long")

ReadAfterShort(c) ==
  /\ pc[c] = "read_after_short"
  /\ \E seen \in Seen(Short(c)) :
       /\ Reads(c, Short(c), seen)
       /\ Remember(c, [mem[c] EXCEPT !.filled = Abs(Abs(seen) - mem[c].before)],
                   "read_before_long")

ReadBeforeLong(c) ==
  /\ pc[c] = "read_before_long"
  /\ \E seen \in Seen(Long(c)) :
       /\ Reads(c, Long(c), seen)
       /\ Remember(c, [mem[c] EXCEPT !.beforeLong = Abs(seen)], "send_long")

\* The long order follows the measured short fill, floored to the long step;
\* with no measured fill it keeps the planned amount.
LongAmount(c) ==
  IF mem[c].filled > 0 THEN Floored(mem[c].filled, LotStep[Long(c)]) ELSE Size(c)

LongFilled(c) ==
  /\ pc[c] = "send_long"
  /\ LongAmount(c) > 0
  /\ \E k \in Lots(LongAmount(c), Long(c), "part_open") :
       /\ Executes(c, Long(c), k, FALSE)
       /\ done' = [done EXCEPT ![c].bought = k]
       /\ Remember(c, mem[c], "read_after_long")

\* The order raises (an amount of zero always does) and _rollback_open decides.
LongRaises(c) ==
  /\ pc[c] = "send_long"
  /\ \/ ("reject" \in Faults \/ LongAmount(c) = 0) /\ Refused
     \/ /\ "lost" \in Faults /\ LongAmount(c) > 0
        /\ Executes(c, Long(c), LongAmount(c), TRUE)
        /\ done' = [done EXCEPT ![c].bought = LongAmount(c)]
  /\ IF RollbackEnabled /\ mem[c].filled > 0
     THEN Remember(c, mem[c], "rollback_find")
     ELSE Return(c, Outcome("failed", "unhedged", mem[c].filled, 0))

EnterStatusByReplies(s, l) == IF s = 0 /\ l = 0 THEN "failed" ELSE "success"

EnterStatus(s, l) ==
  IF s = 0 /\ l = 0 THEN "failed"
  ELSE IF s > 0 /\ l > 0 /\ Balanced(s, l) THEN "success" ELSE "partial"

ReadAfterLong(c) ==
  /\ pc[c] = "read_after_long"
  /\ \E seen \in Seen(Long(c)) :
       LET filledLong == Abs(Abs(seen) - mem[c].beforeLong)
       IN  /\ Reads(c, Long(c), seen)
           /\ Return(c, Outcome(EnterStatus(mem[c].filled, filledLong), "",
                                mem[c].filled, filledLong))

\* _close_full_leg: whatever leg the short exchange shows is closed whole.
RollbackFind(c) ==
  /\ pc[c] = "rollback_find"
  /\ \E seen \in Seen(Short(c)) :
       /\ Reads(c, Short(c), seen)
       /\ IF seen = 0 THEN Return(c, Outcome("rolled_back", "compensated", 0, 0))
          ELSE Remember(c, [mem[c] EXCEPT !.shortLeg = seen], "rollback_close")

\* close_market_position: a reduce-only order against leg, for amount tokens.
\* The exchange refuses it when the position no longer has the leg's side and
\* never lets it pass zero.
Closable(e, leg, amount) ==
  IF amount > 0 /\ leg * pos[e] > 0 THEN Smaller(amount, Abs(pos[e])) ELSE 0

Closes(c, e, leg, k, deceived) ==
  Executes(c, e, IF leg < 0 THEN k ELSE -k, deceived)

RollbackAmount(c) == Closable(Short(c), mem[c].shortLeg, Abs(mem[c].shortLeg))

\* The reply does not say how much of the leg was closed.
RollbackClosed(c) ==
  /\ pc[c] = "rollback_close"
  /\ RollbackAmount(c) > 0
  /\ \E k \in Lots(RollbackAmount(c), Short(c), "part_close") :
       /\ Closes(c, Short(c), mem[c].shortLeg, k, k < Abs(mem[c].shortLeg))
       /\ done' = [done EXCEPT ![c].undone = k]
  /\ Return(c, Outcome("rolled_back", "compensated", 0, 0))

\* Mutant: the failed compensation is swallowed.
RollbackSwallows(c) ==
  /\ pc[c] = "rollback_close"
  /\ "reject" \in Faults \/ RollbackAmount(c) = 0
  /\ Refused
  /\ Return(c, Outcome("rolled_back", "compensated", 0, 0))

RollbackRaises(c) ==
  /\ pc[c] = "rollback_close"
  /\ \/ ("reject" \in Faults \/ RollbackAmount(c) = 0) /\ Refused
     \/ /\ "lost" \in Faults /\ RollbackAmount(c) > 0
        /\ Closes(c, Short(c), mem[c].shortLeg, RollbackAmount(c), TRUE)
        /\ done' = [done EXCEPT ![c].undone = RollbackAmount(c)]
  /\ Return(c, Outcome("failed", "unhedged", mem[c].filled, 0))

-----------------------------------------------------------------------------
\* _exit.  The two position reads before FindShort only feed the report.

FindShort(c) ==
  /\ pc[c] = "find_short"
  /\ \E seen \in Seen(Short(c)) :
       /\ Reads(c, Short(c), seen)
       /\ Remember(c, [mem[c] EXCEPT !.shortLeg = seen], "find_long")

\* Mutant: _exit without its dry-run branch.
FindLongLive(c) ==
  /\ pc[c] = "find_long"
  /\ \E seen \in Seen(Long(c)) :
       /\ Reads(c, Long(c), seen)
       /\ IF mem[c].shortLeg = 0 /\ seen = 0 THEN Return(c, Failed("no_position"))
          ELSE Remember(c, [mem[c] EXCEPT !.longLeg = seen], "close_short")

FindLong(c) ==
  /\ pc[c] = "find_long"
  /\ \E seen \in Seen(Long(c)) :
       /\ Reads(c, Long(c), seen)
       /\ \/ /\ mem[c].shortLeg = 0 /\ seen = 0
             /\ Return(c, Failed("no_position"))
          \/ /\ mem[c].shortLeg # 0 \/ seen # 0
             /\ IF c \in DryRun THEN Return(c, Outcome("simulated", "", 0, 0))
                ELSE Remember(c, [mem[c] EXCEPT !.longLeg = seen], "close_short")

\* _close_partial_leg: no leg counts as closed; otherwise the share of the leg
\* truncated to the exchange's step is closed, and a raise is reported.
ClosesLeg(c, e, leg, ok) ==
  LET n == Closable(e, leg, Floored((Abs(leg) * req[c].percent) \div 100, LotStep[e]))
  IN  \/ leg = 0 /\ ok /\ Refused
      \/ /\ leg # 0 /\ ok /\ n > 0
         /\ \E k \in Lots(n, e, "part_close") : Closes(c, e, leg, k, FALSE)
         /\ UNCHANGED done
      \/ leg # 0 /\ ~ok /\ ("reject" \in Faults \/ n = 0) /\ Refused
      \/ /\ leg # 0 /\ ~ok /\ "lost" \in Faults /\ n > 0
         /\ Closes(c, e, leg, n, TRUE)
         /\ UNCHANGED done

CloseShort(c) ==
  /\ pc[c] = "close_short"
  /\ \E ok \in BOOLEAN :
       /\ ClosesLeg(c, Short(c), mem[c].shortLeg, ok)
       /\ Remember(c, [mem[c] EXCEPT !.shortOk = ok], "close_long")

CloseLong(c) ==
  /\ pc[c] = "close_long"
  /\ \E ok \in BOOLEAN :
       /\ ClosesLeg(c, Long(c), mem[c].longLeg, ok)
       /\ Remember(c, [mem[c] EXCEPT !.longOk = ok], "read_short_after")

ReadShortAfter(c) ==
  /\ pc[c] = "read_short_after"
  /\ \E seen \in Seen(Short(c)) :
       /\ Reads(c, Short(c), seen)
       /\ Remember(c, [mem[c] EXCEPT !.shortAfter = Abs(seen)], "read_long_after")

\* Mutants of ExitStatus: the imbalance is not looked at; only it is.
ExitStatusByReplies(shortOk, longOk, s, l) ==
  IF ~shortOk /\ ~longOk THEN "failed"
  ELSE IF shortOk /\ longOk THEN "success" ELSE "partial"

ExitStatusByBalance(shortOk, longOk, s, l) ==
  IF Balanced(s, l) THEN "success" ELSE "partial"

ExitStatus(shortOk, longOk, s, l) ==
  IF ~shortOk /\ ~longOk THEN "failed"
  ELSE IF shortOk /\ longOk /\ Balanced(s, l) THEN "success" ELSE "partial"

ReadLongAfter(c) ==
  /\ pc[c] = "read_long_after"
  /\ \E seen \in Seen(Long(c)) :
       /\ Reads(c, Long(c), seen)
       /\ Return(c, Outcome(ExitStatus(mem[c].shortOk, mem[c].longOk,
                                       mem[c].shortAfter, Abs(seen)), "", 0, 0))

\* An exception from a position read, or the cancellation of the coroutine by
\* stop(), leaves the call wherever it awaits; nothing compensates.
Abort(c) ==
  /\ "abort" \in Faults
  /\ pc[c] # "idle"
  /\ Return(c, Outcome("raised", "", 0, 0))
  /\ UNCHANGED <<pos, calls, done, misled>>

Enter(c) ==
  \/ StartEnter(c) \/ ReadBeforeShort(c) \/ ShortFilled(c) \/ ShortRaises(c)
  \/ ReadAfterShort(c) \/ ReadBeforeLong(c) \/ LongFilled(c) \/ LongRaises(c)
  \/ ReadAfterLong(c) \/ RollbackFind(c) \/ RollbackClosed(c) \/ RollbackRaises(c)

Exit(c) ==
  \/ StartExit(c) \/ FindShort(c) \/ FindLong(c) \/ CloseShort(c) \/ CloseLong(c)
  \/ ReadShortAfter(c) \/ ReadLongAfter(c)

\* The bound on calls is reached and none is running.
Finished ==
  /\ calls = MaxCalls
  /\ \A c \in Callers : pc[c] = "idle"
  /\ UNCHANGED vars

Next ==
  \/ \E c \in Callers : Enter(c) \/ Exit(c) \/ Abort(c)
  \/ Finished

Spec == Init /\ [][Next]_vars

-----------------------------------------------------------------------------
\* Properties.

Locals == [before : Nat, filled : Nat, beforeLong : Nat, shortLeg : Int,
           longLeg : Int, shortOk : BOOLEAN, longOk : BOOLEAN, shortAfter : Nat]
Outcomes == [status : Statuses, reason : Reasons, filledShort : Nat, filledLong : Nat]

ControlTypeOK ==
  /\ pc \in [Callers -> {"idle"} \cup EnterPCs \cup ExitPCs]
  /\ req \in [Callers -> Requests \cup {NoRequest}]
  /\ \A c \in Callers :
       /\ pc[c] \in EnterPCs => req[c] \in Enters
       /\ pc[c] \in ExitPCs => req[c] \in Exits
  /\ mem \in [Callers -> Locals]
  /\ out \in [Callers -> Outcomes]

LedgerTypeOK ==
  /\ pos \in [Exchanges -> Int]
  /\ calls \in 0 .. MaxCalls
  /\ done \in [Callers -> [sold : Nat, bought : Nat, undone : Nat]]
  /\ misled \in [Callers -> BOOLEAN]

TypeOK == ControlTypeOK /\ LedgerTypeOK

\* What a call that was not deceived knows, await by await: its locals agree
\* with the exchange and with the orders it sent.
NothingTraded(c) == done[c].sold = 0 /\ done[c].bought = 0 /\ done[c].undone = 0
ShortMoved(c) == Abs(Abs(pos[Short(c)]) - mem[c].before) = done[c].sold
ShortMeasured(c) ==
  /\ mem[c].filled = done[c].sold
  /\ done[c].undone = 0

LocalsTrue(c) ==
  /\ pc[c] = "read_before_short" => NothingTraded(c)
  /\ pc[c] = "send_short" =>
       NothingTraded(c) /\ mem[c].before = Abs(pos[Short(c)])
  /\ pc[c] = "read_after_short" =>
       ShortMoved(c) /\ done[c].bought = 0 /\ done[c].undone = 0
  /\ pc[c] = "read_before_long" =>
       ShortMoved(c) /\ ShortMeasured(c) /\ done[c].bought = 0
  /\ pc[c] = "send_long" =>
       /\ ShortMoved(c) /\ ShortMeasured(c) /\ done[c].bought = 0
       /\ mem[c].beforeLong = Abs(pos[Long(c)])
  /\ pc[c] = "read_after_long" =>
       /\ ShortMeasured(c)
       /\ Abs(Abs(pos[Long(c)]) - mem[c].beforeLong) = done[c].bought
  /\ pc[c] = "rollback_find" =>
       ShortMoved(c) /\ ShortMeasured(c) /\ done[c].bought = 0
  /\ pc[c] = "rollback_close" =>
       /\ ShortMoved(c) /\ ShortMeasured(c) /\ done[c].bought = 0
       /\ mem[c].shortLeg = pos[Short(c)]
  /\ pc[c] = "find_long" => mem[c].shortLeg = pos[Short(c)]
  /\ pc[c] = "close_short" =>
       mem[c].shortLeg = pos[Short(c)] /\ mem[c].longLeg = pos[Long(c)]
  /\ pc[c] = "close_long" => mem[c].longLeg = pos[Long(c)]
  /\ pc[c] = "read_long_after" => mem[c].shortAfter = Abs(pos[Short(c)])

\* A call whose legs nobody else traded, whose reads and replies arrived and
\* whose orders did not turn a position around has a true picture of its legs.
HonestCallsKnowTheirLegs ==
  \A c \in Callers : misled[c] \/ LocalsTrue(c)

Returns(c, pcs) == pc[c] \in pcs /\ pc'[c] = "idle"
Honest(c) == ~misled'[c]

\* "fills come from exchange positions, never from intent" (FR-012): the fills
\* an entering call reports are what its own orders executed.  The call infers
\* them from position reads taken around each order; the orders of other calls,
\* failed reads and lost replies are the only things that can falsify them.
FillsAreActual ==
  [][\A c \in Callers :
       Returns(c, EnterPCs) /\ Honest(c) /\ out'[c].status \in {"success", "partial"}
         => /\ out'[c].filledShort = done'[c].sold
            /\ out'[c].filledLong = done'[c].bought]_vars

\* "no unhedged exposure remains" (FR-013): an entering call that found its
\* short leg flat leaves two balanced legs, or says partial or unhedged, or
\* raises.  It may not answer success, failed or rolled_back over a naked leg.
NoSilentExposure ==
  [][\A c \in Callers :
       Returns(c, EnterPCs) /\ Honest(c) /\ mem[c].before = 0
         => \/ Balanced(done'[c].sold - done'[c].undone, done'[c].bought)
            \/ out'[c].status \in {"partial", "raised"}
            \/ out'[c].reason = "unhedged"]_vars

\* A close that answers success leaves two legs within tolerance of each other
\* at that moment, whichever orders were refused or filled in part.
ExitSuccessIsBalanced ==
  [][\A c \in Callers :
       Returns(c, ExitPCs) /\ Honest(c) /\ out'[c].status = "success"
         => Balanced(Abs(pos'[Short(c)]), Abs(pos'[Long(c)]))]_vars

\* close_all that answers success has left nothing on either exchange: the
\* callers forget the pair on that answer.  Needs closing orders that fill.
CloseAllFlattens ==
  [][\A c \in Callers :
       Returns(c, ExitPCs) /\ Honest(c) /\ out'[c].status = "success"
         /\ req[c].percent = 100 /\ "part_close" \notin Faults
         => pos'[Short(c)] = 0 /\ pos'[Long(c)] = 0]_vars

\* On two futures legs a dry-run service reads positions but no step of it moves
\* one, whatever the live callers beside it do.  Its exits of a spot hedge do trade:
\* SpotClaims.
SimulationPlacesNoOrder ==
  [][\A c \in DryRun : pc'[c] # pc[c] => UNCHANGED pos]_vars

=============================================================================
