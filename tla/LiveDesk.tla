------------------------------ MODULE LiveDesk ------------------------------
(***************************************************************************)
(* The live actors around the executor, on the positions they share:       *)
(*   traders     the live auto trader's calls, whenever it decides         *)
(*   guards      LiveLiquidationGuardService: closes endangered pairs      *)
(*               through the executor, single legs by an order of its own  *)
(*   protectors  LiveFundingProtectionService: closes costly pairs         *)
(*   monitors    OrphanedPositionMonitor: reports single legs              *)
(*                                                                         *)
(* The last three tick on their own: they read the positions exchange by   *)
(* exchange, one await each, and then act on what they read.  Nothing      *)
(* serialises them with the others.  One symbol; a leg is in danger, or a  *)
(* pair costly, when the actor's arithmetic says so (either way).          *)
(***************************************************************************)
EXTENDS HedgedExecution, FiniteSets, Sequences, Functions

CONSTANTS
  Traders, Guards, Protectors,   \* callers of the executor
  Monitors,
  Wired,      \* the gateways in the order of their dictionary
  MaxAwake    \* bound: scans under way at once

Watchers == Guards \cup Protectors \cup Monitors

ASSUME DeskAssumption ==
  /\ Callers = Traders \cup Guards \cup Protectors
  /\ Traders \cap Watchers = {} /\ Monitors \cap Callers = {}
  /\ Wired \in Seq(Exchanges) /\ MaxAwake \in Nat
  /\ \A e \in Exchanges : \E i \in 1 .. Len(Wired) : Wired[i] = e
  /\ \A i, j \in 1 .. Len(Wired) : Wired[i] = Wired[j] => i = j
  /\ 100 \in Percents

VARIABLES
  tick,     \* tick[w]: where the loop of watcher w stands
  scan,     \* scan[w]: the positions it has read, in the order of Wired
  solo,     \* solo_to_close of a guard: the entries left to close, in their order
  danger,   \* the price is near a liquidation price
  alarm,    \* alarm[m]: what m's last finished check reported
  overtaken,\* history: watchers whose scan a failed read or another's order belies
  candid    \* history: every call told the truth and none acted on an old scan

watching == <<tick, scan, solo, danger, alarm>>
deskVars == <<vars, watching, overtaken, candid>>

\* The desk comes up with nothing, or with the hedge an earlier run opened.
Hedge(short, long, n) ==
  [e \in Exchanges |-> IF e = short THEN -n ELSE IF e = long THEN n ELSE 0]

Hedges == {[e \in Exchanges |-> 0]} \cup
  {Hedge(p[1], p[2], Harmonized(n, p[1], p[2])) : p \in Legs, n \in Sizes}

DeskInit ==
  /\ pos \in Hedges
  /\ pc = [c \in Callers |-> "idle"]
  /\ req = [c \in Callers |-> NoRequest]
  /\ mem = [c \in Callers |-> Clear]
  /\ out = [c \in Callers |-> Outcome("none", "", 0, 0)]
  /\ calls = 0
  /\ done = [c \in Callers |-> [sold |-> 0, bought |-> 0, undone |-> 0]]
  /\ misled = [c \in Callers |-> FALSE]
  /\ tick = [w \in Watchers |-> "asleep"]
  /\ scan = [w \in Watchers |-> <<>>]
  /\ solo = [g \in Guards |-> {}]
  /\ danger = FALSE
  /\ alarm = [m \in Monitors |-> "none"]
  /\ overtaken = {}
  /\ candid = TRUE

-----------------------------------------------------------------------------
\* A tick: _async_main sleeps, _tick and _check_orphans read.

Resting(w) == tick[w] = "asleep"

Wakes(w) ==
  /\ Resting(w)
  /\ Cardinality({v \in Watchers : ~Resting(v)}) < MaxAwake
  /\ tick' = [tick EXCEPT ![w] = "reading"]
  /\ UNCHANGED <<vars, scan, solo, danger, alarm>>

NextWired(w) == Wired[Len(scan[w]) + 1]

ReadsNext(w) ==
  /\ tick[w] = "reading" /\ Len(scan[w]) < Len(Wired)
  /\ \E seen \in Seen(NextWired(w)) : scan' = [scan EXCEPT ![w] = Append(@, seen)]
  /\ UNCHANGED <<vars, tick, solo, danger, alarm>>

HasRead(w) == tick[w] = "reading" /\ Len(scan[w]) = Len(Wired)

\* The entries of positions_by_symbol, as indices into Wired.
Entries(w) == {i \in 1 .. Len(Wired) : scan[w][i] # 0}
ShortEntries(w) == {i \in Entries(w) : scan[w][i] < 0}
LongEntries(w) == {i \in Entries(w) : scan[w][i] > 0}
First(entries) == CHOOSE i \in entries : \A j \in entries : i <= j
IsPair(w) == ShortEntries(w) # {} /\ LongEntries(w) # {}

Sleeps(w) ==
  /\ tick' = [tick EXCEPT ![w] = "asleep"]
  /\ scan' = [scan EXCEPT ![w] = <<>>]

\* Nothing found, no leg in danger, funding not due or cheaper than the fees.
NothingToDo(w) ==
  /\ w \in Callers /\ HasRead(w)
  /\ w \in Guards => ~danger \/ Entries(w) = {}
  /\ Sleeps(w)
  /\ UNCHANGED <<vars, solo, danger, alarm>>

\* close_all of the first short and the first long entry.  Both the guard and
\* the protection log the answer and forget it.
PullsPair(w) ==
  /\ w \in Callers /\ HasRead(w) /\ IsPair(w)
  /\ w \in Guards => danger
  /\ Begin(w, [kind |-> "exit", percent |-> 100, wired |-> TRUE,
               legs |-> <<Wired[First(ShortEntries(w))], Wired[First(LongEntries(w))]>>],
           "find_short")
  /\ done' = [done EXCEPT ![w] = [sold |-> 0, bought |-> 0, undone |-> 0]]
  /\ misled' = [misled EXCEPT ![w] = FALSE]
  /\ tick' = [tick EXCEPT ![w] = "pulling"]
  /\ scan' = [scan EXCEPT ![w] = <<>>]
  /\ UNCHANGED <<pos, calls, solo, danger, alarm>>

\* The answer of the executor has been dealt with.
Forgets(c) ==
  /\ pc[c] = "idle" /\ out[c].status # "none"
  /\ out' = [out EXCEPT ![c] = Outcome("none", "", 0, 0)]
  /\ misled' = [misled EXCEPT ![c] = FALSE]
  /\ done' = [done EXCEPT ![c] = [sold |-> 0, bought |-> 0, undone |-> 0]]
  /\ UNCHANGED <<pos, pc, req, mem, calls>>

\* A watcher logs it.
Logs(w) ==
  /\ tick[w] = "pulling"
  /\ Forgets(w)
  /\ Sleeps(w)
  /\ UNCHANGED <<solo, danger, alarm>>

\* Mutant: endangered legs are closed one by one even when they hedge.
FindsLegs(g) ==
  /\ g \in Guards /\ HasRead(g) /\ danger
  /\ \E endangered \in (SUBSET Entries(g)) \ {{}} :
       solo' = [solo EXCEPT ![g] = endangered]
  /\ tick' = [tick EXCEPT ![g] = "solo"]
  /\ UNCHANGED <<vars, scan, danger, alarm>>

\* Mutant: a leg without a hedge is not the guard's business.
FindsOnlyPairs(g) ==
  /\ g \in Guards /\ HasRead(g) /\ ~IsPair(g) /\ danger
  /\ Sleeps(g)
  /\ UNCHANGED <<vars, solo, danger, alarm>>

\* Legs on one side only: those in danger are closed one by one.
FindsSolo(g) ==
  /\ g \in Guards /\ HasRead(g) /\ ~IsPair(g) /\ danger
  /\ \E endangered \in (SUBSET Entries(g)) \ {{}} :
       solo' = [solo EXCEPT ![g] = endangered]
  /\ tick' = [tick EXCEPT ![g] = "solo"]
  /\ UNCHANGED <<vars, scan, danger, alarm>>

SoloLeg(g) == scan[g][First(solo[g])]
SoloExchange(g) == Wired[First(solo[g])]

\* Mutant: after the first order the rest is forgotten.
SoloDoneAtOnce(g) ==
  /\ Sleeps(g)
  /\ UNCHANGED solo

SoloDone(g) ==
  /\ solo' = [solo EXCEPT ![g] = @ \ {First(@)}]
  /\ IF solo'[g] = {} THEN Sleeps(g) ELSE UNCHANGED <<tick, scan>>

\* Mutant: an order without reduceOnly, for the size that was read.
SoloOpensAnew(g) ==
  /\ tick[g] = "solo"
  /\ Closes(g, SoloExchange(g), SoloLeg(g), Abs(SoloLeg(g)), FALSE)
  /\ SoloDone(g)
  /\ UNCHANGED <<pc, req, mem, out, done, danger, alarm>>

\* close_market_position of the leg that was read.
SoloCloses(g) ==
  /\ tick[g] = "solo"
  /\ LET n == Closable(SoloExchange(g), SoloLeg(g), Abs(SoloLeg(g)))
     IN  \/ n > 0 /\ Closes(g, SoloExchange(g), SoloLeg(g), n, FALSE)
         \/ ("reject" \in Faults \/ n = 0) /\ UNCHANGED <<pos, calls, misled>>
  /\ SoloDone(g)
  /\ UNCHANGED <<pc, req, mem, out, done, danger, alarm>>

\* Mutant: an exchange with nothing counts as an entry.
ReportsPairsOnly(m) ==
  /\ m \in Monitors /\ HasRead(m)
  /\ alarm' = [alarm EXCEPT ![m] = IF Len(scan[m]) = 1 THEN "orphan" ELSE "none"]
  /\ Sleeps(m)
  /\ UNCHANGED <<vars, solo, danger>>

\* Mutant: legs are reported exchange by exchange.
ReportsAnyLeg(m) ==
  /\ m \in Monitors /\ HasRead(m)
  /\ alarm' = [alarm EXCEPT ![m] = IF Entries(m) # {} THEN "orphan" ELSE "none"]
  /\ Sleeps(m)
  /\ UNCHANGED <<vars, solo, danger>>

\* _check_orphans: one leg across all the exchanges.
Reports(m) ==
  /\ m \in Monitors /\ HasRead(m)
  /\ alarm' = [alarm EXCEPT ![m] = IF Cardinality(Entries(m)) = 1 THEN "orphan" ELSE "none"]
  /\ Sleeps(m)
  /\ UNCHANGED <<vars, solo, danger>>

Watch(w) ==
  \/ Wakes(w) \/ ReadsNext(w) \/ NothingToDo(w) \/ PullsPair(w) \/ Logs(w)
  \/ FindsSolo(w) \/ (w \in Guards /\ SoloCloses(w)) \/ Reports(w)

-----------------------------------------------------------------------------
PriceMoves == danger' = ~danger /\ UNCHANGED <<vars, tick, scan, solo, alarm>>

Trades(c) == (Enter(c) \/ Exit(c) \/ Abort(c) \/ Forgets(c)) /\ UNCHANGED watching

\* A call of a guard goes on inside the executor.
Pulls(c) ==
  /\ FindShort(c) \/ FindLong(c) \/ CloseShort(c) \/ CloseLong(c)
     \/ ReadShortAfter(c) \/ ReadLongAfter(c) \/ Abort(c)
  /\ UNCHANGED watching

\* History.
Overtakes ==
  overtaken' = {w \in Watchers : tick'[w] \in {"reading", "solo"} /\
    (\/ w \in overtaken
     \/ pos' # pos /\ tick[w] # "asleep" /\ (w \in Guards => solo'[w] = solo[w])
     \/ \E i \in 1 .. Len(scan'[w]) : Len(scan[w]) < i /\ scan'[w][i] # pos[Wired[i]])}

\* A call that answers anything but success, or a failure before its orders.
Admits(c) ==
  /\ pc[c] # "idle" /\ pc'[c] = "idle"
  /\ \/ misled'[c]
     \/ out'[c].status \notin {"success", "failed"}
     \/ pos[Short(c)] # -pos[Long(c)] /\ out'[c].status = "failed"

ActsOnOldScan(g) == tick[g] = "solo" /\ pos' # pos /\ g \in overtaken

KeepCandid ==
  candid' = /\ candid
            /\ ~\E c \in Callers : Admits(c)
            /\ ~\E g \in Guards : ActsOnOldScan(g)

DeskNext ==
  /\ \/ \E w \in Watchers : Watch(w)
     \/ \E c \in Traders : Trades(c)
     \/ \E c \in Guards \cup Protectors : Pulls(c)
     \/ PriceMoves
  /\ Overtakes /\ KeepCandid

\* The loops of the watchers never stop by themselves and their awaits return.
\* A watcher kept asleep by the bound MaxAwake gets its turn.
DeskFairness ==
  /\ \A w \in Watchers : /\ WF_deskVars(Watch(w) /\ Overtakes /\ KeepCandid)
                         /\ SF_deskVars(Wakes(w) /\ Overtakes /\ KeepCandid)
  /\ \A c \in Guards \cup Protectors : WF_deskVars(Pulls(c) /\ Overtakes /\ KeepCandid)

DeskSpec == DeskInit /\ [][DeskNext]_deskVars /\ DeskFairness

-----------------------------------------------------------------------------
\* Properties.

Held == {e \in Exchanges : pos[e] # 0}
Net == FoldFunction(LAMBDA p, n : p + n, 0, pos)

DeskTypeOK ==
  /\ TypeOK
  /\ tick \in [Watchers -> {"asleep", "reading", "pulling", "solo"}]
  /\ scan \in [Watchers -> Seq(Int)]
  /\ \A w \in Watchers : Len(scan[w]) <= Len(Wired)
  /\ solo \in [Guards -> SUBSET (1 .. Len(Wired))]
  /\ \A g \in Guards : tick[g] = "solo" <=> solo[g] # {}
  /\ danger \in BOOLEAN /\ candid \in BOOLEAN
  /\ alarm \in [Monitors -> {"none", "orphan"}]
  /\ overtaken \subseteq Watchers

\* Whatever the guard and the protection act on, a scan other actors have
\* overtaken included, no order of theirs opens, enlarges or turns a position:
\* they may lose a hedge, they never add exposure of their own making.
GuardsOnlyReduce ==
  [][\A w \in Guards \cup Protectors :
       tick'[w] # tick[w] \/ pc'[w] # pc[w] \/ (w \in Guards /\ solo'[w] # solo[w])
         => \A e \in Exchanges :
              pos'[e] \in (IF pos[e] < 0 THEN pos[e] .. 0 ELSE 0 .. pos[e])]_deskVars

\* A desk at rest is hedged, unless a call admitted it was not able to or was
\* deceived, or the guard closed a leg on a scan that no longer held: between
\* the traders, the guard and the protection there is no other way to a naked
\* leg, in whatever order their awaits fall.
QuietDeskIsHedged ==
  candid /\ (\A c \in Callers : pc[c] = "idle") => Net = 0

\* The monitor cries orphan when, and only when, one leg stands alone, if its
\* reads arrived and nobody traded while it read.
AlarmsAreTrue ==
  [][\A m \in Monitors :
       tick[m] = "reading" /\ tick'[m] = "asleep" /\ m \notin overtaken
         => (alarm'[m] = "orphan" <=> Cardinality(Held) = 1)]_deskVars

Misreads ==
  \E w \in Watchers : Len(scan'[w]) > Len(scan[w])
                      /\ scan'[w][Len(scan'[w])] # pos[NextWired(w)]

\* A leg left alone for good is reported by a monitor, once its reads arrive.
ReportsOrphans(m) ==
  <>[](Cardinality(Held) = 1) /\ <>[][~Misreads]_deskVars => <>(alarm[m] = "orphan")

\* A read that fails or an order that is refused on behalf of a guard.
Hitch ==
  \/ Misreads
  \/ \E g \in Guards : solo'[g] # solo[g] /\ tick[g] = "solo" /\ pos' = pos
  \/ \E c \in Guards \cup Protectors :
       \/ pc[c] = "find_short" /\ mem'[c].shortLeg # pos[Short(c)]
       \/ pc[c] = "find_long" /\ pc'[c] = "close_short" /\ mem'[c].longLeg # pos[Long(c)]
       \/ pc[c] = "find_long" /\ pc'[c] = "idle" /\ pos[Long(c)] # 0
       \/ pc[c] = "close_short" /\ pc'[c] = "close_long" /\ ~mem'[c].shortOk
       \/ pc[c] = "close_long" /\ pc'[c] = "read_short_after" /\ ~mem'[c].longOk

\* When the danger stays and the traders leave the symbol alone, the guard
\* takes the desk to nothing, pair by pair and leg by leg, once its reads
\* arrive and its orders are taken.
FlattensEndangered ==
  /\ <>[](danger /\ \A c \in Traders : pc[c] = "idle")
  /\ <>[][~Hitch]_deskVars
  => <>(Held = {})
=============================================================================
