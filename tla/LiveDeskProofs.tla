--------------------------- MODULE LiveDeskProofs ---------------------------
(***************************************************************************)
(* Proofs about LiveDesk, for any number of traders, guards, protectors    *)
(* and monitors, any exchanges and every combination of faults.            *)
(***************************************************************************)
EXTENDS LiveDesk, HedgedExecutionProofs, FiniteSetTheorems, SequenceTheorems

-----------------------------------------------------------------------------
\* The wired exchanges and the entries of a scan.

LEMMA WiredType ==
  /\ Len(Wired) \in Nat
  /\ \A i \in 1 .. Len(Wired) : Wired[i] \in Exchanges
BY DeskAssumption

LEMMA FirstIsLeast ==
  ASSUME NEW S \in SUBSET (1 .. Len(Wired)), S # {}
  PROVE  First(S) \in S
<1>1. S \in SUBSET Nat
  BY WiredType
<1>2. PICK k \in S : \A j \in S : k <= j
  BY <1>1, LeastNatural
<1>3. QED
  BY <1>2 DEF First

\* A scan longer by one entry.
LEMMA OneMore ==
  ASSUME NEW s \in Seq(Int), NEW x \in Int
  PROVE  /\ Append(s, x) \in Seq(Int)
         /\ Len(Append(s, x)) = Len(s) + 1
         /\ \A i \in 1 .. Len(s) : Append(s, x)[i] = s[i]
         /\ Append(s, x)[Len(s) + 1] = x
BY AppendProperties

-----------------------------------------------------------------------------
\* Types.

\* DeskTypeOK without the executor's part; a guard closes the legs of a scan
\* that is whole, and the monitors call nobody.
WatchTypeOK ==
  /\ tick \in [Watchers -> {"asleep", "reading", "pulling", "solo"}]
  /\ scan \in [Watchers -> Seq(Int)]
  /\ \A w \in Watchers : Len(scan[w]) <= Len(Wired)
  /\ solo \in [Guards -> SUBSET (1 .. Len(Wired))]
  /\ \A g \in Guards : tick[g] = "solo" <=> solo[g] # {}
  /\ \A g \in Guards : tick[g] = "solo" => Len(scan[g]) = Len(Wired)
  /\ \A m \in Monitors : tick[m] # "pulling"
  /\ alarm \in [Monitors -> {"none", "orphan"}]

LEMMA DeskInitTypes == DeskInit => TypeOK /\ WatchTypeOK
<1> SUFFICES ASSUME DeskInit PROVE TypeOK /\ WatchTypeOK
  OBVIOUS
<1>1. ControlTypeOK
  <2>1. Clear \in Locals
    BY DEF Clear, Locals
  <2>2. Outcome("none", "", 0, 0) \in Outcomes
    BY OutcomeType DEF Statuses, Reasons
  <2>3. QED
    BY <2>1, <2>2 DEF DeskInit, ControlTypeOK, EnterPCs, ExitPCs
<1>2. pos \in [Exchanges -> Int]
  <2>1. pos \in Hedges
    BY DEF DeskInit
  <2>2. ASSUME NEW p \in Legs, NEW n \in Sizes
        PROVE  Hedge(p[1], p[2], Harmonized(n, p[1], p[2])) \in [Exchanges -> Int]
    <3>1. p[1] \in Exchanges /\ p[2] \in Exchanges
      BY DEF Legs
    <3>2. Harmonized(n, p[1], p[2]) \in Nat
      BY <3>1, RequestAssumption, HarmonizedType
    <3>3. QED
      BY <3>2 DEF Hedge
  <2>3. QED
    BY <2>1, <2>2 DEF Hedges
<1>3. calls \in 0 .. MaxCalls
  <2>1. calls = 0
    BY DEF DeskInit
  <2>2. QED
    BY <2>1, BoundsAssumption
<1>4. done \in [Callers -> [sold : Nat, bought : Nat, undone : Nat]]
  BY DEF DeskInit
<1>5. misled \in [Callers -> BOOLEAN]
  <2>1. misled = [c \in Callers |-> FALSE]
    BY DEF DeskInit
  <2>2. QED
    BY <2>1
<1>6. WatchTypeOK
  <2>1. /\ tick \in [Watchers -> {"asleep", "reading", "pulling", "solo"}]
        /\ alarm \in [Monitors -> {"none", "orphan"}]
    BY DEF DeskInit
  <2>2. scan \in [Watchers -> Seq(Int)] /\ \A w \in Watchers : Len(scan[w]) <= Len(Wired)
    <3>1. <<>> \in Seq(Int) /\ Len(<<>>) = 0
      BY EmptySeq
    <3>2. scan = [w \in Watchers |-> <<>>]
      BY DEF DeskInit
    <3>3. QED
      BY <3>1, <3>2, WiredType
  <2>3. /\ solo \in [Guards -> SUBSET (1 .. Len(Wired))]
        /\ \A g \in Guards : tick[g] = "solo" <=> solo[g] # {}
        /\ \A g \in Guards : tick[g] # "solo"
        /\ \A m \in Monitors : tick[m] # "pulling"
    BY DEF DeskInit, Watchers
  <2>4. QED
    BY <2>1, <2>2, <2>3 DEF WatchTypeOK
<1>7. QED
  BY <1>1, <1>2, <1>3, <1>4, <1>5, <1>6 DEF TypeOK, LedgerTypeOK

LEMMA ForgetsTypes ==
  ASSUME TypeOK, NEW c \in Callers, Forgets(c)
  PROVE  TypeOK'
<1>1. Outcome("none", "", 0, 0) \in Outcomes
  BY OutcomeType DEF Statuses, Reasons
<1>2. ControlTypeOK'
  BY <1>1 DEF Forgets, TypeOK, ControlTypeOK
<1>3. misled' \in [Callers -> BOOLEAN]
  BY DEF Forgets, TypeOK, LedgerTypeOK
<1>4. done' \in [Callers -> [sold : Nat, bought : Nat, undone : Nat]]
  BY DEF Forgets, TypeOK, LedgerTypeOK
<1>5. QED
  BY <1>2, <1>3, <1>4 DEF Forgets, TypeOK, LedgerTypeOK

\* What a scan finds on one side is an entry of that side.
LEMMA SideType ==
  ASSUME WatchTypeOK, NEW w \in Watchers, IsPair(w)
  PROVE  /\ First(ShortEntries(w)) \in ShortEntries(w)
         /\ First(LongEntries(w)) \in LongEntries(w)
<1>1. /\ ShortEntries(w) \in SUBSET (1 .. Len(Wired))
      /\ LongEntries(w) \in SUBSET (1 .. Len(Wired))
  BY DEF ShortEntries, LongEntries, Entries
<1>2. QED
  BY <1>1, FirstIsLeast DEF IsPair

LEMMA PullsPairTypes ==
  ASSUME TypeOK, WatchTypeOK, NEW w \in Watchers, PullsPair(w)
  PROVE  TypeOK' /\ w \in Callers
<1> DEFINE s == First(ShortEntries(w))
           l == First(LongEntries(w))
           r == [kind |-> "exit", percent |-> 100, wired |-> TRUE,
                 legs |-> <<Wired[s], Wired[l]>>]
<1>1. w \in Callers /\ IsPair(w) /\ Begin(w, r, "find_short") /\ UNCHANGED <<pos, calls>>
  BY DEF PullsPair
<1>2. s \in 1 .. Len(Wired) /\ l \in 1 .. Len(Wired) /\ s # l
  <2>1. s \in ShortEntries(w) /\ l \in LongEntries(w)
    BY <1>1, SideType
  <2>2. s \in 1 .. Len(Wired) /\ l \in 1 .. Len(Wired) /\ scan[w][s] < 0 /\ scan[w][l] > 0
    BY <2>1 DEF ShortEntries, LongEntries, Entries
  <2>3. scan[w] \in Seq(Int) /\ Len(scan[w]) = Len(Wired)
    BY DEF PullsPair, HasRead, WatchTypeOK
  <2>4. scan[w][s] \in Int
    BY <2>2, <2>3, ElementOfSeq
  <2>5. QED
    BY <2>2, <2>4
<1>3. <<Wired[s], Wired[l]>> \in Legs
  BY <1>2, WiredType, DeskAssumption DEF Legs
<1>4. r \in Exits
  BY <1>3, DeskAssumption DEF Exits
<1>5. ControlTypeOK'
  <2>1. pc' = [pc EXCEPT ![w] = "find_short"] /\ req' = [req EXCEPT ![w] = r]
        /\ mem' = mem /\ out' = out
    BY <1>1 DEF Begin, Goto
  <2>2. pc' \in [Callers -> {"idle"} \cup EnterPCs \cup ExitPCs]
    BY <1>1, <2>1 DEF TypeOK, ControlTypeOK, ExitPCs
  <2>3. req' \in [Callers -> Requests \cup {NoRequest}]
    BY <1>1, <1>4, <2>1 DEF TypeOK, ControlTypeOK, Requests
  <2>4. ASSUME NEW c \in Callers
        PROVE  /\ pc'[c] \in EnterPCs => req'[c] \in Enters
               /\ pc'[c] \in ExitPCs => req'[c] \in Exits
    <3>1. CASE c = w
      <4>1. pc'[c] = "find_short" /\ req'[c] = r
        BY <3>1, <1>1, <2>1 DEF TypeOK, ControlTypeOK
      <4>2. QED
        BY <1>4, <4>1 DEF EnterPCs, ExitPCs
    <3>2. CASE c # w
      BY <3>2, <2>1 DEF TypeOK, ControlTypeOK
    <3>3. QED
      BY <3>1, <3>2
  <2>5. QED
    BY <2>1, <2>2, <2>3, <2>4 DEF TypeOK, ControlTypeOK
<1>6. done' \in [Callers -> [sold : Nat, bought : Nat, undone : Nat]]
  BY DEF PullsPair, TypeOK, LedgerTypeOK
<1>7. misled' \in [Callers -> BOOLEAN]
  BY DEF PullsPair, TypeOK, LedgerTypeOK
<1>8. QED
  BY <1>1, <1>5, <1>6, <1>7 DEF TypeOK, LedgerTypeOK

LEMMA SleepsTypes ==
  ASSUME WatchTypeOK, NEW w \in Watchers, Sleeps(w)
  PROVE  /\ tick' \in [Watchers -> {"asleep", "reading", "pulling", "solo"}]
         /\ scan' \in [Watchers -> Seq(Int)]
         /\ \A v \in Watchers : Len(scan'[v]) <= Len(Wired)
         /\ \A v \in Watchers : tick'[v] = IF v = w THEN "asleep" ELSE tick[v]
         /\ \A v \in Watchers : v # w => scan'[v] = scan[v]
<1>1. <<>> \in Seq(Int) /\ Len(<<>>) = 0
  BY EmptySeq
<1>2. tick' = [tick EXCEPT ![w] = "asleep"] /\ scan' = [scan EXCEPT ![w] = <<>>]
  BY DEF Sleeps
<1>3. ASSUME NEW v \in Watchers PROVE Len(scan'[v]) <= Len(Wired)
  <2>1. CASE v = w
    BY <2>1, <1>1, <1>2, WiredType DEF WatchTypeOK
  <2>2. CASE v # w
    BY <2>2, <1>2 DEF WatchTypeOK
  <2>3. QED
    BY <2>1, <2>2
<1>4. QED
  BY <1>1, <1>2, <1>3 DEF WatchTypeOK

\* A watcher that has nothing left to close goes to sleep.
LEMMA DozesTypes ==
  ASSUME WatchTypeOK, NEW w \in Watchers, Sleeps(w),
         solo' \in [Guards -> SUBSET (1 .. Len(Wired))],
         \A g \in Guards : IF g = w THEN solo'[g] = {} ELSE solo'[g] = solo[g],
         alarm' \in [Monitors -> {"none", "orphan"}]
  PROVE  WatchTypeOK'
<1>1. ASSUME NEW g \in Guards
      PROVE  /\ tick'[g] = "solo" <=> solo'[g] # {}
             /\ tick'[g] = "solo" => Len(scan'[g]) = Len(Wired)
  <2>1. g \in Watchers
    BY DEF Watchers
  <2>2. CASE g = w
    <3>1. tick'[g] = "asleep" /\ solo'[g] = {}
      BY <2>1, <2>2, SleepsTypes
    <3>2. QED
      BY <3>1
  <2>3. CASE g # w
    <3>1. tick'[g] = tick[g] /\ solo'[g] = solo[g] /\ scan'[g] = scan[g]
      BY <2>1, <2>3, SleepsTypes
    <3>2. QED
      BY <3>1 DEF WatchTypeOK
  <2>4. QED
    BY <2>2, <2>3
<1>2. \A m \in Monitors : tick'[m] # "pulling"
  BY SleepsTypes DEF WatchTypeOK, Watchers
<1>3. QED
  BY <1>1, <1>2, SleepsTypes DEF WatchTypeOK

\* The leg a guard is about to close by itself.
LEMMA SoloLegType ==
  ASSUME WatchTypeOK, NEW g \in Guards, SoloCloses(g)
  PROVE  /\ First(solo[g]) \in solo[g]
         /\ SoloExchange(g) \in Exchanges
         /\ SoloLeg(g) \in Int
<1>1. solo[g] \in SUBSET (1 .. Len(Wired)) /\ solo[g] # {}
  BY DEF WatchTypeOK, SoloCloses
<1>2. First(solo[g]) \in solo[g]
  BY <1>1, FirstIsLeast
<1>3. scan[g] \in Seq(Int) /\ Len(scan[g]) = Len(Wired)
  BY DEF WatchTypeOK, SoloCloses, Watchers
<1>4. SoloLeg(g) \in Int
  BY <1>1, <1>2, <1>3, ElementOfSeq DEF SoloLeg
<1>5. QED
  BY <1>1, <1>2, <1>4, WiredType DEF SoloExchange

\* Every step of a watcher's loop keeps its types.
LEMMA WatchTypes ==
  ASSUME WatchTypeOK, NEW w \in Watchers, Watch(w),
         \A e \in Exchanges : \A seen \in Seen(e) : seen \in Int
  PROVE  WatchTypeOK'
<1>1. CASE Wakes(w)
  BY <1>1 DEF Wakes, Resting, WatchTypeOK, Watchers
<1>2. CASE ReadsNext(w)
  <2>1. PICK seen \in Seen(NextWired(w)) : scan' = [scan EXCEPT ![w] = Append(@, seen)]
    BY <1>2 DEF ReadsNext
  <2>2. scan[w] \in Seq(Int) /\ Len(scan[w]) \in Nat /\ Len(scan[w]) < Len(Wired)
    <3>1. scan[w] \in Seq(Int)
      BY DEF WatchTypeOK
    <3>2. QED
      BY <3>1, <1>2, LenProperties DEF ReadsNext
  <2>3. NextWired(w) \in Exchanges
    BY <2>2, WiredType DEF NextWired
  <2>4. seen \in Int
    BY <2>1, <2>3
  <2>5. Append(scan[w], seen) \in Seq(Int) /\ Len(Append(scan[w], seen)) = Len(scan[w]) + 1
    BY <2>2, <2>4, OneMore
  <2>6. scan' \in [Watchers -> Seq(Int)]
    BY <2>1, <2>5 DEF WatchTypeOK
  <2>7. ASSUME NEW v \in Watchers PROVE Len(scan'[v]) <= Len(Wired)
    <3>1. CASE v = w
      BY <3>1, <2>1, <2>2, <2>5, WiredType DEF WatchTypeOK
    <3>2. CASE v # w
      BY <3>2, <2>1 DEF WatchTypeOK
    <3>3. QED
      BY <3>1, <3>2
  <2>8. QED
    BY <1>2, <2>6, <2>7 DEF ReadsNext, WatchTypeOK
<1>3. CASE NothingToDo(w)
  <2>1. Sleeps(w) /\ tick[w] # "solo" /\ UNCHANGED <<solo, alarm>>
    BY <1>3 DEF NothingToDo, HasRead
  <2>2. QED
    BY <2>1, DozesTypes DEF WatchTypeOK
<1>4. CASE PullsPair(w)
  <2>1. <<>> \in Seq(Int) /\ Len(<<>>) = 0
    BY EmptySeq
  <2>2. /\ tick' = [tick EXCEPT ![w] = "pulling"] /\ scan' = [scan EXCEPT ![w] = <<>>]
        /\ tick[w] = "reading" /\ UNCHANGED <<solo, alarm>>
    BY <1>4 DEF PullsPair, HasRead
  <2>3. ASSUME NEW v \in Watchers PROVE Len(scan'[v]) <= Len(Wired)
    <3>1. CASE v = w
      BY <3>1, <2>1, <2>2, WiredType DEF WatchTypeOK
    <3>2. CASE v # w
      BY <3>2, <2>2 DEF WatchTypeOK
    <3>3. QED
      BY <3>1, <3>2
  <2>4. w \notin Monitors
    BY <1>4, DeskAssumption DEF PullsPair
  <2>5. QED
    BY <2>1, <2>2, <2>3, <2>4 DEF WatchTypeOK, Watchers
<1>5. CASE Logs(w)
  <2>1. Sleeps(w) /\ tick[w] # "solo" /\ UNCHANGED <<solo, alarm>>
    BY <1>5 DEF Logs
  <2>2. QED
    BY <2>1, DozesTypes DEF WatchTypeOK
<1>6. CASE FindsSolo(w)
  <2>1. PICK endangered \in (SUBSET Entries(w)) \ {{}} :
          solo' = [solo EXCEPT ![w] = endangered]
    BY <1>6 DEF FindsSolo
  <2>2. /\ w \in Guards /\ Len(scan[w]) = Len(Wired)
        /\ tick' = [tick EXCEPT ![w] = "solo"] /\ UNCHANGED <<scan, alarm>>
    BY <1>6 DEF FindsSolo, HasRead
  <2>3. endangered \in SUBSET (1 .. Len(Wired)) /\ endangered # {}
    BY <2>1 DEF Entries
  <2>4. ASSUME NEW g \in Guards
        PROVE  /\ tick'[g] = "solo" <=> solo'[g] # {}
               /\ tick'[g] = "solo" => Len(scan'[g]) = Len(Wired)
    <3>1. CASE g = w
      BY <3>1, <2>1, <2>2, <2>3 DEF WatchTypeOK
    <3>2. CASE g # w
      BY <3>2, <2>1, <2>2 DEF WatchTypeOK, Watchers
    <3>3. QED
      BY <3>1, <3>2
  <2>5. QED
    BY <2>1, <2>2, <2>3, <2>4 DEF WatchTypeOK, Watchers
<1>7. CASE w \in Guards /\ SoloCloses(w)
  <2>1. solo' = [solo EXCEPT ![w] = @ \ {First(@)}] /\ alarm' = alarm
    BY <1>7 DEF SoloCloses, SoloDone
  <2>2. solo' \in [Guards -> SUBSET (1 .. Len(Wired))]
    BY <1>7, <2>1 DEF WatchTypeOK
  <2>3. CASE solo'[w] = {} /\ Sleeps(w)
    <3>1. \A g \in Guards : IF g = w THEN solo'[g] = {} ELSE solo'[g] = solo[g]
      BY <1>7, <2>1, <2>3 DEF WatchTypeOK
    <3>2. QED
      BY <2>1, <2>2, <2>3, <3>1, DozesTypes DEF WatchTypeOK
  <2>4. CASE solo'[w] # {} /\ UNCHANGED <<tick, scan>>
    BY <1>7, <2>1, <2>2, <2>4 DEF WatchTypeOK, Watchers, SoloCloses
  <2>5. QED
    BY <1>7, <2>3, <2>4 DEF SoloCloses, SoloDone
<1>8. CASE Reports(w)
  <2>1. /\ w \in Monitors /\ Sleeps(w) /\ tick[w] = "reading" /\ solo' = solo
        /\ \E said \in {"none", "orphan"} : alarm' = [alarm EXCEPT ![w] = said]
    BY <1>8 DEF Reports, HasRead
  <2>2. alarm' \in [Monitors -> {"none", "orphan"}]
    BY <2>1 DEF WatchTypeOK
  <2>3. \A g \in Guards : g = w => solo[g] = {}
    BY <2>1 DEF WatchTypeOK
  <2>4. QED
    BY <2>1, <2>2, <2>3, DozesTypes DEF WatchTypeOK
<1>9. QED
  BY <1>1, <1>2, <1>3, <1>4, <1>5, <1>6, <1>7, <1>8 DEF Watch

LEMMA SoloClosesTypes ==
  ASSUME TypeOK, WatchTypeOK, NEW g \in Guards, SoloCloses(g)
  PROVE  TypeOK'
<1>1. g \in Callers /\ g \in Watchers
  BY DeskAssumption DEF Watchers
<1>2. SoloExchange(g) \in Exchanges /\ SoloLeg(g) \in Int
  BY SoloLegType
<1>3. ControlTypeOK'
  BY DEF SoloCloses, TypeOK, ControlTypeOK
<1>4. done' \in [Callers -> [sold : Nat, bought : Nat, undone : Nat]]
  BY DEF SoloCloses, TypeOK, LedgerTypeOK
<1> DEFINE n == Closable(SoloExchange(g), SoloLeg(g), Abs(SoloLeg(g)))
<1>5. CASE n > 0 /\ Closes(g, SoloExchange(g), SoloLeg(g), n, FALSE)
  <2>1. n \in Nat
    BY <1>2, ClosableType DEF Abs
  <2>2. QED
    BY <1>1, <1>2, <1>3, <1>4, <1>5, <2>1, ClosesType DEF TypeOK
<1>6. CASE UNCHANGED <<pos, calls, misled>>
  BY <1>3, <1>4, <1>6 DEF TypeOK, LedgerTypeOK
<1>7. QED
  BY <1>5, <1>6 DEF SoloCloses

\* Every step of the desk keeps the types.
LEMMA WatchKeepsTypes ==
  ASSUME TypeOK, WatchTypeOK, NEW w \in Watchers, Watch(w)
  PROVE  TypeOK' /\ WatchTypeOK'
<1>1. WatchTypeOK'
  BY SeenType, WatchTypes
<1>2. CASE UNCHANGED vars
  BY <1>1, <1>2 DEF vars, TypeOK, ControlTypeOK, LedgerTypeOK
<1>3. CASE PullsPair(w)
  BY <1>1, <1>3, PullsPairTypes
<1>4. CASE Logs(w)
  <2>1. w \in Callers
    BY <1>4, DeskAssumption DEF Logs, WatchTypeOK, Watchers
  <2>2. QED
    BY <1>1, <1>4, <2>1, ForgetsTypes DEF Logs
<1>5. CASE w \in Guards /\ SoloCloses(w)
  BY <1>1, <1>5, SoloClosesTypes
<1>6. QED
  BY <1>2, <1>3, <1>4, <1>5
  DEF Watch, Wakes, ReadsNext, NothingToDo, FindsSolo, Reports

LEMMA DeskKeepsTypes ==
  TypeOK /\ WatchTypeOK /\ [DeskNext]_deskVars => TypeOK' /\ WatchTypeOK'
<1> SUFFICES ASSUME TypeOK, WatchTypeOK, [DeskNext]_deskVars
             PROVE  TypeOK' /\ WatchTypeOK'
  OBVIOUS
<1>1. CASE UNCHANGED <<vars, watching>>
  BY <1>1 DEF vars, watching, TypeOK, ControlTypeOK, LedgerTypeOK, WatchTypeOK
<1>2. ASSUME NEW w \in Watchers, Watch(w) PROVE TypeOK' /\ WatchTypeOK'
  BY <1>2, WatchKeepsTypes
<1>3. ASSUME UNCHANGED watching PROVE WatchTypeOK'
  BY <1>3 DEF watching, WatchTypeOK
<1>4. ASSUME NEW c \in Callers, Enter(c) \/ Exit(c) \/ Abort(c) \/ Forgets(c)
      PROVE  TypeOK'
  BY <1>4, EnterKeepsTypes, ExitKeepsTypes, AbortKeepsTypes, ForgetsTypes
<1>5. ASSUME NEW c \in Traders, Trades(c) PROVE TypeOK' /\ WatchTypeOK'
  <2>1. c \in Callers
    BY DeskAssumption
  <2>2. QED
    BY <1>3, <1>4, <1>5, <2>1 DEF Trades
<1>6. ASSUME NEW c \in Guards \cup Protectors, Pulls(c) PROVE TypeOK' /\ WatchTypeOK'
  <2>1. c \in Callers
    BY DeskAssumption
  <2>2. QED
    BY <1>3, <1>4, <1>6, <2>1 DEF Pulls, Exit
<1>7. ASSUME PriceMoves PROVE TypeOK' /\ WatchTypeOK'
  BY <1>7 DEF PriceMoves, vars, TypeOK, ControlTypeOK, LedgerTypeOK, WatchTypeOK
<1>8. QED
  BY <1>1, <1>2, <1>5, <1>6, <1>7 DEF DeskNext, deskVars

DeskIInv == TypeOK /\ WatchTypeOK

LEMMA DeskIInvHolds == DeskSpec => []DeskIInv
<1>1. DeskInit => DeskIInv
  BY DeskInitTypes DEF DeskIInv
<1>2. DeskIInv /\ [DeskNext]_deskVars => DeskIInv'
  BY DeskKeepsTypes DEF DeskIInv
<1>3. QED
  BY <1>1, <1>2, PTL DEF DeskSpec

LEMMA HistoryTypes ==
  ASSUME danger \in BOOLEAN, candid \in BOOLEAN, overtaken \subseteq Watchers,
         [DeskNext]_deskVars
  PROVE  (danger \in BOOLEAN /\ candid \in BOOLEAN /\ overtaken \subseteq Watchers)'
<1>1. CASE UNCHANGED deskVars
  BY <1>1 DEF deskVars, watching
<1>2. CASE DeskNext
  <2>1. overtaken' \subseteq Watchers
    BY <1>2 DEF DeskNext, Overtakes
  <2>2. candid' \in BOOLEAN
    BY <1>2, Zenon DEF DeskNext, KeepCandid
  <2>3. danger' \in BOOLEAN
    BY <1>2 DEF DeskNext, Watch, Wakes, ReadsNext, NothingToDo, PullsPair, Logs,
       FindsSolo, SoloCloses, Reports, Trades, Pulls, PriceMoves, watching
  <2>4. QED
    BY <2>1, <2>2, <2>3
<1>3. QED
  BY <1>1, <1>2

\* The loops and the calls they make keep their types in every interleaving:
\* a scan is never longer than the list of exchanges, and a guard closes single
\* legs exactly while it has some to close.
THEOREM DeskTypeCorrect == DeskSpec => []DeskTypeOK
<1> DEFINE H == danger \in BOOLEAN /\ candid \in BOOLEAN /\ overtaken \subseteq Watchers
<1>1. DeskInit => H
  BY DEF DeskInit
<1>2. H /\ [DeskNext]_deskVars => H'
  BY HistoryTypes
<1>3. DeskIInv /\ H => DeskTypeOK
  BY DEF DeskIInv, WatchTypeOK, DeskTypeOK
<1>4. QED
  BY <1>1, <1>2, <1>3, DeskIInvHolds, PTL DEF DeskSpec

-----------------------------------------------------------------------------
\* The guards only reduce.

\* A step brings every position closer to zero, or leaves it where it is.
Reduces ==
  \A e \in Exchanges : pos'[e] \in (IF pos[e] < 0 THEN pos[e] .. 0 ELSE 0 .. pos[e])

LEMMA RestReduces ==
  ASSUME TypeOK, pos' = pos
  PROVE  Reduces
BY DEF Reduces, TypeOK, LedgerTypeOK

LEMMA SameSide ==
  ASSUME NEW m \in Int, NEW n \in Int, m * n > 0
  PROVE  (m < 0 /\ n < 0) \/ (m > 0 /\ n > 0)
<1>1. m < 0 \/ m > 0
  <2>1. m = 0 => m * n = 0
    OBVIOUS
  <2>2. QED
    BY <2>1
<1>2. ASSUME m < 0 PROVE n < 0
  <2>1. SUFFICES ASSUME n >= 0 PROVE m * n <= 0
    OBVIOUS
  <2>2. QED
    BY <1>2, <2>1, SMT
<1>3. ASSUME m > 0 PROVE n > 0
  <2>1. SUFFICES ASSUME n <= 0 PROVE m * n <= 0
    OBVIOUS
  <2>2. QED
    BY <1>3, <2>1, SMT
<1>4. QED
  BY <1>1, <1>2, <1>3

\* A reduce-only order takes at most what the exchange accepts, on the side of
\* the leg it was sent against.
LEMMA CloseReduces ==
  ASSUME TypeOK, NEW c \in Callers, NEW e \in Exchanges, NEW leg \in Int,
         NEW amount \in Nat, NEW k \in Nat, k <= Closable(e, leg, amount),
         NEW deceived, Closes(c, e, leg, k, deceived)
  PROVE  Reduces
<1>1. pos' = [pos EXCEPT ![e] = @ + (IF leg < 0 THEN k ELSE -k)] /\ pos \in [Exchanges -> Int]
  BY DEF Closes, Executes, TypeOK, LedgerTypeOK
<1>2. CASE k = 0
  <2>1. pos' = pos
    BY <1>1, <1>2
  <2>2. QED
    BY <2>1, RestReduces
<1>3. CASE k > 0
  <2>1. leg * pos[e] > 0 /\ k <= Abs(pos[e])
    BY <1>1, <1>3 DEF Closable, Smaller, Abs
  <2>2. (leg < 0 /\ pos[e] < 0) \/ (leg > 0 /\ pos[e] > 0)
    BY <1>1, <2>1, SameSide
  <2>3. pos'[e] \in (IF pos[e] < 0 THEN pos[e] .. 0 ELSE 0 .. pos[e])
    BY <1>1, <2>1, <2>2 DEF Abs
  <2>4. \A x \in Exchanges : x # e => pos'[x] = pos[x] /\ pos[x] \in Int
    BY <1>1
  <2>5. QED
    BY <2>3, <2>4 DEF Reduces
<1>4. QED
  BY <1>2, <1>3

LEMMA ClosesLegReduces ==
  ASSUME TypeOK, NEW c \in Callers, pc[c] \in ExitPCs, NEW e \in Exchanges,
         NEW leg \in Int, NEW ok, ClosesLeg(c, e, leg, ok)
  PROVE  Reduces
<1> DEFINE a == Floored((Abs(leg) * req[c].percent) \div 100, LotStep[e])
           n == Closable(e, leg, a)
<1>1. a \in Nat
  <2>1. Abs(leg) \in Nat /\ req[c].percent \in Nat
    <3>1. pc[c] # "idle"
      BY DEF ExitPCs
    <3>2. QED
      BY <3>1, CallType DEF Abs
  <2>2. (Abs(leg) * req[c].percent) \div 100 \in Nat
    BY <2>1, SMT
  <2>3. QED
    BY <2>2, ExchangesAssumption, FlooredType
<1>2. n \in Nat
  BY <1>1, ClosableType
<1> HIDE DEF a
<1>3. \/ pos' = pos
      \/ \E k \in Lots(n, e, "part_close") : Closes(c, e, leg, k, FALSE)
      \/ Closes(c, e, leg, n, TRUE)
  BY DEF ClosesLeg, Refused, a
<1>4. \A k \in Lots(n, e, "part_close") : k \in Nat /\ k <= n
  BY <1>2, LotsType
<1>5. ASSUME NEW k \in Nat, k <= n, NEW deceived, Closes(c, e, leg, k, deceived)
      PROVE  Reduces
  BY <1>1, <1>5, CloseReduces
<1>6. n <= n
  BY <1>2
<1> HIDE DEF n
<1>7. QED
  BY <1>2, <1>3, <1>4, <1>5, <1>6, RestReduces

LEMMA OrdersReduce ==
  ASSUME TypeOK, NEW c \in Callers, CloseShort(c) \/ CloseLong(c)
  PROVE  Reduces
<1>1. pc[c] \in ExitPCs /\ pc[c] # "idle"
  BY DEF CloseShort, CloseLong, ExitPCs
<1>2. mem[c].shortLeg \in Int /\ mem[c].longLeg \in Int
  BY DEF TypeOK, ControlTypeOK, Locals
<1>3. Short(c) \in Exchanges /\ Long(c) \in Exchanges
  BY <1>1, CallType
<1>4. QED
  BY <1>1, <1>2, <1>3, ClosesLegReduces DEF CloseShort, CloseLong

LEMMA PullsReduces ==
  ASSUME TypeOK, NEW c \in Callers, Pulls(c)
  PROVE  Reduces
<1>1. CASE FindShort(c) \/ FindLong(c) \/ ReadShortAfter(c) \/ ReadLongAfter(c) \/ Abort(c)
  <2>1. pos' = pos
    BY <1>1 DEF FindShort, FindLong, ReadShortAfter, ReadLongAfter, Reads, Abort
  <2>2. QED
    BY <2>1, RestReduces
<1>2. QED
  BY <1>1, OrdersReduce DEF Pulls

LEMMA WatchReduces ==
  ASSUME TypeOK, WatchTypeOK, NEW w \in Watchers, Watch(w)
  PROVE  Reduces
<1>1. CASE pos' = pos
  BY <1>1, RestReduces
<1>2. CASE w \in Guards /\ SoloCloses(w)
  <2> DEFINE a == Abs(SoloLeg(w))
             n == Closable(SoloExchange(w), SoloLeg(w), a)
  <2>1. w \in Callers /\ SoloExchange(w) \in Exchanges /\ SoloLeg(w) \in Int
    BY <1>2, SoloLegType, DeskAssumption
  <2>2. a \in Nat
    BY <2>1 DEF Abs
  <2>3. n \in Nat
    BY <2>1, <2>2, ClosableType
  <2>4. pos' = pos \/ Closes(w, SoloExchange(w), SoloLeg(w), n, FALSE)
    BY <1>2 DEF SoloCloses
  <2> HIDE DEF a
  <2>5. n <= n
    BY <2>3
  <2>6. QED
    BY <1>1, <2>1, <2>2, <2>3, <2>4, <2>5, CloseReduces
<1>3. QED
  BY <1>1, <1>2
  DEF Watch, Wakes, ReadsNext, NothingToDo, PullsPair, Logs, Forgets, FindsSolo, Reports, vars

\* A trader's step moves none of the others.
LEMMA TradesApart ==
  ASSUME TypeOK, NEW c \in Traders, Trades(c), NEW w \in Guards \cup Protectors
  PROVE  tick' = tick /\ solo' = solo /\ pc'[w] = pc[w]
<1>1. c \in Callers /\ w \in Callers /\ c # w
  BY DeskAssumption DEF Watchers
<1>2. UNCHANGED watching
  BY DEF Trades
<1>3. CASE Enter(c)
  BY <1>1, <1>2, <1>3, EnterUndisturbed DEF Undisturbed, watching
<1>4. CASE Exit(c)
  BY <1>1, <1>2, <1>4, ExitUndisturbed DEF Undisturbed, watching
<1>5. CASE Abort(c)
  BY <1>1, <1>2, <1>5, ControlUndisturbed DEF Abort, watching
<1>6. CASE Forgets(c)
  BY <1>2, <1>6 DEF Forgets, watching
<1>7. QED
  BY <1>3, <1>4, <1>5, <1>6 DEF Trades

LEMMA GuardsStep == TypeOK /\ WatchTypeOK /\ [DeskNext]_deskVars =>
  \A w \in Guards \cup Protectors :
    tick'[w] # tick[w] \/ pc'[w] # pc[w] \/ (w \in Guards /\ solo'[w] # solo[w])
      => \A e \in Exchanges :
           pos'[e] \in (IF pos[e] < 0 THEN pos[e] .. 0 ELSE 0 .. pos[e])
<1> DEFINE Step == \A w \in Guards \cup Protectors :
             tick'[w] # tick[w] \/ pc'[w] # pc[w] \/ (w \in Guards /\ solo'[w] # solo[w])
               => Reduces
<1> SUFFICES ASSUME TypeOK, WatchTypeOK, [DeskNext]_deskVars PROVE Step
  BY DEF Reduces
<1>1. CASE UNCHANGED <<tick, pc, solo>>
  BY <1>1
<1>2. ASSUME NEW w \in Watchers, Watch(w) PROVE Step
  BY <1>2, WatchReduces
<1>3. ASSUME NEW c \in Traders, Trades(c) PROVE Step
  BY <1>3, TradesApart
<1>4. ASSUME NEW c \in Guards \cup Protectors, Pulls(c) PROVE Step
  <2>1. c \in Callers
    BY DeskAssumption
  <2>2. QED
    BY <1>4, <2>1, PullsReduces
<1>5. QED
  BY <1>1, <1>2, <1>3, <1>4 DEF DeskNext, PriceMoves, deskVars, watching, vars

\* However old the scan a guard or the protection acts on, and whatever the
\* traders did in the meantime, no order of theirs opens, enlarges or turns a
\* position at any exchange.
THEOREM GuardsNeverAdd == DeskSpec => GuardsOnlyReduce
<1>1. DeskIInv => TypeOK /\ WatchTypeOK
  BY DEF DeskIInv
<1>2. QED
  BY <1>1, GuardsStep, DeskIInvHolds, PTL DEF DeskSpec, GuardsOnlyReduce

-----------------------------------------------------------------------------
\* What the scans are worth.

\* What a watcher that nobody overtook has read still holds.
ScanTrue(w) ==
  /\ tick[w] = "asleep" => scan[w] = <<>>
  /\ tick[w] = "reading" /\ w \notin overtaken =>
       \A i \in 1 .. Len(scan[w]) : scan[w][i] = pos[Wired[i]]

ScansTrue == \A w \in Watchers : ScanTrue(w)

\* What one step of the desk may do to a watcher.
WatcherStep(v) ==
  \/ /\ tick'[v] = tick[v] \/ (tick[v] = "asleep" /\ tick'[v] = "reading")
     /\ scan'[v] = scan[v] /\ (v \in Guards => solo'[v] = solo[v])
  \/ /\ tick[v] = "reading" /\ tick'[v] = "reading" /\ pos' = pos
     /\ (\E x \in Int : scan'[v] = Append(scan[v], x))
     /\ (v \in Guards => solo'[v] = solo[v])
  \/ v \in Callers /\ tick'[v] = "asleep" /\ scan'[v] = <<>>
  \/ v \in Callers /\ tick'[v] = "pulling"
  \/ v \in Guards /\ tick'[v] = "solo" /\ (FindsSolo(v) \/ SoloCloses(v))
  \/ Reports(v)

LEMMA OthersWatch ==
  ASSUME WatchTypeOK, NEW w \in Watchers, Watch(w), NEW v \in Watchers \ {w}
  PROVE  tick'[v] = tick[v] /\ scan'[v] = scan[v] /\ (v \in Guards => solo'[v] = solo[v])
<1>1. tick' = tick \/ \E s : tick' = [tick EXCEPT ![w] = s]
  BY DEF Watch, Wakes, ReadsNext, NothingToDo, PullsPair, Logs, FindsSolo,
     SoloCloses, SoloDone, Reports, Sleeps
<1>2. scan' = scan \/ \E s : scan' = [scan EXCEPT ![w] = s]
  BY DEF Watch, Wakes, ReadsNext, NothingToDo, PullsPair, Logs, FindsSolo,
     SoloCloses, SoloDone, Reports, Sleeps
<1>3. solo' = solo \/ \E s : solo' = [solo EXCEPT ![w] = s]
  BY DEF Watch, Wakes, ReadsNext, NothingToDo, PullsPair, Logs, FindsSolo,
     SoloCloses, SoloDone, Reports
<1>4. v # w /\ v \in Watchers
  OBVIOUS
<1>5. tick'[v] = tick[v]
  BY <1>1, <1>4 DEF WatchTypeOK
<1>6. scan'[v] = scan[v]
  BY <1>2, <1>4 DEF WatchTypeOK
<1>7. v \in Guards => solo'[v] = solo[v]
  BY <1>3, <1>4 DEF WatchTypeOK
<1>8. QED
  BY <1>5, <1>6, <1>7

LEMMA WatcherSteps ==
  ASSUME TypeOK, WatchTypeOK, DeskNext, NEW v \in Watchers
  PROVE  WatcherStep(v)
<1>0. /\ tick \in [Watchers -> {"asleep", "reading", "pulling", "solo"}]
      /\ scan \in [Watchers -> Seq(Int)]
      /\ v \in Monitors => v \notin Callers /\ v \notin Guards
      /\ v \in Guards => v \in Callers
  BY DeskAssumption DEF WatchTypeOK
<1>1. CASE tick' = tick /\ scan' = scan /\ solo' = solo
  BY <1>1 DEF WatcherStep
<1>2. ASSUME NEW w \in Watchers, Watch(w), w # v PROVE WatcherStep(v)
  <2>1. v \in Watchers \ {w}
    BY <1>2
  <2>2. tick'[v] = tick[v] /\ scan'[v] = scan[v] /\ (v \in Guards => solo'[v] = solo[v])
    BY <1>2, <2>1, OthersWatch
  <2>3. QED
    BY <2>2 DEF WatcherStep
<1>3. ASSUME Watch(v) PROVE WatcherStep(v)
  <2>1. CASE Wakes(v)
    BY <1>0, <2>1 DEF Wakes, Resting, WatcherStep
  <2>2. CASE ReadsNext(v)
    <3>1. PICK seen \in Seen(NextWired(v)) : scan' = [scan EXCEPT ![v] = Append(@, seen)]
      BY <2>2 DEF ReadsNext
    <3>2. scan[v] \in Seq(Int) /\ Len(scan[v]) \in Nat /\ Len(scan[v]) < Len(Wired)
      BY <1>0, <2>2, LenProperties DEF ReadsNext
    <3>3. NextWired(v) \in Exchanges
      BY <3>2, WiredType DEF NextWired
    <3>4. seen \in Int
      BY <3>3, SeenType
    <3>5. scan'[v] = Append(scan[v], seen)
      BY <1>0, <3>1
    <3>6. QED
      BY <2>2, <3>4, <3>5 DEF ReadsNext, WatcherStep, vars
  <2>3. CASE NothingToDo(v)
    BY <1>0, <2>3 DEF NothingToDo, Sleeps, WatcherStep
  <2>4. CASE PullsPair(v)
    BY <1>0, <2>4 DEF PullsPair, WatcherStep
  <2>5. CASE Logs(v)
    <3>1. v \in Callers
      BY <2>5, DeskAssumption DEF Logs, WatchTypeOK, Watchers
    <3>2. QED
      BY <1>0, <2>5, <3>1 DEF Logs, Sleeps, WatcherStep
  <2>6. CASE FindsSolo(v)
    BY <1>0, <2>6 DEF FindsSolo, WatcherStep
  <2>7. CASE v \in Guards /\ SoloCloses(v)
    <3>1. Sleeps(v) \/ tick' = tick
      BY <2>7 DEF SoloCloses, SoloDone
    <3>2. CASE Sleeps(v)
      BY <1>0, <2>7, <3>2 DEF Sleeps, WatcherStep
    <3>3. CASE tick' = tick
      BY <2>7, <3>3 DEF SoloCloses, WatcherStep
    <3>4. QED
      BY <3>1, <3>2, <3>3
  <2>8. CASE Reports(v)
    BY <2>8 DEF WatcherStep
  <2>9. QED
    BY <1>3, <2>1, <2>2, <2>3, <2>4, <2>5, <2>6, <2>7, <2>8 DEF Watch
<1>4. QED
  BY <1>1, <1>2, <1>3 DEF DeskNext, Trades, Pulls, PriceMoves, watching

LEMMA ScansStayTrue ==
  ASSUME TypeOK, WatchTypeOK, ScansTrue, [DeskNext]_deskVars
  PROVE  ScansTrue'
<1>1. CASE UNCHANGED deskVars
  BY <1>1 DEF ScansTrue, ScanTrue, deskVars, vars, watching
<1>2. CASE DeskNext
  <2> SUFFICES ASSUME NEW m \in Watchers PROVE ScanTrue(m)'
    BY DEF ScansTrue
  <2>1. ScanTrue(m) /\ WatcherStep(m)
    BY <1>2, WatcherSteps DEF ScansTrue
  <2>2. scan[m] \in Seq(Int) /\ Len(scan[m]) \in Nat
    BY <2>1, LenProperties DEF WatchTypeOK
  <2>a. Reports(m) => tick'[m] = "asleep" /\ scan'[m] = <<>>
    BY DEF Reports, Sleeps, WatchTypeOK
  <2>3. tick'[m] = "asleep" => scan'[m] = <<>>
    BY <2>1, <2>a DEF WatcherStep, ScanTrue
  <2>4. ASSUME tick'[m] = "reading", m \notin overtaken', NEW i \in 1 .. Len(scan'[m])
        PROVE  scan'[m][i] = pos'[Wired[i]]
    <3>0. \/ /\ tick[m] = "reading" \/ tick[m] = "asleep"
             /\ scan'[m] = scan[m] /\ (m \in Guards => solo'[m] = solo[m])
          \/ /\ tick[m] = "reading" /\ pos' = pos
             /\ (\E x \in Int : scan'[m] = Append(scan[m], x))
             /\ (m \in Guards => solo'[m] = solo[m])
      BY <2>1, <2>4, <2>a DEF WatcherStep
    <3>1. /\ m \notin overtaken
          /\ pos' = pos \/ tick[m] = "asleep"
          /\ Len(scan[m]) < i => scan'[m][i] = pos[Wired[i]]
      BY <1>2, <2>4, <3>0 DEF DeskNext, Overtakes
    <3>2. CASE tick[m] = "asleep"
      <4>1. scan'[m] = <<>>
        BY <2>1, <3>0, <3>2 DEF ScanTrue
      <4>2. QED
        BY <2>4, <4>1, EmptySeq
    <3>3. CASE tick[m] = "reading"
      <4>0. pos' = pos
        BY <3>1, <3>3
      <4>1. scan'[m] = scan[m] \/ \E x \in Int : scan'[m] = Append(scan[m], x)
        BY <3>0
      <4>2. CASE scan'[m] = scan[m]
        BY <2>1, <2>4, <3>1, <3>3, <4>0, <4>2 DEF ScanTrue
      <4>3. ASSUME NEW x \in Int, scan'[m] = Append(scan[m], x)
            PROVE  scan'[m][i] = pos'[Wired[i]]
        <5>1. Len(scan'[m]) = Len(scan[m]) + 1
              /\ \A j \in 1 .. Len(scan[m]) : scan'[m][j] = scan[m][j]
          BY <2>2, <4>3, OneMore
        <5>2. CASE i \in 1 .. Len(scan[m])
          BY <2>1, <3>1, <3>3, <4>0, <5>1, <5>2 DEF ScanTrue
        <5>3. CASE i = Len(scan[m]) + 1
          BY <2>2, <3>1, <4>0, <5>3
        <5>4. QED
          BY <2>2, <2>4, <5>1, <5>2, <5>3
      <4>4. QED
        BY <4>1, <4>2, <4>3
    <3>4. QED
      BY <3>0, <3>2, <3>3
  <2>5. QED
    BY <2>3, <2>4 DEF ScanTrue
<1>3. QED
  BY <1>1, <1>2

\* What was read is what is held, until the reader is overtaken.
LEMMA ScansHold == DeskSpec => []ScansTrue
<1>1. DeskInit => ScansTrue
  BY DEF DeskInit, ScansTrue, ScanTrue
<1>2. DeskIInv /\ ScansTrue /\ [DeskNext]_deskVars => ScansTrue'
  BY ScansStayTrue DEF DeskIInv
<1>3. QED
  BY <1>1, <1>2, DeskIInvHolds, PTL DEF DeskSpec

-----------------------------------------------------------------------------
\* The alarms of the monitor.

\* A whole and true scan has as many entries as there are exchanges that hold.
LEMMA EntriesCountHeld ==
  ASSUME TypeOK, NEW m \in Monitors, Len(scan[m]) = Len(Wired),
         \A i \in 1 .. Len(scan[m]) : scan[m][i] = pos[Wired[i]]
  PROVE  Cardinality(Entries(m)) = Cardinality(Held)
<1> DEFINE f == [i \in Entries(m) |-> Wired[i]]
<1>1. Entries(m) = {i \in 1 .. Len(Wired) : pos[Wired[i]] # 0}
  BY DEF Entries
<1>2. IsFiniteSet(Entries(m))
  <2>1. IsFiniteSet(1 .. Len(Wired))
    BY WiredType, FS_Interval
  <2>2. QED
    BY <1>1, <2>1, FS_Subset
<1>3. \A i \in Entries(m) : f[i] \in Held
  BY <1>1, WiredType DEF Held
<1>4. \A i, j \in Entries(m) : f[i] = f[j] => i = j
  BY <1>1, DeskAssumption
<1>5. \A e \in Held : \E i \in Entries(m) : f[i] = e
  BY <1>1, DeskAssumption DEF Held
<1>6. f \in Bijection(Entries(m), Held)
  BY <1>3, <1>4, <1>5 DEF Bijection, Injection, Surjection, IsInjective
<1>7. QED
  BY <1>2, <1>6, FS_Bijection DEF ExistsBijection

LEMMA AlarmStep == TypeOK /\ WatchTypeOK /\ ScansTrue /\ [DeskNext]_deskVars =>
  \A m \in Monitors :
    tick[m] = "reading" /\ tick'[m] = "asleep" /\ m \notin overtaken
      => (alarm'[m] = "orphan" <=> Cardinality(Held) = 1)
<1> SUFFICES ASSUME TypeOK, WatchTypeOK, ScansTrue, [DeskNext]_deskVars,
                    NEW m \in Monitors,
                    tick[m] = "reading", tick'[m] = "asleep", m \notin overtaken
             PROVE  alarm'[m] = "orphan" <=> Cardinality(Held) = 1
  OBVIOUS
<1>1. DeskNext
  BY DEF deskVars, watching
<1>2. Reports(m)
  <2>1. m \in Watchers /\ m \notin Callers /\ m \notin Guards
    BY DeskAssumption DEF Watchers
  <2>2. QED
    BY <1>1, <2>1, WatcherSteps DEF WatcherStep
<1>3. /\ Len(scan[m]) = Len(Wired)
      /\ alarm' = [alarm EXCEPT ![m] = IF Cardinality(Entries(m)) = 1 THEN "orphan" ELSE "none"]
  BY <1>2 DEF Reports, HasRead
<1>4. Cardinality(Entries(m)) = Cardinality(Held)
  BY <1>3, EntriesCountHeld DEF ScansTrue, ScanTrue, Watchers
<1>5. QED
  BY <1>3, <1>4 DEF WatchTypeOK

\* The orphan monitor is right whatever the others do before and after its
\* check: if nobody traded while it read and its reads arrived, it reports an
\* orphan exactly when one leg stands alone.
THEOREM AlarmsAreRight == DeskSpec => AlarmsAreTrue
<1>1. DeskIInv => TypeOK /\ WatchTypeOK
  BY DEF DeskIInv
<1>2. QED
  BY <1>1, AlarmStep, DeskIInvHolds, ScansHold, PTL DEF DeskSpec, AlarmsAreTrue

-----------------------------------------------------------------------------
\* What the calls know and what they leave, among the actors of the desk.

\* A guard or a protection calls the executor only while it waits for it.
CallsAreAwaited == \A w \in Guards \cup Protectors : tick[w] # "pulling" => pc[w] = "idle"

\* Whatever was read was held, in whole lots.
ScansInLots ==
  \A w \in Watchers : \A i \in 1 .. Len(scan[w]) : Whole(Wired[i], scan[w][i])

DeskTruth ==
  HonestCallsKnowTheirLegs /\ FullInv /\ CallsAreAwaited /\ ScansInLots

LEMMA HedgesWhole ==
  ASSUME NEW h \in Hedges, NEW e \in Exchanges
  PROVE  Whole(e, h[e])
<1>1. CASE h = [f \in Exchanges |-> 0]
  BY <1>1, WholeZero
<1>2. ASSUME NEW p \in Legs, NEW n \in Sizes, h = Hedge(p[1], p[2], Harmonized(n, p[1], p[2]))
      PROVE  Whole(e, h[e])
  <2> DEFINE k == Harmonized(n, p[1], p[2])
  <2>1. p[1] \in Exchanges /\ p[2] \in Exchanges /\ n \in Nat
    BY RequestAssumption DEF Legs
  <2>2. Whole(p[1], k) /\ Whole(p[2], k)
    BY <2>1, HarmonizedWhole
  <2>3. Whole(p[1], -k)
    BY <2>1, <2>2, WholeSums
  <2> HIDE DEF k
  <2>4. h[e] = IF e = p[1] THEN -k ELSE IF e = p[2] THEN k ELSE 0
    BY <1>2 DEF Hedge, k
  <2>5. QED
    BY <2>2, <2>3, <2>4, WholeZero
<1>3. QED
  BY <1>1, <1>2 DEF Hedges

LEMMA DeskInitTruth == DeskInit => DeskTruth
<1> SUFFICES ASSUME DeskInit PROVE DeskTruth
  OBVIOUS
<1>1. \A c \in Callers : pc[c] = "idle"
  BY DEF DeskInit
<1>2. \A w \in Guards \cup Protectors : pc[w] = "idle"
  BY <1>1, DeskAssumption
<1>3. \A w \in Watchers : Len(scan[w]) = 0
  BY DEF DeskInit
<1>4. WholeLots
  BY HedgesWhole DEF DeskInit, WholeLots
<1>5. FullInv
  BY <1>1, <1>4 DEF FullInv, InLots, WholeLeg, ClosedIsGone, FullClose
<1>6. HonestCallsKnowTheirLegs
  BY <1>1 DEF HonestCallsKnowTheirLegs, LocalsTrue
<1>7. QED
  BY <1>2, <1>3, <1>5, <1>6 DEF DeskTruth, CallsAreAwaited, ScansInLots

\* The positions and the calls of the others are left alone, or the others deceived.
LEMMA ApartKeepsTruth ==
  ASSUME TypeOK, HonestCallsKnowTheirLegs, FullInv, WholeLots', NEW d \in Callers,
         \A c \in Callers \ {d} : Undisturbed(c),
         pc'[d] = "idle" \/ (pc'[d] = "find_short")
  PROVE  HonestCallsKnowTheirLegs' /\ FullInv'
<1>1. ASSUME NEW c \in Callers PROVE misled'[c] \/ LocalsTrue(c)'
  <2>1. CASE c = d
    BY <2>1 DEF LocalsTrue
  <2>2. CASE c # d
    BY <2>2, UndisturbedKeeps DEF HonestCallsKnowTheirLegs
  <2>3. QED
    BY <2>1, <2>2
<1>2. ASSUME NEW c \in Callers PROVE WholeLeg(c)'
  <2>1. CASE c = d
    BY <2>1 DEF WholeLeg
  <2>2. CASE c # d
    BY <2>2, OthersWhole DEF FullInv, InLots
  <2>3. QED
    BY <2>1, <2>2
<1>3. ASSUME "part_close" \notin Faults, NEW c \in Callers
      PROVE  ~misled'[c] /\ FullClose(c)' => Gone(c)'
  <2>1. CASE c = d
    BY <2>1 DEF FullClose
  <2>2. CASE c # d
    BY <1>3, <2>2, OthersGone DEF FullInv, ClosedIsGone
  <2>3. QED
    BY <2>1, <2>2
<1>4. ("part_close" \notin Faults => ClosedIsGone)'
  BY <1>3 DEF ClosedIsGone
<1>5. QED
  BY <1>1, <1>2, <1>4 DEF HonestCallsKnowTheirLegs, FullInv, InLots

LEMMA RestKeepsTruth ==
  ASSUME HonestCallsKnowTheirLegs, FullInv, UNCHANGED vars
  PROVE  HonestCallsKnowTheirLegs' /\ FullInv'
BY DEF vars, HonestCallsKnowTheirLegs, LocalsTrue, NothingTraded, ShortMoved, ShortMeasured,
   FullInv, InLots, WholeLots, WholeLeg, Whole, ClosedIsGone, FullClose, Gone, Short, Long

LEMMA ForgetsUndisturbed ==
  ASSUME TypeOK, NEW d \in Callers, Forgets(d), NEW c \in Callers \ {d}
  PROVE  Undisturbed(c)
BY DEF Forgets, Undisturbed, TypeOK, LedgerTypeOK

LEMMA PullsPairUndisturbed ==
  ASSUME TypeOK, NEW w \in Watchers, PullsPair(w), NEW c \in Callers \ {w}
  PROVE  Undisturbed(c)
<1>1. w \in Callers /\ pos' = pos /\ \E r : Begin(w, r, "find_short")
  BY DEF PullsPair
<1>2. pc'[c] = pc[c] /\ req'[c] = req[c] /\ mem'[c] = mem[c]
  BY <1>1, ControlUndisturbed
<1>3. misled'[c] = misled[c] /\ done'[c] = done[c]
  BY DEF PullsPair, TypeOK, LedgerTypeOK
<1>4. QED
  BY <1>1, <1>2, <1>3 DEF Undisturbed

LEMMA SoloUndisturbed ==
  ASSUME TypeOK, WatchTypeOK, NEW g \in Guards, SoloCloses(g), NEW c \in Callers \ {g}
  PROVE  Undisturbed(c)
<1>1. g \in Callers
  BY DeskAssumption
<1>2. pc'[c] = pc[c] /\ req'[c] = req[c] /\ mem'[c] = mem[c] /\ done'[c] = done[c]
  BY DEF SoloCloses
<1> DEFINE n == Closable(SoloExchange(g), SoloLeg(g), Abs(SoloLeg(g)))
           change == IF SoloLeg(g) < 0 THEN n ELSE -n
<1>3. change \in Int
  <2>1. SoloExchange(g) \in Exchanges /\ SoloLeg(g) \in Int
    BY SoloLegType DEF SoloCloses
  <2>2. Abs(SoloLeg(g)) \in Nat
    BY <2>1 DEF Abs
  <2>3. QED
    BY <2>1, <2>2, ClosableType
<1>4. Executes(g, SoloExchange(g), change, FALSE) \/ UNCHANGED <<pos, calls, misled>>
  BY DEF SoloCloses, Closes
<1> HIDE DEF change
<1>5. CASE UNCHANGED <<pos, calls, misled>>
  BY <1>2, <1>5 DEF Undisturbed
<1>6. CASE Executes(g, SoloExchange(g), change, FALSE)
  BY <1>1, <1>2, <1>3, <1>6, OrderUndisturbed DEF Undisturbed
<1>7. QED
  BY <1>4, <1>5, <1>6

LEMMA ForgetsKeepsTruth ==
  ASSUME TypeOK, HonestCallsKnowTheirLegs, FullInv, NEW d \in Callers, Forgets(d)
  PROVE  HonestCallsKnowTheirLegs' /\ FullInv' /\ pc' = pc
<1>1. pc'[d] = "idle" /\ pc' = pc /\ pos' = pos
  BY DEF Forgets
<1>2. ASSUME NEW c \in Callers \ {d} PROVE Undisturbed(c)
  BY ForgetsUndisturbed
<1>3. WholeLots'
  BY <1>1, SamePositionsWhole DEF FullInv, InLots
<1>4. QED
  BY <1>1, <1>2, <1>3, ApartKeepsTruth

LEMMA PullsPairKeepsTruth ==
  ASSUME TypeOK, WatchTypeOK, HonestCallsKnowTheirLegs, FullInv, NEW w \in Watchers, PullsPair(w)
  PROVE  /\ HonestCallsKnowTheirLegs' /\ FullInv'
         /\ \A c \in Callers \ {w} : pc'[c] = pc[c]
<1>1. w \in Callers /\ pos' = pos /\ \E r : Begin(w, r, "find_short")
  BY DEF PullsPair
<1>2. pc'[w] = "find_short"
  BY <1>1 DEF Begin, Goto, TypeOK, ControlTypeOK
<1>3. ASSUME NEW c \in Callers \ {w} PROVE Undisturbed(c)
  BY PullsPairUndisturbed
<1>4. WholeLots'
  BY <1>1, SamePositionsWhole DEF FullInv, InLots
<1>5. QED
  BY <1>1, <1>2, <1>3, <1>4, ApartKeepsTruth DEF Undisturbed

\* A guard's own order: it has no call under way, the others are deceived by it.
LEMMA SoloKeepsTruth ==
  ASSUME TypeOK, WatchTypeOK, DeskTruth, NEW g \in Guards, SoloCloses(g)
  PROVE  HonestCallsKnowTheirLegs' /\ FullInv' /\ pc' = pc
<1>1. g \in Callers /\ g \in Watchers /\ pc' = pc
  BY DeskAssumption DEF Watchers, SoloCloses
<1>2. pc'[g] = "idle"
  BY <1>1 DEF DeskTruth, CallsAreAwaited, SoloCloses
<1>3. SoloExchange(g) \in Exchanges /\ SoloLeg(g) \in Int
  BY SoloLegType DEF SoloCloses
<1>4. Whole(SoloExchange(g), SoloLeg(g))
  <2>1. tick[g] = "solo"
    BY DEF SoloCloses
  <2>2. solo[g] # {} /\ solo[g] \in SUBSET (1 .. Len(Wired)) /\ Len(scan[g]) = Len(Wired)
    BY <2>1 DEF WatchTypeOK
  <2>3. First(solo[g]) \in 1 .. Len(scan[g])
    BY <2>2, FirstIsLeast
  <2>4. QED
    BY <1>1, <2>3 DEF DeskTruth, ScansInLots, SoloExchange, SoloLeg
<1> DEFINE a == Abs(SoloLeg(g))
           n == Closable(SoloExchange(g), SoloLeg(g), a)
           change == IF SoloLeg(g) < 0 THEN n ELSE -n
<1>5. a \in Nat /\ Whole(SoloExchange(g), a)
  <2>1. a \in Nat
    BY <1>3 DEF Abs
  <2>2. QED
    BY <1>3, <1>4, <2>1, WholeSums
<1>6. n \in Nat /\ Whole(SoloExchange(g), n)
  BY <1>3, <1>5, ClosableType, ClosableWhole DEF DeskTruth, FullInv, InLots
<1>7. change \in Int /\ Whole(SoloExchange(g), change)
  BY <1>3, <1>6, SideWhole
<1>8. Executes(g, SoloExchange(g), change, FALSE) \/ UNCHANGED <<pos, calls, misled>>
  BY DEF SoloCloses, Closes
<1> HIDE DEF change
<1>9. WholeLots'
  BY <1>3, <1>7, <1>8, OrderWhole, SamePositionsWhole DEF DeskTruth, FullInv, InLots
<1>10. ASSUME NEW c \in Callers \ {g} PROVE Undisturbed(c)
  BY SoloUndisturbed
<1>11. QED
  BY <1>1, <1>2, <1>9, <1>10, ApartKeepsTruth DEF DeskTruth

LEMMA ScansKeepLots ==
  ASSUME WatchTypeOK, ScansInLots, WholeLots, NEW w \in Watchers, Watch(w)
  PROVE  ScansInLots'
<1> SUFFICES ASSUME NEW v \in Watchers, NEW i \in 1 .. Len(scan'[v])
             PROVE  Whole(Wired[i], scan'[v][i])
  BY DEF ScansInLots, Whole
<1>0. scan \in [Watchers -> Seq(Int)]
  BY DEF WatchTypeOK
<1>1. CASE scan'[v] = scan[v]
  BY <1>1 DEF ScansInLots
<1>2. CASE scan'[v] = <<>>
  <2>1. Len(scan'[v]) = 0
    BY <1>2
  <2>2. QED
    BY <2>1
<1>3. CASE v = w /\ ReadsNext(w)
  <2>1. PICK seen \in Seen(NextWired(w)) : scan' = [scan EXCEPT ![w] = Append(@, seen)]
    BY <1>3 DEF ReadsNext
  <2>2. scan[w] \in Seq(Int) /\ scan'[w] = Append(scan[w], seen) /\ Len(scan[w]) \in Nat
    BY <1>0, <2>1
  <2>3. Len(scan[w]) + 1 \in 1 .. Len(Wired)
    BY <1>3, <2>2, WiredType DEF ReadsNext
  <2>4. NextWired(w) \in Exchanges
    BY <2>3, WiredType DEF NextWired
  <2>5. Whole(NextWired(w), seen)
    BY <2>4, SeenWhole
  <2>6. seen \in Int
    BY <2>4, <2>5, WholeSums
  <2>7. CASE i = Len(scan[w]) + 1
    BY <1>3, <2>2, <2>5, <2>6, <2>7, OneMore DEF NextWired
  <2>8. CASE i # Len(scan[w]) + 1
    <3>1. i \in 1 .. Len(scan[w]) /\ scan'[w][i] = scan[w][i]
      BY <1>3, <2>2, <2>6, <2>8, OneMore
    <3>2. QED
      BY <1>3, <3>1 DEF ScansInLots
  <2>9. QED
    BY <2>7, <2>8
<1>4. scan'[v] = scan[v] \/ scan'[v] = <<>> \/ (v = w /\ ReadsNext(w))
  BY <1>0 DEF Watch, Wakes, ReadsNext, NothingToDo, PullsPair, Logs, FindsSolo, SoloCloses,
     SoloDone, Reports, Sleeps
<1>5. QED
  BY <1>1, <1>2, <1>3, <1>4

\* The call a step of a watcher leaves it with.
LEMMA WatchKeepsCalls ==
  ASSUME TypeOK, WatchTypeOK, CallsAreAwaited, NEW w \in Watchers, Watch(w),
         \A c \in Callers \ {w} : pc'[c] = pc[c],
         pc' = pc \/ PullsPair(w)
  PROVE  CallsAreAwaited'
<1> SUFFICES ASSUME NEW v \in Guards \cup Protectors, tick'[v] # "pulling" PROVE pc'[v] = "idle"
  BY DEF CallsAreAwaited
<1>1. v \in Watchers /\ v \in Callers
  BY DeskAssumption DEF Watchers
<1>2. tick \in [Watchers -> {"asleep", "reading", "pulling", "solo"}]
  BY DEF WatchTypeOK
<1>3. ~PullsPair(w) \/ v # w
  BY <1>1, <1>2 DEF PullsPair
<1>4. pc'[v] = pc[v]
  BY <1>1, <1>3
<1>5. CASE tick[v] # "pulling"
  BY <1>4, <1>5 DEF CallsAreAwaited
<1>6. CASE tick[v] = "pulling"
  <2>1. Logs(w) /\ v = w
    BY <1>1, <1>2, <1>6 DEF Watch, Wakes, Resting, ReadsNext, NothingToDo, PullsPair, Logs,
       FindsSolo, SoloCloses, SoloDone, Reports, Sleeps, HasRead
  <2>2. QED
    BY <1>4, <2>1 DEF Logs, Forgets
<1>7. QED
  BY <1>5, <1>6

LEMMA WatchKeepsTruth ==
  ASSUME TypeOK, WatchTypeOK, DeskTruth, NEW w \in Watchers, Watch(w)
  PROVE  DeskTruth'
<1>1. ScansInLots'
  BY ScansKeepLots DEF DeskTruth, FullInv, InLots
<1>2. /\ HonestCallsKnowTheirLegs' /\ FullInv'
      /\ \A c \in Callers \ {w} : pc'[c] = pc[c]
      /\ pc' = pc \/ PullsPair(w)
  <2>1. CASE UNCHANGED vars
    BY <2>1, RestKeepsTruth DEF DeskTruth, vars
  <2>2. CASE PullsPair(w)
    BY <2>2, PullsPairKeepsTruth DEF DeskTruth
  <2>3. CASE Logs(w)
    <3>1. w \in Callers
      BY <2>3, DeskAssumption DEF Logs, WatchTypeOK, Watchers
    <3>2. QED
      BY <2>3, <3>1, ForgetsKeepsTruth DEF Logs, DeskTruth
  <2>4. CASE w \in Guards /\ SoloCloses(w)
    BY <2>4, SoloKeepsTruth
  <2>5. QED
    BY <2>1, <2>2, <2>3, <2>4
    DEF Watch, Wakes, ReadsNext, NothingToDo, FindsSolo, Reports
<1>3. CallsAreAwaited'
  BY <1>2, WatchKeepsCalls DEF DeskTruth
<1>4. QED
  BY <1>1, <1>2, <1>3 DEF DeskTruth

\* A call of the executor, by a trader or by a guard that waits for it.
LEMMA CallKeepsTruth ==
  ASSUME TypeOK, DeskTruth, UNCHANGED watching, NEW d \in Callers, Enter(d) \/ Exit(d) \/ Abort(d),
         d \in Traders \/ (d \in Watchers /\ pc[d] # "idle")
  PROVE  DeskTruth'
<1>1. [Next]_vars
  BY DEF Next
<1>2. HonestCallsKnowTheirLegs' /\ FullInv'
  BY <1>1, NextKeepsTruth, CallKeepsFull DEF DeskTruth
<1>3. ASSUME NEW c \in Callers \ {d} PROVE pc'[c] = pc[c]
  <2>1. CASE Abort(d)
    BY <2>1, ControlUndisturbed DEF Abort
  <2>2. QED
    BY <2>1, EnterUndisturbed, ExitUndisturbed DEF Undisturbed
<1>4. CallsAreAwaited'
  <2>1. SUFFICES ASSUME NEW v \in Guards \cup Protectors, tick'[v] # "pulling" PROVE pc'[v] = "idle"
    BY DEF CallsAreAwaited
  <2>2. v \in Callers /\ v \in Watchers /\ v \notin Traders
    BY DeskAssumption DEF Watchers
  <2>3. pc[v] = "idle"
    BY <2>1 DEF watching, DeskTruth, CallsAreAwaited
  <2>4. v # d
    BY <2>2, <2>3
  <2>5. QED
    BY <1>3, <2>2, <2>3, <2>4
<1>5. ScansInLots'
  BY DEF watching, DeskTruth, ScansInLots, Whole
<1>6. QED
  BY <1>2, <1>4, <1>5 DEF DeskTruth

LEMMA DeskKeepsTruth ==
  TypeOK /\ WatchTypeOK /\ DeskTruth /\ [DeskNext]_deskVars => DeskTruth'
<1> SUFFICES ASSUME TypeOK, WatchTypeOK, DeskTruth, [DeskNext]_deskVars
             PROVE  DeskTruth'
  OBVIOUS
<1>1. CASE UNCHANGED <<vars, tick, scan>>
  <2>1. HonestCallsKnowTheirLegs' /\ FullInv'
    BY <1>1, RestKeepsTruth DEF DeskTruth
  <2>2. CallsAreAwaited' /\ ScansInLots'
    BY <1>1 DEF vars, DeskTruth, CallsAreAwaited, ScansInLots, Whole
  <2>3. QED
    BY <2>1, <2>2 DEF DeskTruth
<1>2. ASSUME NEW w \in Watchers, Watch(w) PROVE DeskTruth'
  BY <1>2, WatchKeepsTruth
<1>3. ASSUME NEW c \in Traders, Trades(c) PROVE DeskTruth'
  <2>1. c \in Callers /\ UNCHANGED watching
    BY <1>3, DeskAssumption DEF Trades
  <2>2. CASE Enter(c) \/ Exit(c) \/ Abort(c)
    BY <2>1, <2>2, CallKeepsTruth
  <2>3. CASE Forgets(c)
    <3>1. HonestCallsKnowTheirLegs' /\ FullInv' /\ pc' = pc
      BY <2>1, <2>3, ForgetsKeepsTruth DEF DeskTruth
    <3>2. QED
      BY <2>1, <3>1 DEF watching, DeskTruth, CallsAreAwaited, ScansInLots, Whole
  <2>4. QED
    BY <1>3, <2>2, <2>3 DEF Trades
<1>4. ASSUME NEW c \in Guards \cup Protectors, Pulls(c) PROVE DeskTruth'
  <2>1. c \in Callers /\ c \in Watchers /\ UNCHANGED watching
    BY <1>4, DeskAssumption DEF Pulls, Watchers
  <2>2. Exit(c) \/ Abort(c)
    BY <1>4 DEF Pulls, Exit
  <2>3. pc[c] # "idle"
    BY <1>4 DEF Pulls, FindShort, FindLong, CloseShort, CloseLong, ReadShortAfter, ReadLongAfter,
       Abort
  <2>4. QED
    BY <2>1, <2>2, <2>3, CallKeepsTruth
<1>5. QED
  BY <1>1, <1>2, <1>3, <1>4 DEF DeskNext, PriceMoves, deskVars, watching

LEMMA DeskTruthHolds == DeskSpec => []DeskTruth
<1>1. DeskIInv /\ DeskTruth /\ [DeskNext]_deskVars => DeskTruth'
  BY DeskKeepsTruth DEF DeskIInv
<1>2. QED
  BY <1>1, DeskInitTruth, DeskIInvHolds, PTL DEF DeskSpec

\* Among traders, guards and protections a call that nobody deceived knows its legs.
THEOREM DeskCallsKnow == DeskSpec => []HonestCallsKnowTheirLegs
<1>1. DeskTruth => HonestCallsKnowTheirLegs
  BY DEF DeskTruth
<1>2. QED
  BY <1>1, DeskTruthHolds, PTL

LEMMA DeskFlattensStep == TypeOK /\ DeskTruth /\ [DeskNext]_deskVars =>
  \A c \in Callers :
    Returns(c, ExitPCs) /\ Honest(c) /\ out'[c].status = "success"
      /\ req[c].percent = 100 /\ "part_close" \notin Faults
      => pos'[Short(c)] = 0 /\ pos'[Long(c)] = 0
<1> SUFFICES ASSUME TypeOK, DeskTruth, [DeskNext]_deskVars, NEW c \in Callers,
                    Returns(c, ExitPCs), Honest(c), out'[c].status = "success",
                    req[c].percent = 100, "part_close" \notin Faults
             PROVE  pos'[Short(c)] = 0 /\ pos'[Long(c)] = 0
  OBVIOUS
<1>1. pc[c] # "idle" /\ pc'[c] = "idle"
  BY DEF Returns, ExitPCs
<1>2. ~misled[c] /\ FullClose(c) => Gone(c)
  BY DEF DeskTruth, FullInv, ClosedIsGone
<1>3. ASSUME NEW d \in Callers, Enter(d) \/ Exit(d) \/ Abort(d)
      PROVE  Enter(c) \/ Exit(c) \/ Abort(c)
  <2>1. [Next]_vars
    BY <1>3 DEF Next
  <2>2. QED
    BY <1>1, <2>1, ReturningStep
<1>4. ASSUME NEW w \in Watchers, Watch(w) PROVE FALSE
  <2>1. pc' = pc \/ PullsPair(w)
    BY <1>4 DEF Watch, Wakes, ReadsNext, NothingToDo, Logs, Forgets, FindsSolo, SoloCloses,
       Reports, vars
  <2>2. CASE PullsPair(w)
    <3>1. w \in Callers /\ pc' = [pc EXCEPT ![w] = "find_short"]
      BY <2>2 DEF PullsPair, Begin, Goto
    <3>2. QED
      BY <1>1, <3>1 DEF TypeOK, ControlTypeOK
  <2>3. QED
    BY <1>1, <2>1, <2>2
<1>5. Enter(c) \/ Exit(c) \/ Abort(c)
  <2>1. CASE UNCHANGED vars
    BY <1>1, <2>1 DEF vars
  <2>2. ASSUME NEW d \in Traders, Trades(d) PROVE Enter(c) \/ Exit(c) \/ Abort(c)
    <3>1. d \in Callers
      BY DeskAssumption
    <3>2. ~Forgets(d)
      BY <1>1 DEF Forgets
    <3>3. QED
      BY <1>3, <2>2, <3>1, <3>2 DEF Trades
  <2>3. ASSUME NEW d \in Guards \cup Protectors, Pulls(d) PROVE Enter(c) \/ Exit(c) \/ Abort(c)
    <3>1. d \in Callers /\ (Exit(d) \/ Abort(d))
      BY <2>3, DeskAssumption DEF Pulls, Exit
    <3>2. QED
      BY <1>3, <3>1
  <2>4. QED
    BY <1>4, <2>1, <2>2, <2>3 DEF DeskNext, PriceMoves, deskVars
<1>6. QED
  BY <1>2, <1>5, FlattensStep

\* With guards and protections beside the traders too, a close of the whole pair
\* that answers success has left nothing, if its orders fill and nobody touched
\* its legs.
THEOREM DeskCloseAllFlattens == DeskSpec => CloseAllFlattens
<1>1. DeskIInv /\ DeskTruth /\ [DeskNext]_deskVars =>
        [\A c \in Callers :
          Returns(c, ExitPCs) /\ Honest(c) /\ out'[c].status = "success"
            /\ req[c].percent = 100 /\ "part_close" \notin Faults
            => pos'[Short(c)] = 0 /\ pos'[Long(c)] = 0]_vars
  BY DeskFlattensStep DEF DeskIInv
<1>2. QED
  BY <1>1, DeskIInvHolds, DeskTruthHolds, PTL DEF DeskSpec, CloseAllFlattens

-----------------------------------------------------------------------------
\* A desk at rest is hedged.

\* The symbol is traded on one pair of exchanges.
OnePair == \E a, b \in Exchanges : a # b /\ Exchanges = {a, b}

\* Amounts so small that, within tolerance, they are equal.
SmallSizes == \A n \in Sizes : TolPct * n < 100
SmallPositions == \A e \in Exchanges : TolPct * Abs(pos[e]) < 100

Running(c) == pc[c] # "idle"

\* Some call will have to admit that it was deceived.
Deceived == \E c \in Callers : Running(c) /\ misled[c]

Traded(c) == pc[c] \in EnterPCs /\ (done[c].sold # 0 \/ done[c].bought # 0)

\* A call that may have traded one leg and not yet the other.
Underway(c) == Traded(c) \/ pc[c] \in {"close_long", "read_short_after", "read_long_after"}

Offset == \E e, f \in Exchanges : e # f /\ pos[e] + pos[f] # 0

Opposed ==
  \A e, f \in Exchanges : e # f =>
    (pos[e] > 0 => pos[f] <= 0) /\ (pos[e] < 0 => pos[f] >= 0)

\* The legs lie on opposite sides; what an entering call has traded is all that
\* they are apart; and if they are apart some call is to blame.
Accounted ==
  /\ Opposed
  /\ \A c \in Callers : Traded(c) =>
       pos[Short(c)] + pos[Long(c)] = done[c].bought - done[c].sold
  /\ Offset => \E c \in Callers : Underway(c)

\* A call trades no more than it was asked for.
Modest ==
  \A c \in Callers : pc[c] \in EnterPCs /\ ~misled[c] =>
    done[c].sold <= Size(c) /\ done[c].bought <= Size(c)

OneSided == (\A e \in Exchanges : pos[e] >= 0) \/ (\A e \in Exchanges : pos[e] <= 0)

\* The legs a guard that nobody overtook has yet to close have no hedge.
SolosTrue ==
  \A g \in Guards : tick[g] = "solo" /\ g \notin overtaken =>
    /\ \A i \in solo[g] : scan[g][i] = pos[Wired[i]] /\ scan[g][i] # 0
    /\ OneSided

Quiet == Modest /\ SolosTrue /\ (candid => Deceived \/ Accounted)

-----------------------------------------------------------------------------
LEMMA BothLegs ==
  ASSUME OnePair, TypeOK, NEW c \in Callers, Running(c)
  PROVE  /\ Short(c) \in Exchanges /\ Long(c) \in Exchanges /\ Short(c) # Long(c)
         /\ Exchanges = {Short(c), Long(c)}
BY CallType DEF OnePair, Running

\* A step that moves a position deceives every call it is not a step of.
LEMMA MovesDeceive ==
  ASSUME OnePair, TypeOK, NEW c \in Callers, Running(c), Undisturbed(c), pos' # pos,
         pos' \in [Exchanges -> Int]
  PROVE  Running(c)' /\ misled'[c]
<1>1. Exchanges = {Short(c), Long(c)} /\ pos \in [Exchanges -> Int]
  BY BothLegs DEF TypeOK, LedgerTypeOK
<1>2. ~(pos'[Short(c)] = pos[Short(c)] /\ pos'[Long(c)] = pos[Long(c)])
  BY <1>1
<1>3. QED
  BY <1>2 DEF Undisturbed, Running

LEMMA LessIsSmall ==
  ASSUME NEW t \in Nat, NEW m \in Nat, NEW n \in Nat, m <= n, t * n < 100
  PROVE  t * m < 100
<1>1. t * m <= t * n
  BY SMT
<1>2. t * m \in Int /\ t * n \in Int
  BY SMT
<1>3. QED
  BY <1>1, <1>2

\* Sizes are those that were asked for, floored.
LEMMA SizeBelow ==
  ASSUME SmallSizes, TypeOK, NEW c \in Callers, pc[c] \in EnterPCs
  PROVE  Size(c) \in Nat /\ TolPct * Size(c) < 100
<1>1. req[c] \in Enters
  BY DEF TypeOK, ControlTypeOK
<1>2. req[c].size \in Sizes /\ req[c].size \in Nat /\ req[c].legs \in Legs
  BY <1>1, RequestAssumption DEF Enters
<1>3. Short(c) \in Exchanges /\ Long(c) \in Exchanges
  BY <1>2 DEF Legs, Short, Long
<1>4. CommonStep(LotStep[Short(c)], LotStep[Long(c)]) \in Nat \ {0}
  BY <1>3, CommonStepType, ExchangesAssumption
<1>5. Size(c) \in Nat /\ Size(c) <= req[c].size
  BY <1>2, <1>4, FlooredBelow DEF Size, Harmonized
<1>6. TolPct \in Nat /\ TolPct * req[c].size < 100
  BY <1>2, SettingsAssumption DEF SmallSizes
<1>7. QED
  BY <1>2, <1>5, <1>6, LessIsSmall

\* Within tolerance small amounts are equal.
LEMMA SmallBalance ==
  ASSUME NEW s \in Nat, NEW l \in Nat, Balanced(s, l), TolPct * s < 100, TolPct * l < 100
  PROVE  s = l
<1>1. TolPct \in Nat
  BY SettingsAssumption
<1>2. Abs(s - l) * 100 < 100
  <2>1. Larger(s, l) \in {s, l}
    BY DEF Larger
  <2>2. TolPct * Larger(s, l) < 100
    BY <2>1
  <2>3. /\ Abs(s - l) \in Int /\ Larger(s, l) \in Nat
        /\ Abs(s - l) * 100 <= TolPct * Larger(s, l)
    BY DEF Balanced, Abs, Larger
  <2>4. TolPct * Larger(s, l) \in Int
    BY <1>1, <2>3, SMT
  <2>5. QED
    BY <2>2, <2>3, <2>4
<1>3. QED
  BY <1>2 DEF Abs

-----------------------------------------------------------------------------
LEMMA OvertakenKept ==
  ASSUME WatchTypeOK, DeskNext, NEW g \in Guards, tick'[g] = "solo", g \notin overtaken'
  PROVE  g \notin overtaken /\ (pos' = pos \/ tick[g] = "asleep" \/ solo'[g] # solo[g])
<1>1. g \in Watchers
  BY DEF Watchers
<1>2. QED
  BY <1>1 DEF DeskNext, Overtakes

LEMMA FindsTrue ==
  ASSUME TypeOK, WatchTypeOK, NEW g \in Guards, FindsSolo(g),
         \A i \in 1 .. Len(scan[g]) : scan[g][i] = pos[Wired[i]]
  PROVE  /\ OneSided'
         /\ \A i \in solo'[g] : scan'[g][i] = pos'[Wired[i]] /\ scan'[g][i] # 0
<1>1. /\ pos' = pos /\ scan' = scan /\ Len(scan[g]) = Len(Wired)
      /\ \E S \in SUBSET Entries(g) : solo' = [solo EXCEPT ![g] = S]
      /\ ShortEntries(g) = {} \/ LongEntries(g) = {}
  BY DEF FindsSolo, vars, HasRead, IsPair
<1>2. \A i \in 1 .. Len(Wired) : scan[g][i] = pos[Wired[i]] /\ pos[Wired[i]] \in Int
  BY <1>1, WiredType DEF TypeOK, LedgerTypeOK
<1>3. \A i \in solo'[g] : i \in Entries(g)
  BY <1>1 DEF WatchTypeOK
<1>4. OneSided
  <2>1. CASE ShortEntries(g) = {}
    <3>1. \A i \in 1 .. Len(Wired) : pos[Wired[i]] >= 0
      BY <1>2, <2>1 DEF ShortEntries, Entries
    <3>2. QED
      BY <3>1, DeskAssumption DEF OneSided
  <2>2. CASE LongEntries(g) = {}
    <3>1. \A i \in 1 .. Len(Wired) : pos[Wired[i]] <= 0
      BY <1>2, <2>2 DEF LongEntries, Entries
    <3>2. QED
      BY <3>1, DeskAssumption DEF OneSided
  <2>3. QED
    BY <1>1, <2>1, <2>2
<1>5. OneSided'
  BY <1>1, <1>4 DEF OneSided
<1>6. QED
  BY <1>1, <1>2, <1>3, <1>5 DEF Entries

LEMMA ReducesSided ==
  ASSUME TypeOK, OneSided, Reduces
  PROVE  OneSided'
<1>1. \A e \in Exchanges : pos[e] \in Int
  BY DEF TypeOK, LedgerTypeOK
<1>2. QED
  BY <1>1 DEF OneSided, Reduces

LEMMA SoloStaysTrue ==
  ASSUME TypeOK, WatchTypeOK, NEW g \in Guards, SoloCloses(g), OneSided,
         \A i \in solo[g] : scan[g][i] = pos[Wired[i]] /\ scan[g][i] # 0,
         tick'[g] = "solo"
  PROVE  /\ OneSided'
         /\ \A i \in solo'[g] : scan'[g][i] = pos'[Wired[i]] /\ scan'[g][i] # 0
<1>1. g \in Watchers /\ Watch(g)
  BY DEF Watchers, Watch
<1>2. OneSided'
  BY <1>1, WatchReduces, ReducesSided
<1>3. /\ First(solo[g]) \in solo[g] /\ SoloExchange(g) \in Exchanges
      /\ solo[g] \in SUBSET (1 .. Len(Wired))
  BY SoloLegType DEF WatchTypeOK
<1>4. solo'[g] = solo[g] \ {First(solo[g])} /\ (Sleeps(g) \/ UNCHANGED <<tick, scan>>)
  BY DEF SoloCloses, SoloDone, WatchTypeOK
<1>5. scan' = scan
  BY <1>1, <1>4 DEF Sleeps, WatchTypeOK
<1>6. \A e \in Exchanges : e # SoloExchange(g) => pos'[e] = pos[e]
  BY <1>3 DEF SoloCloses, Closes, Executes, TypeOK, LedgerTypeOK
<1>7. ASSUME NEW i \in solo'[g] PROVE scan'[g][i] = pos'[Wired[i]] /\ scan'[g][i] # 0
  <2>1. i \in solo[g] /\ i \in 1 .. Len(Wired) /\ i # First(solo[g])
    BY <1>3, <1>4
  <2>2. Wired[i] # SoloExchange(g) /\ Wired[i] \in Exchanges
    BY <1>3, <2>1, DeskAssumption, WiredType DEF SoloExchange
  <2>3. QED
    BY <1>5, <1>6, <2>1, <2>2
<1>8. QED
  BY <1>2, <1>7

LEMMA SolosStayTrue ==
  ASSUME TypeOK, WatchTypeOK, ScansTrue, SolosTrue, [DeskNext]_deskVars
  PROVE  SolosTrue'
<1>1. CASE UNCHANGED deskVars
  BY <1>1 DEF SolosTrue, OneSided, deskVars, vars, watching
<1>2. CASE DeskNext
  <2> SUFFICES ASSUME NEW g \in Guards, tick'[g] = "solo", g \notin overtaken'
               PROVE  /\ \A i \in solo'[g] : scan'[g][i] = pos'[Wired[i]] /\ scan'[g][i] # 0
                      /\ OneSided'
    BY DEF SolosTrue
  <2>1. g \in Watchers /\ WatcherStep(g)
    BY <1>2, WatcherSteps DEF Watchers
  <2>2. g \notin overtaken /\ (pos' = pos \/ tick[g] = "asleep" \/ solo'[g] # solo[g])
    BY <1>2, OvertakenKept
  <2>3. ~Reports(g)
    BY <2>1 DEF Reports, Sleeps, WatchTypeOK
  <2>4. CASE /\ tick'[g] = tick[g] \/ (tick[g] = "asleep" /\ tick'[g] = "reading")
             /\ scan'[g] = scan[g] /\ (g \in Guards => solo'[g] = solo[g])
    <3>1. tick[g] = "solo" /\ pos' = pos /\ solo'[g] = solo[g]
      BY <2>2, <2>4
    <3>2. QED
      BY <2>2, <2>4, <3>1 DEF SolosTrue, OneSided
  <2>5. CASE FindsSolo(g)
    <3>1. tick[g] = "reading"
      BY <2>5 DEF FindsSolo, HasRead
    <3>2. \A i \in 1 .. Len(scan[g]) : scan[g][i] = pos[Wired[i]]
      BY <2>1, <2>2, <3>1 DEF ScansTrue, ScanTrue
    <3>3. QED
      BY <2>5, <3>2, FindsTrue
  <2>6. CASE SoloCloses(g)
    <3>1. tick[g] = "solo"
      BY <2>6 DEF SoloCloses
    <3>2. OneSided /\ \A i \in solo[g] : scan[g][i] = pos[Wired[i]] /\ scan[g][i] # 0
      BY <2>2, <3>1 DEF SolosTrue
    <3>3. QED
      BY <2>6, <3>2, SoloStaysTrue
  <2>7. QED
    BY <2>1, <2>3, <2>4, <2>5, <2>6 DEF WatcherStep
<1>3. QED
  BY <1>1, <1>2

-----------------------------------------------------------------------------
\* A call that was deceived stays so until it returns.
LEMMA MisledStays ==
  ASSUME TypeOK, NEW c \in Callers, Running(c), misled[c], Enter(c) \/ Exit(c) \/ Abort(c)
  PROVE  misled'[c]
<1>1. misled \in [Callers -> BOOLEAN]
  BY DEF TypeOK, LedgerTypeOK
<1>2. ~StartEnter(c) /\ ~StartExit(c)
  BY DEF StartEnter, StartExit, Start, Running
<1>3. ASSUME NEW e, NEW seen, Reads(c, e, seen) PROVE misled'[c]
  BY <1>1, <1>3 DEF Reads
<1>4. ASSUME NEW e, NEW change, NEW deceived, Executes(c, e, change, deceived) PROVE misled'[c]
  BY <1>1, <1>4 DEF Executes
<1>5. ASSUME Refused PROVE misled'[c]
  BY <1>5 DEF Refused
<1>6. ASSUME NEW e, NEW leg, NEW ok, ClosesLeg(c, e, leg, ok) PROVE misled'[c]
  BY <1>4, <1>5, <1>6 DEF ClosesLeg, Closes
<1>7. CASE Enter(c)
  BY <1>2, <1>3, <1>4, <1>5, <1>7 DEF Enter, ReadBeforeShort, ShortFilled, ShortRaises,
     ReadAfterShort,
     ReadBeforeLong, LongFilled, LongRaises, ReadAfterLong, RollbackFind, RollbackClosed,
     RollbackRaises, Closes
<1>8. CASE Exit(c)
  BY <1>2, <1>3, <1>6, <1>8 DEF Exit, FindShort, FindLong, CloseShort, CloseLong, ReadShortAfter,
     ReadLongAfter
<1>9. CASE Abort(c)
  BY <1>9 DEF Abort
<1>10. QED
  BY <1>7, <1>8, <1>9

-----------------------------------------------------------------------------
\* A call that returns and admits nothing leaves the legs even.

LEMMA EnterEven ==
  ASSUME OnePair, SmallSizes, TypeOK, HonestCallsKnowTheirLegs, Modest, Accounted,
         [Next]_vars, NEW c \in Callers, Returns(c, EnterPCs), ~Admits(c)
  PROVE  pos' = pos /\ pos[Short(c)] + pos[Long(c)] = 0
<1>1. /\ pc[c] \in EnterPCs /\ Running(c) /\ pc'[c] = "idle"
      /\ ~misled'[c] /\ out'[c].status \in {"success", "failed"}
      /\ out'[c].status = "failed" => pos[Short(c)] = -pos[Long(c)]
  BY DEF Returns, Admits, EnterPCs, Running
<1>2. /\ Short(c) \in Exchanges /\ Long(c) \in Exchanges
      /\ pos[Short(c)] \in Int /\ pos[Long(c)] \in Int
  BY <1>1, BothLegs DEF TypeOK, LedgerTypeOK
<1>3. out'[c].status = "failed" => pos[Short(c)] + pos[Long(c)] = 0
  BY <1>1, <1>2
<1>4. ASSUME NEW reason, NEW s, NEW l, Return(c, Outcome("failed", reason, s, l))
      PROVE  pos[Short(c)] + pos[Long(c)] = 0
  BY <1>3, <1>4, ReturnOutcome
<1>5. CASE ShortRaises(c)
  <2>1. Size(c) \in Nat
    BY <1>1, CallType DEF Running
  <2>2. -Size(c) \in Int
    BY <2>1
  <2>3. pos' = pos
    <3>1. ~Executes(c, Short(c), -Size(c), TRUE)
      BY <1>1, <1>2, <2>2, DeceivedOrder
    <3>2. QED
      BY <1>5, <3>1 DEF ShortRaises, Refused
  <2>4. QED
    <3>1. Return(c, Outcome("failed", "short_leg_failed", 0, 0))
      BY <1>5 DEF ShortRaises, Failed
    <3>2. QED
      BY <1>4, <2>3, <3>1
<1>6. CASE LongRaises(c)
  <2>1. LongAmount(c) \in Nat
    BY <1>6, LongAmountType DEF LongRaises
  <2>2. LongAmount(c) \in Int
    BY <2>1
  <2>3. pos' = pos
    <3>1. ~Executes(c, Long(c), LongAmount(c), TRUE)
      BY <1>1, <1>2, <2>2, DeceivedOrder
    <3>2. QED
      BY <1>6, <3>1 DEF LongRaises, Refused
  <2>4. ~Remember(c, mem[c], "rollback_find")
    BY <1>1, OwnRemember
  <2>5. QED
    <3>1. Return(c, Outcome("failed", "unhedged", mem[c].filled, 0))
      BY <1>6, <2>4 DEF LongRaises
    <3>2. QED
      BY <1>4, <2>3, <3>1
<1>7. CASE ReadAfterLong(c)
  <2>1. PICK seen : Reads(c, Long(c), seen)
    BY <1>7 DEF ReadAfterLong
  <2>2. ~misled[c] /\ pos' = pos /\ done' = done
    BY <1>1, <2>1, OwnRead
  <2> DEFINE s == done[c].sold
             l == done[c].bought
  <2>3. out'[c].status = EnterStatus(s, l)
    BY <1>1, <1>7, <2>2, MeasuredReturn DEF HonestCallsKnowTheirLegs
  <2>4. s \in Nat /\ l \in Nat
    BY DEF TypeOK, LedgerTypeOK
  <2>5. s <= Size(c) /\ l <= Size(c)
    BY <1>1, <2>2 DEF Modest
  <2>6. Traded(c) => pos[Short(c)] + pos[Long(c)] = l - s
    BY DEF Accounted
  <2>7. s # 0 => Traded(c)
    BY <1>1 DEF Traded
  <2> HIDE DEF s, l
  <2>8. ASSUME out'[c].status = "success" PROVE pos[Short(c)] + pos[Long(c)] = 0
    <3>1. s > 0 /\ l > 0 /\ Balanced(s, l)
      BY <2>3, <2>8 DEF EnterStatus
    <3>2. TolPct * s < 100 /\ TolPct * l < 100
      BY <1>1, <2>4, <2>5, SizeBelow, LessIsSmall, SettingsAssumption
    <3>3. s = l
      BY <2>4, <3>1, <3>2, SmallBalance
    <3>4. QED
      BY <2>4, <2>6, <2>7, <3>1, <3>3
  <2>9. QED
    BY <1>1, <1>3, <2>2, <2>8
<1>8. CASE RollbackFind(c)
  <2>1. ASSUME NEW reason, NEW s, NEW l, Return(c, Outcome("rolled_back", reason, s, l))
        PROVE  FALSE
    BY <1>1, <2>1, ReturnOutcome
  <2>2. ASSUME NEW x, Remember(c, x, "rollback_close") PROVE FALSE
    BY <1>1, <2>2, OwnRemember
  <2>3. QED
    BY <1>8, <2>1, <2>2 DEF RollbackFind
<1>9. CASE RollbackClosed(c)
  <2>1. ASSUME NEW reason, NEW s, NEW l, Return(c, Outcome("rolled_back", reason, s, l))
        PROVE  FALSE
    BY <1>1, <2>1, ReturnOutcome
  <2>2. QED
    BY <1>9, <2>1 DEF RollbackClosed
<1>10. CASE RollbackRaises(c)
  <2> DEFINE n == RollbackAmount(c)
  <2>1. n \in Nat
    BY <1>10, RollbackAmountType DEF RollbackRaises
  <2> DEFINE change == IF mem[c].shortLeg < 0 THEN n ELSE -n
  <2>2. change \in Int
    BY <2>1
  <2>3. pos' = pos
    <3>1. ~Executes(c, Short(c), change, TRUE)
      BY <1>1, <1>2, <2>2, DeceivedOrder
    <3>2. QED
      BY <1>10, <3>1 DEF RollbackRaises, Refused, Closes
  <2>4. QED
    <3>1. Return(c, Outcome("failed", "unhedged", mem[c].filled, 0))
      BY <1>10 DEF RollbackRaises
    <3>2. QED
      BY <1>4, <2>3, <3>1
<1>11. CASE Abort(c)
  <2>1. ASSUME NEW reason, NEW s, NEW l, Return(c, Outcome("raised", reason, s, l))
        PROVE  FALSE
    BY <1>1, <2>1, ReturnOutcome
  <2>2. QED
    BY <1>11, <2>1 DEF Abort
<1>12. QED
  BY <1>5, <1>6, <1>7, <1>8, <1>9, <1>10, <1>11, EnterReturns

LEMMA ExitEven ==
  ASSUME OnePair, SmallPositions, TypeOK, HonestCallsKnowTheirLegs, Accounted,
         [Next]_vars, NEW c \in Callers, Returns(c, ExitPCs), ~Admits(c)
  PROVE  pos' = pos /\ pos[Short(c)] + pos[Long(c)] = 0
<1>1. /\ pc[c] \in ExitPCs /\ pc[c] \notin EnterPCs /\ Running(c) /\ pc'[c] = "idle"
      /\ ~misled'[c] /\ out'[c].status \in {"success", "failed"}
      /\ out'[c].status = "failed" => pos[Short(c)] = -pos[Long(c)]
  BY DEF Returns, Admits, EnterPCs, ExitPCs, Running
<1>2. /\ Short(c) \in Exchanges /\ Long(c) \in Exchanges /\ Short(c) # Long(c)
      /\ pos[Short(c)] \in Int /\ pos[Long(c)] \in Int
  BY <1>1, BothLegs DEF TypeOK, LedgerTypeOK
<1>3. ASSUME NEW x, NEW label, Remember(c, x, label) PROVE label = "idle"
  BY <1>1, <1>3, OwnRemember
<1>4. Enter(c) \/ Exit(c) \/ Abort(c)
  BY <1>1, ReturningStep DEF Running
<1>5. ~Enter(c)
  BY <1>1 DEF Enter, StartEnter, Start, ReadBeforeShort, ShortFilled, ShortRaises, Running,
     ReadAfterShort, ReadBeforeLong, LongFilled, LongRaises, ReadAfterLong, RollbackFind,
     RollbackClosed, RollbackRaises, EnterPCs
<1>6. ~Abort(c)
  <2>1. ASSUME NEW reason, NEW s, NEW l, Return(c, Outcome("raised", reason, s, l))
        PROVE  FALSE
    BY <1>1, <2>1, ReturnOutcome
  <2>2. QED
    BY <2>1 DEF Abort
<1>7. FindLong(c) \/ ReadLongAfter(c)
  BY <1>1, <1>3, <1>4, <1>5, <1>6
  DEF Exit, StartExit, Start, Running, FindShort, CloseShort, CloseLong, ReadShortAfter
<1>8. pos' = pos
  BY <1>7 DEF FindLong, ReadLongAfter, Reads
<1>9. ASSUME out'[c].status = "success" PROVE pos[Short(c)] + pos[Long(c)] = 0
  <2>1. Balanced(Abs(pos[Short(c)]), Abs(pos[Long(c)]))
    BY <1>1, <1>8, <1>9, ExitStep DEF Honest, Returns
  <2>2. Abs(pos[Short(c)]) \in Nat /\ Abs(pos[Long(c)]) \in Nat
    BY <1>2 DEF Abs
  <2>3. Abs(pos[Short(c)]) = Abs(pos[Long(c)])
    BY <1>2, <2>1, <2>2, SmallBalance DEF SmallPositions
  <2>4. /\ pos[Short(c)] > 0 => pos[Long(c)] <= 0
        /\ pos[Short(c)] < 0 => pos[Long(c)] >= 0
    BY <1>2 DEF Accounted, Opposed
  <2>5. QED
    BY <1>2, <2>3, <2>4 DEF Abs
<1>10. QED
  BY <1>1, <1>2, <1>8, <1>9

-----------------------------------------------------------------------------
\* A call that goes on keeps the account of the legs.

\* What a step does to the account when it moves nothing.
LEMMA NothingMoved ==
  ASSUME Accounted, pos' = pos, NEW c \in Callers,
         \A d \in Callers \ {c} : Undisturbed(d),
         Traded(c)' => Traded(c) /\ done'[c] = done[c] /\ req'[c] = req[c],
         Underway(c) => Underway(c)'
  PROVE  Accounted'
<1>1. ASSUME NEW d \in Callers \ {c}
      PROVE  /\ Traded(d)' <=> Traded(d)
             /\ Underway(d)' <=> Underway(d)
             /\ done'[d] = done[d] /\ req'[d] = req[d]
  BY DEF Undisturbed, Traded, Underway
<1>2. ASSUME NEW d \in Callers, Traded(d)'
      PROVE  pos'[Short(d)'] + pos'[Long(d)'] = done'[d].bought - done'[d].sold
  <2>1. Traded(d) /\ done'[d] = done[d] /\ req'[d] = req[d]
    BY <1>1, <1>2
  <2>2. QED
    BY <2>1 DEF Accounted, Short, Long
<1>3. Opposed'
  BY DEF Accounted, Opposed
<1>4. Offset' => \E d \in Callers : Underway(d)'
  BY <1>1 DEF Accounted, Offset
<1>5. QED
  BY <1>2, <1>3, <1>4 DEF Accounted

\* A step that moves a position while every other call rests.
LEMMA OwnMove ==
  ASSUME NEW c \in Callers, \A d \in Callers \ {c} : Undisturbed(d) /\ ~Running(d),
         Opposed', Underway(c)',
         Traded(c)' => pos'[Short(c)'] + pos'[Long(c)'] = done'[c].bought - done'[c].sold
  PROVE  Accounted'
<1>1. ASSUME NEW d \in Callers \ {c} PROVE ~Traded(d)'
  BY DEF Undisturbed, Traded, Running, EnterPCs
<1>2. QED
  BY <1>1 DEF Accounted

\* The other calls rest when a step moves a position and deceives nobody who runs.
LEMMA OthersRest ==
  ASSUME OnePair, TypeOK, TypeOK', ~Deceived', pos' # pos, NEW c \in Callers,
         \A d \in Callers \ {c} : Undisturbed(d)
  PROVE  \A d \in Callers \ {c} : Undisturbed(d) /\ ~Running(d)
BY MovesDeceive DEF Deceived, TypeOK, LedgerTypeOK

\* Alone and before its first order, a call finds the legs even.
LEMMA EvenBefore ==
  ASSUME OnePair, TypeOK, Accounted, NEW c \in Callers, ~Underway(c), Running(c),
         \A d \in Callers \ {c} : ~Running(d)
  PROVE  pos[Short(c)] + pos[Long(c)] = 0
<1>1. ASSUME NEW d \in Callers PROVE ~Underway(d)
  BY DEF Underway, Traded, Running, EnterPCs
<1>2. ~Offset
  BY <1>1 DEF Accounted
<1>3. QED
  BY <1>2, BothLegs DEF Offset

LEMMA LooksOn ==
  ASSUME OnePair, TypeOK, Accounted, NEW c \in Callers, Running(c), ~misled'[c], Running(c)',
         \A d \in Callers \ {c} : Undisturbed(d),
         \/ ReadBeforeShort(c) \/ ReadAfterShort(c) \/ ReadBeforeLong(c) \/ RollbackFind(c)
         \/ LongRaises(c) \/ FindShort(c) \/ FindLong(c) \/ ReadShortAfter(c)
  PROVE  Accounted'
<1>1. ASSUME NEW x, Return(c, x) PROVE FALSE
  BY <1>1, OwnReturn DEF Running
<1>2. ASSUME NEW x, NEW label, Remember(c, x, label)
      PROVE  pc'[c] = label /\ req'[c] = req[c]
  BY <1>2, OwnRemember DEF Remember
<1>3. ASSUME NEW e, NEW seen, Reads(c, e, seen) PROVE pos' = pos /\ done' = done
  BY <1>3 DEF Reads
<1>4. CASE ReadBeforeShort(c) \/ ReadAfterShort(c) \/ ReadBeforeLong(c) \/ RollbackFind(c)
  <2>1. pos' = pos /\ done' = done
    BY <1>3, <1>4 DEF ReadBeforeShort, ReadAfterShort, ReadBeforeLong, RollbackFind
  <2>2. pc[c] \in EnterPCs /\ pc'[c] \in EnterPCs /\ req'[c] = req[c]
    BY <1>1, <1>2, <1>4
    DEF ReadBeforeShort, ReadAfterShort, ReadBeforeLong, RollbackFind, EnterPCs
  <2>3. /\ Traded(c)' => Traded(c)
        /\ Underway(c) => Underway(c)'
    BY <2>1, <2>2 DEF Traded, Underway, EnterPCs
  <2>4. QED
    BY <2>1, <2>2, <2>3, NothingMoved
<1>5. CASE LongRaises(c)
  <2>1. LongAmount(c) \in Int /\ Long(c) \in Exchanges
    BY <1>5, LongAmountType DEF LongRaises
  <2>2. ~Executes(c, Long(c), LongAmount(c), TRUE)
    BY <2>1, DeceivedOrder
  <2>3. pos' = pos /\ done' = done
    BY <1>5, <2>2 DEF LongRaises, Refused
  <2>4. pc[c] = "send_long" /\ pc'[c] = "rollback_find" /\ req'[c] = req[c]
    BY <1>1, <1>2, <1>5 DEF LongRaises
  <2>5. /\ Traded(c)' => Traded(c)
        /\ Underway(c) => Underway(c)'
    BY <2>3, <2>4 DEF Traded, Underway, EnterPCs
  <2>6. QED
    BY <2>3, <2>4, <2>5, NothingMoved
<1>6. CASE FindShort(c) \/ FindLong(c) \/ ReadShortAfter(c)
  <2>1. pos' = pos
    BY <1>3, <1>6 DEF FindShort, FindLong, ReadShortAfter
  <2>2. /\ pc[c] \in {"find_short", "find_long", "read_short_after"}
        /\ pc'[c] \in {"find_long", "close_short", "read_long_after"}
        /\ pc[c] = "read_short_after" => pc'[c] = "read_long_after"
    BY <1>1, <1>2, <1>6 DEF FindShort, FindLong, ReadShortAfter
  <2>3. /\ ~Traded(c)'
        /\ Underway(c) => Underway(c)'
    BY <2>2 DEF Traded, Underway, EnterPCs
  <2>4. QED
    BY <2>1, <2>3, NothingMoved
<1>7. QED
  BY <1>4, <1>5, <1>6

\* An order that does not turn the position around.
LEMMA OwnOrderSide ==
  ASSUME TypeOK, NEW c \in Callers, NEW e \in Exchanges, NEW change \in Int,
         NEW deceived \in BOOLEAN, Executes(c, e, change, deceived), ~misled'[c]
  PROVE  ~(pos[e] < 0 /\ pos'[e] > 0) /\ ~(pos[e] > 0 /\ pos'[e] < 0)
<1>1. misled'[c] = (\/ misled[c]
                    \/ c = c /\ (deceived \/ Crosses(pos[e], change))
                    \/ c # c /\ change # 0 /\ pc[c] # "idle" /\ e \in {Short(c), Long(c)})
  BY Zenon DEF Executes
<1>2. ~Crosses(pos[e], change)
  BY <1>1
<1>3. pos'[e] = pos[e] + change
  BY OwnOrder
<1>4. QED
  BY <1>2, <1>3 DEF Crosses

LEMMA SellsOn ==
  ASSUME OnePair, TypeOK, TypeOK', HonestCallsKnowTheirLegs, Accounted, ~Deceived',
         NEW c \in Callers, ~misled'[c], ShortFilled(c),
         \A d \in Callers \ {c} : Undisturbed(d)
  PROVE  Accounted'
<1>1. pc[c] = "send_short" /\ Running(c)
  BY DEF ShortFilled, Running
<1>2. /\ Short(c) \in Exchanges /\ Long(c) \in Exchanges /\ Short(c) # Long(c)
      /\ Exchanges = {Short(c), Long(c)} /\ Size(c) \in Nat
      /\ pos \in [Exchanges -> Int] /\ pos' \in [Exchanges -> Int]
  BY <1>1, BothLegs, CallType DEF EnterPCs, Running, TypeOK, LedgerTypeOK
<1>3. PICK k \in Lots(Size(c), Short(c), "part_open") :
        /\ Executes(c, Short(c), -k, FALSE)
        /\ done' = [done EXCEPT ![c].sold = k]
        /\ Remember(c, mem[c], "read_after_short")
  BY DEF ShortFilled
<1>4. k \in Nat /\ -k \in Int
  BY <1>2, LotsType
<1>5. /\ ~misled[c] /\ pos'[Short(c)] = pos[Short(c)] + -k /\ pos'[Long(c)] = pos[Long(c)]
      /\ ~(pos[Short(c)] < 0 /\ pos'[Short(c)] > 0)
      /\ ~(pos[Short(c)] > 0 /\ pos'[Short(c)] < 0)
  BY <1>2, <1>3, <1>4, OwnOrder, OwnOrderSide
<1>6. /\ pc'[c] = "read_after_short" /\ req'[c] = req[c]
      /\ Short(c)' = Short(c) /\ Long(c)' = Long(c)
  BY <1>3, OwnRemember DEF Remember
<1>7. done[c].sold = 0 /\ done[c].bought = 0
  BY <1>1, <1>5 DEF HonestCallsKnowTheirLegs, LocalsTrue, NothingTraded
<1>8. done'[c].sold = k /\ done'[c].bought = 0
  BY <1>3, <1>7 DEF TypeOK, LedgerTypeOK
<1>9. ~Underway(c)
  BY <1>1, <1>7 DEF Underway, Traded
<1>10. CASE k = 0
  <2>1. pos' = pos
    BY <1>2, <1>5, <1>10
  <2>2. ~Traded(c)'
    BY <1>8, <1>10 DEF Traded
  <2>3. QED
    BY <1>9, <2>1, <2>2, NothingMoved
<1>11. CASE k # 0
  <2>1. pos' # pos
    BY <1>2, <1>4, <1>5, <1>11
  <2>2. \A d \in Callers \ {c} : Undisturbed(d) /\ ~Running(d)
    BY <2>1, OthersRest
  <2>3. pos[Short(c)] + pos[Long(c)] = 0
    BY <1>1, <1>9, <2>2, EvenBefore
  <2>4. Underway(c)'
    BY <1>6, <1>8, <1>11 DEF Underway, Traded, EnterPCs
  <2>5. Opposed'
    <3>1. /\ pos'[Short(c)] > 0 => pos'[Long(c)] <= 0
          /\ pos'[Short(c)] < 0 => pos'[Long(c)] >= 0
      BY <1>2, <1>4, <1>5, <2>3
    <3>2. QED
      BY <1>2, <3>1 DEF Opposed
  <2>6. pos'[Short(c)'] + pos'[Long(c)'] = done'[c].bought - done'[c].sold
    BY <1>2, <1>4, <1>5, <1>6, <1>8, <2>3
  <2>7. QED
    BY <2>2, <2>4, <2>5, <2>6, OwnMove
<1>12. QED
  BY <1>10, <1>11

LEMMA BuysOn ==
  ASSUME OnePair, TypeOK, TypeOK', HonestCallsKnowTheirLegs, Accounted, ~Deceived',
         NEW c \in Callers, ~misled'[c], LongFilled(c),
         \A d \in Callers \ {c} : Undisturbed(d)
  PROVE  Accounted'
<1>1. pc[c] = "send_long" /\ Running(c)
  BY DEF LongFilled, Running
<1>2. /\ Short(c) \in Exchanges /\ Long(c) \in Exchanges /\ Short(c) # Long(c)
      /\ Exchanges = {Short(c), Long(c)} /\ LongAmount(c) \in Nat
      /\ pos \in [Exchanges -> Int] /\ pos' \in [Exchanges -> Int]
  BY <1>1, BothLegs, LongAmountType DEF TypeOK, LedgerTypeOK
<1>3. PICK k \in Lots(LongAmount(c), Long(c), "part_open") :
        /\ Executes(c, Long(c), k, FALSE)
        /\ done' = [done EXCEPT ![c].bought = k]
        /\ Remember(c, mem[c], "read_after_long")
  BY DEF LongFilled
<1>4. k \in Nat /\ k \in Int
  BY <1>2, LotsType
<1>5. /\ ~misled[c] /\ pos'[Long(c)] = pos[Long(c)] + k /\ pos'[Short(c)] = pos[Short(c)]
      /\ ~(pos[Long(c)] < 0 /\ pos'[Long(c)] > 0)
      /\ ~(pos[Long(c)] > 0 /\ pos'[Long(c)] < 0)
  BY <1>2, <1>3, <1>4, OwnOrder, OwnOrderSide
<1>6. /\ pc'[c] = "read_after_long" /\ req'[c] = req[c]
      /\ Short(c)' = Short(c) /\ Long(c)' = Long(c)
  BY <1>3, OwnRemember DEF Remember
<1>7. done[c].sold \in Nat /\ done[c].bought = 0
  BY <1>1, <1>5 DEF HonestCallsKnowTheirLegs, LocalsTrue, TypeOK, LedgerTypeOK
<1>8. done'[c].sold = done[c].sold /\ done'[c].bought = k
  BY <1>3 DEF TypeOK, LedgerTypeOK
<1>9. CASE k = 0
  <2>1. pos' = pos
    BY <1>2, <1>5, <1>9
  <2>2. done' = done
    BY <1>3, <1>7, <1>9 DEF TypeOK, LedgerTypeOK
  <2>3. (Traded(c)' => Traded(c)) /\ (Underway(c) => Underway(c)')
    BY <1>1, <1>6, <2>2 DEF Traded, Underway, EnterPCs
  <2>4. QED
    BY <1>6, <2>1, <2>2, <2>3, NothingMoved
<1>10. CASE k # 0
  <2>1. pos' # pos
    BY <1>2, <1>4, <1>5, <1>10
  <2>2. \A d \in Callers \ {c} : Undisturbed(d) /\ ~Running(d)
    BY <2>1, OthersRest
  <2>3. pos[Short(c)] + pos[Long(c)] = -done[c].sold
    <3>1. CASE Traded(c)
      <4>1. pos[Short(c)] + pos[Long(c)] = done[c].bought - done[c].sold
        BY <3>1 DEF Accounted
      <4>2. QED
        BY <1>2, <1>7, <4>1
    <3>2. CASE ~Traded(c)
      <4>1. ~Underway(c) /\ done[c].sold = 0
        BY <1>1, <3>2 DEF Underway, Traded, EnterPCs
      <4>2. pos[Short(c)] + pos[Long(c)] = 0
        BY <1>1, <2>2, <4>1, EvenBefore
      <4>3. QED
        BY <4>1, <4>2
    <3>3. QED
      BY <3>1, <3>2
  <2>4. Underway(c)'
    BY <1>6, <1>8, <1>10 DEF Underway, Traded, EnterPCs
  <2>5. Opposed'
    <3>0. /\ pos[Short(c)] > 0 => pos[Long(c)] <= 0
          /\ pos[Long(c)] > 0 => pos[Short(c)] <= 0
          /\ pos[Long(c)] < 0 => pos[Short(c)] >= 0
      BY <1>2 DEF Accounted, Opposed
    <3>1. /\ pos'[Long(c)] > 0 => pos'[Short(c)] <= 0
          /\ pos'[Long(c)] < 0 => pos'[Short(c)] >= 0
      BY <1>2, <1>4, <1>5, <1>7, <2>3, <3>0
    <3>2. QED
      BY <1>2, <3>1 DEF Opposed
  <2>6. pos'[Short(c)'] + pos'[Long(c)'] = done'[c].bought - done'[c].sold
    BY <1>2, <1>4, <1>5, <1>6, <1>7, <1>8, <2>3
  <2>7. QED
    BY <2>2, <2>4, <2>5, <2>6, OwnMove
<1>11. QED
  BY <1>9, <1>10

LEMMA ClosesOn ==
  ASSUME OnePair, TypeOK, TypeOK', Accounted, ~Deceived',
         NEW c \in Callers, CloseShort(c) \/ CloseLong(c),
         \A d \in Callers \ {c} : Undisturbed(d)
  PROVE  Accounted'
<1>1. pc[c] \in {"close_short", "close_long"} /\ pc[c] \in ExitPCs
  BY DEF CloseShort, CloseLong, ExitPCs
<1>2. pc'[c] \in {"close_long", "read_short_after"}
  BY OwnRemember DEF CloseShort, CloseLong
<1>3. ~Traded(c)' /\ Underway(c)'
  BY <1>2 DEF Traded, Underway, EnterPCs
<1>4. CASE pos' = pos
  BY <1>3, <1>4, NothingMoved
<1>5. CASE pos' # pos
  <2>1. \A d \in Callers \ {c} : Undisturbed(d) /\ ~Running(d)
    BY <1>5, OthersRest
  <2>2. Reduces
    BY OrdersReduce
  <2>3. Opposed'
    <3>1. pos \in [Exchanges -> Int]
      BY DEF TypeOK, LedgerTypeOK
    <3>2. QED
      BY <2>2, <3>1 DEF Accounted, Opposed, Reduces
  <2>4. QED
    BY <1>3, <2>1, <2>3, OwnMove
<1>6. QED
  BY <1>4, <1>5

\* A call that returns from even legs leaves them so.
LEMMA EvenReturn ==
  ASSUME OnePair, TypeOK, Accounted, NEW c \in Callers, Running(c), pc'[c] = "idle",
         pos' = pos, pos[Short(c)] + pos[Long(c)] = 0,
         \A d \in Callers \ {c} : Undisturbed(d)
  PROVE  Accounted'
<1>1. ASSUME NEW d \in Callers, Traded(d)'
      PROVE  Traded(d) /\ done'[d] = done[d] /\ req'[d] = req[d]
  BY <1>1 DEF Undisturbed, Traded, EnterPCs
<1>2. ASSUME NEW d \in Callers, Traded(d)'
      PROVE  pos'[Short(d)'] + pos'[Long(d)'] = done'[d].bought - done'[d].sold
  <2>1. Traded(d) /\ done'[d] = done[d] /\ req'[d] = req[d]
    BY <1>1, <1>2
  <2>2. QED
    BY <2>1 DEF Accounted, Short, Long
<1>3. Opposed'
  BY DEF Accounted, Opposed
<1>4. ~Offset'
  <2>1. pos \in [Exchanges -> Int]
    BY DEF TypeOK, LedgerTypeOK
  <2>2. QED
    BY <2>1, BothLegs DEF Offset
<1>5. QED
  BY <1>2, <1>3, <1>4 DEF Accounted

LEMMA StartsOn ==
  ASSUME TypeOK, Accounted, NEW c \in Callers, StartEnter(c) \/ StartExit(c),
         \A d \in Callers \ {c} : Undisturbed(d)
  PROVE  Accounted'
<1>1. /\ pc[c] = "idle" /\ pos' = pos
      /\ done' = [done EXCEPT ![c] = [sold |-> 0, bought |-> 0, undone |-> 0]]
  BY DEF StartEnter, StartExit, Start
<1>2. done'[c].sold = 0 /\ done'[c].bought = 0
  BY <1>1 DEF TypeOK, LedgerTypeOK
<1>3. ~Traded(c)' /\ ~Underway(c)
  BY <1>1, <1>2 DEF Traded, Underway, EnterPCs
<1>4. QED
  BY <1>1, <1>3, NothingMoved

LEMMA CallKeepsAccount ==
  ASSUME OnePair, SmallSizes, SmallPositions, TypeOK, TypeOK', HonestCallsKnowTheirLegs,
         Modest, Accounted, NEW c \in Callers, Enter(c) \/ Exit(c) \/ Abort(c),
         ~Admits(c), ~Deceived', \A d \in Callers \ {c} : Undisturbed(d)
  PROVE  Accounted'
<1>1. CASE pc[c] = "idle"
  <2>1. StartEnter(c) \/ StartExit(c)
    BY <1>1 DEF Enter, Exit, Abort, ReadBeforeShort, ShortFilled, ShortRaises, ReadAfterShort,
       ReadBeforeLong, LongFilled, LongRaises, ReadAfterLong, RollbackFind, RollbackClosed,
       RollbackRaises, FindShort, FindLong, CloseShort, CloseLong, ReadShortAfter, ReadLongAfter
  <2>2. QED
    BY <2>1, StartsOn
<1>2. CASE Running(c) /\ pc'[c] = "idle"
  <2>1. Returns(c, EnterPCs) \/ Returns(c, ExitPCs)
    BY <1>2 DEF Returns, Running, TypeOK, ControlTypeOK
  <2>2. [Next]_vars
    BY DEF Next
  <2>3. pos' = pos /\ pos[Short(c)] + pos[Long(c)] = 0
    BY <2>1, <2>2, EnterEven, ExitEven
  <2>4. QED
    BY <1>2, <2>3, EvenReturn
<1>3. CASE Running(c) /\ Running(c)'
  <2>1. ~misled'[c]
    BY <1>3 DEF Deceived
  <2>2. ASSUME NEW x, Return(c, x) PROVE FALSE
    BY <1>3, <2>2, OwnReturn DEF Running
  <2>3. /\ ~StartEnter(c) /\ ~StartExit(c) /\ ~ShortRaises(c) /\ ~ReadAfterLong(c)
        /\ ~RollbackClosed(c) /\ ~RollbackRaises(c) /\ ~ReadLongAfter(c) /\ ~Abort(c)
    BY <1>3, <2>2 DEF Running, StartEnter, StartExit, Start, ShortRaises, ReadAfterLong,
       RollbackClosed, RollbackRaises, ReadLongAfter, Abort
  <2>4. QED
    BY <1>3, <2>1, <2>3, LooksOn, SellsOn, BuysOn, ClosesOn DEF Enter, Exit
<1>4. QED
  BY <1>1, <1>2, <1>3 DEF Running

-----------------------------------------------------------------------------
\* What a call has traded is no more than it was asked for.

LEMMA OthersModest ==
  ASSUME NEW d \in Callers, Undisturbed(d),
         pc[d] \in EnterPCs /\ ~misled[d] => done[d].sold <= Size(d) /\ done[d].bought <= Size(d)
  PROVE  pc'[d] \in EnterPCs /\ ~misled'[d] =>
           done'[d].sold <= Size(d)' /\ done'[d].bought <= Size(d)'
BY DEF Undisturbed, Size, Short, Long

LEMMA RemembersModest ==
  ASSUME TypeOK, TypeOK', NEW c \in Callers, NEW x, NEW label, Remember(c, x, label),
         done'[c].sold <= Size(c), done'[c].bought <= Size(c)
  PROVE  done'[c].sold <= Size(c)' /\ done'[c].bought <= Size(c)'
<1>1. Size(c)' = Size(c)
  BY OwnRemember DEF Remember, Size
<1>2. QED
  BY <1>1

LEMMA EntersSize ==
  ASSUME NEW r \in Enters
  PROVE  Harmonized(r.size, r.legs[1], r.legs[2]) \in Nat
BY HarmonizedType, RequestAssumption DEF Enters, Legs

LEMMA CallModest ==
  ASSUME TypeOK, TypeOK', HonestCallsKnowTheirLegs, NEW c \in Callers,
         pc[c] \in EnterPCs /\ ~misled[c] => done[c].sold <= Size(c) /\ done[c].bought <= Size(c),
         Enter(c) \/ Exit(c) \/ Abort(c), pc'[c] \in EnterPCs, ~misled'[c]
  PROVE  done'[c].sold <= Size(c)' /\ done'[c].bought <= Size(c)'
<1>1. ASSUME NEW x, Return(c, x) PROVE FALSE
  BY <1>1, OwnReturn DEF EnterPCs
<1>2. ASSUME NEW x, NEW label, Remember(c, x, label) PROVE label \in EnterPCs
  BY <1>2, OwnRemember
<1>3. CASE pc[c] = "idle"
  <2>1. StartEnter(c) \/ StartExit(c)
    BY <1>3 DEF Enter, Exit, Abort, ReadBeforeShort, ShortFilled, ShortRaises, ReadAfterShort,
       ReadBeforeLong, LongFilled, LongRaises, ReadAfterLong, RollbackFind, RollbackClosed,
       RollbackRaises, FindShort, FindLong, CloseShort, CloseLong, ReadShortAfter, ReadLongAfter
  <2>2. done' = [done EXCEPT ![c] = [sold |-> 0, bought |-> 0, undone |-> 0]]
    BY <2>1 DEF StartEnter, StartExit, Start
  <2>3. done'[c].sold = 0 /\ done'[c].bought = 0
    BY <2>2 DEF TypeOK, LedgerTypeOK
  <2>4. Size(c)' \in Nat
    <3>1. req'[c] \in Enters
      BY DEF TypeOK, ControlTypeOK
    <3>2. QED
      BY <3>1, EntersSize DEF Size, Short, Long
  <2>5. QED
    BY <2>3, <2>4
<1>4. CASE pc[c] \in ExitPCs
  <2>1. pc'[c] \in ExitPCs \cup {"idle"}
    BY <1>1, <1>2, <1>4, OwnRemember DEF Enter, Exit, Abort, StartEnter, StartExit, Start,
       ReadBeforeShort, ShortFilled, ShortRaises, ReadAfterShort,
       ReadBeforeLong, LongFilled, LongRaises, ReadAfterLong, RollbackFind, RollbackClosed,
       RollbackRaises, FindShort, FindLong, CloseShort, CloseLong, ReadShortAfter, ReadLongAfter,
       EnterPCs, ExitPCs
  <2>2. QED
    BY <2>1 DEF EnterPCs, ExitPCs
<1>5. CASE pc[c] \in EnterPCs
  <2>1. ~StartEnter(c) /\ ~Exit(c) /\ ~Abort(c) /\ ~ShortRaises(c) /\ ~ReadAfterLong(c)
        /\ ~RollbackClosed(c) /\ ~RollbackRaises(c)
    BY <1>1, <1>5 DEF StartEnter, StartExit, Start, Exit, Abort, ShortRaises, ReadAfterLong,
       RollbackClosed, RollbackRaises, FindShort, FindLong, CloseShort, CloseLong,
       ReadShortAfter, ReadLongAfter, EnterPCs
  <2>2. ~misled[c]
    BY <1>5, MisledStays DEF Running, EnterPCs
  <2>3. /\ done[c].sold <= Size(c) /\ done[c].bought <= Size(c)
        /\ Size(c) \in Nat /\ Short(c) \in Exchanges
    BY <1>5, <2>2, CallType DEF EnterPCs
  <2>4. \E x, label : Remember(c, x, label)
    BY <1>1, <2>1 DEF Enter, ReadBeforeShort, ShortFilled, ReadAfterShort, ReadBeforeLong,
       LongFilled, LongRaises, RollbackFind
  <2>5. CASE done' = done
    BY <2>3, <2>4, <2>5, RemembersModest
  <2>6. CASE ShortFilled(c)
    <3>1. PICK k \in Lots(Size(c), Short(c), "part_open") : done' = [done EXCEPT ![c].sold = k]
      BY <2>6 DEF ShortFilled
    <3>2. k <= Size(c)
      BY <2>3, LotsType
    <3>3. done'[c].sold = k /\ done'[c].bought = done[c].bought
      BY <3>1 DEF TypeOK, LedgerTypeOK
    <3>4. QED
      BY <2>3, <2>4, <3>2, <3>3, RemembersModest
  <2>7. CASE LongFilled(c) \/ LongRaises(c)
    <3>0. pc[c] = "send_long"
      BY <2>7 DEF LongFilled, LongRaises
    <3>1. LongAmount(c) \in Nat /\ Long(c) \in Exchanges /\ LongAmount(c) \in Int
      BY <3>0, LongAmountType
    <3>2. mem[c].filled = done[c].sold /\ mem[c].filled \in Nat
      BY <2>2, <3>0 DEF HonestCallsKnowTheirLegs, LocalsTrue, ShortMeasured, TypeOK,
         ControlTypeOK, Locals
    <3>3. LongAmount(c) <= Size(c)
      <4>1. Floored(mem[c].filled, LotStep[Long(c)]) \in Nat
            /\ Floored(mem[c].filled, LotStep[Long(c)]) <= mem[c].filled
        BY <3>1, <3>2, FlooredBelow, ExchangesAssumption
      <4>2. QED
        BY <2>3, <3>2, <4>1 DEF LongAmount
    <3>4. CASE LongFilled(c)
      <4>1. PICK k \in Lots(LongAmount(c), Long(c), "part_open") :
              done' = [done EXCEPT ![c].bought = k]
        BY <3>4 DEF LongFilled
      <4>2. k \in Nat /\ k <= LongAmount(c)
        BY <3>1, LotsType
      <4>3. done'[c].sold = done[c].sold /\ done'[c].bought = k
        BY <4>1 DEF TypeOK, LedgerTypeOK
      <4>4. QED
        BY <2>3, <2>4, <3>1, <3>3, <4>2, <4>3, RemembersModest
    <3>5. CASE LongRaises(c)
      <4>1. ~Executes(c, Long(c), LongAmount(c), TRUE)
        BY <3>1, DeceivedOrder
      <4>2. done' = done
        BY <3>5, <4>1 DEF LongRaises, Refused
      <4>3. QED
        BY <2>5, <4>2
    <3>6. QED
      BY <2>7, <3>4, <3>5
  <2>8. QED
    BY <2>1, <2>5, <2>6, <2>7 DEF Enter, ReadBeforeShort, ReadAfterShort, ReadBeforeLong,
       RollbackFind, Reads
<1>6. QED
  BY <1>3, <1>4, <1>5 DEF TypeOK, ControlTypeOK

-----------------------------------------------------------------------------
\* The steps of the desk, as the calls see them.

\* A call that is not running is begun or forgotten.
Apart(c) ==
  /\ pos' = pos /\ ~Running(c) /\ pc'[c] \notin EnterPCs
  /\ \A d \in Callers \ {c} : Undisturbed(d)

CallSteps(c) ==
  /\ Enter(c) \/ Exit(c) \/ Abort(c)
  /\ \A d \in Callers \ {c} : Undisturbed(d)

LEMMA ForgetsApart ==
  ASSUME TypeOK, NEW c \in Callers, Forgets(c)
  PROVE  Apart(c)
<1>1. pos' = pos /\ pc[c] = "idle" /\ pc' = pc
  BY DEF Forgets
<1>2. QED
  BY <1>1, ForgetsUndisturbed DEF Apart, Running, EnterPCs

LEMMA PullsPairApart ==
  ASSUME TypeOK, CallsAreAwaited, NEW w \in Watchers, PullsPair(w)
  PROVE  w \in Callers /\ Apart(w)
<1>1. w \in Callers /\ pos' = pos /\ tick[w] = "reading" /\ \E r : Begin(w, r, "find_short")
  BY DEF PullsPair, HasRead
<1>2. pc[w] = "idle"
  BY <1>1, DeskAssumption DEF CallsAreAwaited
<1>3. pc'[w] = "find_short"
  BY <1>1 DEF Begin, Goto, TypeOK, ControlTypeOK
<1>4. QED
  BY <1>1, <1>2, <1>3, PullsPairUndisturbed DEF Apart, Running, EnterPCs

LEMMA CallUndisturbed ==
  ASSUME TypeOK, NEW c \in Callers, Enter(c) \/ Exit(c) \/ Abort(c)
  PROVE  CallSteps(c)
<1>1. ASSUME NEW d \in Callers \ {c} PROVE Undisturbed(d)
  <2>1. CASE Abort(c)
    BY <2>1, ControlUndisturbed DEF Abort, Undisturbed
  <2>2. QED
    BY <2>1, EnterUndisturbed, ExitUndisturbed
<1>2. QED
  BY <1>1 DEF CallSteps

LEMMA DeskSteps ==
  ASSUME TypeOK, WatchTypeOK, CallsAreAwaited, [DeskNext]_deskVars
  PROVE  \/ UNCHANGED vars
         \/ \E c \in Callers : CallSteps(c) \/ Apart(c)
         \/ \E g \in Guards : SoloCloses(g)
<1>1. ASSUME NEW w \in Watchers, Watch(w)
      PROVE  \/ UNCHANGED vars
             \/ \E c \in Callers : Apart(c)
             \/ \E g \in Guards : SoloCloses(g)
  <2>1. CASE PullsPair(w)
    BY <2>1, PullsPairApart
  <2>2. CASE Logs(w)
    <3>1. w \in Callers
      BY <2>2, DeskAssumption DEF Logs, WatchTypeOK, Watchers
    <3>2. QED
      BY <2>2, <3>1, ForgetsApart DEF Logs
  <2>3. QED
    BY <1>1, <2>1, <2>2 DEF Watch, Wakes, ReadsNext, NothingToDo, FindsSolo, Reports
<1>2. ASSUME NEW c \in Traders, Trades(c)
      PROVE  \E d \in Callers : CallSteps(d) \/ Apart(d)
  <2>1. c \in Callers
    BY DeskAssumption
  <2>2. QED
    BY <1>2, <2>1, CallUndisturbed, ForgetsApart DEF Trades
<1>3. ASSUME NEW c \in Guards \cup Protectors, Pulls(c)
      PROVE  \E d \in Callers : CallSteps(d)
  <2>1. c \in Callers
    BY DeskAssumption
  <2>2. Exit(c) \/ Abort(c)
    BY <1>3 DEF Pulls, Exit
  <2>3. QED
    BY <2>1, <2>2, CallUndisturbed
<1>4. QED
  BY <1>1, <1>2, <1>3 DEF DeskNext, PriceMoves, deskVars

-----------------------------------------------------------------------------
LEMMA ModestStays ==
  ASSUME TypeOK, TypeOK', WatchTypeOK, HonestCallsKnowTheirLegs, CallsAreAwaited, Modest,
         [DeskNext]_deskVars
  PROVE  Modest'
<1>1. CASE UNCHANGED vars
  BY <1>1 DEF vars, Modest, Size, Short, Long
<1>2. ASSUME NEW c \in Callers, \A d \in Callers \ {c} : Undisturbed(d),
             pc'[c] \in EnterPCs /\ ~misled'[c] =>
               done'[c].sold <= Size(c)' /\ done'[c].bought <= Size(c)'
      PROVE  Modest'
  BY <1>2, OthersModest DEF Modest
<1>3. ASSUME NEW c \in Callers, CallSteps(c) PROVE Modest'
  BY <1>2, <1>3, CallModest DEF Modest, CallSteps
<1>4. ASSUME NEW c \in Callers, Apart(c) PROVE Modest'
  BY <1>2, <1>4 DEF Apart
<1>5. ASSUME NEW g \in Guards, SoloCloses(g) PROVE Modest'
  <2>1. g \in Callers /\ pc' = pc /\ tick[g] = "solo"
    BY <1>5, DeskAssumption DEF SoloCloses
  <2>2. pc'[g] \notin EnterPCs
    BY <2>1 DEF CallsAreAwaited, EnterPCs
  <2>3. QED
    BY <1>2, <1>5, <2>1, <2>2, SoloUndisturbed
<1>6. QED
  BY <1>1, <1>3, <1>4, <1>5, DeskSteps

\* A deceived call stays deceived, and admits it when it returns.
LEMMA DeceivedStays ==
  ASSUME TypeOK, Deceived, NEW c \in Callers, \A d \in Callers \ {c} : Undisturbed(d),
         ~Running(c) \/ ((Enter(c) \/ Exit(c) \/ Abort(c)) /\ ~Admits(c))
  PROVE  Deceived'
<1>1. PICK d \in Callers : Running(d) /\ misled[d]
  BY DEF Deceived
<1>2. CASE d # c
  BY <1>1, <1>2 DEF Undisturbed, Running, Deceived
<1>3. CASE d = c
  <2>1. misled'[c]
    BY <1>1, <1>3, MisledStays
  <2>2. Running(c)'
    BY <1>1, <1>3, <2>1 DEF Admits, Running
  <2>3. QED
    BY <2>1, <2>2 DEF Deceived
<1>4. QED
  BY <1>2, <1>3

\* The guard closes a leg without a hedge.  Nobody overtook its scan, so some
\* call is on the way to hedge that leg, and is deceived.
LEMMA SoloDeceives ==
  ASSUME OnePair, TypeOK, WatchTypeOK, CallsAreAwaited, SolosTrue, Accounted,
         NEW g \in Guards, SoloCloses(g), pos' # pos, g \notin overtaken
  PROVE  Deceived'
<1>1. tick[g] = "solo" /\ g \in Callers
  BY DeskAssumption DEF SoloCloses
<1>2. First(solo[g]) \in solo[g] /\ SoloExchange(g) \in Exchanges
  BY SoloLegType
<1> DEFINE e == SoloExchange(g)
<1>3. pos[e] # 0 /\ OneSided
  BY <1>1, <1>2 DEF SolosTrue, SoloExchange
<1>4. PICK f \in Exchanges : f # e
  BY <1>2 DEF OnePair
<1>5. pos \in [Exchanges -> Int] /\ pos' \in [Exchanges -> Int]
  BY SoloClosesTypes DEF TypeOK, LedgerTypeOK
<1>6. pos[e] + pos[f] # 0
  BY <1>2, <1>3, <1>4, <1>5 DEF OneSided
<1>7. PICK c \in Callers : Underway(c)
  BY <1>2, <1>4, <1>6 DEF Accounted, Offset
<1>8. Running(c) /\ c # g
  BY <1>1, <1>7 DEF Underway, Traded, Running, EnterPCs, CallsAreAwaited
<1>9. Running(c)' /\ misled'[c]
  BY <1>5, <1>8, SoloUndisturbed, MovesDeceive
<1>10. QED
  BY <1>9 DEF Deceived

LEMMA AccountStays ==
  ASSUME OnePair, SmallSizes, SmallPositions, TypeOK, TypeOK', WatchTypeOK,
         HonestCallsKnowTheirLegs, CallsAreAwaited, Modest, SolosTrue,
         [DeskNext]_deskVars, candid => Deceived \/ Accounted, candid'
  PROVE  Deceived' \/ Accounted'
<1>1. /\ Deceived \/ Accounted
      /\ UNCHANGED vars \/ \A c \in Callers : ~Admits(c)
      /\ UNCHANGED vars \/ \A g \in Guards : ~ActsOnOldScan(g)
  BY DEF DeskNext, KeepCandid, deskVars
<1>2. CASE UNCHANGED vars
  BY <1>1, <1>2 DEF vars, Deceived, Running, Accounted, Opposed, Traded, Short, Long, Offset,
     Underway
<1>3. ASSUME NEW c \in Callers, CallSteps(c), ~UNCHANGED vars PROVE Deceived' \/ Accounted'
  BY <1>1, <1>3, DeceivedStays, CallKeepsAccount DEF CallSteps
<1>4. ASSUME NEW c \in Callers, Apart(c) PROVE Deceived' \/ Accounted'
  <2>1. ~Traded(c)' /\ ~Underway(c)
    BY <1>4 DEF Apart, Traded, Underway, Running, EnterPCs
  <2>2. QED
    BY <1>1, <1>4, <2>1, DeceivedStays, NothingMoved DEF Apart
<1>5. ASSUME NEW g \in Guards, SoloCloses(g), ~UNCHANGED vars PROVE Deceived' \/ Accounted'
  <2>1. g \in Callers /\ pc' = pc /\ tick[g] = "solo"
    BY <1>5, DeskAssumption DEF SoloCloses
  <2>2. ~Running(g)
    BY <2>1 DEF CallsAreAwaited, Running
  <2>3. \A d \in Callers \ {g} : Undisturbed(d)
    BY <1>5, SoloUndisturbed
  <2>4. CASE Deceived
    BY <2>1, <2>2, <2>3, <2>4, DeceivedStays
  <2>5. CASE Accounted /\ pos' = pos
    <3>1. ~Traded(g)' /\ ~Underway(g)
      BY <2>1, <2>2 DEF Traded, Underway, Running, EnterPCs
    <3>2. QED
      BY <2>1, <2>3, <2>5, <3>1, NothingMoved
  <2>6. CASE Accounted /\ pos' # pos
    <3>1. g \notin overtaken
      BY <1>1, <1>5, <2>1, <2>6 DEF ActsOnOldScan
    <3>2. QED
      BY <1>5, <2>6, <3>1, SoloDeceives
  <2>7. QED
    BY <1>1, <2>4, <2>5, <2>6
<1>6. QED
  BY <1>2, <1>3, <1>4, <1>5, DeskSteps

-----------------------------------------------------------------------------
\* On one pair of exchanges the net is the sum of the two positions.
LEMMA NetOfPair ==
  ASSUME NEW a, NEW b, a # b, Exchanges = {a, b}, pos \in [Exchanges -> Int]
  PROVE  Net = pos[a] + pos[b]
<1> DEFINE D == {a, b}
           Any(s) == CHOOSE x \in s : TRUE
           Sums(h) == h = [s \in SUBSET D |->
                            IF s = {} THEN 0 ELSE pos[Any(s)] + h[s \ {Any(s)}]]
           H == CHOOSE h : Sums(h)
           f == [s \in SUBSET D |->
                  (IF a \in s THEN pos[a] ELSE 0) + (IF b \in s THEN pos[b] ELSE 0)]
<1>0. DOMAIN pos = D
  OBVIOUS
<1>1. Net = H[D]
  BY <1>0 DEF Net, FoldFunction, FoldFunctionOnSet, MapThenFoldSet
<1>2. \A s \in SUBSET D : s # {} => Any(s) \in s
  OBVIOUS
<1> HIDE DEF Any, H
<1>a. pos[a] \in Int /\ pos[b] \in Int
  OBVIOUS
<1>3. Sums(f)
  <2>1. ASSUME NEW s \in SUBSET D, s # {} PROVE f[s] = pos[Any(s)] + f[s \ {Any(s)}]
    <3>1. Any(s) \in s /\ s \ {Any(s)} \in SUBSET D /\ Any(s) \in {a, b}
      BY <1>2, <2>1
    <3>2. CASE Any(s) = a
      <4>1. f[s \ {a}] = IF b \in s THEN pos[b] ELSE 0
        BY <3>1, <3>2, <1>a
      <4>2. f[s] = pos[a] + IF b \in s THEN pos[b] ELSE 0
        BY <3>1, <3>2
      <4>3. QED
        BY <3>2, <4>1, <4>2
    <3>3. CASE Any(s) = b
      <4>1. f[s \ {b}] = IF a \in s THEN pos[a] ELSE 0
        BY <3>1, <3>3, <1>a
      <4>2. f[s] = (IF a \in s THEN pos[a] ELSE 0) + pos[b]
        BY <3>1, <3>3
      <4>3. QED
        BY <3>3, <4>1, <4>2, <1>a
    <3>4. QED
      BY <3>1, <3>2, <3>3
  <2>2. f[{}] = 0
    OBVIOUS
  <2>3. f = [s \in SUBSET D |-> f[s]]
    OBVIOUS
  <2> HIDE DEF f
  <2>4. QED
    BY <2>1, <2>2, <2>3
<1>4. Sums(H)
  BY <1>3 DEF H
<1>5. \A s \in SUBSET D : H[s] = IF s = {} THEN 0 ELSE pos[Any(s)] + H[s \ {Any(s)}]
  BY <1>4
<1>6. H[{}] = 0 
  BY <1>5
<1>7. ASSUME NEW x \in D PROVE H[{x}] = pos[x]
  <2>1. Any({x}) = x /\ {x} \ {x} = {} /\ {x} # {} /\ {x} \in SUBSET D
    BY <1>2
  <2>2. H[{x}] = pos[x] + H[{}]
    BY <1>5, <2>1
  <2>3. QED
    BY <1>6, <1>a, <2>2
<1>8. H[D] = pos[Any(D)] + H[D \ {Any(D)}] /\ Any(D) \in D
  BY <1>2, <1>5
<1>9. CASE Any(D) = a
  <2>1. D \ {a} = {b}
    OBVIOUS
  <2>2. QED
    BY <1>1, <1>7, <1>8, <1>9, <2>1
<1>10. CASE Any(D) = b
  <2>1. D \ {b} = {a}
    OBVIOUS
  <2>2. H[D] = pos[b] + pos[a]
    BY <1>7, <1>8, <1>10, <2>1
  <2>3. QED
    BY <1>1, <1>a, <2>2
<1>11. QED
  BY <1>8, <1>9, <1>10

LEMMA HedgesEven ==
  ASSUME NEW h \in Hedges
  PROVE  \/ \A e \in Exchanges : h[e] = 0
         \/ \E p \in Legs, n \in Nat : h = Hedge(p[1], p[2], n)
<1>1. CASE h = [e \in Exchanges |-> 0]
  BY <1>1
<1>2. ASSUME NEW p \in Legs, NEW n \in Sizes, h = Hedge(p[1], p[2], Harmonized(n, p[1], p[2]))
      PROVE  \E q \in Legs, k \in Nat : h = Hedge(q[1], q[2], k)
  <2>1. Harmonized(n, p[1], p[2]) \in Nat
    BY HarmonizedType, RequestAssumption DEF Legs
  <2>2. QED
    BY <1>2, <2>1
<1>3. QED
  BY <1>1, <1>2 DEF Hedges

LEMMA InitQuiet ==
  ASSUME OnePair, DeskInit
  PROVE  Quiet
<1>1. \A c \in Callers : pc[c] = "idle"
  BY DEF DeskInit
<1>2. Modest /\ \A c \in Callers : ~Traded(c)
  BY <1>1 DEF Modest, Traded, EnterPCs
<1>3. SolosTrue
  BY DEF DeskInit, SolosTrue, Watchers
<1>4. Opposed /\ ~Offset
  <2>1. CASE \A e \in Exchanges : pos[e] = 0
    BY <2>1 DEF Opposed, Offset
  <2>2. ASSUME NEW p \in Legs, NEW n \in Nat, pos = Hedge(p[1], p[2], n)
        PROVE  Opposed /\ ~Offset
    <3>1. /\ p[1] \in Exchanges /\ p[2] \in Exchanges /\ p[1] # p[2]
          /\ Exchanges = {p[1], p[2]}
      BY DEF Legs, OnePair
    <3>2. pos[p[1]] = -n /\ pos[p[2]] = n
      BY <2>2, <3>1 DEF Hedge
    <3>3. QED
      BY <3>1, <3>2 DEF Opposed, Offset
  <2>3. pos \in Hedges
    BY DEF DeskInit
  <2>4. QED
    BY <2>1, <2>2, <2>3, HedgesEven
<1>5. QED
  BY <1>2, <1>3, <1>4 DEF Quiet, Accounted

LEMMA QuietStays ==
  OnePair /\ SmallSizes /\ SmallPositions /\ TypeOK /\ WatchTypeOK /\ DeskTruth /\ ScansTrue
    /\ Quiet /\ [DeskNext]_deskVars => Quiet'
<1> SUFFICES ASSUME OnePair, SmallSizes, SmallPositions, TypeOK, WatchTypeOK, DeskTruth,
                    ScansTrue, Quiet, [DeskNext]_deskVars
             PROVE  Quiet'
  OBVIOUS
<1>1. TypeOK'
  BY DeskKeepsTypes
<1>2. Modest' /\ SolosTrue'
  BY <1>1, ModestStays, SolosStayTrue DEF Quiet, DeskTruth
<1>3. ASSUME candid' PROVE Deceived' \/ Accounted'
  BY <1>1, <1>3, AccountStays DEF Quiet, DeskTruth
<1>4. QED
  BY <1>2, <1>3 DEF Quiet

LEMMA QuietIsHedged ==
  OnePair /\ TypeOK /\ Quiet => QuietDeskIsHedged
<1> SUFFICES ASSUME OnePair, TypeOK, Quiet, candid, \A c \in Callers : pc[c] = "idle"
             PROVE  Net = 0
  BY DEF QuietDeskIsHedged
<1>1. ~Deceived /\ \A c \in Callers : ~Underway(c)
  BY DEF Deceived, Running, Underway, Traded, EnterPCs
<1>2. ~Offset
  BY <1>1 DEF Quiet, Accounted
<1>3. PICK a, b \in Exchanges : a # b /\ Exchanges = {a, b}
  BY DEF OnePair
<1>4. pos \in [Exchanges -> Int]
  BY DEF TypeOK, LedgerTypeOK
<1>5. Net = pos[a] + pos[b]
  BY <1>3, <1>4, NetOfPair
<1>6. QED
  BY <1>2, <1>3, <1>5 DEF Offset

\* A desk at rest is hedged, as QuietDeskIsHedged says: on one pair of exchanges,
\* whatever the traders, the guards and the protectors do to it in whatever order,
\* as long as what is asked for and held is small enough for two legs within
\* tolerance of each other to be equal.
THEOREM QuietDeskStaysHedged ==
  ASSUME OnePair, SmallSizes
  PROVE  DeskSpec /\ []SmallPositions => []QuietDeskIsHedged
<1>1. DeskInit => Quiet
  BY InitQuiet
<1>2. SmallPositions /\ DeskIInv /\ DeskTruth /\ ScansTrue /\ Quiet /\ [DeskNext]_deskVars
        => Quiet'
  BY QuietStays DEF DeskIInv
<1>3. DeskIInv /\ Quiet => QuietDeskIsHedged
  BY QuietIsHedged DEF DeskIInv
<1>4. QED
  BY <1>1, <1>2, <1>3, DeskIInvHolds, DeskTruthHolds, ScansHold, PTL DEF DeskSpec
=============================================================================
