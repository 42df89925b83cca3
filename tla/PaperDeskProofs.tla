--------------------------- MODULE PaperDeskProofs ---------------------------
(***************************************************************************)
(* Proofs about PaperDesk, for any markets, threads, pairs and faults: the *)
(* automatic trader keeps its limits, no closed leg and no live pair is    *)
(* lost, the re-entry only replaces what it closed, and the file is a      *)
(* PaperLedger.                                                            *)
(*                                                                         *)
(* A thread decides on one read of the file and writes its operations one  *)
(* by one, while the others write theirs.  The invariant therefore speaks  *)
(* of the operations still to come: what each queue holds, in which order, *)
(* and what the file says of the pairs they name.                          *)
(***************************************************************************)
EXTENDS PaperDesk, FiniteSetTheorems, WellFoundedInduction, TLAPS

-----------------------------------------------------------------------------
\* What flattening keeps, by induction on the prefixes of the sequence.

\* A set with 1 that is closed under the successor holds 1 .. N.
LEMMA UpTo ==
  ASSUME NEW N \in Nat, NEW S, 1 \in S, \A n \in 1 .. N : n \in S /\ n + 1 \in 1 .. N => n + 1 \in S
  PROVE  1 .. N \subseteq S
<1> DEFINE T == (1 .. N) \ S
<1>1. SUFFICES ASSUME T # {} PROVE FALSE
  OBVIOUS
<1>2. IsWellFoundedOn(OpToRel(<, Nat), Nat)
  BY NatLessThanWellFounded
<1>3. T \in SUBSET Nat
  OBVIOUS
<1>4. PICK k \in T : \A j \in T : ~(<<j, k>> \in OpToRel(<, Nat))
  BY <1>1, <1>2, <1>3, WFMin
<1>5. \A j \in T : ~(j < k)
  BY <1>3, <1>4 DEF OpToRel
<1>6. k # 1 /\ k - 1 \in 1 .. N /\ k - 1 < k /\ (k - 1) + 1 = k
  OBVIOUS
<1>7. k - 1 \in S
  BY <1>5, <1>6
<1>8. QED
  BY <1>6, <1>7

\* What flattening returns, prefix by prefix.
LEMMA FlattenSteps ==
  ASSUME NEW C, \A s, t \in C : s \o t \in C, NEW q,
         Len(q) \in Nat \ {0}, \A i \in 1 .. Len(q) : q[i] \in C
  PROVE  \E f \in [1 .. Len(q) -> C] :
           /\ f[1] = q[1]
           /\ \A i \in 2 .. Len(q) : f[i] = f[i - 1] \o q[i]
           /\ FlattenSeq(q) = f[Len(q)]
<1> DEFINE N == Len(q)
           Cat(s, t) == s \o t
           Follows(f, n) == \A i \in 1 .. n : f[i] = IF i = 1 THEN q[i] ELSE Cat(f[i - 1], q[i])
           S == {n \in 1 .. N : \E f \in [1 .. n -> C] : Follows(f, n)}
           IsFlat(h) == h = [i \in 1 .. N |-> IF i = 1 THEN q[i] ELSE Cat(h[i - 1], q[i])]
           H == CHOOSE h : IsFlat(h)
<1>8. FlattenSeq(q) = H[N]
  BY DEF FlattenSeq
<1>0. \A s, t \in C : Cat(s, t) \in C
  OBVIOUS
<1> HIDE DEF Cat, N, H
<1>a. N \in Nat \ {0} /\ \A i \in 1 .. N : q[i] \in C
  BY DEF N
<1>1. 1 \in S
  <2> DEFINE g == [i \in 1 .. 1 |-> q[1]]
  <2>1. g \in [1 .. 1 -> C] /\ Follows(g, 1)
    BY <1>a
  <2>2. 1 \in 1 .. N
    BY <1>a
  <2> HIDE DEF g, Follows
  <2>3. QED
    BY <2>1, <2>2
<1>2. ASSUME NEW n \in 1 .. N, n \in S, n + 1 \in 1 .. N PROVE n + 1 \in S
  <2>1. PICK f \in [1 .. n -> C] : Follows(f, n)
    BY <1>2
  <2> DEFINE g == [i \in 1 .. n + 1 |-> IF i = n + 1 THEN Cat(f[n], q[n + 1]) ELSE f[i]]
  <2>2. Cat(f[n], q[n + 1]) \in C
    BY <1>2, <1>0, <1>a
  <2>3. g \in [1 .. n + 1 -> C]
    BY <2>2
  <2>4. Follows(g, n + 1)
    <3>1. SUFFICES ASSUME NEW i \in 1 .. n + 1
                   PROVE  g[i] = IF i = 1 THEN q[i] ELSE Cat(g[i - 1], q[i])
      OBVIOUS
    <3>2. CASE i = n + 1
      <4>1. g[i] = Cat(f[n], q[i]) /\ i # 1 /\ g[i - 1] = f[n]
        BY <3>2, <1>a
      <4>2. QED
        BY <4>1
    <3>3. CASE i # n + 1
      <4>1. g[i] = f[i] /\ i \in 1 .. n /\ (i # 1 => g[i - 1] = f[i - 1])
        BY <3>3, <1>a
      <4>2. QED
        BY <2>1, <4>1
    <3>4. QED
      BY <3>2, <3>3
  <2>5. QED
    BY <1>2, <2>3, <2>4
<1>3. N \in S
  <2> HIDE DEF S
  <2>1. 1 .. N \subseteq S
    BY <1>1, <1>2, <1>a, UpTo
  <2>2. QED
    BY <1>a, <2>1
<1>4. PICK f \in [1 .. N -> C] : Follows(f, N)
  BY <1>3
<1>5. IsFlat(f)
  BY <1>4
<1>6. IsFlat(H)
  BY <1>5 DEF H
<1>7. \A i \in 1 .. N : H[i] = f[i]
  <2> DEFINE E == {i \in 1 .. N : H[i] = f[i]}
  <2>1. 1 \in E
    <3>1. H[1] = q[1] /\ f[1] = q[1]
      BY <1>4, <1>6, <1>a
    <3>2. QED
      BY <3>1, <1>a
  <2>2. ASSUME NEW n \in 1 .. N, n \in E, n + 1 \in 1 .. N PROVE n + 1 \in E
    <3>1. n + 1 # 1 /\ (n + 1) - 1 = n
      BY <1>a
    <3>2. H[n + 1] = Cat(H[n], q[n + 1]) /\ f[n + 1] = Cat(f[n], q[n + 1])
      BY <1>4, <1>6, <2>2, <3>1
    <3>3. QED
      BY <2>2, <3>2
  <2> HIDE DEF E
  <2>3. 1 .. N \subseteq E
    BY <2>1, <2>2, <1>a, UpTo
  <2>4. QED
    BY <2>3 DEF E
<1>9. /\ f[1] = q[1]
      /\ \A i \in 2 .. N : f[i] = f[i - 1] \o q[i]
  <2>1. f[1] = q[1]
    BY <1>4, <1>a
  <2>2. ASSUME NEW i \in 2 .. N PROVE f[i] = f[i - 1] \o q[i]
    <3>1. i \in 1 .. N /\ i # 1
      BY <1>a
    <3>2. f[i] = Cat(f[i - 1], q[i])
      BY <1>4, <3>1
    <3>3. QED
      BY <3>2 DEF Cat
  <2>3. QED
    BY <2>1, <2>2
<1>10. FlattenSeq(q) = f[N]
  BY <1>7, <1>8, <1>a
<1>11. QED
  BY <1>9, <1>10 DEF N

LEMMA Concat ==
  ASSUME NEW X, NEW s \in Seq(X), NEW t \in Seq(X)
  PROVE  /\ s \o t \in Seq(X) /\ Len(s \o t) = Len(s) + Len(t)
         /\ \A m \in 1 .. Len(s) : (s \o t)[m] = s[m] /\ m \in 1 .. Len(s \o t)
         /\ \A k \in 1 .. Len(t) : (s \o t)[Len(s) + k] = t[k] /\ Len(s) + k \in 1 .. Len(s \o t)
<1>1. Len(s) \in Nat /\ Len(t) \in Nat /\ Len(s \o t) = Len(s) + Len(t)
  OBVIOUS
<1>2. ASSUME NEW k \in 1 .. Len(t)
      PROVE  (s \o t)[Len(s) + k] = t[k] /\ Len(s) + k \in 1 .. Len(s \o t)
  <2>1. Len(s) + k \in 1 .. Len(s \o t)
    BY <1>1
  <2>2. QED
    BY <1>1, <2>1
<1>3. QED
  BY <1>1, <1>2

\* Whatever is in s is in t.
Within(s, t) == \A k \in 1 .. Len(s) : \E m \in 1 .. Len(t) : t[m] = s[k]

LEMMA ConcatHolds ==
  ASSUME NEW X, NEW s \in Seq(X), NEW t \in Seq(X)
  PROVE  Within(s, s \o t) /\ Within(t, s \o t)
<1>1. ASSUME NEW k \in 1 .. Len(s) PROVE \E m \in 1 .. Len(s \o t) : (s \o t)[m] = s[k]
  <2>1. (s \o t)[k] = s[k] /\ k \in 1 .. Len(s \o t)
    BY Concat
  <2>2. QED
    BY <2>1
<1>2. ASSUME NEW k \in 1 .. Len(t) PROVE \E m \in 1 .. Len(s \o t) : (s \o t)[m] = t[k]
  <2>1. (s \o t)[Len(s) + k] = t[k] /\ Len(s) + k \in 1 .. Len(s \o t)
    BY Concat
  <2>2. QED
    BY <2>1
<1>3. QED
  BY <1>1, <1>2 DEF Within

LEMMA FlattenKeeps ==
  ASSUME NEW X, NEW C \in SUBSET Seq(X), <<>> \in C, \A s, t \in C : s \o t \in C,
         NEW q \in Seq(C)
  PROVE  /\ FlattenSeq(q) \in C
         /\ \A i \in 1 .. Len(q) : Within(q[i], FlattenSeq(q))
<1> DEFINE N == Len(q)
<1>0. N \in Nat /\ \A i \in 1 .. N : q[i] \in C
  OBVIOUS
<1>1. CASE N = 0
  <2>1. q = <<>> /\ FlattenSeq(q) = q
    BY <1>1 DEF FlattenSeq
  <2>2. QED
    BY <1>1, <2>1
<1>2. CASE N # 0
  <2>2. PICK f \in [1 .. N -> C] :
           /\ f[1] = q[1]
           /\ \A i \in 2 .. N : f[i] = f[i - 1] \o q[i]
           /\ FlattenSeq(q) = f[N]
    BY <1>0, <1>2, FlattenSteps
  <2> DEFINE S == {n \in 1 .. N : \A i \in 1 .. n : Within(q[i], f[n])}
  <2> HIDE DEF N
  <2>3. 1 \in S
    <3>1. Within(q[1], f[1])
      BY <2>2 DEF Within
    <3>2. 1 \in 1 .. N /\ \A i \in 1 .. 1 : i = 1
      BY <1>0, <1>2
    <3>3. QED
      BY <3>1, <3>2
  <2>4. ASSUME NEW n \in 1 .. N, n \in S, n + 1 \in 1 .. N PROVE n + 1 \in S
    <3>1. f[n + 1] = f[n] \o q[n + 1]
      <4>1. n + 1 \in 2 .. N /\ (n + 1) - 1 = n
        BY <1>0, <2>4
      <4>2. QED
        BY <2>2, <4>1
    <3>2. f[n] \in Seq(X) /\ q[n + 1] \in Seq(X)
      BY <1>0, <2>2, <2>4
    <3>3. Within(f[n], f[n + 1]) /\ Within(q[n + 1], f[n + 1])
      BY <3>1, <3>2, ConcatHolds
    <3>4. \A i \in 1 .. n : Within(q[i], f[n])
      BY <2>4
    <3>5. \A i \in 1 .. n : Within(q[i], f[n + 1])
      <4>1. ASSUME NEW i \in 1 .. n, NEW k \in 1 .. Len(q[i])
            PROVE  \E m \in 1 .. Len(f[n + 1]) : f[n + 1][m] = q[i][k]
        <5>1. PICK l \in 1 .. Len(f[n]) : f[n][l] = q[i][k]
          BY <3>4, <4>1 DEF Within
        <5>2. PICK m \in 1 .. Len(f[n + 1]) : f[n + 1][m] = f[n][l]
          BY <3>3 DEF Within
        <5>3. QED
          BY <5>1, <5>2
      <4>2. QED
        BY <4>1 DEF Within
    <3>6. \A i \in 1 .. n + 1 : i \in 1 .. n \/ i = n + 1
      BY <1>0, <2>4
    <3>7. QED
      BY <3>3, <3>5, <3>6, <2>4
  <2>5. \A i \in 1 .. N : Within(q[i], f[N])
    <3> HIDE DEF S
    <3>1. 1 .. N \subseteq S
      BY <1>0, <2>3, <2>4, UpTo
    <3>2. N \in S
      BY <1>0, <1>2, <3>1
    <3>3. QED
      BY <3>2 DEF S
  <2>6. FlattenSeq(q) \in C
    BY <1>0, <1>2, <2>2
  <2>7. QED
    BY <2>2, <2>5, <2>6 DEF N
<1>3. QED
  BY <1>1, <1>2

-----------------------------------------------------------------------------
\* The invariant.

\* An open names a side; any other operation names an exchange, or none.
Args == Exchanges \cup {""}
OpSet == [do : {"open"}, pair : Pairs, arg : Sides]
         \cup [do : {"close", "accrue", "reopen"}, pair : Pairs, arg : Args]
QueueTypes == queue \in [Actors -> Seq(OpSet)]

\* Whatever is written, recorded or remembered belongs to a pair that was named.
Named ==
  /\ \A a \in Actors : \A i \in 1 .. Len(queue[a]) : deal[queue[a][i].pair].made
  /\ \A p \in Pairs, s \in Sides : legs[p][s].status # "none" => deal[p].made
  /\ \A p \in tracked : deal[p].made

\* A leg that is still to be opened is on nobody else's list, and not in the file.
OpensOnce ==
  \A a \in Actors : \A i \in 1 .. Len(queue[a]) :
    LET op == queue[a][i] IN
    op.do = "open" =>
      /\ legs[op.pair][op.arg].status = "none"
      /\ \A b \in Actors : \A j \in 1 .. Len(queue[b]) : queue[b][j] = op => a = b /\ i = j

\* The buy of a pair comes right after its sell: behind it in the queue, or, once
\* the sell has been written, alone.
SellThenBuy ==
  \A a \in Actors : \A i \in 1 .. Len(queue[a]) :
    LET op == queue[a][i] IN
    op.do = "open" =>
      IF op.arg = "sell"
      THEN i < Len(queue[a]) /\ queue[a][i + 1] = Op("open", op.pair, "buy")
      ELSE \/ i > 1 /\ queue[a][i - 1] = Op("open", op.pair, "sell")
           \/ i = 1 /\ (misread \/ legs[op.pair]["sell"].status # "none")

\* Both legs of p are in the file, open or closed.
Both(p) == \A s \in Sides : legs[p][s].status # "none"
\* The trader remembers a pair once both of its legs are recorded.
TrackedRecorded == \A p \in tracked : Both(p)

\* A pair the trader is about to forget has no open leg it will not close first.
LeavingClose ==
  \A p \in leaving : \A s \in Filled(legs, p) :
    \E i \in 1 .. Len(queue["trader"]) : queue["trader"][i] = Op("close", p, ExchangeOf(p, s))

\* The trader remembers every hedged pair of its own; while one of its opens is to
\* come there is room for that pair and no other hedged pair on its symbol, and
\* the buy that hedges it is the last thing it does.
AutoTracked ==
  /\ AutoHedged \subseteq tracked
  /\ \A a \in Actors : \A i \in 1 .. Len(queue[a]) :
       LET op == queue[a][i] IN
       op.do = "open" /\ deal[op.pair].auto =>
         /\ a = "trader"
         /\ Cardinality(AutoHedged) < MaxPos
         /\ \A q \in AutoHedged : SymbolOf(q) # SymbolOf(op.pair)
         /\ (op.arg = "buy" => i = Len(queue[a]))

\* The re-entry closes what is open of a pair before it reopens it.
ClosesFirst ==
  \A i \in 1 .. Len(queue["reentry"]) :
    LET op == queue["reentry"][i] IN
    op.do = "reopen" =>
      /\ Both(op.pair)
      /\ \A s \in Filled(legs, op.pair) :
           \E j \in 1 .. i - 1 : queue["reentry"][j] = Op("close", op.pair, ExchangeOf(op.pair, s))

\* What holds whatever is misread, and what holds until a file is misread: then
\* a thread may act on a file that seems empty.
Known == TypeOK /\ QueueTypes /\ Named /\ OpensOnce /\ SellThenBuy
Trusted ==
  ~misread => TrackedRecorded /\ LeavingClose /\ AutoTracked /\ ClosesFirst /\ TraderWithinLimits

-----------------------------------------------------------------------------
\* What an operation does to the file.

\* The files there can be.
Statuses == {"none", "filled", "closed"}
Files == [Pairs -> [Sides -> [status : Statuses, funding : Nat]]]

LEMMA PairsAreFinite == IsFiniteSet(Pairs) /\ Pairs \subseteq Nat
<1>1. MaxPairs \in Nat
  BY PaperAssumption
<1>2. QED
  BY <1>1, FS_Interval DEF Pairs

LEMMA EmptyIsAFile == Empty \in Files /\ \A p \in Pairs, s \in Sides : Empty[p][s] = Missing
BY DEF Empty, Files, Missing, Statuses

LEMMA OpenedFile ==
  ASSUME NEW file \in Files, NEW p \in Pairs, NEW s \in Sides,
         NEW new, new = RecordOpen(file, p, s)
  PROVE  /\ new \in Files
         /\ new[p][s].status = "filled"
         /\ \A q \in Pairs, t \in Sides : q # p \/ t # s => new[q][t] = file[q][t]
<1>1. [status |-> "filled", funding |-> 0] \in [status : Statuses, funding : Nat]
  BY DEF Statuses
<1>2. QED
  BY <1>1 DEF RecordOpen, Files

LEMMA ClosedFile ==
  ASSUME NEW file \in Files, NEW p \in Pairs, NEW ex, NEW new, new = RecordClose(file, p, ex)
  PROVE  /\ new \in Files
         /\ \A q \in Pairs, s \in Sides :
              ~(q = p /\ s \in Matching(file, p, ex)) => new[q][s] = file[q][s]
         /\ \A s \in Matching(file, p, ex) : s \in Sides /\ new[p][s].status = "closed"
<1>1. \A s \in Sides : file[p][s] \in [status : Statuses, funding : Nat]
  BY DEF Files
<1>2. \A s \in Matching(file, p, ex) : s \in Sides /\ file[p][s].status = "filled"
  BY DEF Matching, Filled
<1> DEFINE changed(s) == [file[p][s] EXCEPT !.status = "closed"]
           side == [s \in Sides |-> IF s \in Matching(file, p, ex) THEN changed(s) ELSE file[p][s]]
<1>3. \A s \in Sides : changed(s) \in [status : Statuses, funding : Nat]
  BY <1>1 DEF Statuses
<1>4. \A s \in Matching(file, p, ex) : s \in Sides /\ changed(s).status = "closed"
  BY <1>1, <1>2
<1>5. new = [file EXCEPT ![p] = side]
  BY DEF RecordClose
<1> HIDE DEF changed
<1>6. side \in [Sides -> [status : Statuses, funding : Nat]]
  BY <1>1, <1>3
<1> HIDE DEF side
<1>7. new \in Files /\ new[p] = side /\ \A q \in Pairs \ {p} : new[q] = file[q]
  BY <1>5, <1>6 DEF Files
<1> USE DEF side
<1>8. ASSUME NEW q \in Pairs, NEW s \in Sides, ~(q = p /\ s \in Matching(file, p, ex))
      PROVE  new[q][s] = file[q][s]
  <2>1. CASE q = p
    BY <1>7, <1>8, <2>1
  <2>2. CASE q # p
    BY <1>7, <2>2
  <2>3. QED
    BY <2>1, <2>2
<1>9. QED
  BY <1>4, <1>7, <1>8

LEMMA ChargedFile ==
  ASSUME NEW file \in Files, NEW p \in Pairs, NEW ex, NEW new, new = AccrueFunding(file, p, ex)
  PROVE  /\ new \in Files
         /\ \A q \in Pairs, s \in Sides :
              ~(q = p /\ s \in Matching(file, p, ex)) => new[q][s] = file[q][s]
         /\ \A s \in Matching(file, p, ex) : s \in Sides /\ new[p][s].status = "filled"
<1>1. \A s \in Sides : file[p][s] \in [status : Statuses, funding : Nat]
  BY DEF Files
<1>2. \A s \in Matching(file, p, ex) : s \in Sides /\ file[p][s].status = "filled"
  BY DEF Matching, Filled
<1> DEFINE changed(s) == [file[p][s] EXCEPT !.funding = @ + 1]
           side == [s \in Sides |-> IF s \in Matching(file, p, ex) THEN changed(s) ELSE file[p][s]]
<1>3. \A s \in Sides : changed(s) \in [status : Statuses, funding : Nat]
  BY <1>1 DEF Statuses
<1>4. \A s \in Matching(file, p, ex) : s \in Sides /\ changed(s).status = "filled"
  BY <1>1, <1>2
<1>5. new = [file EXCEPT ![p] = side]
  BY DEF AccrueFunding
<1> HIDE DEF changed
<1>6. side \in [Sides -> [status : Statuses, funding : Nat]]
  BY <1>1, <1>3
<1> HIDE DEF side
<1>7. new \in Files /\ new[p] = side /\ \A q \in Pairs \ {p} : new[q] = file[q]
  BY <1>5, <1>6 DEF Files
<1> USE DEF side
<1>8. ASSUME NEW q \in Pairs, NEW s \in Sides, ~(q = p /\ s \in Matching(file, p, ex))
      PROVE  new[q][s] = file[q][s]
  <2>1. CASE q = p
    BY <1>7, <1>8, <2>1
  <2>2. CASE q # p
    BY <1>7, <2>2
  <2>3. QED
    BY <2>1, <2>2
<1>9. QED
  BY <1>4, <1>7, <1>8

\* The three ways a write goes: as it should; on an unreadable file, which a close
\* or a charge leaves alone, and a record replaces.
LEMMA WriteWays ==
  ASSUME TypeOK, QueueTypes, NEW a \in Actors, Write(a)
  PROVE  /\ Len(queue[a]) \in Nat \ {0} /\ Head(queue[a]) = queue[a][1]
         /\ Head(queue[a]) \in OpSet /\ Head(queue[a]).do \in StoreOps
         /\ misread' \in BOOLEAN /\ (misread => misread')
         /\ \/ legs' = Result(legs, Head(queue[a]))
            \/ misread' /\ Head(queue[a]).do # "open" /\ legs' = legs
            \/ /\ misread' /\ Head(queue[a]).do = "open"
               /\ legs' = RecordOpen(Empty, Head(queue[a]).pair, Head(queue[a]).arg)
<1> DEFINE op == Head(queue[a])
<1>1. queue[a] \in Seq(OpSet) /\ queue[a] # <<>>
  BY DEF QueueTypes, Write, Idle
<1>2. Len(queue[a]) \in Nat \ {0} /\ op = queue[a][1] /\ op \in OpSet
  BY <1>1
<1>3. op.do \in StoreOps
  BY DEF Write
<1>4. PICK file \in Read(legs) :
        legs' = (IF Result(file, op) = file THEN legs ELSE Result(file, op)) /\ Sees(file)
  BY DEF Write
<1>5. misread' \in BOOLEAN /\ (misread => misread') /\ (file # legs => misread')
  BY <1>4 DEF Sees, TypeOK
<1>6. CASE file = legs
  BY <1>2, <1>3, <1>4, <1>5, <1>6
<1>7. CASE file # legs
  <2>1. file = Empty
    BY <1>4, <1>7 DEF Read
  <2>2. CASE op.do = "open"
    <3>1. Result(file, op) = RecordOpen(Empty, op.pair, op.arg) /\ op.arg \in Sides /\ op.pair \in Pairs
      BY <1>2, <2>1, <2>2 DEF Result, OpSet
    <3>2. Result(file, op) # file
      <4>1. RecordOpen(Empty, op.pair, op.arg)[op.pair][op.arg].status = "filled"
        BY <3>1, EmptyIsAFile, OpenedFile
      <4>2. Empty[op.pair][op.arg].status = "none"
        BY <3>1, EmptyIsAFile DEF Missing
      <4>3. QED
        BY <2>1, <3>1, <4>1, <4>2
    <3>3. QED
      BY <1>2, <1>3, <1>4, <1>5, <1>7, <2>2, <3>1, <3>2
  <2>3. CASE op.do # "open"
    <3>1. op.pair \in Pairs /\ op.do \in {"close", "accrue"}
      BY <1>2, <1>3, <2>3 DEF OpSet, StoreOps
    <3>2. Matching(Empty, op.pair, op.arg) = {}
      BY <3>1, EmptyIsAFile DEF Matching, Filled, Missing
    <3>3. /\ Result(file, op) \in {RecordClose(Empty, op.pair, op.arg), AccrueFunding(Empty, op.pair, op.arg)}
      BY <2>1, <3>1 DEF Result
    <3> DEFINE new == Result(file, op)
    <3>4. new \in Files /\ \A q \in Pairs, t \in Sides : new[q][t] = Empty[q][t]
      <4> HIDE DEF new
      <4>1. new \in {RecordClose(Empty, op.pair, op.arg), AccrueFunding(Empty, op.pair, op.arg)}
        BY <3>3 DEF new
      <4>2. CASE new = RecordClose(Empty, op.pair, op.arg)
        BY <3>1, <3>2, <4>2, EmptyIsAFile, ClosedFile
      <4>3. CASE new = AccrueFunding(Empty, op.pair, op.arg)
        BY <3>1, <3>2, <4>3, EmptyIsAFile, ChargedFile
      <4>4. QED
        BY <4>1, <4>2, <4>3
    <3> HIDE DEF new
    <3>5. new = Empty
      BY <3>4, EmptyIsAFile DEF Files
    <3>6. Result(file, op) = file
      BY <2>1, <3>5 DEF new
    <3>7. QED
      BY <1>2, <1>3, <1>4, <1>5, <1>7, <2>3, <3>6
  <2>4. QED
    BY <2>2, <2>3
<1>8. QED
  BY <1>6, <1>7

LEMMA OpenEffect ==
  ASSUME TypeOK, QueueTypes, NEW a \in Actors, Write(a),
         NEW op, op = Head(queue[a]), op.do = "open"
  PROVE  /\ legs' \in Files
         /\ op.pair \in Pairs /\ op.arg \in Sides
         /\ legs'[op.pair][op.arg].status = "filled"
         /\ \/ \A q \in Pairs, t \in Sides :
                 q # op.pair \/ t # op.arg => legs'[q][t] = legs[q][t]
            \/ misread' /\ \A q \in Pairs, t \in Sides :
                 q # op.pair \/ t # op.arg => legs'[q][t] = Missing
<1>1. legs \in Files
  BY DEF TypeOK, Files, Statuses
<1>2. op.pair \in Pairs /\ op.arg \in Sides
  BY WriteWays DEF OpSet
<1>3. \/ legs' = RecordOpen(legs, op.pair, op.arg)
      \/ misread' /\ legs' = RecordOpen(Empty, op.pair, op.arg)
  BY WriteWays DEF Result
<1>4. CASE legs' = RecordOpen(legs, op.pair, op.arg)
  <2>1. /\ legs' \in Files /\ legs'[op.pair][op.arg].status = "filled"
        /\ \A q \in Pairs, t \in Sides : q # op.pair \/ t # op.arg => legs'[q][t] = legs[q][t]
    BY ONLY <1>1, <1>2, <1>4, OpenedFile
  <2>2. QED
    BY <1>2, <2>1
<1>5. CASE misread' /\ legs' = RecordOpen(Empty, op.pair, op.arg)
  <2>1. /\ legs' \in Files /\ legs'[op.pair][op.arg].status = "filled"
        /\ \A q \in Pairs, t \in Sides : q # op.pair \/ t # op.arg => legs'[q][t] = Empty[q][t]
    BY ONLY <1>2, <1>5, OpenedFile, EmptyIsAFile
  <2>2. QED
    BY <1>2, <1>5, <2>1, EmptyIsAFile
<1>6. QED
  BY <1>3, <1>4, <1>5

LEMMA OtherEffect ==
  ASSUME TypeOK, QueueTypes, NEW a \in Actors, Write(a),
         NEW op, op = Head(queue[a]), op.do # "open"
  PROVE  /\ legs' \in Files
         /\ \A q \in Pairs, t \in Sides :
              \/ legs'[q][t] = legs[q][t]
              \/ /\ q = op.pair /\ t \in Matching(legs, op.pair, op.arg)
                 /\ legs'[q][t].status = IF op.do = "close" THEN "closed" ELSE "filled"
         /\ op.do = "close" /\ ~misread' =>
              \A t \in Matching(legs, op.pair, op.arg) : legs'[op.pair][t].status = "closed"
<1>1. legs \in Files
  BY DEF TypeOK, Files, Statuses
<1>2. op.do \in {"close", "accrue"} /\ op.pair \in Pairs
  BY WriteWays DEF OpSet, StoreOps
<1>3. \/ misread' /\ legs' = legs
      \/ op.do = "close" /\ legs' = RecordClose(legs, op.pair, op.arg)
      \/ op.do = "accrue" /\ legs' = AccrueFunding(legs, op.pair, op.arg)
  BY <1>2, WriteWays DEF Result
<1>4. CASE misread' /\ legs' = legs
  BY <1>1, <1>4
<1>5. CASE op.do = "close" /\ legs' = RecordClose(legs, op.pair, op.arg)
  <2> DEFINE M == Matching(legs, op.pair, op.arg)
  <2>1. /\ legs' \in Files
        /\ \A q \in Pairs, s \in Sides : ~(q = op.pair /\ s \in M) => legs'[q][s] = legs[q][s]
        /\ \A s \in M : s \in Sides /\ legs'[op.pair][s].status = IF op.do = "close" THEN "closed" ELSE "filled"
    BY <1>1, <1>2, <1>5, ClosedFile
  <2> HIDE DEF M
  <2>2. ASSUME NEW q \in Pairs, NEW t \in Sides
        PROVE  \/ legs'[q][t] = legs[q][t]
               \/ q = op.pair /\ t \in M
                  /\ legs'[q][t].status = IF op.do = "close" THEN "closed" ELSE "filled"
    BY <2>1
  <2>3. op.do = "close" => \A t \in M : legs'[op.pair][t].status = "closed"
    BY <2>1
  <2>4. QED
    BY <2>1, <2>2, <2>3 DEF M
<1>6. CASE op.do = "accrue" /\ legs' = AccrueFunding(legs, op.pair, op.arg)
  <2> DEFINE M == Matching(legs, op.pair, op.arg)
  <2>1. /\ legs' \in Files
        /\ \A q \in Pairs, s \in Sides : ~(q = op.pair /\ s \in M) => legs'[q][s] = legs[q][s]
        /\ \A s \in M : s \in Sides /\ legs'[op.pair][s].status = IF op.do = "close" THEN "closed" ELSE "filled"
    BY <1>1, <1>2, <1>6, ChargedFile
  <2> HIDE DEF M
  <2>2. ASSUME NEW q \in Pairs, NEW t \in Sides
        PROVE  \/ legs'[q][t] = legs[q][t]
               \/ q = op.pair /\ t \in M
                  /\ legs'[q][t].status = IF op.do = "close" THEN "closed" ELSE "filled"
    BY <2>1
  <2>3. op.do = "close" => \A t \in M : legs'[op.pair][t].status = "closed"
    BY <2>1
  <2>4. QED
    BY <2>1, <2>2, <2>3 DEF M
<1>7. QED
  BY <1>3, <1>4, <1>5, <1>6

-----------------------------------------------------------------------------
\* Taking the first operation from a queue.

\* What an operation leaves of the file.
Effect(op) ==
  /\ legs' \in Files
  /\ op.do = "open" =>
       /\ legs'[op.pair][op.arg].status = "filled"
       /\ \/ \A q \in Pairs, t \in Sides :
               q # op.pair \/ t # op.arg => legs'[q][t] = legs[q][t]
          \/ misread' /\ \A q \in Pairs, t \in Sides :
               q # op.pair \/ t # op.arg => legs'[q][t] = Missing
  /\ op.do # "open" =>
       \A q \in Pairs, t \in Sides :
         \/ legs'[q][t] = legs[q][t]
         \/ /\ q = op.pair /\ t \in Matching(legs, op.pair, op.arg)
            /\ legs'[q][t].status = IF op.do = "close" THEN "closed" ELSE "filled"
  /\ op.do = "close" /\ ~misread' =>
       \A t \in Matching(legs, op.pair, op.arg) : legs'[op.pair][t].status = "closed"

\* What the writes of the threads have in common.
Pops(a) ==
  /\ ~Idle(a) /\ Does(a, Tail(queue[a])) /\ UNCHANGED deal
  /\ misread' \in BOOLEAN /\ (misread => misread')
  /\ Effect(Head(queue[a]))

LEMMA WritePops ==
  ASSUME TypeOK, QueueTypes, NEW a \in Actors, Write(a)
  PROVE  Pops(a)
<1>1. ~Idle(a) /\ Does(a, Tail(queue[a])) /\ UNCHANGED deal
  BY DEF Write
<1>2. misread' \in BOOLEAN /\ (misread => misread')
  BY WriteWays
<1>3. Effect(Head(queue[a]))
  <2>1. CASE Head(queue[a]).do = "open"
    BY <2>1, OpenEffect DEF Effect
  <2>2. CASE Head(queue[a]).do # "open"
    BY <2>2, OtherEffect DEF Effect
  <2>3. QED
    BY <2>1, <2>2
<1>4. QED
  BY <1>1, <1>2, <1>3 DEF Pops

LEMMA PoppedQueue ==
  ASSUME QueueTypes, NEW a \in Actors, Pops(a)
  PROVE  /\ QueueTypes'
         /\ Len(queue[a]) \in Nat \ {0} /\ Head(queue[a]) = queue[a][1] /\ queue[a][1] \in OpSet
         /\ Len(queue'[a]) = Len(queue[a]) - 1
         /\ \A i \in 1 .. Len(queue'[a]) : i + 1 \in 1 .. Len(queue[a]) /\ queue'[a][i] = queue[a][i + 1]
         /\ \A b \in Actors \ {a} : queue'[b] = queue[b]
<1>1. queue[a] \in Seq(OpSet) /\ queue[a] # <<>> /\ queue' = [queue EXCEPT ![a] = Tail(queue[a])]
  BY DEF QueueTypes, Pops, Idle, Does
<1>2. Tail(queue[a]) \in Seq(OpSet) /\ Len(queue[a]) \in Nat \ {0}
      /\ Len(Tail(queue[a])) = Len(queue[a]) - 1
  BY <1>1
<1>3. queue'[a] = Tail(queue[a]) /\ QueueTypes' /\ \A b \in Actors \ {a} : queue'[b] = queue[b]
  BY <1>1, <1>2 DEF QueueTypes
<1>4. \A i \in 1 .. Len(Tail(queue[a])) :
         i + 1 \in 1 .. Len(queue[a]) /\ Tail(queue[a])[i] = queue[a][i + 1]
  BY <1>1, <1>2
<1>5. Head(queue[a]) = queue[a][1] /\ queue[a][1] \in OpSet
  BY <1>1, <1>2
<1>6. QED
  BY <1>2, <1>3, <1>4, <1>5

\* Where an operation of a popped queue stood before.
Was(a, b, i) == IF b = a THEN i + 1 ELSE i

LEMMA PoppedOps ==
  ASSUME QueueTypes, NEW a \in Actors, Pops(a), NEW b \in Actors, NEW i \in 1 .. Len(queue'[b])
  PROVE  /\ Was(a, b, i) \in 1 .. Len(queue[b])
         /\ queue'[b][i] = queue[b][Was(a, b, i)] /\ queue'[b][i] \in OpSet
         /\ Len(queue'[b]) \in Nat /\ Len(queue[b]) \in Nat
         /\ (i < Len(queue'[b]) <=> Was(a, b, i) < Len(queue[b]))
<1>1. QueueTypes'
  BY PoppedQueue
<1>2. queue'[b] \in Seq(OpSet) /\ queue[b] \in Seq(OpSet)
  BY <1>1 DEF QueueTypes
<1>3. queue'[b][i] \in OpSet /\ Len(queue'[b]) \in Nat /\ Len(queue[b]) \in Nat
  BY <1>2
<1>4. CASE b = a
  BY <1>3, <1>4, PoppedQueue DEF Was
<1>5. CASE b # a
  BY <1>3, <1>5, PoppedQueue DEF Was
<1>6. QED
  BY <1>4, <1>5

\* A leg is recorded by its own operation only, and never unrecorded, except by
\* a write over a file that could not be read.
LEMMA StatusMoves ==
  ASSUME QueueTypes, NEW a \in Actors, Pops(a), NEW p \in Pairs, NEW s \in Sides
  PROVE  /\ legs[p][s].status = "none" =>
              legs'[p][s].status = "none" \/ Head(queue[a]) = Op("open", p, s)
         /\ legs[p][s].status # "none" => misread' \/ legs'[p][s].status # "none"
         /\ legs'[p][s].status = "filled" =>
              legs[p][s].status = "filled" \/ Head(queue[a]) = Op("open", p, s)
<1> DEFINE op == Head(queue[a])
<1>1. op \in OpSet /\ Effect(op)
  BY PoppedQueue DEF Pops
<1>2. op.do = "open" /\ op.pair = p /\ op.arg = s => op = Op("open", p, s)
  BY <1>1 DEF OpSet, Op
<1> HIDE DEF op
<1>3. CASE op.do = "open" /\ op.pair = p /\ op.arg = s
  <2>1. legs'[p][s].status = "filled"
    BY <1>1, <1>3 DEF Effect
  <2>2. QED
    BY <1>2, <1>3, <2>1 DEF op
<1>4. CASE op.do = "open" /\ (op.pair # p \/ op.arg # s)
  <2>1. legs'[p][s] = legs[p][s] \/ (misread' /\ legs'[p][s] = Missing)
    BY <1>1, <1>4 DEF Effect
  <2>2. QED
    BY <2>1 DEF Missing
<1>5. CASE op.do # "open"
  <2>1. \/ legs'[p][s] = legs[p][s]
        \/ /\ p = op.pair /\ s \in Matching(legs, op.pair, op.arg)
           /\ legs'[p][s].status = IF op.do = "close" THEN "closed" ELSE "filled"
    BY <1>1, <1>5 DEF Effect
  <2>2. s \in Matching(legs, p, op.arg) => legs[p][s].status = "filled"
    BY DEF Matching, Filled
  <2>3. QED
    BY <2>1, <2>2
<1>6. QED
  BY <1>3, <1>4, <1>5

LEMMA OpenOps ==
  ASSUME NEW op \in OpSet
  PROVE  /\ op.pair \in Pairs
         /\ op.do = "open" => op.arg \in Sides /\ op = Op("open", op.pair, op.arg)
BY DEF OpSet, Op

LEMMA PopKeepsNamed ==
  ASSUME QueueTypes, Named, NEW a \in Actors, Pops(a), tracked' \subseteq tracked \cup Tracks(a)
  PROVE  Named'
<1>1. deal' = deal
  BY DEF Pops
<1>2. ASSUME NEW b \in Actors, NEW i \in 1 .. Len(queue'[b]) PROVE deal'[queue'[b][i].pair].made
  BY <1>1, <1>2, PoppedOps DEF Named
<1>3. 1 \in 1 .. Len(queue[a]) /\ Head(queue[a]) = queue[a][1]
  BY PoppedQueue
<1>4. ASSUME NEW p \in Pairs, NEW s \in Sides, legs'[p][s].status # "none" PROVE deal'[p].made
  <2>1. CASE legs[p][s].status # "none"
    BY <1>1, <2>1 DEF Named
  <2>2. CASE legs[p][s].status = "none"
    <3>1. queue[a][1] = Op("open", p, s)
      BY <1>3, <1>4, <2>2, StatusMoves
    <3>2. queue[a][1].pair = p
      BY <3>1 DEF Op
    <3>3. QED
      BY <1>1, <1>3, <3>2 DEF Named
  <2>3. QED
    BY <2>1, <2>2
<1>5. ASSUME NEW p \in tracked' PROVE deal'[p].made
  <2>1. CASE p \in tracked
    BY <1>1, <2>1 DEF Named
  <2>2. CASE p \in Tracks(a)
    <3>1. queue[a][1].pair = p
      BY <1>3, <2>2 DEF Tracks, Op
    <3>2. QED
      BY <1>1, <1>3, <3>1 DEF Named
  <2>3. QED
    BY <2>1, <2>2
<1>6. QED
  BY <1>2, <1>4, <1>5 DEF Named

\* An open that is still to come is another one than the first.
LEMMA OthersToCome ==
  ASSUME QueueTypes, OpensOnce, NEW a \in Actors, Pops(a),
         NEW b \in Actors, NEW i \in 1 .. Len(queue'[b]), queue'[b][i].do = "open"
  PROVE  /\ queue'[b][i] # Head(queue[a])
         /\ legs[queue'[b][i].pair][queue'[b][i].arg].status = "none"
<1>1. Was(a, b, i) \in 1 .. Len(queue[b]) /\ queue'[b][i] = queue[b][Was(a, b, i)]
  BY PoppedOps
<1>2. 1 \in 1 .. Len(queue[a]) /\ Head(queue[a]) = queue[a][1]
  BY PoppedQueue
<1>3. a = b => Was(a, b, i) # 1
  BY DEF Was
<1>4. QED
  BY <1>1, <1>2, <1>3 DEF OpensOnce

LEMMA PopKeepsOpens ==
  ASSUME QueueTypes, OpensOnce, NEW a \in Actors, Pops(a)
  PROVE  OpensOnce'
<1> SUFFICES ASSUME NEW b \in Actors, NEW i \in 1 .. Len(queue'[b]), queue'[b][i].do = "open"
             PROVE  /\ legs'[queue'[b][i].pair][queue'[b][i].arg].status = "none"
                    /\ \A c \in Actors : \A j \in 1 .. Len(queue'[c]) :
                         queue'[c][j] = queue'[b][i] => b = c /\ i = j
  BY DEF OpensOnce
<1> DEFINE op == queue'[b][i]
<1>1. op \in OpSet /\ op = queue[b][Was(a, b, i)] /\ Was(a, b, i) \in 1 .. Len(queue[b])
  BY PoppedOps
<1>2. op.pair \in Pairs /\ op.arg \in Sides /\ op = Op("open", op.pair, op.arg)
  BY <1>1, OpenOps
<1>3. op # Head(queue[a]) /\ legs[op.pair][op.arg].status = "none"
  BY OthersToCome
<1>4. legs'[op.pair][op.arg].status = "none"
  <2> HIDE DEF op
  <2>1. QED
    BY <1>2, <1>3, StatusMoves
<1>5. ASSUME NEW c \in Actors, NEW j \in 1 .. Len(queue'[c]), queue'[c][j] = op
      PROVE  b = c /\ i = j
  <2>1. op = queue[c][Was(a, c, j)] /\ Was(a, c, j) \in 1 .. Len(queue[c])
    BY <1>5, PoppedOps
  <2>2. op.do = "open"
    OBVIOUS
  <2>3. b = c /\ Was(a, b, i) = Was(a, c, j)
    <3> DEFINE k == Was(a, b, i)
               l == Was(a, c, j)
    <3>1. k \in 1 .. Len(queue[b]) /\ l \in 1 .. Len(queue[c])
          /\ queue[c][l] = queue[b][k] /\ queue[b][k].do = "open"
      BY <1>1, <2>1, <2>2
    <3> HIDE DEF k, l
    <3>2. b = c /\ k = l
      BY <3>1 DEF OpensOnce
    <3>3. QED
      BY <3>2 DEF k, l
  <2>4. i \in Int /\ j \in Int
    BY PoppedOps
  <2>5. QED
    BY <2>3, <2>4 DEF Was
<1>6. QED
  BY <1>4, <1>5

LEMMA PopKeepsOrder ==
  ASSUME QueueTypes, SellThenBuy, NEW a \in Actors, Pops(a)
  PROVE  SellThenBuy'
<1> SUFFICES ASSUME NEW b \in Actors, NEW i \in 1 .. Len(queue'[b]), queue'[b][i].do = "open"
             PROVE  LET op == queue'[b][i] IN
                    IF op.arg = "sell"
                    THEN i < Len(queue'[b]) /\ queue'[b][i + 1] = Op("open", op.pair, "buy")
                    ELSE \/ i > 1 /\ queue'[b][i - 1] = Op("open", op.pair, "sell")
                         \/ i = 1 /\ (misread' \/ legs'[op.pair]["sell"].status # "none")
  BY DEF SellThenBuy, Op
<1> DEFINE op == queue'[b][i]
           k == Was(a, b, i)
<1>1. op \in OpSet /\ op = queue[b][k] /\ k \in 1 .. Len(queue[b])
      /\ Len(queue'[b]) \in Nat /\ Len(queue[b]) \in Nat
      /\ (i < Len(queue'[b]) <=> k < Len(queue[b]))
  BY PoppedOps
<1>2. op.pair \in Pairs /\ op.do = "open"
  BY <1>1, OpenOps
<1>3. CASE op.arg = "sell"
  <2>1. k < Len(queue[b]) /\ queue[b][k + 1] = Op("open", op.pair, "buy")
    BY <1>1, <1>2, <1>3 DEF SellThenBuy
  <2>2. i + 1 \in 1 .. Len(queue'[b])
    BY <1>1, <2>1
  <2>3. queue'[b][i + 1] = queue[b][Was(a, b, i + 1)] /\ Was(a, b, i + 1) = k + 1
    <3>1. queue'[b][i + 1] = queue[b][Was(a, b, i + 1)]
      BY <2>2, PoppedOps
    <3>2. QED
      BY <3>1, <1>1 DEF Was
  <2>4. QED
    BY <1>1, <1>3, <2>1, <2>3
<1>4. CASE op.arg # "sell"
  <2>1. \/ k > 1 /\ queue[b][k - 1] = Op("open", op.pair, "sell")
        \/ k = 1 /\ (misread \/ legs[op.pair]["sell"].status # "none")
    BY <1>1, <1>2, <1>4 DEF SellThenBuy
  <2>2. CASE k > 1 /\ queue[b][k - 1] = Op("open", op.pair, "sell") /\ i > 1
    <3>1. i - 1 \in 1 .. Len(queue'[b])
      BY <1>1, <2>2
    <3>2. queue'[b][i - 1] = queue[b][Was(a, b, i - 1)]
      BY <3>1, PoppedOps
    <3>3. Was(a, b, i - 1) = k - 1
      BY <1>1 DEF Was
    <3>4. QED
      BY <1>4, <2>2, <3>2, <3>3
  <2>3. CASE k > 1 /\ queue[b][k - 1] = Op("open", op.pair, "sell") /\ i = 1
    <3>1. b = a /\ k = 2
      BY <2>3 DEF Was
    <3>2. Head(queue[a]) = Op("open", op.pair, "sell")
      BY <2>3, <3>1, PoppedQueue
    <3>3. legs'[op.pair]["sell"].status = "filled"
      BY <3>2 DEF Pops, Effect, Op
    <3>4. QED
      BY <1>4, <2>3, <3>3
  <2>4. CASE k = 1 /\ (misread \/ legs[op.pair]["sell"].status # "none")
    <3>1. i = 1
      BY <1>1, <2>4 DEF Was
    <3>2. misread' \/ legs'[op.pair]["sell"].status # "none"
      <4>1. "sell" \in Sides /\ (misread => misread')
        BY DEF Sides, Pops
      <4> HIDE DEF op
      <4>2. QED
        BY <1>2, <2>4, <4>1, StatusMoves
    <3>3. QED
      BY <1>4, <3>1, <3>2
  <2>5. QED
    BY <1>1, <2>1, <2>2, <2>3, <2>4
<1>5. QED
  BY <1>3, <1>4

-----------------------------------------------------------------------------
\* What the threads may rely on while every read of the file succeeded.

LEMMA BothStays ==
  ASSUME QueueTypes, OpensOnce, NEW a \in Actors, Pops(a), ~misread', NEW p \in Pairs, Both(p)
  PROVE  Both(p)' /\ Filled(legs', p) \subseteq Filled(legs, p)
<1>1. Both(p)'
  BY StatusMoves DEF Both
<1>2. ASSUME NEW s \in Sides, legs'[p][s].status = "filled" PROVE legs[p][s].status = "filled"
  <2>1. 1 \in 1 .. Len(queue[a]) /\ Head(queue[a]) = queue[a][1]
    BY PoppedQueue
  <2>2. CASE queue[a][1] = Op("open", p, s)
    <3>1. queue[a][1].do = "open" /\ queue[a][1].pair = p /\ queue[a][1].arg = s
      BY <2>2 DEF Op
    <3>2. legs[p][s].status = "none"
      BY <2>1, <3>1 DEF OpensOnce
    <3>3. QED
      BY <3>2 DEF Both
  <2>3. CASE queue[a][1] # Op("open", p, s)
    BY <1>2, <2>1, <2>3, StatusMoves
  <2>4. QED
    BY <2>2, <2>3
<1>3. QED
  BY <1>1, <1>2 DEF Filled

\* The close of a leg that stays filled has yet to come.
LEMMA CloseStays ==
  ASSUME QueueTypes, NEW a \in Actors, Pops(a), ~misread', NEW b \in Actors, NEW p \in Pairs,
         NEW s \in Filled(legs, p), s \in Filled(legs', p),
         NEW i \in 1 .. Len(queue[b]), queue[b][i] = Op("close", p, ExchangeOf(p, s))
  PROVE  \E j \in 1 .. Len(queue'[b]) : i = Was(a, b, j) /\ queue'[b][j] = queue[b][i]
<1>1. CASE b # a
  BY <1>1, PoppedQueue DEF Was
<1>2. CASE b = a /\ i > 1
  <2>1. i - 1 \in 1 .. Len(queue'[a])
    BY <1>2, PoppedQueue
  <2>2. queue'[a][i - 1] = queue[a][(i - 1) + 1] /\ (i - 1) + 1 = i
    BY <1>2, <2>1, PoppedQueue
  <2>3. QED
    BY <1>2, <2>1, <2>2 DEF Was
<1>3. CASE b = a /\ i = 1
  <2>1. Head(queue[a]) = Op("close", p, ExchangeOf(p, s))
    BY <1>3, PoppedQueue
  <2>2. s \in Matching(legs, p, ExchangeOf(p, s))
    BY DEF Matching
  <2>3. legs'[p][s].status = "closed"
    BY <2>1, <2>2 DEF Pops, Effect, Op
  <2>4. QED
    BY <2>3 DEF Filled
<1>4. QED
  BY <1>1, <1>2, <1>3

LEMMA PopKeepsTracked ==
  ASSUME TypeOK, QueueTypes, OpensOnce, SellThenBuy, TrackedRecorded, ~misread,
         NEW a \in Actors, Pops(a), ~misread', tracked' \subseteq tracked \cup Tracks(a)
  PROVE  TrackedRecorded'
<1> SUFFICES ASSUME NEW p \in tracked' PROVE Both(p)'
  BY DEF TrackedRecorded, Both
<1>1. CASE p \in tracked
  BY <1>1, BothStays DEF TrackedRecorded, TypeOK
<1>2. CASE p \in Tracks(a)
  <2>1. 1 \in 1 .. Len(queue[a]) /\ queue[a][1] = Op("open", p, "buy") /\ Head(queue[a]) = queue[a][1]
        /\ p \in Pairs
    BY <1>2, PoppedQueue DEF Tracks
  <2>2. legs[p]["sell"].status # "none"
    <3>1. queue[a][1].do = "open" /\ queue[a][1].arg = "buy" /\ queue[a][1].pair = p
      BY <2>1 DEF Op
    <3>2. 1 = 1 /\ (misread \/ legs[queue[a][1].pair]["sell"].status # "none")
      BY <2>1, <3>1 DEF SellThenBuy
    <3>3. QED
      BY <3>1, <3>2
  <2>3. legs'[p]["sell"].status # "none"
    BY <2>1, <2>2, StatusMoves DEF Sides
  <2>4. legs'[p]["buy"].status = "filled"
    BY <2>1 DEF Pops, Effect, Op
  <2>5. QED
    BY <2>3, <2>4 DEF Both, Sides
<1>3. QED
  BY <1>1, <1>2

LEMMA PopKeepsLeaving ==
  ASSUME TypeOK, QueueTypes, OpensOnce, TrackedRecorded, LeavingClose,
         NEW a \in Actors, Pops(a), ~misread', leaving' = leaving
  PROVE  LeavingClose'
<1>1. deal' = deal
  BY DEF Pops
<1> SUFFICES ASSUME NEW p \in leaving, NEW s \in Filled(legs', p)
             PROVE  \E i \in 1 .. Len(queue'["trader"]) :
                      queue'["trader"][i] = Op("close", p, ExchangeOf(p, s))
  BY <1>1 DEF LeavingClose, ExchangeOf
<1>2. p \in Pairs /\ Both(p) /\ "trader" \in Actors
  BY DEF TypeOK, TrackedRecorded, Actors
<1>3. s \in Filled(legs, p)
  BY <1>2, BothStays
<1>4. PICK i \in 1 .. Len(queue["trader"]) : queue["trader"][i] = Op("close", p, ExchangeOf(p, s))
  BY <1>3 DEF LeavingClose
<1>5. QED
  BY <1>2, <1>3, <1>4, CloseStays

LEMMA PopKeepsReopens ==
  ASSUME QueueTypes, OpensOnce, ClosesFirst, NEW a \in Actors, Pops(a), ~misread'
  PROVE  ClosesFirst'
<1>1. deal' = deal
  BY DEF Pops
<1> DEFINE r == "reentry"
<1>0. r \in Actors
  BY DEF Actors
<1> HIDE DEF r
<1> SUFFICES ASSUME NEW i \in 1 .. Len(queue'[r]), queue'[r][i].do = "reopen",
                    NEW p, p = queue'[r][i].pair
             PROVE  /\ \A s \in Sides : legs'[p][s].status # "none"
                    /\ \A s \in Filled(legs', p) :
                         \E j \in 1 .. i - 1 : queue'[r][j] = Op("close", p, ExchangeOf(p, s))
  <2>1. ASSUME NEW i \in 1 .. Len(queue'[r]), queue'[r][i].do = "reopen"
        PROVE  /\ \A s \in Sides : legs'[queue'[r][i].pair][s].status # "none"
               /\ \A s \in Filled(legs', queue'[r][i].pair) :
                    \E j \in 1 .. i - 1 : queue'[r][j] = Op("close", queue'[r][i].pair,
                      IF s = "sell" THEN deal[queue'[r][i].pair].market.short
                      ELSE deal[queue'[r][i].pair].market.long)
    BY <2>1 DEF ExchangeOf
  <2>2. QED
    BY <1>1, <2>1 DEF ClosesFirst, ExchangeOf, Both, r
<1> DEFINE k == Was(a, r, i)
<1>2. k \in 1 .. Len(queue[r]) /\ queue'[r][i] = queue[r][k] /\ p \in Pairs
      /\ Len(queue[r]) \in Nat /\ Len(queue'[r]) \in Nat
  BY <1>0, PoppedOps, OpenOps
<1>3. /\ Both(p)
      /\ \A s \in Filled(legs, p) : \E j \in 1 .. k - 1 : queue[r][j] = Op("close", p, ExchangeOf(p, s))
  BY <1>2 DEF ClosesFirst, r
<1>4. Both(p)' /\ Filled(legs', p) \subseteq Filled(legs, p)
  BY <1>2, <1>3, BothStays
<1>5. ASSUME NEW s \in Filled(legs', p)
      PROVE  \E j \in 1 .. i - 1 : queue'[r][j] = Op("close", p, ExchangeOf(p, s))
  <2>1. PICK j \in 1 .. k - 1 : queue[r][j] = Op("close", p, ExchangeOf(p, s))
    BY <1>3, <1>4
  <2>2. j \in 1 .. Len(queue[r])
    BY <1>2
  <2>3. PICK l \in 1 .. Len(queue'[r]) : j = Was(a, r, l) /\ queue'[r][l] = queue[r][j]
    BY <1>0, <1>2, <1>4, <2>1, <2>2, CloseStays
  <2>4. l \in 1 .. i - 1
    BY <1>2, <2>3 DEF Was
  <2>5. QED
    BY <2>1, <2>3, <2>4
<1>6. QED
  BY <1>4, <1>5 DEF Both

LEMMA AutoIsFinite ==
  AutoHedged \subseteq Pairs /\ IsFiniteSet(AutoHedged) /\ Cardinality(AutoHedged) \in Nat
<1>1. AutoHedged \subseteq Pairs
  BY DEF AutoHedged
<1>2. QED
  BY <1>1, PairsAreFinite, FS_Subset, FS_CardinalityType

\* The trader's hedged pairs grow by the pair it has just opened.
LEMMA AutoGrows ==
  ASSUME TypeOK, QueueTypes, OpensOnce, SellThenBuy, AutoTracked, NEW a \in Actors, Pops(a), ~misread'
  PROVE  AutoHedged' \subseteq AutoHedged \cup Tracks(a)
<1>1. deal' = deal
  BY DEF Pops
<1>2. 1 \in 1 .. Len(queue[a]) /\ Head(queue[a]) = queue[a][1] /\ queue[a] \in Seq(OpSet)
  BY PoppedQueue DEF QueueTypes
<1> SUFFICES ASSUME NEW p \in AutoHedged', p \notin AutoHedged PROVE p \in Tracks(a)
  OBVIOUS
<1>3. p \in Pairs /\ deal[p].auto /\ \A s \in Sides : legs'[p][s].status = "filled"
  BY <1>1 DEF AutoHedged, Hedged, Filled
<1>4. PICK s \in Sides : legs[p][s].status # "filled"
  BY <1>3 DEF AutoHedged, Hedged, Filled
<1>5. queue[a][1] = Op("open", p, s)
  BY <1>2, <1>3, <1>4, StatusMoves
<1>6. queue[a][1].do = "open" /\ queue[a][1].pair = p /\ queue[a][1].arg = s
  BY <1>5 DEF Op
<1>7. a = "trader"
  BY <1>2, <1>3, <1>6 DEF AutoTracked
<1>8. CASE s = "sell"
  <2>1. 1 < Len(queue[a]) /\ queue[a][1 + 1] = Op("open", p, "buy")
    BY <1>2, <1>6, <1>8 DEF SellThenBuy
  <2>2. 2 \in 1 .. Len(queue[a]) /\ queue[a][2] = Op("open", p, "buy")
    BY <1>2, <2>1
  <2>3. queue[a][2].do = "open" /\ queue[a][2].pair = p /\ queue[a][2].arg = "buy"
    BY <2>2 DEF Op
  <2>4. legs[p]["buy"].status = "none"
    BY <2>2, <2>3 DEF OpensOnce
  <2>5. queue[a][1] # Op("open", p, "buy")
    BY <1>6, <1>8 DEF Op
  <2>6. legs'[p]["buy"].status = "none"
    BY <1>2, <1>3, <2>4, <2>5, StatusMoves DEF Sides
  <2>7. QED
    BY <1>3, <2>6 DEF Sides
<1>9. CASE s = "buy"
  BY <1>2, <1>3, <1>5, <1>7, <1>9 DEF Tracks
<1>10. QED
  BY <1>8, <1>9 DEF Sides

\* The trader's open of its second leg is its last operation.
LEMMA TracksLast ==
  ASSUME QueueTypes, AutoTracked, NEW a \in Actors, Pops(a), NEW p \in Tracks(a), deal[p].auto
  PROVE  /\ a = "trader" /\ Len(queue'[a]) = 0 /\ p \in Pairs
         /\ Cardinality(AutoHedged) < MaxPos
         /\ \A q \in AutoHedged : SymbolOf(q) # SymbolOf(p)
         /\ Tracks(a) = {p}
<1>1. 1 \in 1 .. Len(queue[a]) /\ queue[a][1] = Op("open", p, "buy") /\ a = "trader" /\ p \in Pairs
      /\ Len(queue'[a]) = Len(queue[a]) - 1
  BY PoppedQueue DEF Tracks
<1>2. queue[a][1].do = "open" /\ queue[a][1].arg = "buy" /\ queue[a][1].pair = p
  BY <1>1 DEF Op
<1>3. /\ Cardinality(AutoHedged) < MaxPos
      /\ \A q \in AutoHedged : SymbolOf(q) # SymbolOf(p)
      /\ 1 = Len(queue[a])
  BY <1>1, <1>2 DEF AutoTracked
<1>4. \A q \in Tracks(a) : q = p
  BY <1>1, PoppedQueue DEF Tracks, Op
<1>5. QED
  BY <1>1, <1>3, <1>4

LEMMA PopKeepsLimits ==
  ASSUME TypeOK, QueueTypes, OpensOnce, SellThenBuy, AutoTracked, ~misread, TraderWithinLimits,
         NEW a \in Actors, Pops(a), ~misread', tracked' = tracked \cup Tracks(a)
  PROVE  AutoTracked' /\ TraderWithinLimits'
<1>1. deal' = deal
  BY DEF Pops
<1>2. AutoHedged' \subseteq AutoHedged \cup Tracks(a) /\ \A q \in AutoHedged' : deal[q].auto
  BY <1>1, AutoGrows DEF AutoHedged
<1>3. AutoHedged' \subseteq tracked'
  BY <1>2 DEF AutoTracked
<1>4. CASE \E p \in Tracks(a) : deal[p].auto
  <2>1. PICK p \in Tracks(a) : deal[p].auto
    BY <1>4
  <2>2. /\ a = "trader" /\ Len(queue'[a]) = 0 /\ p \in Pairs
        /\ Cardinality(AutoHedged) < MaxPos
        /\ \A q \in AutoHedged : SymbolOf(q) # SymbolOf(p)
        /\ AutoHedged' \subseteq AutoHedged \cup {p}
    BY <1>2, <2>1, TracksLast
  <2>3. AutoTracked'
    <3>1. ASSUME NEW b \in Actors, NEW i \in 1 .. Len(queue'[b]),
                 queue'[b][i].do = "open", deal'[queue'[b][i].pair].auto
          PROVE  FALSE
      <4>1. Was(a, b, i) \in 1 .. Len(queue[b]) /\ queue'[b][i] = queue[b][Was(a, b, i)]
        BY PoppedOps
      <4>2. b = "trader"
        BY <1>1, <3>1, <4>1 DEF AutoTracked
      <4>3. QED
        BY <2>2, <4>2
    <3>2. QED
      BY <1>3, <3>1 DEF AutoTracked
  <2>4. TraderWithinLimits'
    <3>1. Cardinality(AutoHedged') <= MaxPos
      <4>1. IsFiniteSet(AutoHedged \cup {p})
            /\ Cardinality(AutoHedged \cup {p}) <= Cardinality(AutoHedged) + 1
        <5>1. IsFiniteSet(AutoHedged) /\ Cardinality(AutoHedged) \in Nat
          BY AutoIsFinite
        <5>2. IsFiniteSet(AutoHedged \cup {p})
              /\ Cardinality(AutoHedged \cup {p}) = IF p \in AutoHedged THEN Cardinality(AutoHedged)
                                                    ELSE Cardinality(AutoHedged) + 1
          BY <5>1, FS_AddElement
        <5>3. QED
          BY <5>1, <5>2
      <4>2. Cardinality(AutoHedged') <= Cardinality(AutoHedged \cup {p})
            /\ Cardinality(AutoHedged') \in Nat /\ Cardinality(AutoHedged \cup {p}) \in Nat
        BY <2>2, <4>1, FS_Subset, FS_CardinalityType
      <4>3. MaxPos \in Nat /\ Cardinality(AutoHedged) \in Nat
        BY PaperAssumption, AutoIsFinite
      <4>4. QED
        BY <2>2, <4>1, <4>2, <4>3
    <3>2. \A q, r \in AutoHedged' : SymbolOf(q) = SymbolOf(r) => q = r
      BY <2>2 DEF TraderWithinLimits
    <3>3. QED
      BY <1>1, <3>1, <3>2 DEF TraderWithinLimits, SymbolOf
  <2>5. QED
    BY <2>3, <2>4
<1>5. CASE ~\E p \in Tracks(a) : deal[p].auto
  <2>1. AutoHedged' \subseteq AutoHedged
    BY <1>2, <1>5
  <2>2. Cardinality(AutoHedged') <= Cardinality(AutoHedged) /\ Cardinality(AutoHedged') \in Nat
        /\ Cardinality(AutoHedged) \in Nat /\ MaxPos \in Nat
    BY <2>1, AutoIsFinite, FS_Subset, FS_CardinalityType, PaperAssumption
  <2>3. AutoTracked'
    <3>1. ASSUME NEW b \in Actors, NEW i \in 1 .. Len(queue'[b]),
                 queue'[b][i].do = "open", deal'[queue'[b][i].pair].auto
          PROVE  /\ b = "trader"
                 /\ Cardinality(AutoHedged') < MaxPos
                 /\ \A q \in AutoHedged' : SymbolOf(q)' # SymbolOf(queue[b][Was(a, b, i)].pair)
                 /\ (queue'[b][i].arg = "buy" => i = Len(queue'[b]))
      <4> DEFINE k == Was(a, b, i)
      <4>1. k \in 1 .. Len(queue[b]) /\ queue'[b][i] = queue[b][k]
            /\ Len(queue'[b]) \in Nat /\ Len(queue[b]) \in Nat
            /\ (i < Len(queue'[b]) <=> k < Len(queue[b]))
        BY PoppedOps
      <4> HIDE DEF k
      <4>2. /\ b = "trader"
            /\ Cardinality(AutoHedged) < MaxPos
            /\ \A q \in AutoHedged : SymbolOf(q) # SymbolOf(queue[b][k].pair)
            /\ (queue[b][k].arg = "buy" => k = Len(queue[b]))
        BY <1>1, <3>1, <4>1 DEF AutoTracked
      <4>3. queue'[b][i].arg = "buy" => i = Len(queue'[b])
        BY <4>1, <4>2
      <4>4. \A q \in AutoHedged' : SymbolOf(q)' # SymbolOf(queue[b][k].pair)
        BY <1>1, <2>1, <4>2 DEF SymbolOf
      <4>5. QED
        BY <2>2, <4>2, <4>3, <4>4 DEF k
    <3>2. ASSUME NEW b \in Actors, NEW i \in 1 .. Len(queue'[b])
          PROVE  queue'[b][i] = queue[b][Was(a, b, i)]
      BY PoppedOps
    <3>3. QED
      BY <1>1, <1>3, <3>1, <3>2 DEF AutoTracked, SymbolOf
  <2>4. TraderWithinLimits'
    BY <1>1, <2>1, <2>2 DEF TraderWithinLimits, SymbolOf
  <2>5. QED
    BY <2>3, <2>4
<1>6. QED
  BY <1>4, <1>5

-----------------------------------------------------------------------------
\* Giving a thread work that records nothing, or taking its work away.

\* Work on named pairs that opens nothing.
Chores == {s \in Seq(OpSet) : \A i \in 1 .. Len(s) : s[i].do # "open" /\ deal[s[i].pair].made}

LEMMA ChoresAdd ==
  <<>> \in Chores /\ \A s, t \in Chores : s \o t \in Chores
<1>1. <<>> \in Chores
  BY DEF Chores
<1>2. ASSUME NEW s \in Chores, NEW t \in Chores PROVE s \o t \in Chores
  <2>1. s \in Seq(OpSet) /\ t \in Seq(OpSet)
    BY DEF Chores
  <2>2. s \o t \in Seq(OpSet) /\ Len(s \o t) = Len(s) + Len(t) /\ Len(s) \in Nat /\ Len(t) \in Nat
    BY <2>1
  <2>3. ASSUME NEW i \in 1 .. Len(s \o t)
        PROVE  (s \o t)[i].do # "open" /\ deal[(s \o t)[i].pair].made
    <3>1. CASE i \in 1 .. Len(s)
      BY <2>1, <3>1, Concat DEF Chores
    <3>2. CASE i \notin 1 .. Len(s)
      <4>1. i - Len(s) \in 1 .. Len(t) /\ Len(s) + (i - Len(s)) = i
        BY <2>2, <3>2
      <4>2. (s \o t)[i] = t[i - Len(s)]
        <5> DEFINE k == i - Len(s)
        <5>1. k \in 1 .. Len(t) /\ Len(s) + k = i
          BY <4>1
        <5> HIDE DEF k
        <5>2. (s \o t)[Len(s) + k] = t[k]
          BY <2>1, <5>1, Concat
        <5>3. QED
          BY <5>1, <5>2 DEF k
      <4>3. QED
        BY <4>1, <4>2 DEF Chores
    <3>3. QED
      BY <3>1, <3>2
  <2>4. QED
    BY <2>2, <2>3 DEF Chores
<1>3. QED
  BY <1>1, <1>2

\* A step that writes nothing, and leaves every queue alone or fills it with chores.
GetsChores ==
  /\ QueueTypes'
  /\ \A b \in Actors : queue'[b] = queue[b] \/ queue'[b] \in Chores
  /\ UNCHANGED <<deal, legs>>
  /\ misread => misread'

LEMMA ChoresKeep ==
  ASSUME Named, OpensOnce, SellThenBuy, GetsChores, \A p \in tracked' : deal[p].made
  PROVE  Named' /\ OpensOnce' /\ SellThenBuy'
<1>1. \A b \in Actors : \A i \in 1 .. Len(queue'[b]) :
        /\ queue'[b][i].do = "open" => queue'[b] = queue[b]
        /\ queue'[b] = queue[b] \/ deal[queue'[b][i].pair].made
  BY DEF GetsChores, Chores
<1>2. deal' = deal /\ legs' = legs
  BY DEF GetsChores
<1>3. Named'
  BY <1>1, <1>2 DEF Named
<1>4. OpensOnce'
  <2> SUFFICES ASSUME NEW b \in Actors, NEW i \in 1 .. Len(queue'[b]), queue'[b][i].do = "open"
               PROVE  /\ legs[queue'[b][i].pair][queue'[b][i].arg].status = "none"
                      /\ \A c \in Actors : \A j \in 1 .. Len(queue'[c]) :
                           queue'[c][j] = queue'[b][i] => b = c /\ i = j
    BY <1>2 DEF OpensOnce
  <2>1. queue'[b] = queue[b]
    BY <1>1
  <2>2. ASSUME NEW c \in Actors, NEW j \in 1 .. Len(queue'[c]), queue'[c][j] = queue'[b][i]
        PROVE  b = c /\ i = j
    <3>1. queue'[c] = queue[c]
      BY <1>1, <2>2
    <3>2. QED
      BY <2>1, <2>2, <3>1 DEF OpensOnce
  <2>3. QED
    BY <2>1, <2>2 DEF OpensOnce
<1>5. SellThenBuy'
  <2>1. misread => misread'
    BY DEF GetsChores
  <2> SUFFICES ASSUME NEW b \in Actors, NEW i \in 1 .. Len(queue'[b]), queue'[b][i].do = "open"
               PROVE  LET op == queue'[b][i] IN
                      IF op.arg = "sell"
                      THEN i < Len(queue'[b]) /\ queue'[b][i + 1] = Op("open", op.pair, "buy")
                      ELSE \/ i > 1 /\ queue'[b][i - 1] = Op("open", op.pair, "sell")
                           \/ i = 1 /\ (misread' \/ legs[op.pair]["sell"].status # "none")
    BY <1>2 DEF SellThenBuy, Op
  <2>2. queue'[b] = queue[b]
    BY <1>1
  <2>3. QED
    BY <2>1, <2>2 DEF SellThenBuy
<1>6. QED
  BY <1>3, <1>4, <1>5

LEMMA ChoresKeepAuto ==
  ASSUME AutoTracked, ~misread, TraderWithinLimits, GetsChores, AutoHedged \subseteq tracked'
  PROVE  AutoTracked' /\ TraderWithinLimits'
<1>1. deal' = deal /\ AutoHedged' = AutoHedged /\ legs' = legs
  BY DEF GetsChores, AutoHedged, Hedged, Filled
<1>2. TraderWithinLimits'
  BY <1>1 DEF TraderWithinLimits, SymbolOf
<1>3. ASSUME NEW b \in Actors, NEW i \in 1 .. Len(queue'[b]),
             queue'[b][i].do = "open", deal'[queue'[b][i].pair].auto
      PROVE  /\ b = "trader"
             /\ Cardinality(AutoHedged) < MaxPos
             /\ \A q \in AutoHedged : deal[q].market.symbol # deal[queue'[b][i].pair].market.symbol
             /\ (queue'[b][i].arg = "buy" => i = Len(queue'[b]))
  <2>1. queue'[b] = queue[b]
    BY <1>3 DEF GetsChores, Chores
  <2>2. QED
    BY <1>1, <1>3, <2>1 DEF AutoTracked, SymbolOf
<1>4. AutoTracked'
  BY <1>1, <1>3 DEF AutoTracked, SymbolOf
<1>5. QED
  BY <1>2, <1>4

LEMMA ChoresKeepReopens ==
  ASSUME ClosesFirst, GetsChores,
         \/ queue'["reentry"] = queue["reentry"]
         \/ \A i \in 1 .. Len(queue'["reentry"]) : queue'["reentry"][i].do # "reopen"
  PROVE  ClosesFirst'
BY DEF ClosesFirst, GetsChores, Both, Filled, ExchangeOf, Op

-----------------------------------------------------------------------------
\* The work a read gives a thread: one piece per pair.

LEMMA EachPair ==
  ASSUME NEW X, NEW C \in SUBSET Seq(X), <<>> \in C, \A s, t \in C : s \o t \in C,
         NEW q \in [Pairs -> C]
  PROVE  /\ FlattenSeq(q) \in C
         /\ \A p \in Pairs : Within(q[p], FlattenSeq(q))
<1>1. MaxPairs \in Nat
  BY PaperAssumption
<1>2. q \in Seq(C) /\ Len(q) = MaxPairs
  BY <1>1 DEF Pairs
<1>3. /\ FlattenSeq(q) \in C
      /\ \A i \in 1 .. Len(q) : Within(q[i], FlattenSeq(q))
  BY <1>2, FlattenKeeps
<1>4. QED
  BY <1>2, <1>3 DEF Pairs

LEMMA OpTypes ==
  ASSUME TypeOK, NEW p \in Pairs
  PROVE  /\ deal[p].market \in Markets
         /\ \A s \in Sides : ExchangeOf(p, s) \in Args
         /\ \A x \in Args : /\ Op("close", p, x) \in OpSet
                            /\ Op("accrue", p, x) \in OpSet
                            /\ Op("reopen", p, x) \in OpSet
         /\ \A m \in Markets : m.short \in Args /\ m.long \in Args
<1>1. deal[p].market \in Markets
  BY DEF TypeOK
<1>2. \A m \in Markets : m.short \in Args /\ m.long \in Args
  BY DEF Args, Exchanges
<1>3. QED
  BY <1>1, <1>2 DEF ExchangeOf, OpSet, Op, Args

LEMMA ChoreOf ==
  ASSUME NEW op \in OpSet, op.do # "open", deal[op.pair].made
  PROVE  <<op>> \in Chores
<1>1. <<op>> \in Seq(OpSet) /\ Len(<<op>>) = 1 /\ <<op>>[1] = op
  OBVIOUS
<1>2. QED
  BY <1>1 DEF Chores

LEMMA PairOfChores ==
  ASSUME NEW op \in OpSet, op.do # "open", deal[op.pair].made,
         NEW or \in OpSet, or.do # "open", deal[or.pair].made
  PROVE  <<op, or>> \in Chores
<1>1. <<op, or>> \in Seq(OpSet) /\ Len(<<op, or>>) = 2 /\ <<op, or>>[1] = op /\ <<op, or>>[2] = or
  OBVIOUS
<1>2. \A i \in 1 .. 2 : i = 1 \/ i = 2
  OBVIOUS
<1>3. QED
  BY <1>1, <1>2 DEF Chores

LEMMA ClosesAreChores ==
  ASSUME TypeOK, NEW p \in Pairs, deal[p].made, NEW m \in Markets
  PROVE  Closes(p, m) \in Chores
<1>1. Op("close", p, m.short) \in OpSet /\ Op("close", p, m.long) \in OpSet
  BY OpTypes
<1>2. QED
  BY <1>1, PairOfChores DEF Closes, Op

LEMMA OwnCloses ==
  ASSUME TypeOK, NEW p \in Pairs, deal[p].made
  PROVE  /\ ClosesOwn(p) \in Chores
         /\ Len(ClosesOwn(p)) = 2
         /\ \A s \in Sides : \E k \in 1 .. 2 : ClosesOwn(p)[k] = Op("close", p, ExchangeOf(p, s))
         /\ \A k \in 1 .. 2 : ClosesOwn(p)[k].do = "close"
<1>1. ClosesOwn(p) \in Chores
  BY ClosesAreChores, OpTypes DEF ClosesOwn
<1>2. ClosesOwn(p) = <<Op("close", p, ExchangeOf(p, "sell")), Op("close", p, ExchangeOf(p, "buy"))>>
  BY DEF ClosesOwn, Closes, ExchangeOf
<1>3. /\ 1 \in 1 .. 2 /\ ClosesOwn(p)[1] = Op("close", p, ExchangeOf(p, "sell"))
      /\ 2 \in 1 .. 2 /\ ClosesOwn(p)[2] = Op("close", p, ExchangeOf(p, "buy"))
      /\ \A k \in 1 .. 2 : k = 1 \/ k = 2
  BY <1>2
<1>4. QED
  BY <1>1, <1>2, <1>3 DEF Sides, Op

\* What is left of a pair that is not hedged is one leg, and its close is asked for.
LEMMA RestCloses ==
  ASSUME TypeOK, NEW p \in Pairs, deal[p].made, NEW file
  PROVE  /\ ClosesRest(file, p) \in Chores
         /\ ~Hedged(file, p) => \A s \in Filled(file, p) :
              \E k \in 1 .. Len(ClosesRest(file, p)) :
                ClosesRest(file, p)[k] = Op("close", p, ExchangeOf(p, s))
<1>1. CASE ~Live(file, p)
  BY <1>1, ChoresAdd DEF ClosesRest, Live
<1>2. CASE Live(file, p)
  <2> DEFINE t == CHOOSE s \in Filled(file, p) : TRUE
             op == Op("close", p, ExchangeOf(p, t))
  <2>1. t \in Filled(file, p) /\ t \in Sides
    BY <1>2 DEF Live, Filled
  <2>2. ClosesRest(file, p) = <<op>>
    BY <1>2 DEF ClosesRest, ClosesLeg
  <2>3. ~Hedged(file, p) => \A s \in Filled(file, p) : s = t
    BY <2>1 DEF Hedged, Filled, Sides
  <2> HIDE DEF t
  <2>4. op \in OpSet /\ op.do = "close" /\ op.pair = p
    <3>1. ExchangeOf(p, t) \in Args
      BY <2>1, OpTypes
    <3>2. QED
      BY <3>1, OpTypes DEF Op
  <2>5. <<op>> \in Chores
    BY <2>4, ChoreOf
  <2>6. Len(<<op>>) = 1 /\ <<op>>[1] = op /\ 1 \in 1 .. 1
    OBVIOUS
  <2>7. QED
    BY <2>2, <2>3, <2>5, <2>6
<1>3. QED
  BY <1>1, <1>2

\* A pair that has a leg in a file that was read has a deal.
LEMMA LiveIsMade ==
  ASSUME Named, NEW file \in Read(legs), NEW p \in Pairs, Live(file, p)
  PROVE  deal[p].made /\ file = legs
<1>1. file = legs
  BY DEF Read, Live, Filled, Empty, Missing
<1>2. QED
  BY <1>1 DEF Live, Filled, Named

LEMMA ListOf ==
  ASSUME NEW n \in Nat, NEW C, NEW q \in [1 .. n -> C]
  PROVE  q \in Seq(C) /\ Len(q) = n
OBVIOUS

LEMMA ChargesAreChores ==
  ASSUME TypeOK, Named, NEW file \in Read(legs), NEW p \in Pairs, NEW known
  PROVE  Charges(file, p, known) \in Chores
<1> DEFINE piece == [i \in 1 .. 2 |->
             LET s == <<"sell", "buy">>[i]
             IN  IF s \in Filled(file, p) /\ ExchangeOf(p, s) \in known
                 THEN <<Op("accrue", p, ExchangeOf(p, s))>> ELSE <<>>]
<1>1. ASSUME NEW s \in Filled(file, p) PROVE <<Op("accrue", p, ExchangeOf(p, s))>> \in Chores
  <2>1. deal[p].made /\ s \in Sides
    BY <1>1, LiveIsMade DEF Live, Filled
  <2>2. Op("accrue", p, ExchangeOf(p, s)) \in OpSet
    BY <2>1, OpTypes
  <2>3. QED
    BY <2>1, <2>2, ChoreOf DEF Op
<1>2. piece \in Seq(Chores)
  <2>1. ASSUME NEW i \in 1 .. 2 PROVE piece[i] \in Chores
    <3> DEFINE s == <<"sell", "buy">>[i]
    <3>1. piece[i] = IF s \in Filled(file, p) /\ ExchangeOf(p, s) \in known
                     THEN <<Op("accrue", p, ExchangeOf(p, s))>> ELSE <<>>
      OBVIOUS
    <3> HIDE DEF s, piece
    <3>2. QED
      BY <1>1, <3>1, ChoresAdd
  <2>2. piece \in [1 .. 2 -> Chores]
    BY <2>1
  <2> HIDE DEF piece
  <2>3. QED
    BY <2>2, ListOf
<1>3. FlattenSeq(piece) \in Chores
  <2> HIDE DEF piece
  <2>1. Chores \in SUBSET Seq(OpSet)
    BY DEF Chores
  <2>2. QED
    BY <1>2, <2>1, ChoresAdd, FlattenKeeps
<1>4. QED
  BY <1>3 DEF Charges

LEMMA SeenFile ==
  ASSUME TypeOK, NEW file, Sees(file)
  PROVE  misread' \in BOOLEAN /\ (misread => misread') /\ (~misread' => file = legs /\ ~misread)
BY DEF Sees, TypeOK

LEMMA GivesChores ==
  ASSUME QueueTypes, NEW a \in Actors, NEW work \in Chores, Does(a, work),
         UNCHANGED <<deal, legs>>, misread => misread'
  PROVE  GetsChores /\ queue'[a] = work /\ DOMAIN queue' = Actors
         /\ \A b \in Actors \ {a} : queue'[b] = queue[b]
<1>1. work \in Seq(OpSet)
  BY DEF Chores
<1>2. queue' = [queue EXCEPT ![a] = work]
  BY DEF Does
<1>3. QED
  BY <1>1, <1>2 DEF QueueTypes, GetsChores

LEMMA KeepsNoWork ==
  ASSUME QueueTypes, UNCHANGED <<deal, legs, queue>>, misread => misread'
  PROVE  GetsChores
BY DEF QueueTypes, GetsChores

LEMMA ChoresOfPairs ==
  ASSUME NEW q \in [Pairs -> Chores]
  PROVE  FlattenSeq(q) \in Chores /\ \A p \in Pairs : Within(q[p], FlattenSeq(q))
<1>1. Chores \in SUBSET Seq(OpSet)
  BY DEF Chores
<1>2. QED
  BY <1>1, ChoresAdd, EachPair

-----------------------------------------------------------------------------
\* The trader's passes.

\* The reads are only of use for what they show of the file.
Inductive == Known /\ Trusted

LEMMA LeftIsClosed ==
  ASSUME LeavingClose, QueueTypes, Idle("trader"), NEW p \in leaving
  PROVE  Filled(legs, p) = {}
BY DEF LeavingClose, Idle, Filled

LEMMA CloseWork ==
  ASSUME TypeOK, Named, NEW S \in SUBSET tracked
  PROVE  /\ ForEach(S, ClosesOwn) \in Chores
         /\ \A p \in S, s \in Sides :
              \E k \in 1 .. Len(ForEach(S, ClosesOwn)) :
                ForEach(S, ClosesOwn)[k] = Op("close", p, ExchangeOf(p, s))
<1> DEFINE q == [p \in Pairs |-> IF p \in S THEN ClosesOwn(p) ELSE <<>>]
<1>1. \A p \in S : p \in Pairs /\ deal[p].made
  BY DEF Named, TypeOK
<1>2. q \in [Pairs -> Chores]
  BY <1>1, OwnCloses, ChoresAdd
<1>3. ForEach(S, ClosesOwn) = FlattenSeq(q)
  BY DEF ForEach
<1>4. \A p \in S : q[p] = ClosesOwn(p)
  BY <1>1
<1> HIDE DEF q
<1>5. FlattenSeq(q) \in Chores /\ \A p \in S : Within(ClosesOwn(p), FlattenSeq(q))
  BY <1>1, <1>2, <1>4, ChoresOfPairs
<1>6. ASSUME NEW p \in S, NEW s \in Sides
      PROVE  \E k \in 1 .. Len(FlattenSeq(q)) : FlattenSeq(q)[k] = Op("close", p, ExchangeOf(p, s))
  <2>1. PICK k \in 1 .. 2 : ClosesOwn(p)[k] = Op("close", p, ExchangeOf(p, s))
    BY <1>1, OwnCloses
  <2>2. k \in 1 .. Len(ClosesOwn(p))
    BY <1>1, OwnCloses
  <2>3. QED
    BY <1>5, <2>1, <2>2 DEF Within
<1>7. QED
  BY <1>3, <1>5, <1>6

\* The closes of the legs that a broken pair has left.
RestOf(S, file) == ForEach(S, LAMBDA p : ClosesRest(file, p))

LEMMA RestWork ==
  ASSUME TypeOK, Named, NEW S \in SUBSET tracked, NEW file, NEW work, work = RestOf(S, file)
  PROVE  /\ work \in Chores
         /\ \A p \in S : ~Hedged(file, p) => \A s \in Filled(file, p) :
              \E k \in 1 .. Len(work) : work[k] = Op("close", p, ExchangeOf(p, s))
<1> DEFINE q == [p \in Pairs |-> IF p \in S THEN ClosesRest(file, p) ELSE <<>>]
<1>1. \A p \in S : p \in Pairs /\ deal[p].made
  BY DEF Named, TypeOK
<1>2. q \in [Pairs -> Chores]
  BY <1>1, RestCloses, ChoresAdd
<1>3. work = FlattenSeq(q)
  BY DEF RestOf, ForEach
<1>4. \A p \in S : q[p] = ClosesRest(file, p)
  BY <1>1
<1> HIDE DEF q
<1>5. work \in Chores /\ \A p \in S : Within(ClosesRest(file, p), work)
  BY <1>1, <1>2, <1>3, <1>4, ChoresOfPairs
<1>6. ASSUME NEW p \in S, ~Hedged(file, p), NEW s \in Filled(file, p)
      PROVE  \E k \in 1 .. Len(work) : work[k] = Op("close", p, ExchangeOf(p, s))
  <2>1. PICK k \in 1 .. Len(ClosesRest(file, p)) :
               ClosesRest(file, p)[k] = Op("close", p, ExchangeOf(p, s))
    BY <1>1, <1>6, RestCloses
  <2>2. QED
    BY <1>5, <2>1 DEF Within
<1>7. QED
  BY <1>5, <1>6

LEMMA ClosePassKeeps ==
  ASSUME Inductive, ClosePass
  PROVE  Inductive'
<1>0. Known /\ Trusted /\ "trader" \in Actors
  BY DEF Inductive, Actors
<1> USE DEF Known
<1>1. PICK file \in Read(legs), converged \in SUBSET tracked :
        /\ Does("trader", ForEach(converged, ClosesOwn))
        /\ leaving' = converged /\ Sees(file)
  BY DEF ClosePass
<1> DEFINE work == ForEach(converged, ClosesOwn)
<1>2. phase' = "closing" /\ UNCHANGED <<deal, legs, tracked, marked>>
  BY DEF ClosePass
<1>3. misread' \in BOOLEAN /\ (misread => misread') /\ (~misread' => file = legs /\ ~misread)
  BY <1>0, <1>1, SeenFile
<1>4. /\ work \in Chores
      /\ \A p \in converged, s \in Sides :
           \E k \in 1 .. Len(work) : work[k] = Op("close", p, ExchangeOf(p, s))
  BY <1>0, CloseWork
<1> HIDE DEF work
<1>5. GetsChores /\ queue'["trader"] = work /\ DOMAIN queue' = Actors
      /\ \A b \in Actors \ {"trader"} : queue'[b] = queue[b]
  BY <1>0, <1>1, <1>2, <1>3, <1>4, GivesChores DEF work
<1>6. TypeOK'
  BY <1>0, <1>1, <1>2, <1>3, <1>5 DEF TypeOK
<1>7. Known'
  BY <1>0, <1>2, <1>5, <1>6, ChoresKeep DEF GetsChores, Named
<1>8. ASSUME ~misread' PROVE TrackedRecorded' /\ LeavingClose' /\ AutoTracked' /\ ClosesFirst'
                             /\ TraderWithinLimits'
  <2>1. TrackedRecorded /\ AutoTracked /\ ClosesFirst /\ TraderWithinLimits /\ ~misread
    BY <1>0, <1>3, <1>8 DEF Trusted
  <2>2. TrackedRecorded'
    BY <1>2, <2>1 DEF TrackedRecorded, Both
  <2>3. LeavingClose'
    BY <1>1, <1>2, <1>4, <1>5 DEF LeavingClose, ExchangeOf, Filled
  <2>4. AutoTracked' /\ TraderWithinLimits'
    BY <1>2, <1>5, <2>1, ChoresKeepAuto DEF AutoTracked
  <2>5. ClosesFirst'
    BY <1>5, <2>1, ChoresKeepReopens DEF Actors
  <2>6. QED
    BY <2>2, <2>3, <2>4, <2>5
<1>9. QED
  BY <1>7, <1>8 DEF Inductive, Trusted

\* A step that hands out chores keeps the invariant if it keeps what is tracked.
LEMMA ChoresKeepAll ==
  ASSUME Inductive, GetsChores, TypeOK', \A p \in tracked' : deal[p].made,
         ~misread' => /\ \A p \in tracked' : Both(p)
                      /\ AutoHedged \subseteq tracked'
                      /\ LeavingClose' /\ ClosesFirst'
  PROVE  Inductive'
<1>1. UNCHANGED <<deal, legs>> /\ (misread => misread') /\ misread' \in BOOLEAN /\ misread \in BOOLEAN
  BY DEF GetsChores, TypeOK, Inductive, Known
<1>2. Known'
  BY ChoresKeep DEF Inductive, Known, GetsChores
<1>3. ASSUME ~misread' PROVE TrackedRecorded' /\ AutoTracked' /\ TraderWithinLimits'
  <2>1. AutoTracked /\ TraderWithinLimits /\ ~misread
    BY <1>1, <1>3 DEF Inductive, Trusted
  <2>2. TrackedRecorded'
    BY <1>1, <1>3 DEF TrackedRecorded, Both
  <2>3. QED
    BY <1>3, <2>1, <2>2, ChoresKeepAuto
<1>4. QED
  BY <1>2, <1>3 DEF Inductive, Trusted

\* The trader's memory and the work of its threads, after a step of another one.
LEMMA OthersKeepAll ==
  ASSUME Inductive, GetsChores, TypeOK', UNCHANGED <<tracked, leaving>>,
         queue'["trader"] = queue["trader"], ~misread' => ClosesFirst'
  PROVE  Inductive'
<1>1. UNCHANGED <<deal, legs>> /\ (misread => misread') /\ misread' \in BOOLEAN /\ misread \in BOOLEAN
  BY DEF GetsChores, TypeOK, Inductive, Known
<1>2. \A p \in tracked' : deal[p].made
  BY DEF Inductive, Known, Named
<1>3. ASSUME ~misread'
      PROVE  /\ \A p \in tracked' : Both(p)
             /\ AutoHedged \subseteq tracked'
             /\ LeavingClose'
  <2>1. TrackedRecorded /\ AutoTracked /\ LeavingClose
    BY <1>1, <1>3 DEF Inductive, Trusted
  <2>2. LeavingClose'
    BY <1>1, <2>1 DEF LeavingClose, ExchangeOf, Filled
  <2>3. QED
    BY <2>1, <2>2 DEF TrackedRecorded, AutoTracked
<1>4. QED
  BY <1>2, <1>3, ChoresKeepAll

LEMMA ReopensStay ==
  ASSUME Inductive, GetsChores, ~misread',
         \/ queue'["reentry"] = queue["reentry"]
         \/ queue'["reentry"] = <<>>
  PROVE  ClosesFirst'
<1>1. ClosesFirst
  BY DEF Inductive, Trusted, Known, TypeOK, GetsChores
<1>2. QED
  BY <1>1, ChoresKeepReopens

LEMMA UnhedgedPassKeeps ==
  ASSUME Inductive, UnhedgedPass
  PROVE  Inductive' /\ \A p \in tracked \ tracked' : Live(legs, p) => misread'
<1>0. Known /\ Trusted /\ "trader" \in Actors
  BY DEF Inductive, Actors
<1> USE DEF Known
<1>a. PICK file \in Read(legs) : \E ripe \in SUBSET Ripe(file) : UnhedgedPassOver(file, ripe)
  BY DEF UnhedgedPass
<1>1. PICK ripe \in SUBSET Ripe(file) : UnhedgedPassOver(file, ripe)
  BY <1>a
<1> DEFINE work == RestOf(ripe, file)
<1>2. /\ Idle("trader") /\ Sees(file) /\ Does("trader", work)
      /\ tracked' = tracked \ leaving /\ leaving' = ripe /\ phase' = "unhedged"
      /\ UNCHANGED <<deal, legs, marked>>
  BY <1>1 DEF UnhedgedPassOver, RestOf
<1>3. misread' \in BOOLEAN /\ (misread => misread') /\ (~misread' => file = legs /\ ~misread)
  BY <1>0, <1>2, SeenFile
<1>4. ripe \subseteq tracked \ leaving /\ \A p \in ripe : ~Hedged(file, p)
  BY DEF Ripe
<1>5. ripe \in SUBSET tracked
  BY <1>4
<1>6. /\ work \in Chores
      /\ \A p \in ripe : \A s \in Filled(file, p) :
           \E k \in 1 .. Len(work) : work[k] = Op("close", p, ExchangeOf(p, s))
  BY <1>0, <1>4, <1>5, RestWork
<1> HIDE DEF work
<1>7. GetsChores /\ queue'["trader"] = work /\ DOMAIN queue' = Actors
      /\ \A b \in Actors \ {"trader"} : queue'[b] = queue[b]
  BY <1>0, <1>2, <1>3, <1>6, GivesChores
<1>8. TypeOK'
  BY <1>0, <1>2, <1>3, <1>4, <1>7 DEF TypeOK
<1>9. \A p \in tracked' : deal[p].made
  BY <1>0, <1>2 DEF Named
<1>10. ASSUME ~misread' PROVE \A p \in leaving : Filled(legs, p) = {}
  BY <1>0, <1>2, <1>3, <1>10, LeftIsClosed DEF Trusted
<1>11. ASSUME ~misread'
       PROVE  /\ \A p \in tracked' : Both(p)
              /\ AutoHedged \subseteq tracked'
              /\ LeavingClose' /\ ClosesFirst'
  <2>1. TrackedRecorded /\ AutoTracked
    BY <1>0, <1>3, <1>11 DEF Trusted
  <2>2. \A p \in tracked' : Both(p)
    BY <1>2, <2>1 DEF TrackedRecorded
  <2>3. AutoHedged \subseteq tracked'
    BY <1>2, <1>10, <1>11, <2>1 DEF AutoTracked, AutoHedged, Hedged, Sides
  <2>4. LeavingClose'
    BY <1>2, <1>3, <1>6, <1>7, <1>11 DEF LeavingClose, ExchangeOf, Filled
  <2>5. ClosesFirst'
    BY <1>7, <1>11, ReopensStay DEF Actors
  <2>6. QED
    BY <2>2, <2>3, <2>4, <2>5
<1>12. Inductive'
  BY <1>7, <1>8, <1>9, <1>11, ChoresKeepAll
<1>13. \A p \in tracked \ tracked' : Live(legs, p) => misread'
  BY <1>2, <1>10 DEF Live
<1>14. QED
  BY <1>12, <1>13

LEMMA EndUnhedgedKeeps ==
  ASSUME Inductive, EndUnhedged
  PROVE  Inductive' /\ \A p \in tracked \ tracked' : Live(legs, p) => misread'
<1>0. Known /\ Trusted
  BY DEF Inductive
<1> USE DEF Known
<1>2. /\ Idle("trader") /\ tracked' = tracked \ leaving /\ leaving' = {} /\ phase' = "opening"
      /\ UNCHANGED <<deal, legs, marked, queue, misread>>
  BY DEF EndUnhedged
<1>7. GetsChores
  BY <1>0, <1>2, KeepsNoWork
<1>8. TypeOK'
  BY <1>0, <1>2 DEF TypeOK
<1>9. \A p \in tracked' : deal[p].made
  BY <1>0, <1>2 DEF Named
<1>10. ASSUME ~misread' PROVE \A p \in leaving : Filled(legs, p) = {}
  BY <1>0, <1>2, <1>10, LeftIsClosed DEF Trusted
<1>11. ASSUME ~misread'
       PROVE  /\ \A p \in tracked' : Both(p)
              /\ AutoHedged \subseteq tracked'
              /\ LeavingClose' /\ ClosesFirst'
  <2>1. TrackedRecorded /\ AutoTracked
    BY <1>0, <1>2, <1>11 DEF Trusted
  <2>2. \A p \in tracked' : Both(p)
    BY <1>2, <2>1 DEF TrackedRecorded
  <2>3. AutoHedged \subseteq tracked'
    BY <1>2, <1>10, <1>11, <2>1 DEF AutoTracked, AutoHedged, Hedged, Sides
  <2>4. LeavingClose'
    BY <1>2 DEF LeavingClose
  <2>5. ClosesFirst'
    BY <1>2, <1>7, <1>11, ReopensStay
  <2>6. QED
    BY <2>2, <2>3, <2>4, <2>5
<1>12. Inductive'
  BY <1>7, <1>8, <1>9, <1>11, ChoresKeepAll
<1>13. \A p \in tracked \ tracked' : Live(legs, p) => misread'
  BY <1>2, <1>10 DEF Live
<1>14. QED
  BY <1>12, <1>13

LEMMA EndTickKeeps ==
  ASSUME Inductive, EndTick
  PROVE  Inductive'
<1>1. Known
  BY DEF Inductive
<1>2. phase' = "idle" /\ UNCHANGED <<deal, legs, tracked, leaving, marked, queue, misread>>
  BY DEF EndTick
<1>3. GetsChores /\ TypeOK'
  BY <1>1, <1>2, KeepsNoWork DEF Known, TypeOK
<1>4. QED
  BY <1>2, <1>3, OthersKeepAll, ReopensStay

LEMMA WriteRaisesKeeps ==
  ASSUME Inductive, NEW a \in Actors, WriteRaises(a)
  PROVE  Inductive'
<1>0. Known /\ Trusted
  BY DEF Inductive
<1> USE DEF Known
<1>1. /\ Does(a, <<>>) /\ UNCHANGED <<deal, legs, tracked, marked, misread>>
      /\ phase' = (IF a = "trader" THEN "idle" ELSE phase)
      /\ leaving' = (IF a = "trader" THEN {} ELSE leaving)
  BY DEF WriteRaises
<1>2. <<>> \in Chores
  BY ChoresAdd
<1>3. GetsChores /\ queue'[a] = <<>> /\ DOMAIN queue' = Actors
      /\ \A b \in Actors \ {a} : queue'[b] = queue[b]
  BY <1>0, <1>1, <1>2, GivesChores
<1>4. TypeOK'
  BY <1>0, <1>1, <1>3 DEF TypeOK
<1>5. \A p \in tracked' : deal[p].made
  BY <1>0, <1>1 DEF Named
<1>6. ASSUME ~misread'
      PROVE  /\ \A p \in tracked' : Both(p)
             /\ AutoHedged \subseteq tracked'
             /\ LeavingClose' /\ ClosesFirst'
  <2>1. TrackedRecorded /\ AutoTracked /\ LeavingClose
    BY <1>0, <1>1, <1>6 DEF Trusted
  <2>2. LeavingClose'
    BY <1>1, <1>3, <2>1 DEF LeavingClose, ExchangeOf, Filled, Actors
  <2>3. ClosesFirst'
    BY <1>3, <1>6, ReopensStay DEF Actors
  <2>4. QED
    BY <1>1, <2>1, <2>2, <2>3 DEF TrackedRecorded, AutoTracked
<1>7. QED
  BY <1>3, <1>4, <1>5, <1>6, ChoresKeepAll

-----------------------------------------------------------------------------
\* The services, the window and the restart.

LEMMA GuardScanKeeps ==
  ASSUME Inductive, GuardScan
  PROVE  Inductive'
<1>0. Known
  BY DEF Inductive
<1>1. PICK file \in Read(legs) : marked' \subseteq Pairs /\ Sees(file)
  BY DEF GuardScan
<1>2. UNCHANGED <<deal, legs, tracked, phase, leaving, queue>>
  BY DEF GuardScan
<1>3. misread' \in BOOLEAN /\ (misread => misread')
  BY <1>0, <1>1, SeenFile DEF Known
<1>4. GetsChores /\ TypeOK'
  BY <1>0, <1>1, <1>2, <1>3, KeepsNoWork DEF Known, TypeOK
<1>5. QED
  BY <1>2, <1>4, OthersKeepAll, ReopensStay

LEMMA GuardWork ==
  ASSUME TypeOK, Named, NEW file \in Read(legs), NEW order \in SetToSeqs(marked)
  PROVE  FlattenSeq([i \in 1 .. Len(order) |->
            IF Hedged(file, order[i])   THEN ClosesOwn(order[i])
            ELSE IF Live(file, order[i]) THEN ClosesRest(file, order[i])
            ELSE <<>>]) \in Chores
<1> DEFINE n == Cardinality(marked)
<1>1. n \in Nat /\ marked \subseteq Pairs
  BY PairsAreFinite, FS_Subset, FS_CardinalityType DEF TypeOK
<1>2. order \in [1 .. n -> marked]
  BY DEF SetToSeqs
<1> HIDE DEF n
<1>3. Len(order) = n
  BY <1>1, <1>2, ListOf
<1>4. ASSUME NEW p \in Pairs
      PROVE  (IF Hedged(file, p) THEN ClosesOwn(p)
              ELSE IF Live(file, p) THEN ClosesRest(file, p) ELSE <<>>) \in Chores
  <2>1. Hedged(file, p) => Live(file, p)
    BY DEF Hedged, Live, Sides
  <2>2. Live(file, p) => deal[p].made
    BY LiveIsMade
  <2>3. QED
    BY <2>1, <2>2, OwnCloses, RestCloses, ChoresAdd
<1> DEFINE q == [i \in 1 .. Len(order) |->
              IF Hedged(file, order[i])   THEN ClosesOwn(order[i])
              ELSE IF Live(file, order[i]) THEN ClosesRest(file, order[i])
              ELSE <<>>]
<1>5. q \in [1 .. n -> Chores]
  <2>1. \A i \in 1 .. n : order[i] \in Pairs
    BY <1>1, <1>2
  <2>2. QED
    BY <1>3, <1>4, <2>1
<1> HIDE DEF q
<1>6. q \in Seq(Chores)
  BY <1>1, <1>5, ListOf
<1>7. Chores \in SUBSET Seq(OpSet)
  BY DEF Chores
<1>8. FlattenSeq(q) \in Chores
  BY <1>6, <1>7, ChoresAdd, FlattenKeeps
<1>9. QED
  BY <1>8 DEF q

\* A service other than the re-entry takes up its work.
LEMMA ServiceKeeps ==
  ASSUME Inductive, NEW a \in Actors \ {"trader", "reentry"}, NEW work \in Chores, Does(a, work),
         NEW file, Sees(file), UNCHANGED <<deal, legs, tracked, phase, leaving>>, marked' \subseteq Pairs
  PROVE  Inductive'
<1>0. Known
  BY DEF Inductive
<1>1. misread' \in BOOLEAN /\ (misread => misread')
  BY <1>0, SeenFile DEF Known
<1>2. GetsChores /\ DOMAIN queue' = Actors
      /\ queue'["trader"] = queue["trader"] /\ queue'["reentry"] = queue["reentry"]
  BY <1>0, <1>1, GivesChores DEF Known, Actors
<1>3. TypeOK'
  BY <1>0, <1>1, <1>2 DEF Known, TypeOK
<1>4. QED
  BY <1>2, <1>3, OthersKeepAll, ReopensStay

LEMMA GuardClosesKeeps ==
  ASSUME Inductive, GuardCloses
  PROVE  Inductive'
<1>1. TypeOK /\ Named
  BY DEF Inductive, Known
<1>2. PICK file \in Read(legs), order \in SetToSeqs(marked) :
        /\ Does("guard", FlattenSeq([i \in 1 .. Len(order) |->
                IF Hedged(file, order[i])   THEN ClosesOwn(order[i])
                ELSE IF Live(file, order[i]) THEN ClosesRest(file, order[i])
                ELSE <<>>]))
        /\ Sees(file)
  BY DEF GuardCloses
<1>3. UNCHANGED <<deal, legs, tracked, phase, leaving>> /\ marked' \subseteq Pairs
  BY DEF GuardCloses
<1>4. "guard" \in Actors \ {"trader", "reentry"}
  BY DEF Actors
<1>5. QED
  BY <1>1, <1>2, <1>3, <1>4, GuardWork, ServiceKeeps

LEMMA WindowClosesKeeps ==
  ASSUME Inductive, WindowCloses
  PROVE  Inductive'
<1>1. TypeOK /\ Named
  BY DEF Inductive, Known
<1>2. PICK file \in Read(legs) : \E p \in OpenPairs(file) :
        Does("window", Closes(p, WindowMarket)) /\ Sees(file)
  BY DEF WindowCloses
<1>3. PICK p \in OpenPairs(file) : Does("window", Closes(p, WindowMarket)) /\ Sees(file)
  BY <1>2
<1>4. p \in Pairs /\ deal[p].made
  BY <1>1, LiveIsMade DEF OpenPairs
<1>5. Closes(p, WindowMarket) \in Chores
  BY <1>1, <1>4, ClosesAreChores, PaperAssumption
<1>6. UNCHANGED <<deal, legs, tracked, phase, leaving>> /\ marked' \subseteq Pairs
  BY <1>1 DEF WindowCloses, TypeOK
<1>7. "window" \in Actors \ {"trader", "reentry"}
  BY DEF Actors
<1>8. QED
  BY <1>3, <1>5, <1>6, <1>7, ServiceKeeps

\* The charges of one tick of the accrual.
ChargesOf(file, known) == ForEach(Pairs, LAMBDA p : Charges(file, p, known))

LEMMA ChargeWork ==
  ASSUME TypeOK, Named, NEW file \in Read(legs), NEW known, NEW work, work = ChargesOf(file, known)
  PROVE  work \in Chores
<1> DEFINE q == [p \in Pairs |-> IF p \in Pairs THEN Charges(file, p, known) ELSE <<>>]
<1>1. q \in [Pairs -> Chores]
  BY ChargesAreChores
<1>2. work = FlattenSeq(q)
  BY DEF ChargesOf, ForEach
<1> HIDE DEF q
<1>3. QED
  BY <1>1, <1>2, ChoresOfPairs

LEMMA AccrualTickKeeps ==
  ASSUME Inductive, AccrualTick
  PROVE  Inductive'
<1>1. TypeOK /\ Named
  BY DEF Inductive, Known
<1>2. PICK file \in Read(legs), known \in SUBSET Exchanges :
        Does("accrual", ChargesOf(file, known)) /\ Sees(file)
  BY DEF AccrualTick, ChargesOf
<1>3. ChargesOf(file, known) \in Chores
  BY <1>1, ChargeWork
<1>4. UNCHANGED <<deal, legs, tracked, phase, leaving>> /\ marked' \subseteq Pairs
  BY <1>1 DEF AccrualTick, TypeOK
<1>5. "accrual" \in Actors \ {"trader", "reentry"}
  BY DEF Actors
<1>6. QED
  BY <1>2, <1>3, <1>4, <1>5, ServiceKeeps

LEMMA CrashKeeps ==
  ASSUME Inductive, Crash
  PROVE  Inductive'
<1>0. Known /\ Trusted
  BY DEF Inductive
<1> USE DEF Known
<1>1. PICK file \in Read(legs) : tracked' = Restored(file) /\ Sees(file)
  BY DEF Crash
<1>2. /\ queue' = [a \in Actors |-> <<>>] /\ phase' = "idle" /\ leaving' = {} /\ marked' = {}
      /\ UNCHANGED <<deal, legs>>
  BY DEF Crash
<1>3. misread' \in BOOLEAN /\ (misread => misread') /\ (~misread' => file = legs /\ ~misread)
  BY <1>0, <1>1, SeenFile
<1>4. GetsChores
  <2>1. <<>> \in Chores /\ <<>> \in Seq(OpSet)
    BY ChoresAdd DEF Chores
  <2>2. QED
    BY <1>2, <1>3, <2>1 DEF GetsChores, QueueTypes
<1>5. tracked' \subseteq Pairs /\ \A p \in tracked' : p \in OpenPairs(file)
      /\ file[p]["sell"].status = "filled" /\ file[p]["buy"].status # "none"
  BY <1>1 DEF Restored, OpenPairs
<1>6. TypeOK'
  BY <1>0, <1>2, <1>3, <1>5 DEF TypeOK
<1>7. \A p \in tracked' : deal[p].made
  BY <1>0, <1>5, LiveIsMade DEF OpenPairs
<1>8. ASSUME ~misread'
      PROVE  /\ \A p \in tracked' : Both(p)
             /\ AutoHedged \subseteq tracked'
             /\ LeavingClose' /\ ClosesFirst'
  <2>1. \A p \in tracked' : Both(p)
    BY <1>3, <1>5, <1>8 DEF Both, Sides
  <2>2. AutoHedged \subseteq tracked'
    <3>1. SUFFICES ASSUME NEW p \in AutoHedged PROVE p \in Restored(legs)
      BY <1>1, <1>3, <1>8
    <3>2. p \in Pairs /\ \A s \in Sides : legs[p][s].status = "filled"
      BY DEF AutoHedged, Hedged, Filled
    <3>3. Live(legs, p) /\ Settled(legs, p) = {}
      BY <3>2 DEF Live, Filled, Settled, Sides
    <3>4. QED
      BY <3>2, <3>3 DEF Restored, OpenPairs, Sides
  <2>3. LeavingClose' /\ ClosesFirst'
    BY <1>2, <1>4, <1>8, ReopensStay DEF LeavingClose, Actors
  <2>4. QED
    BY <2>1, <2>2, <2>3
<1>9. QED
  BY <1>4, <1>6, <1>7, <1>8, ChoresKeepAll

\* Work in which a reopen comes after the closes of both legs.
Careful ==
  {s \in Chores : \A i \in 1 .. Len(s) : s[i].do = "reopen" =>
     /\ Both(s[i].pair)
     /\ \A x \in Sides : \E j \in 1 .. i - 1 : s[j] = Op("close", s[i].pair, ExchangeOf(s[i].pair, x))}

LEMMA CarefulAdd ==
  <<>> \in Careful /\ \A s, t \in Careful : s \o t \in Careful
<1>1. <<>> \in Careful
  BY ChoresAdd DEF Careful
<1>2. ASSUME NEW s \in Careful, NEW t \in Careful PROVE s \o t \in Careful
  <2>1. s \in Chores /\ t \in Chores /\ s \in Seq(OpSet) /\ t \in Seq(OpSet)
    BY DEF Careful, Chores
  <2>2. Len(s \o t) = Len(s) + Len(t) /\ Len(s) \in Nat /\ Len(t) \in Nat /\ s \o t \in Chores
    BY <2>1, ChoresAdd
  <2> DEFINE st == s \o t
  <2>3. /\ \A m \in 1 .. Len(s) : st[m] = s[m]
        /\ \A k \in 1 .. Len(t) : st[Len(s) + k] = t[k]
    BY <2>1, Concat
  <2>4. st \in Chores /\ Len(st) = Len(s) + Len(t)
    BY <2>2
  <2> HIDE DEF st
  <2>5. ASSUME NEW i \in 1 .. Len(st), st[i].do = "reopen"
        PROVE  /\ Both(st[i].pair)
               /\ \A x \in Sides : \E j \in 1 .. i - 1 :
                    st[j] = Op("close", st[i].pair, ExchangeOf(st[i].pair, x))
    <3>1. CASE i \in 1 .. Len(s)
      <4>1. st[i] = s[i] /\ \A j \in 1 .. i - 1 : st[j] = s[j]
        BY <2>2, <2>3, <3>1
      <4>2. QED
        BY <2>5, <3>1, <4>1 DEF Careful
    <3>2. CASE i \notin 1 .. Len(s)
      <4> DEFINE k == i - Len(s)
      <4>1. k \in 1 .. Len(t) /\ Len(s) + k = i /\ k \in Nat
        BY <2>2, <2>4, <3>2
      <4> HIDE DEF k
      <4>2. st[i] = t[k]
        BY <2>3, <4>1
      <4>3. /\ Both(t[k].pair)
            /\ \A x \in Sides : \E j \in 1 .. k - 1 :
                 t[j] = Op("close", t[k].pair, ExchangeOf(t[k].pair, x))
        BY <2>5, <4>1, <4>2 DEF Careful
      <4>4. ASSUME NEW j \in 1 .. k - 1 PROVE Len(s) + j \in 1 .. i - 1 /\ st[Len(s) + j] = t[j]
        BY <2>2, <2>3, <4>1
      <4>5. QED
        BY <4>2, <4>3, <4>4
    <3>3. QED
      BY <3>1, <3>2
  <2>6. QED
    BY <2>4, <2>5 DEF Careful, st
<1>3. QED
  BY <1>1, <1>2

LEMMA ClosesThenReopen ==
  ASSUME NEW p \in Pairs, Both(p), NEW s \in Chores, Len(s) = 2,
         \A k \in 1 .. 2 : s[k].do = "close",
         \A x \in Sides : \E k \in 1 .. 2 : s[k] = Op("close", p, ExchangeOf(p, x)),
         NEW y, NEW t \in Chores, Len(t) = 1, t[1] = Op("reopen", p, y), NEW st, st = s \o t
  PROVE  st \in Careful
<1>1. s \in Seq(OpSet) /\ t \in Seq(OpSet)
  BY DEF Chores
<1>2. st \in Chores
  BY ChoresAdd
<1>3. /\ Len(s \o t) = Len(s) + Len(t)
      /\ \A m \in 1 .. Len(s) : (s \o t)[m] = s[m]
      /\ \A k \in 1 .. Len(t) : (s \o t)[Len(s) + k] = t[k]
  BY ONLY <1>1, Concat
<1>4. 1 \in 1 .. Len(s) /\ 2 \in 1 .. Len(s) /\ 1 \in 1 .. Len(t) /\ Len(s) + 1 = 3 /\ Len(s) + Len(t) = 3
  OBVIOUS
<1>5. Len(st) = 3 /\ st[1] = s[1] /\ st[2] = s[2] /\ st[3] = t[1]
  <2>1. /\ Len(st) = Len(s) + Len(t)
        /\ \A m \in 1 .. Len(s) : st[m] = s[m]
        /\ \A k \in 1 .. Len(t) : st[Len(s) + k] = t[k]
    BY <1>3
  <2>2. st[Len(s) + 1] = t[1] /\ Len(s) + 1 = 3
    BY <1>4, <2>1
  <2>3. QED
    BY <1>4, <2>1, <2>2
<1>6. t[1].pair = p
  BY DEF Op
<1>7. st[1].do = "close" /\ st[2].do = "close" /\ st[3].pair = p
  BY <1>5, <1>6
<1>8. ASSUME NEW i \in 1 .. 3, st[i].do = "reopen" PROVE i = 3
  <2>1. i = 1 \/ i = 2 \/ i = 3
    OBVIOUS
  <2>2. QED
    BY ONLY <1>7, <1>8, <2>1
<1>9. \A x \in Sides : \E j \in 1 .. 3 - 1 : st[j] = Op("close", p, ExchangeOf(p, x))
  <2>1. SUFFICES ASSUME NEW x \in Sides
                 PROVE  \E j \in 1 .. 3 - 1 : st[j] = Op("close", p, ExchangeOf(p, x))
    OBVIOUS
  <2>2. PICK k \in 1 .. 2 : s[k] = Op("close", p, ExchangeOf(p, x))
    OBVIOUS
  <2>3. k \in 1 .. 3 - 1 /\ st[k] = s[k]
    BY <1>5
  <2>4. QED
    BY <2>2, <2>3
<1>10. \A i \in 1 .. Len(st) : st[i].do = "reopen" =>
          /\ Both(st[i].pair)
          /\ \A x \in Sides : \E j \in 1 .. i - 1 :
               st[j] = Op("close", st[i].pair, ExchangeOf(st[i].pair, x))
  BY <1>5, <1>7, <1>8, <1>9
<1>11. QED
  BY <1>2, <1>10 DEF Careful

LEMMA ReopenLast ==
  ASSUME TypeOK, NEW p \in Pairs, deal[p].made, Both(p), NEW y \in Args
  PROVE  ClosesOwn(p) \o <<Op("reopen", p, y)>> \in Careful
<1> DEFINE t == <<Op("reopen", p, y)>>
<1>1. t \in Chores /\ Len(t) = 1 /\ t[1] = Op("reopen", p, y)
  BY OpTypes, ChoreOf DEF Op
<1> HIDE DEF t
<1>2. ClosesOwn(p) \o t \in Careful
  BY <1>1, OwnCloses, ClosesThenReopen
<1>3. QED
  BY <1>2 DEF t

LEMMA NoArg == "" \in Args
BY DEF Args

LEMMA ReentersCarefully ==
  ASSUME TypeOK, NEW p \in Pairs, deal[p].made, Both(p)
  PROVE  Reenters(p) \in Careful
BY NoArg, ReopenLast, Zenon DEF Reenters

LEMMA ReentryWork ==
  ASSUME TypeOK, Named, NEW S \in SUBSET Pairs, \A p \in S : Hedged(legs, p)
  PROVE  ForEach(S, Reenters) \in Careful
<1> DEFINE q == [p \in Pairs |-> IF p \in S THEN Reenters(p) ELSE <<>>]
<1>1. \A p \in S : deal[p].made /\ Both(p)
  BY DEF Hedged, Filled, Both, Named, Sides
<1>2. q \in [Pairs -> Careful]
  BY <1>1, ReentersCarefully, CarefulAdd
<1>3. ForEach(S, Reenters) = FlattenSeq(q)
  BY DEF ForEach
<1> HIDE DEF q
<1>4. Careful \in SUBSET Seq(OpSet)
  BY DEF Careful, Chores
<1>5. QED
  BY <1>2, <1>3, <1>4, CarefulAdd, EachPair

LEMMA ReentryTickKeeps ==
  ASSUME Inductive, ReentryTick
  PROVE  Inductive'
<1>0. Known
  BY DEF Inductive
<1>1. PICK file \in Read(legs) :
        \E costly \in (SUBSET {p \in Pairs : Hedged(file, p)}) \ {{}} :
          Does("reentry", ForEach(costly, Reenters)) /\ Sees(file)
  BY DEF ReentryTick
<1>2. PICK costly \in (SUBSET {p \in Pairs : Hedged(file, p)}) \ {{}} :
        Does("reentry", ForEach(costly, Reenters)) /\ Sees(file)
  BY <1>1
<1>3. UNCHANGED <<deal, legs, tracked, phase, leaving, marked>>
  BY DEF ReentryTick
<1>4. file = legs
  <2>1. PICK p \in costly : p \in Pairs /\ Hedged(file, p)
    BY <1>2
  <2>2. Live(file, p)
    BY <2>1 DEF Hedged, Live, Sides
  <2>3. QED
    BY <1>0, <2>1, <2>2, LiveIsMade DEF Known
<1> DEFINE work == ForEach(costly, Reenters)
<1>5. costly \in SUBSET Pairs /\ \A p \in costly : Hedged(legs, p)
  BY <1>2, <1>4
<1>6. work \in Careful
  BY <1>0, <1>5, ReentryWork DEF Known
<1>7. work \in Chores
  BY <1>6 DEF Careful
<1>8. misread' \in BOOLEAN /\ (misread => misread')
  BY <1>0, <1>2, SeenFile DEF Known
<1>9. GetsChores /\ DOMAIN queue' = Actors /\ queue'["reentry"] = work
      /\ queue'["trader"] = queue["trader"]
  <2> HIDE DEF work
  <2>1. "reentry" \in Actors /\ "trader" \in Actors \ {"reentry"}
    BY DEF Actors
  <2>2. Does("reentry", work)
    BY <1>2 DEF work
  <2>3. QED
    BY <1>0, <1>3, <1>7, <1>8, <2>1, <2>2, GivesChores DEF Known
<1> HIDE DEF work
<1>10. TypeOK'
  BY <1>0, <1>3, <1>8, <1>9 DEF Known, TypeOK
<1>11. ClosesFirst'
  <2>1. \A i \in 1 .. Len(work) : work[i].do = "reopen" =>
          /\ Both(work[i].pair)
          /\ \A x \in Filled(legs, work[i].pair) :
               \E j \in 1 .. i - 1 : work[j] = Op("close", work[i].pair, ExchangeOf(work[i].pair, x))
    BY <1>6 DEF Careful, Filled
  <2>2. QED
    BY <1>3, <1>9, <2>1 DEF ClosesFirst, Both, Filled, ExchangeOf
<1>12. QED
  BY <1>3, <1>9, <1>10, <1>11, OthersKeepAll

-----------------------------------------------------------------------------
\* Writes, and the reopen that finds no market.

LEMMA PopKeepsAll ==
  ASSUME Inductive, NEW a \in Actors, Pops(a), tracked' = tracked \cup Tracks(a),
         UNCHANGED <<phase, leaving, marked>>
  PROVE  Inductive'
<1>0. Known /\ Trusted
  BY DEF Inductive
<1> USE DEF Known
<1>1. deal' = deal /\ misread' \in BOOLEAN /\ (misread => misread') /\ misread \in BOOLEAN
  BY <1>0 DEF Pops, TypeOK
<1>2. QueueTypes' /\ DOMAIN queue' = Actors
  BY <1>0, PoppedQueue DEF QueueTypes
<1>3. TypeOK'
  <2>1. legs' \in Files
    BY DEF Pops, Effect
  <2>2. Tracks(a) \subseteq Pairs
    BY DEF Tracks
  <2>3. QED
    BY <1>0, <1>1, <1>2, <2>1, <2>2 DEF TypeOK, Files, Statuses
<1>4. Named'
  BY <1>0, PopKeepsNamed
<1>5. OpensOnce' /\ SellThenBuy'
  BY <1>0, PopKeepsOpens, PopKeepsOrder
<1>6. ASSUME ~misread'
      PROVE  TrackedRecorded' /\ LeavingClose' /\ AutoTracked' /\ ClosesFirst' /\ TraderWithinLimits'
  <2>1. ~misread /\ TrackedRecorded /\ LeavingClose /\ AutoTracked /\ ClosesFirst /\ TraderWithinLimits
    BY <1>0, <1>1, <1>6 DEF Trusted
  <2>2. TrackedRecorded'
    BY <1>0, <1>6, <2>1, PopKeepsTracked
  <2>3. LeavingClose'
    BY <1>0, <1>6, <2>1, PopKeepsLeaving
  <2>4. AutoTracked' /\ TraderWithinLimits'
    BY <1>0, <1>6, <2>1, PopKeepsLimits
  <2>5. ClosesFirst'
    BY <1>0, <1>6, <2>1, PopKeepsReopens
  <2>6. QED
    BY <2>2, <2>3, <2>4, <2>5
<1>7. QED
  BY <1>2, <1>3, <1>4, <1>5, <1>6 DEF Inductive, Trusted

LEMMA WriteKeeps ==
  ASSUME Inductive, NEW a \in Actors, Write(a)
  PROVE  Inductive'
<1>1. Pops(a)
  BY WritePops DEF Inductive, Known
<1>2. tracked' = tracked \cup Tracks(a) /\ UNCHANGED <<phase, leaving, marked>>
  BY DEF Write
<1>3. QED
  BY <1>1, <1>2, PopKeepsAll

\* A reopen that opens nothing.
SkipsReopen ==
  /\ ~Idle("reentry") /\ Head(queue["reentry"]).do = "reopen"
  /\ Does("reentry", Tail(queue["reentry"]))
  /\ UNCHANGED <<deal, legs, tracked, phase, leaving, marked, misread>>

LEMMA SkippedReopenKeeps ==
  ASSUME Inductive, SkipsReopen
  PROVE  Inductive'
<1>1. TypeOK /\ "reentry" \in Actors
  BY DEF Inductive, Known, Actors
<1>2. legs \in Files
  BY <1>1 DEF TypeOK, Files, Statuses
<1>3. Pops("reentry")
  BY <1>1, <1>2 DEF SkipsReopen, Pops, Effect, TypeOK
<1>4. Tracks("reentry") = {}
  BY DEF Tracks
<1>5. QED
  BY <1>1, <1>3, <1>4, PopKeepsAll DEF SkipsReopen

-----------------------------------------------------------------------------
\* Naming a new pair and handing out its two opens.

\* The trader opens when it has nothing else to do; the re-entry opens in place of
\* its first operation; only the trader's pairs are its own.
OpensPair(a, p, m, auto) ==
  /\ p \in Fresh /\ Names(p, m, auto)
  /\ \/ Idle(a) /\ Does(a, Opens(p))
     \/ /\ a # "trader" /\ ~Idle(a) /\ Head(queue[a]).do = "reopen"
        /\ Does(a, Opens(p) \o Tail(queue[a]))
  /\ auto => a = "trader" /\ phase = "opening" /\ MayOpen(m)
  /\ UNCHANGED <<legs, tracked, phase, leaving, marked, misread>>

LEMMA FreshIsNew ==
  ASSUME TypeOK, QueueTypes, Named, NEW p \in Fresh
  PROVE  /\ p \in Pairs /\ p \notin tracked
         /\ \A s \in Sides : legs[p][s].status = "none"
         /\ \A a \in Actors : \A i \in 1 .. Len(queue[a]) : queue[a][i].pair # p
BY DEF Fresh, Named

LEMMA OpeningOps ==
  ASSUME NEW p \in Pairs
  PROVE  /\ Opens(p) \in Seq(OpSet) /\ Len(Opens(p)) = 2
         /\ Opens(p)[1] = Op("open", p, "sell") /\ Opens(p)[2] = Op("open", p, "buy")
<1>1. Op("open", p, "sell") \in OpSet /\ Op("open", p, "buy") \in OpSet
  BY DEF Op, OpSet, Sides
<1>2. QED
  BY <1>1 DEF Opens

LEMMA OpenedQueue ==
  ASSUME QueueTypes, NEW a \in Actors, NEW p \in Pairs, NEW m, NEW auto, OpensPair(a, p, m, auto)
  PROVE  /\ QueueTypes'
         /\ Len(queue'[a]) \in Nat /\ Len(queue[a]) \in Nat
         /\ Len(queue'[a]) = (IF Idle(a) THEN 2 ELSE Len(queue[a]) + 1)
         /\ queue'[a][1] = Op("open", p, "sell") /\ queue'[a][2] = Op("open", p, "buy")
         /\ \A i \in 3 .. Len(queue'[a]) : i - 1 \in 2 .. Len(queue[a]) /\ queue'[a][i] = queue[a][i - 1]
         /\ ~Idle(a) => Len(queue[a]) > 0 /\ queue[a][1].do = "reopen"
         /\ Idle(a) => Len(queue[a]) = 0
         /\ \A b \in Actors \ {a} : queue'[b] = queue[b]
<1>0. queue[a] \in Seq(OpSet)
  BY DEF QueueTypes
<1> DEFINE s == Opens(p)
<1>1. s \in Seq(OpSet) /\ Len(s) = 2
      /\ s[1] = Op("open", p, "sell") /\ s[2] = Op("open", p, "buy")
  BY OpeningOps
<1>2. CASE Idle(a) /\ Does(a, Opens(p))
  <2>1. queue' = [queue EXCEPT ![a] = s] /\ queue[a] = <<>>
    BY <1>2 DEF Does, Idle
  <2>2. queue'[a] = s /\ Len(queue[a]) = 0 /\ QueueTypes' /\ \A b \in Actors \ {a} : queue'[b] = queue[b]
    BY <1>1, <2>1 DEF QueueTypes
  <2>3. \A i \in 3 .. Len(queue'[a]) : FALSE
    <3>1. Len(queue'[a]) = 2
      BY <1>1, <2>2
    <3>2. QED
      BY <3>1
  <2>4. QED
    BY <1>1, <1>2, <2>2, <2>3
<1>3. CASE ~Idle(a) /\ Head(queue[a]).do = "reopen" /\ Does(a, Opens(p) \o Tail(queue[a]))
  <2> DEFINE t == Tail(queue[a])
  <2>1. queue' = [queue EXCEPT ![a] = s \o t] /\ queue[a] # <<>>
    BY <1>3 DEF Does, Idle
  <2>2. t \in Seq(OpSet) /\ Len(queue[a]) \in Nat \ {0} /\ Len(t) = Len(queue[a]) - 1
        /\ Head(queue[a]) = queue[a][1] /\ \A k \in 1 .. Len(t) : t[k] = queue[a][k + 1]
    BY <1>0, <2>1
  <2> HIDE DEF s, t
  <2>3. /\ s \o t \in Seq(OpSet) /\ Len(s \o t) = Len(s) + Len(t)
        /\ \A j \in 1 .. Len(s) : (s \o t)[j] = s[j]
        /\ \A k \in 1 .. Len(t) : (s \o t)[Len(s) + k] = t[k]
    <3>1. s \in Seq(OpSet) /\ t \in Seq(OpSet)
      BY <1>1, <2>2
    <3>2. QED
      BY ONLY <3>1, Concat
  <2>4. queue'[a] = s \o t /\ QueueTypes' /\ \A b \in Actors \ {a} : queue'[b] = queue[b]
    BY <2>1, <2>3 DEF QueueTypes
  <2>5. Len(queue'[a]) = Len(queue[a]) + 1 /\ 1 \in 1 .. Len(s) /\ 2 \in 1 .. Len(s)
    BY <1>1, <2>2, <2>3, <2>4
  <2>6. ASSUME NEW i \in 3 .. Len(queue'[a])
        PROVE  i - 1 \in 2 .. Len(queue[a]) /\ queue'[a][i] = queue[a][i - 1]
    <3> DEFINE k == i - 2
    <3>1. k \in 1 .. Len(t) /\ 2 + k = i /\ k + 1 = i - 1 /\ i - 1 \in 2 .. Len(queue[a])
      BY <2>2, <2>5
    <3> HIDE DEF k
    <3>2. (s \o t)[2 + k] = t[k] /\ t[k] = queue[a][k + 1]
      BY <1>1, <2>2, <2>3, <3>1
    <3>3. QED
      BY <2>4, <3>1, <3>2
  <2>7. queue'[a][1] = s[1] /\ queue'[a][2] = s[2]
    BY <2>3, <2>4, <2>5
  <2>8. QED
    BY <1>1, <1>3, <2>2, <2>4, <2>5, <2>6, <2>7
<1>4. QED
  BY <1>2, <1>3 DEF OpensPair

\* Where an operation of the new queues stood before, if it is not one of the two.
\* Where an operation stood before opens took the place of the first.
Old(a, b, i) == IF b = a THEN i - 1 ELSE i

LEMMA OpenedOps ==
  ASSUME QueueTypes, NEW a \in Actors, NEW p \in Pairs, NEW m, NEW auto, OpensPair(a, p, m, auto),
         NEW b \in Actors, NEW i \in 1 .. Len(queue'[b])
  PROVE  \/ b = a /\ i = 1 /\ queue'[b][i] = Op("open", p, "sell")
         \/ b = a /\ i = 2 /\ queue'[b][i] = Op("open", p, "buy")
         \/ /\ Old(a, b, i) \in 1 .. Len(queue[b]) /\ queue'[b][i] = queue[b][Old(a, b, i)]
            /\ b = a => ~Idle(a) /\ i \in 3 .. Len(queue'[a])
<1>1. CASE b # a
  BY <1>1, OpenedQueue DEF Old
<1>2. CASE b = a
  <2>1. Len(queue'[a]) \in Nat /\ Len(queue[a]) \in Nat
    BY OpenedQueue
  <2>2. i = 1 \/ i = 2 \/ i \in 3 .. Len(queue'[a])
    BY <1>2, <2>1
  <2>3. CASE i \in 3 .. Len(queue'[a])
    <3>1. i - 1 \in 2 .. Len(queue[a]) /\ queue'[a][i] = queue[a][i - 1]
      BY <2>3, OpenedQueue
    <3>2. ~Idle(a)
      BY <3>1, OpenedQueue
    <3>3. QED
      BY <1>2, <2>1, <2>3, <3>1, <3>2 DEF Old
  <2>4. QED
    BY <1>2, <2>2, <2>3, OpenedQueue
<1>3. QED
  BY <1>1, <1>2

LEMMA NamedDeal ==
  ASSUME TypeOK, QueueTypes, Named, NEW a \in Actors, NEW p \in Pairs, NEW m \in Markets,
         NEW auto \in BOOLEAN, OpensPair(a, p, m, auto)
  PROVE  /\ deal'[p] = [market |-> m, auto |-> auto, made |-> TRUE]
         /\ \A q \in Pairs \ {p} : deal'[q] = deal[q]
         /\ \A q \in Pairs : deal[q].made => deal'[q] = deal[q] /\ q # p
         /\ TypeOK'
<1>1. deal' = [deal EXCEPT ![p] = [market |-> m, auto |-> auto, made |-> TRUE]] /\ ~deal[p].made
  BY DEF OpensPair, Names, Fresh
<1>2. QueueTypes'
  BY OpenedQueue
<1>3. TypeOK'
  BY <1>1, <1>2 DEF TypeOK, OpensPair, QueueTypes
<1>4. QED
  BY <1>1, <1>3 DEF TypeOK

LEMMA OpensKeepNamed ==
  ASSUME TypeOK, QueueTypes, Named, NEW a \in Actors, NEW p \in Pairs, NEW m \in Markets,
         NEW auto \in BOOLEAN, OpensPair(a, p, m, auto)
  PROVE  Named'
<1>1. UNCHANGED <<legs, tracked>> /\ tracked \subseteq Pairs
  BY DEF OpensPair, TypeOK
<1>2. deal'[p].made /\ \A q \in Pairs : deal[q].made => deal'[q].made
  <2>1. deal'[p] = [market |-> m, auto |-> auto, made |-> TRUE]
        /\ \A q \in Pairs : deal[q].made => deal'[q] = deal[q]
    BY NamedDeal
  <2>2. QED
    BY <2>1
<1>3. ASSUME NEW b \in Actors, NEW i \in 1 .. Len(queue'[b]) PROVE deal'[queue'[b][i].pair].made
  <2>1. \/ queue'[b][i].pair = p
        \/ Old(a, b, i) \in 1 .. Len(queue[b]) /\ queue'[b][i] = queue[b][Old(a, b, i)]
    <3>1. CASE queue'[b][i] = Op("open", p, "sell")
      BY <3>1 DEF Op
    <3>2. CASE queue'[b][i] = Op("open", p, "buy")
      BY <3>2 DEF Op
    <3>3. QED
      BY <3>1, <3>2, OpenedOps
  <2>2. \A k \in 1 .. Len(queue[b]) : deal[queue[b][k].pair].made /\ queue[b][k].pair \in Pairs
    BY OpenOps DEF Named, QueueTypes
  <2>3. QED
    BY <1>2, <2>1, <2>2
<1>4. QED
  BY <1>1, <1>2, <1>3 DEF Named

LEMMA OpensKeepOnce ==
  ASSUME TypeOK, QueueTypes, Named, OpensOnce, NEW a \in Actors, NEW p \in Pairs,
         NEW m \in Markets, NEW auto \in BOOLEAN, OpensPair(a, p, m, auto)
  PROVE  OpensOnce'
<1>1. legs' = legs /\ p \in Fresh
  BY DEF OpensPair
<1> SUFFICES ASSUME NEW b \in Actors, NEW i \in 1 .. Len(queue'[b]), queue'[b][i].do = "open"
             PROVE  /\ legs[queue'[b][i].pair][queue'[b][i].arg].status = "none"
                    /\ \A c \in Actors : \A j \in 1 .. Len(queue'[c]) :
                         queue'[c][j] = queue'[b][i] => b = c /\ i = j
  BY <1>1 DEF OpensOnce
<1> DEFINE op == queue'[b][i]
           IsNew(c, j) == \/ c = a /\ j = 1 /\ queue'[c][j] = Op("open", p, "sell")
                          \/ c = a /\ j = 2 /\ queue'[c][j] = Op("open", p, "buy")
           IsOld(c, j) == /\ Old(a, c, j) \in 1 .. Len(queue[c])
                          /\ queue'[c][j] = queue[c][Old(a, c, j)]
                          /\ c = a => j \in 3 .. Len(queue'[a])
<1>2. \A c \in Actors : \A j \in 1 .. Len(queue'[c]) : IsNew(c, j) \/ IsOld(c, j)
  <2>1. ASSUME NEW c \in Actors, NEW j \in 1 .. Len(queue'[c]) PROVE IsNew(c, j) \/ IsOld(c, j)
    <3>1. \/ c = a /\ j = 1 /\ queue'[c][j] = Op("open", p, "sell")
          \/ c = a /\ j = 2 /\ queue'[c][j] = Op("open", p, "buy")
          \/ /\ Old(a, c, j) \in 1 .. Len(queue[c]) /\ queue'[c][j] = queue[c][Old(a, c, j)]
             /\ c = a => ~Idle(a) /\ j \in 3 .. Len(queue'[a])
      BY OpenedOps
    <3>2. QED
      BY <3>1
  <2>2. QED
    BY <2>1
<1>3. \A c \in Actors : \A j \in 1 .. Len(queue'[c]) : IsNew(c, j) => queue'[c][j].pair = p
  BY DEF Op
<1>4. \A c \in Actors : \A j \in 1 .. Len(queue'[c]) : IsOld(c, j) => queue'[c][j].pair # p
  BY <1>1, FreshIsNew
<1>5. CASE IsNew(b, i)
  <2>1. op.pair = p /\ op.arg \in Sides /\ (op.arg = "sell" <=> i = 1) /\ (op.arg = "buy" <=> i = 2) /\ b = a
    BY <1>5 DEF Op, Sides
  <2>2. legs[op.pair][op.arg].status = "none"
    BY <1>1, <2>1, FreshIsNew
  <2>3. ASSUME NEW c \in Actors, NEW j \in 1 .. Len(queue'[c]), queue'[c][j] = op
        PROVE  b = c /\ i = j
    <3>1. IsNew(c, j)
      BY <1>2, <1>4, <2>1, <2>3
    <3>2. c = a /\ (op.arg = "sell" <=> j = 1) /\ (op.arg = "buy" <=> j = 2)
      BY <2>3, <3>1 DEF Op
    <3>3. QED
      BY <2>1, <3>2 DEF Sides
  <2>4. QED
    BY <2>2, <2>3
<1>6. CASE IsOld(b, i)
  <2> DEFINE k == Old(a, b, i)
  <2>1. k \in 1 .. Len(queue[b]) /\ op = queue[b][k] /\ op.pair # p /\ op.do = "open"
    BY <1>4, <1>6
  <2>2. legs[op.pair][op.arg].status = "none"
    BY <2>1 DEF OpensOnce
  <2>3. ASSUME NEW c \in Actors, NEW j \in 1 .. Len(queue'[c]), queue'[c][j] = op
        PROVE  b = c /\ i = j
    <3> DEFINE l == Old(a, c, j)
    <3>1. /\ k \in 1 .. Len(queue[b]) /\ l \in 1 .. Len(queue[c])
          /\ queue[c][l] = queue[b][k] /\ queue[b][k].do = "open"
      BY <1>2, <1>3, <2>1, <2>3
    <3> HIDE DEF k, l
    <3>2. b = c /\ k = l
      BY <3>1 DEF OpensOnce
    <3>3. i \in Int /\ j \in Int
      BY OpenedQueue DEF QueueTypes
    <3>4. QED
      BY <3>2, <3>3 DEF k, l, Old
  <2>4. QED
    BY <2>2, <2>3
<1>7. QED
  BY <1>2, <1>5, <1>6

LEMMA OpensKeepOrder ==
  ASSUME TypeOK, QueueTypes, Named, SellThenBuy, NEW a \in Actors, NEW p \in Pairs,
         NEW m \in Markets, NEW auto \in BOOLEAN, OpensPair(a, p, m, auto)
  PROVE  SellThenBuy'
<1>1. legs' = legs /\ misread' = misread
  BY DEF OpensPair
<1> SUFFICES ASSUME NEW b \in Actors, NEW i \in 1 .. Len(queue'[b]), queue'[b][i].do = "open"
             PROVE  LET op == queue'[b][i] IN
                    IF op.arg = "sell"
                    THEN i < Len(queue'[b]) /\ queue'[b][i + 1] = Op("open", op.pair, "buy")
                    ELSE \/ i > 1 /\ queue'[b][i - 1] = Op("open", op.pair, "sell")
                         \/ i = 1 /\ (misread \/ legs[op.pair]["sell"].status # "none")
  BY <1>1 DEF SellThenBuy, Op
<1>2. CASE b # a
  <2>1. queue'[b] = queue[b]
    BY <1>2, OpenedQueue
  <2>2. QED
    BY <2>1 DEF SellThenBuy
<1>3. CASE b = a /\ i = 1
  <2>1. queue'[a][1] = Op("open", p, "sell") /\ queue'[a][1 + 1] = Op("open", p, "buy")
        /\ Len(queue'[a]) \in Nat /\ 1 < Len(queue'[a])
    BY OpenedQueue
  <2>2. queue'[a][1].arg = "sell" /\ queue'[a][1].pair = p
    BY <2>1 DEF Op
  <2>3. QED
    BY <1>3, <2>1, <2>2
<1>4. CASE b = a /\ i = 2
  <2>1. queue'[a][2 - 1] = Op("open", p, "sell") /\ queue'[a][2] = Op("open", p, "buy")
    BY OpenedQueue
  <2>2. queue'[a][2].arg = "buy" /\ queue'[a][2].pair = p
    BY <2>1 DEF Op
  <2>3. QED
    BY <1>4, <2>1, <2>2
<1>5. CASE b = a /\ i \in 3 .. Len(queue'[a])
  <2> DEFINE op == queue'[a][i]
             k == i - 1
  <2>1. /\ Len(queue'[a]) = Len(queue[a]) + 1 /\ Len(queue[a]) \in Nat
        /\ k \in 2 .. Len(queue[a]) /\ op = queue[a][k] /\ queue[a][1].do = "reopen"
    <3>1. i - 1 \in 2 .. Len(queue[a]) /\ queue'[a][i] = queue[a][i - 1] /\ Len(queue[a]) \in Nat
      BY <1>5, OpenedQueue
    <3>2. ~Idle(a)
      BY <3>1, OpenedQueue
    <3>3. QED
      BY <3>1, <3>2, OpenedQueue
  <2>2. op.do = "open" /\ k + 1 = i /\ k - 1 = i - 2
    BY <1>5, <2>1
  <2>3. IF op.arg = "sell"
        THEN k < Len(queue[a]) /\ queue[a][k + 1] = Op("open", op.pair, "buy")
        ELSE \/ k > 1 /\ queue[a][k - 1] = Op("open", op.pair, "sell")
             \/ k = 1 /\ (misread \/ legs[op.pair]["sell"].status # "none")
    <3> HIDE DEF k
    <3>1. k \in 1 .. Len(queue[a])
      BY <2>1
    <3>2. QED
      BY <2>1, <2>2, <3>1 DEF SellThenBuy, Op
  <2>4. CASE op.arg = "sell"
    <3>0. k < Len(queue[a]) /\ queue[a][k + 1] = Op("open", op.pair, "buy")
      BY <2>3, <2>4
    <3>1. i + 1 \in 3 .. Len(queue'[a]) /\ (i + 1) - 1 = k + 1 /\ i < Len(queue'[a])
      BY <1>5, <2>1, <3>0
    <3>2. queue'[a][i + 1] = queue[a][k + 1]
      BY <3>1, OpenedQueue
    <3>3. QED
      BY <1>5, <2>4, <3>0, <3>1, <3>2
  <2>5. CASE op.arg # "sell"
    <3>1. queue[a][k - 1] = Op("open", op.pair, "sell") /\ k > 1
      BY <2>1, <2>3, <2>5
    <3>2. k - 1 # 1
      BY <2>1, <3>1 DEF Op
    <3>3. i - 1 \in 3 .. Len(queue'[a]) /\ (i - 1) - 1 = k - 1
      BY <1>5, <2>1, <3>2
    <3>4. queue'[a][i - 1] = queue[a][k - 1]
      BY <3>3, OpenedQueue
    <3>5. QED
      BY <1>5, <2>5, <3>1, <3>3, <3>4
  <2>6. QED
    BY <2>4, <2>5
<1>6. i = 1 \/ i = 2 \/ i \in 3 .. Len(queue'[b])
  BY OpenedQueue DEF QueueTypes
<1>7. QED
  BY <1>2, <1>3, <1>4, <1>5, <1>6

\* A pair that is only named has no leg.
LEMMA NamingHedgesNothing ==
  ASSUME TypeOK, QueueTypes, Named, NEW a \in Actors, NEW p \in Pairs, NEW m \in Markets,
         NEW auto \in BOOLEAN, OpensPair(a, p, m, auto)
  PROVE  /\ AutoHedged' = AutoHedged
         /\ \A q \in AutoHedged : SymbolOf(q)' = SymbolOf(q)
<1>1. legs' = legs /\ p \in Fresh
  BY DEF OpensPair
<1>2. \A q \in Pairs : Hedged(legs, q) => deal[q].made /\ q # p
  BY <1>1, FreshIsNew DEF Hedged, Filled, Named, Sides
<1>3. \A q \in Pairs \ {p} : deal'[q] = deal[q]
  BY NamedDeal
<1>4. QED
  BY <1>1, <1>2, <1>3 DEF AutoHedged, Hedged, Filled, SymbolOf

LEMMA OpensKeepLeaving ==
  ASSUME Known, LeavingClose, NEW a \in Actors, NEW p \in Pairs,
         NEW m \in Markets, NEW auto \in BOOLEAN, OpensPair(a, p, m, auto)
  PROVE  LeavingClose'
<1> USE DEF Known
<1>1. UNCHANGED <<legs, leaving>> /\ leaving \subseteq tracked /\ tracked \subseteq Pairs
  BY DEF OpensPair, TypeOK
<1>2. \A q \in leaving : deal'[q] = deal[q]
  BY <1>1, NamedDeal DEF Named
<1>3. CASE a # "trader"
  <2>1. queue'["trader"] = queue["trader"]
    BY <1>3, OpenedQueue DEF Actors
  <2>2. QED
    BY <1>1, <1>2, <2>1 DEF LeavingClose, Filled, ExchangeOf
<1>4. CASE a = "trader"
  <2>1. Idle("trader")
    BY <1>4 DEF OpensPair
  <2>2. \A q \in leaving : Filled(legs, q) = {}
    BY <2>1, LeftIsClosed
  <2>3. QED
    BY <1>1, <2>2 DEF LeavingClose
<1>5. QED
  BY <1>3, <1>4

LEMMA OpensKeepReopens ==
  ASSUME Known, ClosesFirst, NEW a \in Actors, NEW p \in Pairs,
         NEW m \in Markets, NEW auto \in BOOLEAN, OpensPair(a, p, m, auto)
  PROVE  ClosesFirst'
<1> USE DEF Known
<1> DEFINE r == "reentry"
<1>0. r \in Actors
  BY DEF Actors
<1>1. legs' = legs
  BY DEF OpensPair
<1> SUFFICES ASSUME NEW i \in 1 .. Len(queue'[r]), queue'[r][i].do = "reopen",
                    NEW q, q = queue'[r][i].pair
             PROVE  /\ Both(q)
                    /\ \A s \in Filled(legs, q) : \E j \in 1 .. i - 1 :
                         queue'[r][j] = Op("close", q, ExchangeOf(q, s)')
  BY <1>1 DEF ClosesFirst, Both, Filled, ExchangeOf
<1> DEFINE k == Old(a, r, i)
<1>2. k \in 1 .. Len(queue[r]) /\ queue'[r][i] = queue[r][k]
      /\ (r = a => ~Idle(a) /\ i \in 3 .. Len(queue'[a]))
  <2>1. Op("open", p, "sell").do # "reopen" /\ Op("open", p, "buy").do # "reopen"
    BY DEF Op
  <2> HIDE DEF r
  <2>2. QED
    BY <1>0, <2>1, OpenedOps
<1>3. queue[r] \in Seq(OpSet) /\ Len(queue'[r]) \in Nat
  <2>1. QueueTypes'
    BY OpenedQueue
  <2>2. QED
    BY <1>0, <2>1 DEF QueueTypes
<1>4. q \in Pairs /\ deal[q].made
  BY <1>0, <1>2, <1>3, OpenOps DEF Named
<1>5. /\ Both(q)
      /\ \A s \in Filled(legs, q) : \E j \in 1 .. k - 1 : queue[r][j] = Op("close", q, ExchangeOf(q, s))
  BY <1>2 DEF ClosesFirst
<1>6. \A s : ExchangeOf(q, s)' = ExchangeOf(q, s)
  BY <1>4, NamedDeal DEF ExchangeOf
<1>7. ASSUME NEW s \in Filled(legs, q)
      PROVE  \E j \in 1 .. i - 1 : queue'[r][j] = Op("close", q, ExchangeOf(q, s))
  <2>1. PICK j \in 1 .. k - 1 : queue[r][j] = Op("close", q, ExchangeOf(q, s))
    BY <1>5, <1>7
  <2>2. CASE a # r
    <3>1. queue'[r] = queue[r] /\ k = i
      BY <1>0, <2>2, OpenedQueue DEF Old
    <3>2. QED
      BY <2>1, <3>1
  <2>3. CASE a = r
    <3>1. ~Idle(a) /\ i \in 3 .. Len(queue'[a]) /\ k = i - 1 /\ queue[a][1].do = "reopen"
      BY <1>2, <2>3, OpenedQueue DEF Old
    <3>2. j # 1
      BY <2>1, <2>3, <3>1 DEF Op
    <3>3. j + 1 \in 3 .. Len(queue'[a]) /\ (j + 1) - 1 = j /\ j + 1 \in 1 .. i - 1
      BY <1>3, <2>1, <2>3, <3>1, <3>2
    <3>4. queue'[a][j + 1] = queue[a][j]
      BY <3>3, OpenedQueue
    <3>5. QED
      BY <2>1, <2>3, <3>3, <3>4
  <2>4. QED
    BY <2>2, <2>3
<1>8. QED
  BY <1>5, <1>6, <1>7

LEMMA OpensKeepAuto ==
  ASSUME Known, AutoTracked, TraderWithinLimits, ~misread, NEW a \in Actors, NEW p \in Pairs,
         NEW m \in Markets, NEW auto \in BOOLEAN, OpensPair(a, p, m, auto)
  PROVE  AutoTracked' /\ TraderWithinLimits'
<1> USE DEF Known
<1>1. UNCHANGED <<legs, tracked, misread>> /\ tracked \subseteq Pairs
  BY DEF OpensPair, TypeOK
<1>2. AutoHedged' = AutoHedged /\ \A q \in AutoHedged : SymbolOf(q)' = SymbolOf(q)
  BY NamingHedgesNothing
<1>3. TraderWithinLimits'
  BY <1>1, <1>2 DEF TraderWithinLimits
<1>4. AutoHedged' \subseteq tracked'
  BY <1>1, <1>2 DEF AutoTracked
<1>5. ASSUME NEW b \in Actors, NEW i \in 1 .. Len(queue'[b]), queue'[b][i].do = "open",
             NEW o, o = queue'[b][i].pair, deal'[o].auto
      PROVE  /\ b = "trader"
             /\ Cardinality(AutoHedged) < MaxPos
             /\ \A q \in AutoHedged : SymbolOf(q) # SymbolOf(o)'
             /\ (queue'[b][i].arg = "buy" => i = Len(queue'[b]))
  <2>1. deal'[p] = [market |-> m, auto |-> auto, made |-> TRUE]
    BY NamedDeal
  <2>2. CASE o = p
    <3>1. \/ b = a /\ i = 1 /\ queue'[b][i] = Op("open", p, "sell")
          \/ b = a /\ i = 2 /\ queue'[b][i] = Op("open", p, "buy")
      <4>1. \A k \in 1 .. Len(queue[b]) : queue[b][k].pair # p
        BY FreshIsNew DEF OpensPair
      <4>2. ~(Old(a, b, i) \in 1 .. Len(queue[b]) /\ queue'[b][i] = queue[b][Old(a, b, i)])
        BY <1>5, <2>2, <4>1
      <4>3. QED
        BY <4>2, OpenedOps
    <3>2. auto
      BY <1>5, <2>1, <2>2
    <3>3. a = "trader" /\ MayOpen(m) /\ Idle(a)
      BY <3>2 DEF OpensPair
    <3>4. Len(queue'[a]) = 2
      BY <3>3, OpenedQueue
    <3>5. queue'[b][i].arg = "buy" => i = 2
      BY <3>1 DEF Op
    <3>6. Cardinality(AutoHedged) < MaxPos
      <4>1. Cardinality(AutoHedged) <= Cardinality(tracked) /\ Cardinality(tracked) \in Nat
        BY <1>1, PairsAreFinite, FS_Subset, FS_CardinalityType DEF AutoTracked
      <4>2. Cardinality(tracked) < MaxPos /\ MaxPos \in Nat /\ Cardinality(AutoHedged) \in Nat
        BY <3>3, AutoIsFinite, PaperAssumption DEF MayOpen
      <4>3. QED
        BY <4>1, <4>2
    <3>7. \A q \in AutoHedged : SymbolOf(q) # SymbolOf(o)'
      BY <2>1, <2>2, <3>3 DEF MayOpen, AutoTracked, SymbolOf
    <3>8. QED
      BY <3>1, <3>3, <3>4, <3>5, <3>6, <3>7
  <2>3. CASE o # p
    <3> DEFINE k == Old(a, b, i)
    <3>1. k \in 1 .. Len(queue[b]) /\ queue'[b][i] = queue[b][k]
          /\ (b = a => ~Idle(a) /\ i \in 3 .. Len(queue'[a]))
      <4>1. Op("open", p, "sell").pair = p /\ Op("open", p, "buy").pair = p
        BY DEF Op
      <4>2. QED
        BY <1>5, <2>3, <4>1, OpenedOps
    <3>2. o \in Pairs /\ deal[o].made
      BY <1>5, <3>1, OpenOps DEF Named, QueueTypes
    <3>3. deal'[o] = deal[o]
      BY <3>2, NamedDeal
    <3> HIDE DEF k
    <3>4. /\ b = "trader"
          /\ Cardinality(AutoHedged) < MaxPos
          /\ \A q \in AutoHedged : SymbolOf(q) # SymbolOf(o)
          /\ (queue[b][k].arg = "buy" => k = Len(queue[b]))
      BY <1>5, <3>1, <3>3 DEF AutoTracked
    <3>5. a # "trader"
      BY <3>1, <3>4 DEF OpensPair
    <3>6. queue'[b] = queue[b] /\ k = i
      BY <3>4, <3>5, OpenedQueue DEF k, Old
    <3>7. QED
      BY <3>3, <3>4, <3>6 DEF SymbolOf
  <2>4. QED
    BY <2>2, <2>3
<1>6. AutoTracked'
  BY <1>2, <1>4, <1>5 DEF AutoTracked
<1>7. QED
  BY <1>3, <1>6

LEMMA OpensKeepAll ==
  ASSUME Inductive, NEW a \in Actors, NEW p \in Pairs, NEW m \in Markets,
         NEW auto \in BOOLEAN, OpensPair(a, p, m, auto)
  PROVE  Inductive'
<1>0. Known /\ Trusted
  BY DEF Inductive
<1>1. Known'
  BY <1>0, NamedDeal, OpenedQueue, OpensKeepNamed, OpensKeepOnce, OpensKeepOrder DEF Known
<1>2. UNCHANGED <<legs, tracked, misread>>
  BY DEF OpensPair
<1>3. ASSUME ~misread'
      PROVE  TrackedRecorded' /\ LeavingClose' /\ AutoTracked' /\ ClosesFirst' /\ TraderWithinLimits'
  <2>1. ~misread /\ TrackedRecorded /\ LeavingClose /\ AutoTracked /\ ClosesFirst /\ TraderWithinLimits
    BY <1>0, <1>2, <1>3 DEF Trusted
  <2>2. TrackedRecorded'
    BY <1>2, <2>1 DEF TrackedRecorded, Both
  <2>3. QED
    BY <1>0, <2>1, <2>2, OpensKeepLeaving, OpensKeepAuto, OpensKeepReopens
<1>4. QED
  BY <1>1, <1>3 DEF Inductive, Trusted

LEMMA OpenPassKeeps ==
  ASSUME Inductive, NEW m \in Markets, OpenPass(m)
  PROVE  Inductive'
<1>1. PICK p \in Fresh : Names(p, m, TRUE) /\ Does("trader", Opens(p))
  BY DEF OpenPass
<1>2. p \in Pairs /\ "trader" \in Actors
  BY DEF Fresh, Actors
<1>3. OpensPair("trader", p, m, TRUE)
  BY <1>1 DEF OpenPass, OpensPair
<1>4. QED
  BY <1>2, <1>3, OpensKeepAll

LEMMA WindowOpensKeeps ==
  ASSUME Inductive, WindowOpens
  PROVE  Inductive'
<1>1. PICK p \in Fresh : Names(p, WindowMarket, FALSE) /\ Does("window", Opens(p))
  BY DEF WindowOpens
<1>2. p \in Pairs /\ "window" \in Actors
  BY DEF Fresh, Actors
<1>3. OpensPair("window", p, WindowMarket, FALSE)
  BY <1>1 DEF WindowOpens, OpensPair, Starts
<1>4. QED
  BY <1>2, <1>3, OpensKeepAll, PaperAssumption

LEMMA ReopenKeeps ==
  ASSUME Inductive, Reopen
  PROVE  Inductive'
<1>0. "reentry" \in Actors /\ TypeOK /\ QueueTypes
  BY DEF Actors, Inductive, Known
<1>1. CASE Does("reentry", Tail(queue["reentry"])) /\ UNCHANGED deal
  BY <1>1, SkippedReopenKeeps DEF Reopen, SkipsReopen
<1>2. CASE \E p \in Fresh :
             /\ Names(p, deal[Head(queue["reentry"]).pair].market, FALSE)
             /\ Does("reentry", Opens(p) \o Tail(queue["reentry"]))
  <2> DEFINE m == deal[Head(queue["reentry"]).pair].market
  <2>1. PICK p \in Fresh : Names(p, m, FALSE) /\ Does("reentry", Opens(p) \o Tail(queue["reentry"]))
    BY <1>2
  <2>2. m \in Markets
    <3>1. queue["reentry"] \in Seq(OpSet) /\ queue["reentry"] # <<>>
      BY <1>0 DEF QueueTypes, Reopen, Idle
    <3>2. Head(queue["reentry"]) \in OpSet
      BY <3>1
    <3>3. Head(queue["reentry"]).pair \in Pairs
      BY <3>2, OpenOps
    <3>4. QED
      BY <1>0, <3>3, OpTypes
  <2> HIDE DEF m
  <2>3. p \in Pairs
    BY DEF Fresh
  <2>4. OpensPair("reentry", p, m, FALSE)
    BY <2>1 DEF Reopen, OpensPair
  <2>5. QED
    BY <1>0, <2>2, <2>3, <2>4, OpensKeepAll
<1>3. QED
  BY <1>1, <1>2 DEF Reopen

-----------------------------------------------------------------------------
\* The theorems.

LEMMA InitInductive == Init => Inductive
<1> SUFFICES ASSUME Init PROVE Inductive
  OBVIOUS
<1>1. /\ deal = [p \in Pairs |-> NoDeal] /\ legs = Empty
      /\ tracked = {} /\ phase = "idle" /\ leaving = {} /\ marked = {}
      /\ queue = [a \in Actors |-> <<>>] /\ misread = FALSE
  BY DEF Init
<1>2. legs \in Files /\ \A p \in Pairs, s \in Sides : legs[p][s].status = "none"
  BY <1>1, EmptyIsAFile DEF Missing
<1>3. NoDeal \in [market : Markets, auto : BOOLEAN, made : BOOLEAN]
  BY PaperAssumption DEF NoDeal
<1>4. TypeOK
  BY <1>1, <1>2, <1>3 DEF TypeOK, Files, Statuses
<1>5. QueueTypes /\ \A a \in Actors : Len(queue[a]) = 0
  BY <1>1 DEF QueueTypes
<1>6. Known
  BY <1>1, <1>2, <1>4, <1>5 DEF Known, Named, OpensOnce, SellThenBuy
<1>7. AutoHedged = {}
  BY <1>2 DEF AutoHedged, Hedged, Filled, Sides
<1>8. TraderWithinLimits
  <2>1. Cardinality(AutoHedged) = 0 /\ MaxPos \in Nat
    BY <1>7, FS_EmptySet, PaperAssumption
  <2>2. QED
    BY <1>7, <2>1 DEF TraderWithinLimits
<1>9. TrackedRecorded /\ LeavingClose /\ AutoTracked /\ ClosesFirst
  BY <1>1, <1>5, <1>7 DEF TrackedRecorded, LeavingClose, AutoTracked, ClosesFirst, Actors
<1>10. QED
  BY <1>6, <1>8, <1>9 DEF Inductive, Trusted

LEMMA StutterKeeps ==
  ASSUME Inductive, UNCHANGED vars
  PROVE  Inductive'
<1>1. UNCHANGED <<deal, legs, tracked, phase, leaving, marked, queue, misread>>
  BY DEF vars
<1>2. Known
  BY DEF Inductive
<1>3. GetsChores /\ TypeOK'
  BY <1>1, <1>2, KeepsNoWork DEF Known, TypeOK
<1>4. QED
  BY <1>1, <1>3, OthersKeepAll, ReopensStay

LEMMA StepInductive == Inductive /\ [Next]_vars => Inductive'
<1> SUFFICES ASSUME Inductive, [Next]_vars PROVE Inductive'
  OBVIOUS
<1>1. CASE TraderActs
  BY <1>1, ClosePassKeeps, UnhedgedPassKeeps, EndUnhedgedKeeps, EndTickKeeps, OpenPassKeeps
     DEF TraderActs
<1>2. CASE \E a \in Actors : Write(a) \/ WriteRaises(a)
  BY <1>2, WriteKeeps, WriteRaisesKeeps
<1>3. CASE GuardScan \/ GuardCloses
  BY <1>3, GuardScanKeeps, GuardClosesKeeps
<1>4. CASE ReentryTick \/ Reopen
  BY <1>4, ReentryTickKeeps, ReopenKeeps
<1>5. CASE AccrualTick
  BY <1>5, AccrualTickKeeps
<1>6. CASE WindowOpens \/ WindowCloses
  BY <1>6, WindowOpensKeeps, WindowClosesKeeps
<1>7. CASE Crash
  BY <1>7, CrashKeeps
<1>8. CASE UNCHANGED vars
  BY <1>8, StutterKeeps
<1>9. QED
  BY <1>1, <1>2, <1>3, <1>4, <1>5, <1>6, <1>7, <1>8 DEF Next

LEMMA AlwaysInductive == Spec => []Inductive
BY InitInductive, StepInductive, PTL DEF Spec

\* The order file, what the threads remember and the work they have in hand stay
\* well typed (PaperOrderStore, ScreenerAutoTraderWorker, the paper guards).
THEOREM PaperTypeCorrect == Spec => []TypeOK
<1>1. Inductive => TypeOK
  BY DEF Inductive, Known
<1>2. QED
  BY <1>1, AlwaysInductive, PTL

\* The trader never has more hedged pairs of its own than max_open_positions, nor
\* two on one symbol: what it counts in _tracked never falls behind the file,
\* however long its opens take to be written, unless a file was misread.
THEOREM TraderStaysWithinLimits == Spec => []TraderWithinLimits
<1>1. Inductive => TraderWithinLimits
  BY DEF Inductive, Trusted, TraderWithinLimits
<1>2. QED
  BY <1>1, AlwaysInductive, PTL

\* Only the writes of operations change the file.
LEMMA OnlyWritesWrite ==
  ASSUME [Next]_vars
  PROVE  legs' = legs \/ \E a \in Actors : Write(a)
<1>1. CASE TraderActs
  BY <1>1 DEF TraderActs, ClosePass, UnhedgedPass, UnhedgedPassOver, EndUnhedged, EndTick, OpenPass
<1>2. CASE GuardScan \/ GuardCloses \/ AccrualTick \/ Crash
  BY <1>2 DEF GuardScan, GuardCloses, AccrualTick, Crash
<1>3. CASE ReentryTick \/ Reopen \/ WindowOpens \/ WindowCloses
  BY <1>3 DEF ReentryTick, Reopen, WindowOpens, WindowCloses
<1>4. CASE \E a \in Actors : WriteRaises(a)
  BY <1>4 DEF WriteRaises
<1>5. CASE UNCHANGED vars
  BY <1>5 DEF vars
<1>6. QED
  BY <1>1, <1>2, <1>3, <1>4, <1>5 DEF Next

\* A close that is applied twice, by two guards or after a delay, changes nothing:
\* a closed leg keeps its status and its funding (record_close, accrue_funding).
THEOREM ClosedStaysFinal == Spec => ClosedIsFinal
<1>1. ASSUME Inductive, [Next]_vars, NEW p \in Pairs, NEW s \in Sides, legs[p][s].status = "closed"
      PROVE  legs'[p][s] = legs[p][s] \/ misread'
  <2>1. SUFFICES ASSUME NEW a \in Actors, Write(a) PROVE legs'[p][s] = legs[p][s] \/ misread'
    BY <1>1, OnlyWritesWrite
  <2>2. Known /\ Pops(a)
    BY <1>1, <2>1, WritePops DEF Inductive, Known
  <2> DEFINE op == Head(queue[a])
  <2>3. op \in OpSet /\ op = queue[a][1] /\ 1 \in 1 .. Len(queue[a]) /\ Effect(op)
    BY <2>2, PoppedQueue DEF Known, Pops
  <2> HIDE DEF op
  <2>4. CASE op.do = "open"
    <3>1. legs[op.pair][op.arg].status = "none"
      BY <2>2, <2>3, <2>4 DEF Known, OpensOnce
    <3>2. p # op.pair \/ s # op.arg
      BY <1>1, <3>1
    <3>3. QED
      BY <2>3, <2>4, <3>2 DEF Effect
  <2>5. CASE op.do # "open"
    <3>1. s \notin Matching(legs, p, op.arg)
      BY <1>1 DEF Matching, Filled
    <3>2. QED
      BY <2>3, <2>5, <3>1 DEF Effect
  <2>6. QED
    BY <2>4, <2>5
<1>2. Inductive /\ [Next]_vars =>
        [\A p \in Pairs, s \in Sides :
          legs[p][s].status = "closed" => legs'[p][s] = legs[p][s] \/ misread']_vars
  BY <1>1
<1>3. QED
  BY <1>2, AlwaysInductive, PTL DEF Spec, ClosedIsFinal

\* Only the pass over broken pairs and a crash take a pair out of _tracked.
LEMMA OthersForgetNothing ==
  ASSUME [Next]_vars
  PROVE  tracked \subseteq tracked' \/ UnhedgedPass \/ EndUnhedged \/ Crash
<1>1. CASE TraderActs
  BY <1>1 DEF TraderActs, ClosePass, EndTick, OpenPass
<1>2. CASE GuardScan \/ GuardCloses \/ AccrualTick
  BY <1>2 DEF GuardScan, GuardCloses, AccrualTick
<1>3. CASE ReentryTick \/ Reopen \/ WindowOpens \/ WindowCloses
  BY <1>3 DEF ReentryTick, Reopen, WindowOpens, WindowCloses
<1>4. CASE \E a \in Actors : Write(a) \/ WriteRaises(a)
  BY <1>4 DEF WriteRaises, Write
<1>5. CASE UNCHANGED vars
  BY <1>5 DEF vars
<1>6. QED
  BY <1>1, <1>2, <1>3, <1>4, <1>5 DEF Next

\* When the trader drops a pair from _tracked, the file has no open leg of it left,
\* unless the process died or the file was misread.
THEOREM ForgottenIsClosed == Spec => ForgottenMeansClosed
<1>1. Inductive /\ [Next]_vars =>
        [\A p \in tracked \ tracked' : Live(legs, p) => misread' \/ Crash]_vars
  <2>1. ASSUME Inductive, [Next]_vars, NEW p \in tracked \ tracked', Live(legs, p)
        PROVE  misread' \/ Crash
    BY <2>1, OthersForgetNothing, UnhedgedPassKeeps, EndUnhedgedKeeps
  <2>2. QED
    BY <2>1
<1>2. QED
  BY <1>1, AlwaysInductive, PTL DEF Spec, ForgottenMeansClosed

\* The funding re-entry opens a new pair only when both legs of the one it stands
\* for are closed, whatever the other threads closed meanwhile.
THEOREM ReentryReplaces == Spec => ReentryOnlyReplaces
<1>1. Inductive =>
        [Reopen /\ UNCHANGED misread /\ deal' # deal
          => misread \/ ~Live(legs, Head(queue["reentry"]).pair)]_vars
  <2>1. ASSUME Inductive, Reopen, ~misread PROVE ~Live(legs, Head(queue["reentry"]).pair)
    <3>1. ClosesFirst /\ QueueTypes /\ "reentry" \in Actors
      BY <2>1 DEF Inductive, Trusted, Known, Actors
    <3>2. queue["reentry"] \in Seq(OpSet) /\ queue["reentry"] # <<>>
      BY <2>1, <3>1 DEF Reopen, Idle, QueueTypes
    <3>3. 1 \in 1 .. Len(queue["reentry"]) /\ Head(queue["reentry"]) = queue["reentry"][1]
      BY <3>2
    <3>4. queue["reentry"][1].do = "reopen"
      BY <2>1, <3>3 DEF Reopen
    <3>5. \A s \in Filled(legs, queue["reentry"][1].pair) : \E j \in 1 .. 1 - 1 : TRUE
      BY <3>1, <3>3, <3>4 DEF ClosesFirst
    <3>6. Filled(legs, queue["reentry"][1].pair) = {}
      BY <3>5 DEF Filled
    <3>7. QED
      BY <3>3, <3>6 DEF Live
  <2>2. QED
    BY <2>1
<1>2. QED
  BY <1>1, AlwaysInductive, PTL DEF Spec, ReentryOnlyReplaces

LEMMA LivesOfPairs ==
  /\ LifeOf("none", "none") = "none"
  /\ LifeOf("none", "filled") = "opening" /\ LifeOf("filled", "none") = "opening"
  /\ LifeOf("filled", "filled") = "open"
  /\ LifeOf("filled", "closed") = "closing" /\ LifeOf("closed", "filled") = "closing"
  /\ LifeOf("none", "closed") = "cut" /\ LifeOf("closed", "none") = "cut"
  /\ LifeOf("closed", "closed") = "closed"
BY DEF LifeOf

\* A leg that is recorded or settled moves the life of its pair by one step.
LEMMA LegsMoveLives ==
  ASSUME NEW x \in Statuses
  PROVE  /\ <<LifeOf("none", x), LifeOf("filled", x)>> \in Ledger!Recorded
         /\ <<LifeOf(x, "none"), LifeOf(x, "filled")>> \in Ledger!Recorded
         /\ <<LifeOf("filled", x), LifeOf("closed", x)>> \in Ledger!Closed
         /\ <<LifeOf(x, "filled"), LifeOf(x, "closed")>> \in Ledger!Closed
<1>1. CASE x = "none"
  BY <1>1, LivesOfPairs DEF Ledger!Recorded, Ledger!Closed
<1>2. CASE x = "filled"
  BY <1>2, LivesOfPairs DEF Ledger!Recorded, Ledger!Closed
<1>3. CASE x = "closed"
  BY <1>3, LivesOfPairs DEF Ledger!Recorded, Ledger!Closed
<1>4. QED
  BY <1>1, <1>2, <1>3 DEF Statuses

LEMMA BookOfPair ==
  ASSUME NEW q \in Pairs
  PROVE  /\ Book[q] = LifeOf(legs[q]["sell"].status, legs[q]["buy"].status)
         /\ Book'[q] = LifeOf(legs'[q]["sell"].status, legs'[q]["buy"].status)
BY DEF Book

LEMMA SameStatuses ==
  ASSUME \A q \in Pairs, t \in Sides : legs'[q][t].status = legs[q][t].status
  PROVE  Book' = Book
BY DEF Book, Sides

LEMMA OneLegMoves ==
  ASSUME NEW p \in Pairs, NEW s \in Sides, legs \in Files, legs' \in Files,
         \A q \in Pairs, t \in Sides : q # p \/ t # s => legs'[q][t].status = legs[q][t].status,
         \/ legs[p][s].status = "none" /\ legs'[p][s].status = "filled"
         \/ legs[p][s].status = "filled" /\ legs'[p][s].status = "closed"
  PROVE  Ledger!LedgerNext
<1>1. \A q \in Pairs \ {p} : Book'[q] = Book[q]
  BY BookOfPair DEF Sides
<1>2. \A t \in Sides : legs[p][t].status \in Statuses
  BY DEF Files
<1>3. <<Book[p], Book'[p]>> \in Ledger!Recorded \cup Ledger!Closed
  <2> DEFINE old == legs[p][s].status
             new == legs'[p][s].status
  <2>1. CASE s = "sell"
    <3> DEFINE x == legs[p]["buy"].status
    <3>1. x \in Statuses /\ legs'[p]["buy"].status = x
      BY <1>2, <2>1 DEF Sides
    <3>2. Book[p] = LifeOf(old, x) /\ Book'[p] = LifeOf(new, x)
      BY <2>1, <3>1, BookOfPair
    <3> HIDE DEF x
    <3>3. QED
      BY <3>1, <3>2, LegsMoveLives
  <2>2. CASE s = "buy"
    <3> DEFINE x == legs[p]["sell"].status
    <3>1. x \in Statuses /\ legs'[p]["sell"].status = x
      BY <1>2, <2>2 DEF Sides
    <3>2. Book[p] = LifeOf(x, old) /\ Book'[p] = LifeOf(x, new)
      BY <2>2, <3>1, BookOfPair
    <3> HIDE DEF x
    <3>3. QED
      BY <3>1, <3>2, LegsMoveLives
  <2>3. QED
    BY <2>1, <2>2 DEF Sides
<1>4. Ledger!Advance(p)
  BY <1>1, <1>3 DEF Ledger!Advance
<1>5. QED
  BY <1>4 DEF Ledger!LedgerNext

LEMMA WriteIsLedgerStep ==
  ASSUME Inductive, NEW a \in Actors, Write(a)
  PROVE  Ledger!LedgerNext \/ Book' = Book
<1>1. Known /\ Pops(a)
  BY WritePops DEF Inductive, Known
<1> DEFINE op == Head(queue[a])
<1>2. op \in OpSet /\ op = queue[a][1] /\ 1 \in 1 .. Len(queue[a]) /\ Effect(op) /\ op.pair \in Pairs
  BY <1>1, PoppedQueue, OpenOps DEF Known, Pops
<1> HIDE DEF op
<1>3. legs \in Files /\ legs' \in Files
  BY <1>1, <1>2 DEF Known, TypeOK, Files, Statuses, Effect
<1>4. CASE op.do = "open"
  <2>1. op.arg \in Sides /\ legs[op.pair][op.arg].status = "none"
    BY <1>1, <1>2, <1>4, OpenOps DEF Known, OpensOnce
  <2>2. legs'[op.pair][op.arg].status = "filled"
    BY <1>2, <1>4 DEF Effect
  <2>3. CASE \A q \in Pairs, t \in Sides : q # op.pair \/ t # op.arg => legs'[q][t] = legs[q][t]
    BY <1>2, <1>3, <2>1, <2>2, <2>3, OneLegMoves
  <2>4. CASE \A q \in Pairs, t \in Sides : q # op.pair \/ t # op.arg => legs'[q][t] = Missing
    <3>1. \A q \in Pairs, t \in Sides : q # op.pair \/ t # op.arg => legs'[q][t].status = "none"
      BY <2>4 DEF Missing
    <3>2. \A q \in Pairs \ {op.pair} : Book'[q] = "none"
      BY <3>1, BookOfPair, LivesOfPairs DEF Sides
    <3>3. Book'[op.pair] = "opening"
      BY <1>2, <2>1, <2>2, <3>1, BookOfPair, LivesOfPairs DEF Sides
    <3>4. Ledger!Lose(op.pair)
      BY <3>2, <3>3 DEF Ledger!Lose
    <3>5. QED
      BY <1>2, <3>4 DEF Ledger!LedgerNext
  <2>5. QED
    BY <1>2, <1>4, <2>3, <2>4 DEF Effect
<1>5. CASE op.do # "open"
  <2>1. \A q \in Pairs, t \in Sides :
          \/ legs'[q][t] = legs[q][t]
          \/ /\ q = op.pair /\ t \in Matching(legs, op.pair, op.arg)
             /\ legs'[q][t].status = IF op.do = "close" THEN "closed" ELSE "filled"
    BY <1>2, <1>5 DEF Effect
  <2>2. \A s, t \in Matching(legs, op.pair, op.arg) : s = t
    <3>1. deal[op.pair].market.short # deal[op.pair].market.long
      BY <1>1, <1>2, OpTypes, PaperAssumption DEF Known
    <3>2. QED
      BY <3>1 DEF Matching, Filled, Sides, ExchangeOf
  <2>3. \A t \in Matching(legs, op.pair, op.arg) : t \in Sides /\ legs[op.pair][t].status = "filled"
    BY DEF Matching, Filled
  <2>4. CASE \A q \in Pairs, t \in Sides : legs'[q][t].status = legs[q][t].status
    BY <2>4, SameStatuses
  <2>5. CASE \E t \in Sides : legs'[op.pair][t].status # legs[op.pair][t].status
    <3>1. PICK s \in Sides : legs'[op.pair][s].status # legs[op.pair][s].status
      BY <2>5
    <3>2. s \in Matching(legs, op.pair, op.arg)
          /\ legs'[op.pair][s].status = IF op.do = "close" THEN "closed" ELSE "filled"
      BY <1>2, <2>1, <3>1
    <3>3. legs[op.pair][s].status = "filled" /\ legs'[op.pair][s].status = "closed"
      BY <2>3, <3>1, <3>2
    <3>4. \A q \in Pairs, t \in Sides : q # op.pair \/ t # s => legs'[q][t].status = legs[q][t].status
      BY <2>1, <2>2, <3>2
    <3>5. QED
      BY <1>2, <1>3, <3>3, <3>4, OneLegMoves
  <2>6. QED
    BY <2>1, <2>4, <2>5
<1>6. QED
  BY <1>4, <1>5

\* The order file implements the ledger: each pair only ever moves from opening to
\* open, closing and closed, one pair and one leg at a time, and an unreadable
\* file loses all pairs but the one being written.
THEOREM LedgerIsKept == Spec => LedgerKept
<1>1. Init => Ledger!LedgerInit
  <2>1. SUFFICES ASSUME Init PROVE Book = [p \in Pairs |-> "none"]
    BY DEF Ledger!LedgerInit
  <2>2. \A p \in Pairs, s \in Sides : legs[p][s].status = "none"
    BY <2>1, EmptyIsAFile DEF Init, Missing
  <2>3. QED
    BY <2>2, LivesOfPairs DEF Book, Sides
<1>2. Inductive /\ [Next]_vars => [Ledger!LedgerNext]_Book
  <2>1. SUFFICES ASSUME Inductive, [Next]_vars PROVE Ledger!LedgerNext \/ Book' = Book
    OBVIOUS
  <2>2. CASE legs' = legs
    BY <2>2 DEF Book
  <2>3. CASE \E a \in Actors : Write(a)
    BY <2>1, <2>3, WriteIsLedgerStep
  <2>4. QED
    BY <2>1, <2>2, <2>3, OnlyWritesWrite
<1>3. QED
  BY <1>1, <1>2, AlwaysInductive, PTL DEF Spec, LedgerKept, Ledger!LedgerSpec
=============================================================================
