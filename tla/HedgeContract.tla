---------------------------- MODULE HedgeContract ----------------------------
(***************************************************************************)
(* The hedged executor as its callers see it: a call on a hedge answers a  *)
(* status and leaves two positions.  HedgedExecution is the step-by-step   *)
(* model of the same code; here a call is one step and amounts are units   *)
(* of the base notional, so two legs are within tolerance when they are    *)
(* equal.  The sets below hold every answer the code can give when nobody  *)
(* else trades the two legs during the call, with the faults Faults allows *)
(* (see HedgedExecution).                                                  *)
(***************************************************************************)
EXTENDS Integers

CONSTANT Faults

Magnitude(n) == IF n < 0 THEN -n ELSE n
When(fault, answers) == IF fault \in Faults THEN answers ELSE {}

Answer(status, short, long) == [status |-> status, short |-> short, long |-> long]
Hedge(short, long) == [short |-> short, long |-> long]

AnswerStatuses == {"success", "partial", "failed", "rolled_back", "raised"}

\* How much of a market order for n units executes.
Fills(n) == {n} \cup When("part_open", 0 .. n)

\* What closing the leg of position p reports and leaves.
LegCloses(p) ==
  {[ok |-> TRUE, rest |-> 0]}
  \cup When("part_close", {[ok |-> TRUE, rest |-> r] : r \in IF p < 0 THEN p .. 0 ELSE 0 .. p})
  \cup When("blind", {[ok |-> TRUE, rest |-> p]})
  \cup (IF p = 0 THEN {} ELSE When("reject", {[ok |-> FALSE, rest |-> p]})
                              \cup When("lost", {[ok |-> FALSE, rest |-> 0]}))

\* The size a read of position p may show.
Looks(p) == {Magnitude(p)} \cup When("blind", {0})

\* The fill inferred from two reads of the position.
Measured(before, after) ==
  {Magnitude(a - b) : b \in Looks(before), a \in Looks(after)}

\* The status of an entering call that measured the fills s and l.
Entered(s, l) ==
  IF s = 0 /\ l = 0 THEN "failed" ELSE IF s = l THEN "success" ELSE "partial"

\* The long order failed: the short leg is closed whole.
RollbackAnswers(short, long) ==
  {Answer(IF c.ok THEN "rolled_back" ELSE "failed", c.rest, long) : c \in LegCloses(short)}
  \cup When("abort", {Answer("raised", short, long)})

\* The long order executed m units, after a short fill measured as s.
LongAnswers(short, long, s, m) ==
  {Answer(Entered(s, l), short, long + m) : l \in Measured(long, long + m)}
  \cup When("abort", {Answer("raised", short, long + m)})

\* The long order raised, m units of it executed all the same.
LongRaisedAnswers(short, long, s, m) ==
  IF s = 0 THEN {Answer("failed", short, long + m)} ELSE RollbackAnswers(short, long + m)

\* The short leg is at short now and its fill was measured as s: the long order
\* follows s, or the plan n when s is zero.
AnswersAfterShort(short, long, n, s) ==
  LET amount == IF s = 0 THEN n ELSE s
      raised == When("reject", {0}) \cup When("lost", Fills(amount))
  IN  When("abort", {Answer("raised", short, long)})
      \cup (UNION {LongAnswers(short, long, s, m) : m \in Fills(amount)})
      \cup (UNION {LongRaisedAnswers(short, long, s, m) : m \in raised})

\* open and accumulate of n units on the hedge h.  Any call may be rejected
\* before its first order (margin, market info, rounding).
EnterAnswers(h, n) ==
  {Answer("failed", h.short, h.long)}
  \cup When("lost", {Answer("failed", h.short - n, h.long)})
  \cup When("abort", {Answer("raised", h.short, h.long)})
  \cup (UNION {UNION {AnswersAfterShort(h.short - k, h.long, n, s) :
                        s \in Measured(h.short, h.short - k)} : k \in Fills(n)})

Exited(a, b) ==
  IF ~a.ok /\ ~b.ok THEN {"failed"}
  ELSE IF ~a.ok \/ ~b.ok THEN {"partial"}
  ELSE {IF Magnitude(a.rest) = Magnitude(b.rest) THEN "success" ELSE "partial"}
       \cup When("blind", {"success", "partial"})

\* close_all on the hedge h: what it may answer when its orders leave a and b.
Closings(h, a, b) ==
  {Answer(status, a.rest, b.rest) : status \in Exited(a, b)}
  \cup When("abort", {Answer("raised", a.rest, b.rest), Answer("raised", a.rest, h.long),
                      Answer("raised", h.short, h.long)})

CloseAnswers(h) ==
  IF h.short = 0 /\ h.long = 0
  THEN {Answer("failed", 0, 0)} \cup When("abort", {Answer("raised", 0, 0)})
  ELSE (UNION {Closings(h, a, b) : a \in LegCloses(h.short), b \in LegCloses(h.long)})
       \cup When("blind", {Answer("failed", h.short, h.long)})
=============================================================================
