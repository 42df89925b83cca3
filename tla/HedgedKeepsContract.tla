------------------------- MODULE HedgedKeepsContract -------------------------
(***************************************************************************)
(* The executor run by live callers against the contract its callers       *)
(* assume: every answer to a call whose legs nobody else traded, with the  *)
(* positions it leaves, is one the contract allows from the positions the  *)
(* call started on.                                                        *)
(***************************************************************************)
EXTENDS HedgedExecution

CONSTANT MaxSize   \* bound: the answers of larger calls are too many to enumerate

Contract == INSTANCE HedgeContract

Live == Callers \ DryRun

\* The contract knows no remainders of a lot and no disabled rollback: a fill
\* that is no whole number of the long leg's lots comes from an exchange that
\* may refuse an order or fill it in part.
ASSUME ContractAssumption ==
  /\ RollbackEnabled
  /\ \/ \A e, f \in Exchanges : LotStep[e] = LotStep[f]
     \/ {"reject", "part_open"} \subseteq Faults

VARIABLES
  from,     \* history: from[c], the positions when c's call started
  alone     \* history: alone[c], nobody else has traded the legs of c's call

Begins(c) == pc[c] = "idle" /\ pc'[c] # "idle"

\* A step of another caller moves a leg of c's call.
Disturbed(c) ==
  /\ pc[c] # "idle" /\ pc'[c] = pc[c]
  /\ pos'[Short(c)] # pos[Short(c)] \/ pos'[Long(c)] # pos[Long(c)]

KeepFrom == from' = [c \in Live |-> IF Begins(c) THEN pos ELSE from[c]]
KeepAlone == alone' = [c \in Live |-> Begins(c) \/ (alone[c] /\ ~Disturbed(c))]

ContractInit ==
  Init /\ from = [c \in Live |-> pos] /\ alone = [c \in Live |-> TRUE]
ContractNext == Next /\ KeepFrom /\ KeepAlone

ContractSpec == ContractInit /\ [][ContractNext]_<<vars, from, alone>>

Left(c) == Contract!Answer(out'[c].status, pos'[Short(c)], pos'[Long(c)])
Hedged(c) == Contract!Hedge(from[c][Short(c)], from[c][Long(c)])

\* The contract counts in units: two amounts within tolerance are equal.
Fine(m, n) == TolPct * Larger(m, n) < 100

\* open, accumulate and close_all answer within the contract, whatever the
\* exchanges refuse, lose, fill in part or fail to show.
ContractKept ==
  [][\A c \in Live : alone[c] =>
       /\ Returns(c, EnterPCs) /\ Size(c) <= MaxSize
            /\ Fine(out'[c].filledShort, out'[c].filledLong)
            => Left(c) \in Contract!EnterAnswers(Hedged(c), Size(c))
       /\ Returns(c, ExitPCs) /\ req[c].percent = 100
            /\ Fine(Abs(pos'[Short(c)]), Abs(pos'[Long(c)]))
            => Left(c) \in Contract!CloseAnswers(Hedged(c))]_vars
=============================================================================
