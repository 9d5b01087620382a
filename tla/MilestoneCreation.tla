------------------------- MODULE MilestoneCreation -------------------------
(***************************************************************************)
(* create_milestone_for_escrow (app/routers/escrow.py) for one escrow: the *)
(* sum of its milestones and the index are checked in two reads, then the  *)
(* row is inserted.  Nothing says when milestones may be added.            *)
(***************************************************************************)
EXTENDS ApiKeys, FiniteSetsExt

CONSTANTS
  Indices,     \* sequence indices of milestones
  Amounts,     \* amounts of milestones
  AmountTotal  \* amount_total of the escrow

ASSUME MilestonesAssumption ==
  /\ IsFiniteSet(Indices)
  /\ Amounts \subseteq Nat \ {0}
  /\ AmountTotal \in Nat

VARIABLES
  milestone  \* amount of the milestone with each index, 0 without

MilestonesInit == milestone = [x \in Indices |-> 0]

PlannedTotal == SumFunction(milestone)

\* Plausible bug: the new amount is left out of the sum.
FitsWithout(a) == PlannedTotal <= AmountTotal

Fits(a) == PlannedTotal + a <= AmountTotal

SumMilestones(w, x, a) ==
  /\ Admitted(w)
  /\ IF Fits(a) THEN Handle(w, "index", [idx |-> x, amount |-> a]) ELSE Finish(w)
  /\ UNCHANGED <<keyTable, books, milestone>>

CheckIndex(w) ==
  /\ req[w].at = "index"
  /\ IF milestone[req[w].arg.idx] = 0 THEN Goto(w, "milestone") ELSE Finish(w)
  /\ UNCHANGED <<keyTable, books, milestone>>

\* Plausible bug: without the unique index two milestones share an idx.
InsertAnyway(w) ==
  LET m == req[w].arg IN
  /\ req[w].at = "milestone"
  /\ milestone' = [milestone EXCEPT ![m.idx] = @ + m.amount]
  /\ CountEffect(w)
  /\ Finish(w)
  /\ UNCHANGED keyTable

\* The unique index (escrow_id, idx) stops the second of two inserts.
InsertMilestone(w) ==
  LET m == req[w].arg IN
  /\ req[w].at = "milestone"
  /\ IF milestone[m.idx] = 0
     THEN milestone' = [milestone EXCEPT ![m.idx] = m.amount] /\ CountEffect(w)
     ELSE UNCHANGED <<milestone, books>>
  /\ Finish(w)
  /\ UNCHANGED keyTable

MilestoneStep(w) ==
  \/ \E x \in Indices, a \in Amounts : SumMilestones(w, x, a)
  \/ CheckIndex(w) \/ InsertMilestone(w)
=============================================================================
