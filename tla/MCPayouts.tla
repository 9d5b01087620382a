----------------------------- MODULE MCPayouts -----------------------------
(* Small instances of Payouts for TLC. *)
EXTENDS Payouts, TLC

CONSTANTS r1, r2, r3, r4, r5, r6, p1, p2, p3

\* Two milestones of the same amount.
UnitAmount == [m \in 1..N |-> 1]

\* Every deposit is of one unit.
UnitInstalment == [r \in Requests |-> 1]

\* Proofs p1 and p2 document the first milestone, p3 the second.
TwoProofsForFirst ==
  [p \in Proofs |-> IF N = 2 /\ p = p3 THEN 2 ELSE 1]

Symmetry == Permutations(Requests)
=============================================================================
