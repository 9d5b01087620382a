---------------------------- MODULE MCUsageSpend ----------------------------
(* A small instance of UsageSpend for TLC. *)
EXTENDS UsageSpend, TLC

CONSTANTS w1, w2, k1, k2, k3, clinic, shop

\* k1 and k2 both pay the clinic 2: in a day they pass its daily limit of 2, on
\* two days its total limit of 3.  k3 pays the shop 1.
Recipients == [k \in Keys |-> IF k = k3 THEN shop ELSE clinic]
Amounts == [k \in Keys |-> IF k = k3 THEN 1 ELSE 2]
DailyLimits == [p \in Payees |-> 2]
TotalLimits == [p \in Payees |-> 3]

\* k1 and k2 ask for the same.
Symmetry == Permutations(Workers) \cup Permutations({k1, k2})
=============================================================================
