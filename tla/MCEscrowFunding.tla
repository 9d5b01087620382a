-------------------------- MODULE MCEscrowFunding --------------------------
(* Small instances of EscrowFunding for TLC. *)
EXTENDS EscrowFunding, TLC

CONSTANTS w1, w2, w3, k1, k2, i1, i2

\* The client pays in two instalments, an intent pays the whole amount.
Instalments == [k \in DepositKeys |-> IF k \in Intents THEN AmountTotal ELSE AmountTotal \div 2]

Symmetry == Permutations(Workers)
=============================================================================
