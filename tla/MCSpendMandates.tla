-------------------------- MODULE MCSpendMandates --------------------------
(* Small instances of SpendMandates for TLC. *)
EXTENDS SpendMandates, TLC

CONSTANTS w1, w2, w3, k1, k2, k3, shop, market, food

\* Purchases of 1, 1 and 2 for mandates of 2: two exhaust a mandate, three
\* exceed it.
Prices == [k \in Keys |-> IF k = k3 THEN 2 ELSE 1]
\* One purchase at the shop, which has the category food; two at the market,
\* which has none, of which one names a category.
Shops == [k \in Keys |-> IF k = k1 THEN shop ELSE market]
ShopCategory == [x \in Merchants |-> IF x = shop THEN food ELSE None]
Names == [k \in Keys |-> IF k = k2 THEN food ELSE None]
Limits == [m \in 1..M |-> 2]
\* The first mandate is good for one category, the second for one merchant, the
\* third for all.
Shop == [m \in 1..M |-> IF m = 2 THEN market ELSE None]
Food == [m \in 1..M |-> IF m = 1 THEN food ELSE None]

Symmetry == Permutations(Workers)
=============================================================================
