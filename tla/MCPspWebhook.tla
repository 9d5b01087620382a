---------------------------- MODULE MCPspWebhook ----------------------------
(* Small instances of PspWebhook for TLC. *)
EXTENDS PspWebhook, TLC

CONSTANTS s1, s2, e1, e2, e3, id1, p1, p2

\* Events of several providers that use the same id, where the map is most in
\* the way: a settlement and a failure of one payment, a settlement of another.
Ids == [e \in Events |-> id1]
Kinds == [e \in Events |-> IF e = e2 THEN "failed" ELSE "settled"]
Refs == [e \in Events |-> IF e = e3 THEN p2 ELSE p1]

Symmetry == Permutations(Servers)
=============================================================================
