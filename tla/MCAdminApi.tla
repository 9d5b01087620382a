---------------------------- MODULE MCAdminApi ----------------------------
(* Small instances of AdminApi for TLC. *)
EXTENDS AdminApi, TLC

CONSTANTS w1, w2, root, fresh, r1, r2, i1

\* Threads are interchangeable.
Symmetry == Permutations(Workers)
=============================================================================
