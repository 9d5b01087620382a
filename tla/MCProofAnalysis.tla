-------------------------- MODULE MCProofAnalysis --------------------------
(* Small instances of ProofAnalysis for TLC. *)
EXTENDS ProofAnalysis, TLC

CONSTANTS w1, w2, w3, f1, f2

Photo(age, place, trusted) ==
  [kind |-> "photo", metadata |-> TRUE, stamped |-> TRUE, age |-> age,
   place |-> place, trusted |-> trusted, amount |-> "none"]
Document(amount) == [NoUpload EXCEPT !.metadata = TRUE, !.amount = amount]

\* Photos on both sides of every limit, some without a time or coordinates, and
\* documents.
SomeUploads ==
  {Photo(age, "free", TRUE) : age \in {-3, 120, 121}}
    \cup {Photo(120, place, TRUE) : place \in {"missing", "margin", "outside"}}
    \cup {Photo(-2, "inside", FALSE)}
    \cup {[Photo(0, "free", TRUE) EXCEPT !.stamped = FALSE]}
    \cup {Document(amount) : amount \in {"none", "valid", "bad"}}
=============================================================================
