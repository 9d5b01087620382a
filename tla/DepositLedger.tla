--------------------------- MODULE DepositLedger ---------------------------
(***************************************************************************)
(* What the funding of an escrow promises, whatever requests and reports   *)
(* overlap, repeat or die:                                                 *)
(*   - a deposit is recorded once and for good;                            *)
(*   - the escrow becomes FUNDED only in the commit that records a deposit,*)
(*     and only if the recorded deposits then cover its amount;            *)
(*   - a decision changes its status, never its deposits, and nothing      *)
(*     brings it back to DRAFT.                                            *)
(* It does not promise that a deposit that covers the amount is noticed.   *)
(***************************************************************************)
CONSTANTS
  DepositKeys,
  Enough        \* sets of deposits that cover the amount of the escrow

VARIABLES
  recorded,     \* keys of the recorded deposits
  status        \* status of the escrow

Init ==
  /\ recorded = {}
  /\ status = "DRAFT"

Record(k) ==
  /\ k \notin recorded
  /\ recorded' = recorded \cup {k}
  /\ \/ UNCHANGED status
     \/ status' = "FUNDED" /\ recorded' \in Enough

Decide ==
  /\ status' \in {"RELEASABLE", "RELEASED", "REFUNDED", "CANCELLED"}
  /\ UNCHANGED recorded

Next == (\E k \in DepositKeys : Record(k)) \/ Decide

Spec == Init /\ [][Next]_<<recorded, status>>
=============================================================================
