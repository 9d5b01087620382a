--------------------------- MODULE PayoutPromise ---------------------------
(***************************************************************************)
(* What the milestone payouts of an escrow promise, whatever the           *)
(* interleaving of the requests and wherever they die:                     *)
(*   - a proof is approved only together with the payment of its milestone;*)
(*   - a milestone that was paid for stays paid for;                       *)
(*   - the closing is recorded only once every milestone was paid for, and *)
(*     the record stays.                                                   *)
(* It promises no more: an approval may be withdrawn by a late rejection,  *)
(* a milestone may be paid for without a proof, by the endpoint that       *)
(* executes stored payments, and an escrow that was closed may be opened   *)
(* again by its other endpoints.                                           *)
(***************************************************************************)
CONSTANTS Milestones, Proofs, ProofFor

VARIABLES
  paidFor,      \* milestones with a payment that was sent
  approved,     \* approved proofs
  isClosed      \* the timeline of the escrow has a CLOSED event

Init ==
  /\ paidFor = {}
  /\ approved = {}
  /\ isClosed = FALSE

ApproveAndPay(p) ==
  /\ approved' = approved \cup {p}
  /\ paidFor' = paidFor \cup {ProofFor[p]}
  /\ UNCHANGED isClosed

PayStored(m) ==
  /\ paidFor' = paidFor \cup {m}
  /\ UNCHANGED <<approved, isClosed>>

Withdraw(p) ==
  /\ approved' = approved \ {p}
  /\ UNCHANGED <<paidFor, isClosed>>

Close ==
  /\ paidFor = Milestones
  /\ isClosed' = TRUE
  /\ UNCHANGED <<paidFor, approved>>

Next ==
  \/ \E p \in Proofs : ApproveAndPay(p) \/ Withdraw(p)
  \/ \E m \in Milestones : PayStored(m)
  \/ Close

Spec == Init /\ [][Next]_<<paidFor, approved, isClosed>>
=============================================================================
