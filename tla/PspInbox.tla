------------------------------ MODULE PspInbox ------------------------------
(***************************************************************************)
(* What the webhook of the payment provider promises, as if one server     *)
(* took each report once and in a single step: the payment then has the    *)
(* status that the report tells, whatever it had before, and a report never*)
(* runs ahead of the commit of its payment.  The escrow is released only   *)
(* when nothing is left to be paid, and stays so.                          *)
(***************************************************************************)
CONSTANTS Events, Payments, Kind, Ref

VARIABLES
  payment,      \* status of each payment, "NONE" before it is made
  released,     \* the escrow is RELEASED
  applied       \* events that took effect

Init ==
  /\ payment = [p \in Payments |-> "NONE"]
  /\ released = FALSE
  /\ applied = {}

AllMade == \A p \in Payments : payment[p] # "NONE"

Make(p) ==
  /\ payment[p] = "NONE"
  /\ payment' = [payment EXCEPT ![p] = "SENT"]
  /\ UNCHANGED <<released, applied>>

Release == AllMade /\ released' = TRUE

Outcome(e) ==
  CASE Kind[e] = "settled" -> "SETTLED"
    [] Kind[e] = "failed"  -> "ERROR"
    [] OTHER               -> payment[Ref[e]]

Apply(e) ==
  /\ e \notin applied
  /\ payment[Ref[e]] # "NONE"
  /\ applied' = applied \cup {e}
  /\ payment' = [payment EXCEPT ![Ref[e]] = Outcome(e)]
  /\ UNCHANGED released \/ Release

Next ==
  \/ \E p \in Payments : Make(p)
  \/ \E e \in Events : Apply(e)
  \/ Release /\ UNCHANGED <<payment, applied>>

Spec == Init /\ [][Next]_<<payment, released, applied>>
=============================================================================
