------------------------------- MODULE Budget -------------------------------
(***************************************************************************)
(* What usage mandates promise, whatever purchases, creations and cleanups *)
(* overlap, repeat or die:                                                 *)
(*   - one mandate at most is open, and one that was closed stays closed;  *)
(*   - a purchase is charged once and for good, to the mandate that is open*)
(*     at that moment;                                                     *)
(*   - what is charged to a mandate never exceeds it, and a mandate that is*)
(*     spent up is closed by the charge that did it.                       *)
(***************************************************************************)
CONSTANTS
  Keys,
  Mandates,
  NoMandate,
  Within,       \* for each mandate, the sets of purchases that leave something
  SpendUp       \* for each mandate, the sets of purchases that cost its limit

VARIABLES
  charged,      \* mandate each purchase is charged to
  life          \* "new", "open" or "closed", for each mandate

Init ==
  /\ charged = [k \in Keys |-> NoMandate]
  /\ life = [m \in Mandates |-> "new"]

Issue(m) ==
  /\ \A n \in Mandates : life[n] # "open"
  /\ life[m] = "new"
  /\ life' = [life EXCEPT ![m] = "open"]
  /\ UNCHANGED charged

Purchases(m) == {k \in Keys : charged[k] = m}

Charge(k, m) ==
  /\ charged[k] = NoMandate
  /\ life[m] = "open"
  /\ charged' = [charged EXCEPT ![k] = m]
  /\ \/ Purchases(m) \cup {k} \in Within[m] /\ UNCHANGED life
     \/ Purchases(m) \cup {k} \in SpendUp[m] /\ life' = [life EXCEPT ![m] = "closed"]

Retire(old) ==
  /\ \A m \in old : life[m] # "new"
  /\ life' = [m \in Mandates |-> IF m \in old THEN "closed" ELSE life[m]]
  /\ UNCHANGED charged

Next ==
  \/ \E m \in Mandates : Issue(m)
  \/ \E k \in Keys, m \in Mandates : Charge(k, m)
  \/ \E old \in SUBSET Mandates : Retire(old)

Spec == Init /\ [][Next]_<<charged, life>>
=============================================================================
