--------------------------- MODULE PayoutsProofs ---------------------------
(***************************************************************************)
(* Proofs about Payouts, for every number of requests, proofs, milestones, *)
(* notifications and deaths.  The safety properties of Payouts are not     *)
(* inductive one by one: a request that closes the escrow acts on a count  *)
(* made earlier, so closing is right only because what a request remembers *)
(* stays true.  IInv conjoins them with MemoryStillTrue and the fact that   *)
(* rows exist only for milestones that have left WAITING.                  *)
(***************************************************************************)
EXTENDS Payouts, Sums, TLAPS

\* A milestone with a proof or a payment has left WAITING.
RowsMeanProgress ==
  /\ \A p \in Proofs : proof[p] # "NONE" => milestone[ProofFor[p]] # "WAITING"
  /\ \A m \in Milestones, route \in Routes :
       payment[m, route] # "NONE" => milestone[m] # "WAITING"

\* The inductive invariant.
IInv ==
  /\ TypeOK
  /\ PaidMilestoneHasPayment
  /\ ApprovedProofIsPaid
  /\ ClosedOnlyWhenPaid
  /\ NoMilestoneSkipped
  /\ MemoryStillTrue
  /\ RowsMeanProgress
-----------------------------------------------------------------------------
(***************************************************************************)
(* Type correctness.                                                       *)
(***************************************************************************)

\* A request that remembers nothing is well-typed.
LEMMA BlankType == \A stage \in Stages : Blank(stage) \in RequestState
  BY PayoutsAssumption
  DEF Blank, RequestState, Routes, Milestones, MilestoneStatus, EscrowStatus

\* Moving on or ending keeps what the request remembers well-typed.
LEMMA GotoType ==
  ASSUME TypeOK, NEW r \in Requests, NEW stage \in Stages, Goto(r, stage)
  PROVE  req' \in [Requests -> RequestState]
<1>1. req[r] \in RequestState
  BY DEF TypeOK
<1>2. [req[r] EXCEPT !.at = stage] \in RequestState
  BY <1>1 DEF RequestState
<1> QED BY <1>2 DEF TypeOK, Goto

LEMMA FinishType ==
  ASSUME TypeOK, NEW r \in Requests, Finish(r)
  PROVE  req' \in [Requests -> RequestState]
<1>1. Blank("done") \in RequestState
  BY BlankType DEF Stages
<1> QED BY <1>1 DEF TypeOK, Finish

\* Starting keeps it well-typed too.
LEMMA StartType ==
  ASSUME TypeOK, NEW r \in Requests, Start(r)
  PROVE  TypeOK'
<1>0. req' \in [Requests -> RequestState]
  <2>1. ASSUME NEW p \in Proofs, NEW route \in {"auto", "manual"},
               LoadSubmission(r, p, route)
        PROVE  req' \in [Requests -> RequestState]
    <3>a. Blank("check") \in RequestState
      BY BlankType DEF Stages
    <3>1. [Blank("check") EXCEPT !.route = route, !.ms = ProofFor[p], !.proof = p]
            \in RequestState
      BY <3>a, PayoutsAssumption DEF RequestState, Routes
    <3> QED BY <2>1, <3>1 DEF LoadSubmission, TypeOK
  <2>2. ASSUME NEW p \in Proofs, LoadApproval(r, p)
        PROVE  req' \in [Requests -> RequestState]
    <3>a. Blank("lookup") \in RequestState
      BY BlankType DEF Stages
    <3>1. [Blank("lookup") EXCEPT
            !.route = "review", !.ms = ProofFor[p], !.proof = p,
            !.seenEscrow = escrow] \in RequestState
      BY <3>a, PayoutsAssumption DEF TypeOK, RequestState, Routes
    <3> QED BY <2>2, <3>1 DEF LoadApproval, TypeOK
  <2>3. ASSUME NEW p \in Proofs, LoadRejection(r, p)
        PROVE  req' \in [Requests -> RequestState]
    <3>a. Blank("reject") \in RequestState
      BY BlankType DEF Stages
    <3>1. [Blank("reject") EXCEPT
            !.ms = ProofFor[p], !.proof = p, !.seenMs = milestone[ProofFor[p]]] \in RequestState
      BY <3>a, PayoutsAssumption DEF TypeOK, RequestState, Routes
    <3> QED BY <2>3, <3>1 DEF LoadRejection, TypeOK
  <2>4. ASSUME NEW m \in Milestones, LoadExecution(r, m)
        PROVE  req' \in [Requests -> RequestState]
    <3>a. Blank("transfer") \in RequestState
      BY BlankType DEF Stages
    <3>1. [Blank("transfer") EXCEPT
            !.route = "seed", !.ms = m, !.seenMs = milestone[m],
            !.seenEscrow = escrow] \in RequestState
      BY <3>a, PayoutsAssumption DEF TypeOK, RequestState, Routes
    <3> QED BY <2>4, <3>1 DEF LoadExecution, TypeOK
  <2>5. ASSUME NEW call \in EscrowCalls, LoadEscrow(r, call)
        PROVE  req' \in [Requests -> RequestState]
    <3>1. call \in Stages
      BY PayoutsAssumption DEF Stages
    <3>2. Blank(call) \in RequestState
      BY <3>1, BlankType
    <3>3. [Blank(call) EXCEPT !.seenEscrow = escrow] \in RequestState
      BY <3>2 DEF TypeOK, RequestState
    <3> QED BY <2>5, <3>3 DEF LoadEscrow, TypeOK
  <2> QED BY <2>1, <2>2, <2>3, <2>4, <2>5 DEF Start
<1>1. UNCHANGED db
  BY DEF Start, LoadSubmission, LoadApproval, LoadRejection, LoadExecution,
         LoadEscrow
<1> QED BY <1>0, <1>1 DEF TypeOK, db

\* Sending a payment makes at most one transfer, for its own key.
LEMMA SendEffect ==
  ASSUME TypeOK, NEW m \in Milestones, NEW route \in Routes, Send(m, route)
  PROVE  transfers' \in [Milestones \X Routes -> Nat]
<1>1. <<m, route>> \in Milestones \X Routes
  OBVIOUS
<1> DEFINE more == transfers[<<m, route>>] + 1
<1>2. more \in Nat
  <2>1. transfers[<<m, route>>] \in Nat
    BY <1>1 DEF TypeOK
  <2> QED BY <2>1
<1>3. transfers' \in {transfers, [transfers EXCEPT ![<<m, route>>] = more]}
  BY DEF Send
<1> HIDE DEF more
<1> QED BY <1>1, <1>2, <1>3 DEF TypeOK

\* A status is written to the row of its own key only.
LEMMA OneRow ==
  ASSUME TypeOK, NEW m \in Milestones, NEW route \in Routes,
         NEW status \in {"SENT", "SETTLED", "ERROR"},
         payment' = [payment EXCEPT ![<<m, route>>] = status]
  PROVE  /\ payment' \in [Milestones \X Routes -> PaymentStatus \cup {"NONE"}]
         /\ payment'[m, route] = status
         /\ \A n \in Milestones, way \in Routes :
              <<n, way>> # <<m, route>> => payment'[n, way] = payment[n, way]
<1>1. <<m, route>> \in Milestones \X Routes
  OBVIOUS
<1>2. status \in PaymentStatus
  BY DEF PaymentStatus
<1> QED BY <1>1, <1>2 DEF TypeOK

\* A payout keeps the types, writes its own rows and leaves the others alone.
LEMMA PayEffect ==
  ASSUME TypeOK, NEW m \in Milestones, NEW route \in Routes, Pay(m, route)
  PROVE  /\ milestone' \in [Milestones -> MilestoneStatus]
         /\ payment' \in [Milestones \X Routes -> PaymentStatus \cup {"NONE"}]
         /\ latest' \in [Milestones -> Routes \cup {"none"}]
         /\ transfers' \in [Milestones \X Routes -> Nat]
         /\ milestone'[m] = "PAID"
         /\ \A n \in Milestones \ {m} : milestone'[n] = milestone[n]
         /\ payment'[m, route] = "SENT"
         /\ \A n \in Milestones, way \in Routes :
              <<n, way>> # <<m, route>> => payment'[n, way] = payment[n, way]
<1>1. /\ milestone' \in [Milestones -> MilestoneStatus]
      /\ milestone'[m] = "PAID"
      /\ \A n \in Milestones \ {m} : milestone'[n] = milestone[n]
  BY DEF Pay, TypeOK, MilestoneStatus
<1>2. /\ payment' \in [Milestones \X Routes -> PaymentStatus \cup {"NONE"}]
      /\ payment'[m, route] = "SENT"
      /\ \A n \in Milestones, way \in Routes :
           <<n, way>> # <<m, route>> => payment'[n, way] = payment[n, way]
  BY OneRow DEF Pay
<1>3. latest' \in [Milestones -> Routes \cup {"none"}]
  BY DEF Pay, TypeOK
<1>4. transfers' \in [Milestones \X Routes -> Nat]
  BY SendEffect DEF Pay
<1> QED BY <1>1, <1>2, <1>3, <1>4

\* The calls of the escrow itself touch its own row, deposits and timeline only.
LEMMA EndpointShape ==
  ASSUME NEW r \in Requests, EscrowEndpoint(r)
  PROVE  /\ UNCHANGED <<milestone, proof, payment, latest, transfers, closed>>
         /\ Finish(r) \/ \E stage \in {"deposit_only", "deposit_fund"} : Goto(r, stage)
         /\ req[r].at \in {"mark_delivered", "client_approve", "client_reject", "deposit",
                          "deposit_only", "deposit_fund"}
  BY DEF EscrowEndpoint, CommitDelivery, CommitClientApproval, CommitClientReject,
         SumDeposits, CommitDeposit, db, account

LEMMA EndpointType ==
  ASSUME TypeOK, NEW r \in Requests, EscrowEndpoint(r)
  PROVE  TypeOK'
<1>1. req' \in [Requests -> RequestState]
  BY EndpointShape, FinishType, GotoType DEF Stages
<1>2. escrow' \in EscrowStatus
  <2>1. \/ UNCHANGED escrow
        \/ \E status \in EscrowStatus : SetEscrow(r, status)
    BY DEF EscrowEndpoint, CommitDelivery, CommitClientApproval, CommitClientReject,
           SumDeposits, CommitDeposit, db, EscrowStatus
  <2> QED BY <2>1 DEF TypeOK, SetEscrow
<1>3. deposited' \in Nat
  BY PayoutsAssumption
  DEF EscrowEndpoint, CommitDelivery, CommitClientApproval, CommitClientReject,
      SumDeposits, CommitDeposit, db, account, TypeOK
<1>4. clientApproved' \in BOOLEAN
  BY DEF EscrowEndpoint, CommitDelivery, CommitClientApproval, CommitClientReject,
         SumDeposits, CommitDeposit, db, account, TypeOK
<1> QED BY <1>1, <1>2, <1>3, <1>4, EndpointShape DEF TypeOK

\* Every next piece of a request keeps the types.
LEMMA StepType ==
  ASSUME TypeOK, NEW r \in Requests, Step(r)
  PROVE  TypeOK'
<1> USE DEF db, account
<1>a. req[r] \in RequestState
  BY DEF TypeOK
<1>b. /\ req[r].ms \in Milestones
      /\ escrow \in EscrowStatus
  BY <1>a DEF RequestState, TypeOK
<1>1. CASE CheckSequence(r)
  BY <1>1, GotoType, FinishType DEF CheckSequence, TypeOK, Stages
<1>2. CASE CommitManualSubmission(r)
  BY <1>2, FinishType
  DEF CommitManualSubmission, TypeOK, ProofStatus, MilestoneStatus
<1>3. CASE CommitAutoSubmission(r)
  <2>1. [req[r] EXCEPT !.at = "post1", !.seenEscrow = escrow] \in RequestState
    BY <1>a, <1>b DEF RequestState, Stages
  <2>2. req' \in [Requests -> RequestState]
    BY <1>3, <2>1 DEF CommitAutoSubmission, TypeOK
  <2> QED BY <1>3, <1>b, <2>2, PayEffect
          DEF CommitAutoSubmission, TypeOK, ProofStatus, Routes
<1>4. CASE RefuseSubmission(r)
  BY <1>4, FinishType DEF RefuseSubmission, TypeOK
<1>5. CASE LookupPayout(r)
  BY <1>5, GotoType, FinishType DEF LookupPayout, TypeOK, Stages
<1>6. CASE PayApproved(r)
  BY <1>6, <1>b, GotoType, PayEffect
  DEF PayApproved, TypeOK, ProofStatus, Routes, Stages
<1>7. CASE LoseKeyRace(r)
  BY <1>7, GotoType DEF LoseKeyRace, TypeOK, Stages
<1>8. CASE RecheckClosing(r)
  BY <1>8, GotoType, FinishType DEF RecheckClosing, TypeOK, Stages
<1>9. CASE CommitRejection(r)
  BY <1>9, FinishType DEF CommitRejection, TypeOK, ProofStatus, MilestoneStatus
<1>10. CASE CommitExecution(r)
  <2>1. payment' \in [Milestones \X Routes -> PaymentStatus \cup {"NONE"}]
    BY <1>10 DEF CommitExecution, TypeOK, PaymentStatus
  <2>2. milestone' \in [Milestones -> MilestoneStatus]
    BY <1>10 DEF CommitExecution, TypeOK, MilestoneStatus
  <2>3. transfers' \in [Milestones \X Routes -> Nat]
    BY <1>10, <1>b, SendEffect DEF CommitExecution, Routes
  <2>4. req' \in [Requests -> RequestState]
    BY <1>10, GotoType DEF CommitExecution, Stages
  <2> QED BY <1>10, <2>1, <2>2, <2>3, <2>4 DEF CommitExecution, TypeOK
<1>11. CASE ReadSettlement(r)
  BY <1>11, GotoType, FinishType DEF ReadSettlement, TypeOK, Stages
<1>12. CASE CommitSettlement(r)
  <2>1. payment' \in [Milestones \X Routes -> PaymentStatus \cup {"NONE"}]
    BY <1>12 DEF CommitSettlement, TypeOK, PaymentStatus
  <2>2. escrow' \in EscrowStatus /\ closed' \in Nat
    BY <1>12 DEF CommitSettlement, TypeOK, EscrowStatus
  <2>3. req' \in [Requests -> RequestState]
    BY <1>12, FinishType DEF CommitSettlement
  <2> QED BY <1>12, <2>1, <2>2, <2>3 DEF CommitSettlement, TypeOK
<1>13. CASE CountMilestones(r)
  BY <1>13, GotoType DEF CountMilestones, TypeOK, Stages
<1>14. CASE ListMilestones(r)
  BY <1>14, GotoType, FinishType DEF ListMilestones, TypeOK, Stages
<1>15. CASE CloseEscrow(r)
  BY <1>15, FinishType DEF CloseEscrow, TypeOK, EscrowStatus
<1>16. CASE EscrowEndpoint(r)
  BY <1>16, EndpointType
<1> QED
  BY <1>1, <1>2, <1>3, <1>4, <1>5, <1>6, <1>7, <1>8, <1>9, <1>10, <1>11,
     <1>12, <1>13, <1>14, <1>15, <1>16 DEF Step

\* So do deaths and notifications.
LEMMA OtherType ==
  ASSUME TypeOK,
         \/ \E r \in Requests : Die(r) \/ DieAfterTransfer(r)
         \/ \E m \in Milestones, route \in Routes :
              PspSettled(m, route) \/ PspFailed(m, route)
  PROVE  TypeOK'
<1>1. ASSUME NEW r \in Requests, Die(r)
      PROVE  TypeOK'
  BY <1>1, FinishType DEF Die, TypeOK, db
<1>2. ASSUME NEW r \in Requests, DieAfterTransfer(r)
      PROVE  TypeOK'
  <2>1. transfers' \in [Milestones \X Routes -> Nat]
    <3> DEFINE more == transfers[<<req[r].ms, req[r].route>>] + 1
    <3>1. CASE <<req[r].ms, req[r].route>> \in Milestones \X Routes
      <4>1. transfers[<<req[r].ms, req[r].route>>] \in Nat
        BY <3>1 DEF TypeOK
      <4>2. more \in Nat
        BY <4>1
      <4>3. transfers' = [transfers EXCEPT ![<<req[r].ms, req[r].route>>] = more]
        BY <1>2 DEF DieAfterTransfer
      <4> HIDE DEF more
      <4> QED BY <4>2, <4>3 DEF TypeOK
    <3>2. CASE <<req[r].ms, req[r].route>> \notin Milestones \X Routes
      <4>1. transfers' = transfers
        BY <1>2, <3>2 DEF DieAfterTransfer, TypeOK
      <4> QED BY <4>1 DEF TypeOK
    <3> QED BY <3>1, <3>2
  <2>2. req' \in [Requests -> RequestState]
    BY <1>2, FinishType DEF DieAfterTransfer
  <2> QED BY <1>2, <2>1, <2>2 DEF DieAfterTransfer, TypeOK, account
<1>3. ASSUME NEW m \in Milestones, NEW route \in Routes, PspSettled(m, route)
      PROVE  TypeOK'
  <2>1. payment' \in [Milestones \X Routes -> PaymentStatus \cup {"NONE"}]
    BY <1>3 DEF PspSettled, TypeOK, PaymentStatus
  <2>2. escrow' \in EscrowStatus /\ closed' \in Nat
    <3>1. \/ escrow' = "RELEASED" /\ closed' = closed + 1
          \/ UNCHANGED <<escrow, closed>>
      BY <1>3 DEF PspSettled
    <3> QED BY <3>1 DEF TypeOK, EscrowStatus
  <2> QED BY <1>3, <2>1, <2>2 DEF PspSettled, TypeOK, account
<1>4. ASSUME NEW m \in Milestones, NEW route \in Routes, PspFailed(m, route)
      PROVE  TypeOK'
  <2>1. payment' \in [Milestones \X Routes -> PaymentStatus \cup {"NONE"}]
    BY <1>4 DEF PspFailed, TypeOK, PaymentStatus
  <2> QED BY <1>4, <2>1 DEF PspFailed, TypeOK, account
<1> QED BY <1>1, <1>2, <1>3, <1>4

\* Type correctness is inductive by itself.
LEMMA NextType == TypeOK /\ [Next]_vars => TypeOK'
<1> SUFFICES ASSUME TypeOK, [Next]_vars
             PROVE  TypeOK'
  OBVIOUS
<1>1. ASSUME NEW r \in Requests, Start(r) \/ Step(r)
      PROVE  TypeOK'
  BY <1>1, StartType, StepType
<1>2. CASE \/ \E r \in Requests : Die(r) \/ DieAfterTransfer(r)
           \/ \E m \in Milestones, route \in Routes :
                PspSettled(m, route) \/ PspFailed(m, route)
  BY <1>2, OtherType
<1>3. CASE UNCHANGED vars
  BY <1>3 DEF vars, TypeOK
<1> QED BY <1>1, <1>2, <1>3 DEF Next

LEMMA InitType == Init => TypeOK
<1> SUFFICES ASSUME Init
             PROVE  TypeOK
  OBVIOUS
<1>1. req \in [Requests -> RequestState]
  BY BlankType DEF Init, Stages
<1>2. /\ escrow \in EscrowStatus
      /\ milestone \in [Milestones -> MilestoneStatus]
      /\ proof \in [Proofs -> ProofStatus \cup {"NONE"}]
      /\ latest \in [Milestones -> Routes \cup {"none"}]
      /\ deposited \in Nat /\ closed \in Nat /\ clientApproved \in BOOLEAN
  BY PayoutsAssumption DEF Init, EscrowStatus, MilestoneStatus, Routes
<1>3. payment \in [Milestones \X Routes -> PaymentStatus \cup {"NONE"}]
  BY DEF Init, PaymentStatus
<1>4. transfers \in [Milestones \X Routes -> Nat]
  BY DEF Init
<1> QED BY <1>1, <1>2, <1>3, <1>4 DEF TypeOK

\* Every variable always has its type.
THEOREM TypeCorrect == Spec => []TypeOK
  BY InitType, NextType, PTL DEF Spec
-----------------------------------------------------------------------------
(***************************************************************************)
(* What no step undoes.                                                    *)
(***************************************************************************)

\* Rows stay, money that left stays gone, milestones never wait again.
Lasting ==
  /\ \A m \in Milestones, route \in Routes :
       /\ payment[m, route] # "NONE" => payment'[m, route] # "NONE"
       /\ payment[m, route] \notin {"NONE", "PENDING"} =>
            payment'[m, route] \notin {"NONE", "PENDING"}
  /\ \A m \in Milestones : milestone[m] # "WAITING" => milestone'[m] # "WAITING"
  /\ \A p \in Proofs : proof[p] # "NONE" => proof'[p] # "NONE"

\* The part of IInv that speaks of the tables alone.
Tables ==
  /\ PaidMilestoneHasPayment
  /\ ApprovedProofIsPaid
  /\ ClosedOnlyWhenPaid
  /\ NoMilestoneSkipped
  /\ RowsMeanProgress

LEMMA PaidForLasts ==
  ASSUME Lasting, NEW m \in Milestones, PaidFor(m)
  PROVE  PaidFor(m)'
  BY DEF Lasting, PaidFor

\* A step that writes nothing.
LEMMA QuietStep ==
  ASSUME Tables, UNCHANGED db
  PROVE  Tables' /\ Lasting
  BY DEF db, Tables, Lasting, PaidMilestoneHasPayment, ApprovedProofIsPaid,
         ClosedOnlyWhenPaid, NoMilestoneSkipped,
         RowsMeanProgress, PaidFor

\* A step that at most settles or fails a payment, or closes the escrow that was
\* fully paid for.
LEMMA StatusStep ==
  ASSUME TypeOK, Tables, NEW m \in Milestones, NEW route \in Routes,
         NEW status \in {"SETTLED", "ERROR"},
         \/ UNCHANGED payment
         \/ /\ payment[m, route] # "NONE"
            /\ payment' = [payment EXCEPT ![<<m, route>>] = status],
         closed' = closed \/ \A n \in Milestones : PaidFor(n),
         UNCHANGED <<milestone, proof>>
  PROVE  Tables' /\ Lasting
<1>1. \A n \in Milestones, way \in Routes :
        /\ payment[n, way] # "NONE" <=> payment'[n, way] # "NONE"
        /\ payment[n, way] \notin {"NONE", "PENDING"} =>
             payment'[n, way] \notin {"NONE", "PENDING"}
  BY OneRow
<1>2. Lasting
  BY <1>1 DEF Lasting
<1>3. \A n \in Milestones : PaidFor(n) => PaidFor(n)'
  BY <1>2, PaidForLasts
<1>5. PaidMilestoneHasPayment' /\ NoMilestoneSkipped'
  BY <1>3 DEF Tables, PaidMilestoneHasPayment, NoMilestoneSkipped
<1>6. ApprovedProofIsPaid'
  BY <1>3, PayoutsAssumption DEF Tables, ApprovedProofIsPaid
<1>7. ClosedOnlyWhenPaid'
  BY <1>3 DEF Tables, ClosedOnlyWhenPaid
<1>8. RowsMeanProgress'
  BY <1>1 DEF Tables, RowsMeanProgress
<1> QED BY <1>2, <1>5, <1>6, <1>7, <1>8 DEF Tables

\* A step that sends the payment of a milestone, and may approve its proof.
LEMMA PayoutStep ==
  ASSUME TypeOK, Tables, NEW m \in Milestones, NEW route \in Routes,
         payment' = [payment EXCEPT ![<<m, route>>] = "SENT"],
         \/ milestone' = [milestone EXCEPT ![m] = "PAID"]
         \/ milestone[m] # "WAITING" /\ UNCHANGED milestone,
         \A j \in 1..(m - 1) : milestone[j] # "WAITING",
         \/ UNCHANGED proof
         \/ \E p \in Proofs : ProofFor[p] = m /\ proof' = [proof EXCEPT ![p] = "APPROVED"],
         UNCHANGED closed
  PROVE  Tables' /\ Lasting /\ PaidFor(m)'
<1>1. /\ payment'[m, route] = "SENT"
      /\ \A n \in Milestones, way \in Routes :
           <<n, way>> # <<m, route>> => payment'[n, way] = payment[n, way]
  BY OneRow
<1>3. /\ milestone'[m] # "WAITING"
      /\ \A n \in Milestones \ {m} : milestone'[n] = milestone[n]
  BY DEF TypeOK
<1>4. \A p \in Proofs :
        \/ proof'[p] = proof[p]
        \/ ProofFor[p] = m /\ proof'[p] = "APPROVED"
  BY DEF TypeOK
<1>5. Lasting
  <2>1. \A n \in Milestones, way \in Routes :
          /\ payment[n, way] # "NONE" => payment'[n, way] # "NONE"
          /\ payment[n, way] \notin {"NONE", "PENDING"} =>
               payment'[n, way] \notin {"NONE", "PENDING"}
    BY <1>1
  <2> QED BY <2>1, <1>3, <1>4 DEF Lasting
<1>6. PaidFor(m)'
  BY <1>1 DEF PaidFor
<1>7. \A n \in Milestones : PaidFor(n) => PaidFor(n)'
  BY <1>5, PaidForLasts
<1>9. PaidMilestoneHasPayment'
  BY <1>3, <1>6, <1>7 DEF Tables, PaidMilestoneHasPayment
<1>10. ApprovedProofIsPaid'
  BY <1>4, <1>6, <1>7, PayoutsAssumption DEF Tables, ApprovedProofIsPaid
<1>11. ClosedOnlyWhenPaid'
  BY <1>7 DEF Tables, ClosedOnlyWhenPaid
<1>12. NoMilestoneSkipped'
  <2> SUFFICES ASSUME NEW n \in Milestones, milestone'[n] # "WAITING",
                      NEW j \in 1..(n - 1)
               PROVE  milestone'[j] # "WAITING"
    BY DEF NoMilestoneSkipped
  <2>1. j \in Milestones
    BY PayoutsAssumption DEF Milestones
  <2>2. milestone[j] # "WAITING"
    <3>1. CASE n = m
      BY <3>1
    <3>2. CASE n # m
      BY <3>2, <1>3 DEF Tables, NoMilestoneSkipped
    <3> QED BY <3>1, <3>2
  <2> QED BY <2>1, <2>2, <1>5 DEF Lasting
<1>13. RowsMeanProgress'
  <2>1. ASSUME NEW p \in Proofs, proof'[p] # "NONE"
        PROVE  milestone'[ProofFor[p]] # "WAITING"
    BY <2>1, <1>3, <1>4, PayoutsAssumption DEF Tables, RowsMeanProgress
  <2>2. ASSUME NEW n \in Milestones, NEW way \in Routes, payment'[n, way] # "NONE"
        PROVE  milestone'[n] # "WAITING"
    <3>1. CASE n = m
      BY <3>1, <1>3
    <3>2. CASE n # m
      BY <2>2, <3>2, <1>1, <1>3 DEF Tables, RowsMeanProgress
    <3> QED BY <3>1, <3>2
  <2> QED BY <2>1, <2>2 DEF RowsMeanProgress
<1> QED BY <1>5, <1>6, <1>9, <1>10, <1>11, <1>12, <1>13 DEF Tables

\* A step that records a proof to be reviewed, or rejects one.
LEMMA ReviewStep ==
  ASSUME TypeOK, Tables, NEW p \in Proofs,
         NEW verdict \in {"PENDING", "REJECTED"},
         NEW status \in {"PENDING_REVIEW", "REJECTED"},
         proof' = [proof EXCEPT ![p] = verdict],
         \/ milestone' = [milestone EXCEPT ![ProofFor[p]] = status]
         \/ milestone[ProofFor[p]] # "WAITING" /\ UNCHANGED milestone,
         \A j \in 1..(ProofFor[p] - 1) : milestone[j] # "WAITING",
         UNCHANGED <<payment, closed>>
  PROVE  Tables' /\ Lasting
<1>1. ProofFor[p] \in Milestones
  BY PayoutsAssumption
<1>2. /\ milestone'[ProofFor[p]] # "WAITING"
      /\ \A n \in Milestones : milestone'[n] = "PAID" => milestone[n] = "PAID"
      /\ \A n \in Milestones : milestone[n] # "WAITING" => milestone'[n] # "WAITING"
      /\ \A n \in Milestones : n # ProofFor[p] => milestone'[n] = milestone[n]
  BY <1>1 DEF TypeOK
<1>3. /\ proof'[p] = verdict
      /\ \A q \in Proofs : q # p => proof'[q] = proof[q]
  BY DEF TypeOK
<1>4. Lasting
  BY <1>2, <1>3 DEF Lasting
<1>5. \A n \in Milestones : PaidFor(n) <=> PaidFor(n)'
  BY DEF PaidFor
<1>6. ClosedOnlyWhenPaid'
  BY <1>5 DEF Tables, ClosedOnlyWhenPaid
<1>7. PaidMilestoneHasPayment'
  BY <1>2, <1>5 DEF Tables, PaidMilestoneHasPayment
<1>8. ApprovedProofIsPaid'
  BY <1>3, <1>5, PayoutsAssumption DEF Tables, ApprovedProofIsPaid
<1>9. NoMilestoneSkipped'
  <2> SUFFICES ASSUME NEW n \in Milestones, milestone'[n] # "WAITING",
                      NEW j \in 1..(n - 1)
               PROVE  milestone'[j] # "WAITING"
    BY DEF NoMilestoneSkipped
  <2>1. j \in Milestones
    BY PayoutsAssumption DEF Milestones
  <2>2. milestone[j] # "WAITING"
    <3>1. CASE n = ProofFor[p]
      BY <3>1
    <3>2. CASE n # ProofFor[p]
      BY <3>2, <1>2 DEF Tables, NoMilestoneSkipped
    <3> QED BY <3>1, <3>2
  <2> QED BY <2>1, <2>2, <1>4 DEF Lasting
<1>10. RowsMeanProgress'
  BY <1>2, <1>3, PayoutsAssumption DEF Tables, RowsMeanProgress
<1> QED BY <1>4, <1>6, <1>7, <1>8, <1>9, <1>10 DEF Tables

-----------------------------------------------------------------------------
(***************************************************************************)
(* Every step preserves the invariants of the tables.                      *)
(***************************************************************************)
LEMMA StepTables ==
  ASSUME IInv, NEW r \in Requests, Step(r)
  PROVE  Tables' /\ Lasting
<1> USE DEF IInv
<1>a. TypeOK /\ Tables /\ Remembers(r)
  BY DEF Tables, MemoryStillTrue
<1>b. req[r].ms \in Milestones
  BY DEF TypeOK, RequestState
<1>1. CASE CheckSequence(r)
  BY <1>1, <1>a, QuietStep DEF CheckSequence
<1>2. CASE CommitManualSubmission(r)
  BY <1>2, <1>a, ReviewStep DEF CommitManualSubmission, Remembers
<1>3. CASE CommitAutoSubmission(r)
  BY <1>3, <1>a, <1>b, PayoutStep
  DEF CommitAutoSubmission, Pay, Remembers, Routes
<1>4. CASE RefuseSubmission(r)
  BY <1>4, <1>a, QuietStep DEF RefuseSubmission
<1>5. CASE LookupPayout(r)
  BY <1>5, <1>a, QuietStep DEF LookupPayout
<1>6. CASE PayApproved(r)
  <2>1. \A j \in 1..(req[r].ms - 1) : milestone[j] # "WAITING"
    BY <1>6, <1>a, <1>b
    DEF PayApproved, Remembers, RowsMeanProgress, NoMilestoneSkipped
  <2> QED BY <1>6, <1>a, <1>b, <2>1, PayoutStep DEF PayApproved, Pay, Remembers, Routes
<1>7. CASE LoseKeyRace(r)
  BY <1>7, <1>a, QuietStep DEF LoseKeyRace
<1>8. CASE RecheckClosing(r)
  BY <1>8, <1>a, QuietStep DEF RecheckClosing
<1>9. CASE CommitRejection(r)
  <2>1. /\ req[r].proof \in Proofs
        /\ req[r].ms = ProofFor[req[r].proof]
        /\ milestone[req[r].ms] # "WAITING"
    BY <1>9, <1>a DEF CommitRejection, Remembers, RowsMeanProgress
  <2>2. \A j \in 1..(req[r].ms - 1) : milestone[j] # "WAITING"
    BY <2>1, <1>b DEF NoMilestoneSkipped
  <2> QED BY <1>9, <1>a, <2>1, <2>2, ReviewStep DEF CommitRejection
<1>10. CASE CommitExecution(r)
  <2>1. milestone[req[r].ms] # "WAITING"
    BY <1>10, <1>a, <1>b DEF CommitExecution, Remembers, RowsMeanProgress, Routes
  <2>2. \A j \in 1..(req[r].ms - 1) : milestone[j] # "WAITING"
    BY <2>1, <1>b DEF NoMilestoneSkipped
  <2> QED BY <1>10, <1>a, <1>b, <2>1, <2>2, PayoutStep DEF CommitExecution, Routes
<1>11. CASE ReadSettlement(r)
  BY <1>11, <1>a, QuietStep DEF ReadSettlement
<1>12. CASE CommitSettlement(r)
  <2>1. payment[req[r].ms, "seed"] # "NONE"
    BY <1>12, <1>a, <1>b DEF CommitSettlement, Remembers, Routes
  <2>2. closed' = closed \/ \A n \in Milestones : PaidFor(n)
    BY <1>12, <1>a DEF CommitSettlement, Remembers
  <2> QED BY <1>12, <1>a, <1>b, <2>1, <2>2, StatusStep DEF CommitSettlement, Routes
<1>13. CASE CountMilestones(r)
  BY <1>13, <1>a, QuietStep DEF CountMilestones
<1>14. CASE ListMilestones(r)
  BY <1>14, <1>a, QuietStep DEF ListMilestones
<1>15. CASE CloseEscrow(r)
  BY <1>15, <1>a, <1>b, StatusStep DEF CloseEscrow, Remembers, Routes
<1>16. CASE EscrowEndpoint(r)
  BY <1>16, <1>a, <1>b, EndpointShape, StatusStep DEF Routes
<1> QED
  BY <1>1, <1>2, <1>3, <1>4, <1>5, <1>6, <1>7, <1>8, <1>9, <1>10, <1>11,
     <1>12, <1>13, <1>14, <1>15, <1>16 DEF Step
LEMMA OtherTables ==
  ASSUME IInv,
         \/ \E r \in Requests : Start(r) \/ Die(r) \/ DieAfterTransfer(r)
         \/ \E m \in Milestones, route \in Routes :
              PspSettled(m, route) \/ PspFailed(m, route)
  PROVE  Tables' /\ Lasting
<1>a. TypeOK /\ Tables
  BY DEF IInv, Tables
<1>1. ASSUME NEW r \in Requests, Start(r)
      PROVE  Tables' /\ Lasting
  BY <1>1, <1>a, QuietStep
  DEF Start, LoadSubmission, LoadApproval, LoadRejection, LoadExecution,
      LoadEscrow
<1>2. ASSUME NEW r \in Requests, Die(r)
      PROVE  Tables' /\ Lasting
  BY <1>2, <1>a, QuietStep DEF Die
<1>3. ASSUME NEW r \in Requests, DieAfterTransfer(r)
      PROVE  Tables' /\ Lasting
  <2>1. req[r].ms \in Milestones
    BY <1>a DEF TypeOK, RequestState
  <2> QED BY <1>3, <1>a, <2>1, StatusStep DEF DieAfterTransfer, Routes
<1>4. ASSUME NEW m \in Milestones, NEW route \in Routes, PspSettled(m, route)
      PROVE  Tables' /\ Lasting
  <2>1. closed' = closed \/ \A n \in Milestones : PaidFor(n)
    BY <1>4, <1>a DEF PspSettled, AllPaid, Tables, PaidMilestoneHasPayment
  <2> QED BY <1>4, <1>a, <2>1, StatusStep DEF PspSettled
<1>5. ASSUME NEW m \in Milestones, NEW route \in Routes, PspFailed(m, route)
      PROVE  Tables' /\ Lasting
  BY <1>5, <1>a, StatusStep DEF PspFailed
<1> QED BY <1>1, <1>2, <1>3, <1>4, <1>5

-----------------------------------------------------------------------------
(***************************************************************************)
(* Every step preserves what the requests remember.                        *)
(***************************************************************************)

\* Nothing that lasts can refute the memory of a request that does not move.
LEMMA OthersRemember ==
  ASSUME TypeOK, MemoryStillTrue, Lasting, NEW q \in Requests, req'[q] = req[q]
  PROVE  Remembers(q)'
<1> DEFINE m == req[q].ms
           at == req[q].at
           p == req[q].proof
<1>1. m \in Milestones
  BY DEF TypeOK, RequestState
<1>2. Remembers(q)
  BY DEF MemoryStillTrue
<1>3. \A n \in Milestones : PaidFor(n) => PaidFor(n)'
  BY PaidForLasts
<1>4. at \in {"check", "write", "lookup", "pay", "reject"} =>
        p \in Proofs /\ m = ProofFor[p]
  BY <1>2 DEF Remembers
<1>5. at = "write" => \A j \in 1..(m - 1) : milestone'[j] # "WAITING"
  <2>1. \A j \in 1..(m - 1) : j \in Milestones
    BY <1>1, PayoutsAssumption DEF Milestones
  <2> QED BY <1>2, <2>1 DEF Remembers, Lasting
<1>6. at \in {"lookup", "pay", "reject"} => proof'[p] # "NONE"
  BY <1>2, <1>4 DEF Remembers, Lasting
<1>7. /\ at = "transfer" => payment'[m, "seed"] # "NONE"
      /\ at \in {"settle", "settle_only", "settle_close"} =>
           payment'[m, "seed"] \notin {"NONE", "PENDING"}
  BY <1>1, <1>2 DEF Remembers, Lasting, Routes
<1>8. /\ at \in {"post1", "post2"} => PaidFor(m)'
      /\ at \in {"close", "settle_close"} => \A n \in Milestones : PaidFor(n)'
  BY <1>1, <1>2, <1>3 DEF Remembers
<1> QED BY <1>4, <1>5, <1>6, <1>7, <1>8 DEF Remembers

\* A request that has ended has nothing to remember.
LEMMA FinishRemembers ==
  ASSUME TypeOK, NEW r \in Requests, Finish(r)
  PROVE  Remembers(r)' /\ \A q \in Requests \ {r} : req'[q] = req[q]
  BY DEF TypeOK, Finish, Blank, Remembers

\* A request that moves on keeps the rows it remembers.
LEMMA GotoKeeps ==
  ASSUME TypeOK, NEW r \in Requests, NEW stage \in Stages, Goto(r, stage)
  PROVE  /\ req'[r].at = stage
         /\ req'[r].ms = req[r].ms
         /\ req'[r].proof = req[r].proof
         /\ \A q \in Requests \ {r} : req'[q] = req[q]
<1>1. req[r] \in RequestState
  BY DEF TypeOK
<1> QED BY <1>1 DEF TypeOK, Goto, RequestState

LEMMA StartRemembers ==
  ASSUME IInv, NEW r \in Requests, Start(r)
  PROVE  Remembers(r)' /\ \A q \in Requests \ {r} : req'[q] = req[q]
<1> USE DEF IInv
<1>1. ASSUME NEW p \in Proofs, NEW route \in {"auto", "manual"},
             LoadSubmission(r, p, route)
      PROVE  /\ req'[r].at = "check" /\ req'[r].ms = ProofFor[p] /\ req'[r].proof = p
             /\ \A q \in Requests \ {r} : req'[q] = req[q]
  BY <1>1 DEF LoadSubmission, Blank, TypeOK
<1>2. ASSUME NEW p \in Proofs, LoadApproval(r, p)
      PROVE  /\ req'[r].at = "lookup" /\ req'[r].ms = ProofFor[p] /\ req'[r].proof = p
             /\ proof'[p] # "NONE"
             /\ \A q \in Requests \ {r} : req'[q] = req[q]
  BY <1>2 DEF LoadApproval, Blank, TypeOK, db
<1>3. ASSUME NEW p \in Proofs, LoadRejection(r, p)
      PROVE  /\ req'[r].at = "reject" /\ req'[r].ms = ProofFor[p] /\ req'[r].proof = p
             /\ proof'[p] # "NONE"
             /\ \A q \in Requests \ {r} : req'[q] = req[q]
  BY <1>3 DEF LoadRejection, Blank, TypeOK, db
<1>4. ASSUME NEW m \in Milestones, LoadExecution(r, m)
      PROVE  /\ req'[r].at = "transfer" /\ req'[r].ms = m /\ payment'[m, "seed"] # "NONE"
             /\ \A q \in Requests \ {r} : req'[q] = req[q]
  BY <1>4 DEF LoadExecution, Blank, TypeOK, db
<1>5. ASSUME NEW call \in EscrowCalls, LoadEscrow(r, call)
      PROVE  /\ req'[r].at \in EscrowCalls
             /\ \A q \in Requests \ {r} : req'[q] = req[q]
  BY <1>5 DEF LoadEscrow, Blank, TypeOK
<1>6. ASSUME req'[r].at \in EscrowCalls
      PROVE  Remembers(r)'
  BY <1>6, PayoutsAssumption DEF Remembers
<1> QED BY <1>1, <1>2, <1>3, <1>4, <1>5, <1>6 DEF Start, Remembers

\* The milestones before the current one have left WAITING.
LEMMA IsCurrentMeans ==
  ASSUME NEW m \in Milestones, IsCurrent(m)
  PROVE  \A j \in 1..(m - 1) : milestone[j] # "WAITING"
  BY DEF IsCurrent, OpenStates

LEMMA StepRemembers ==
  ASSUME IInv, Lasting, NEW r \in Requests, Step(r)
  PROVE  Remembers(r)' /\ \A q \in Requests \ {r} : req'[q] = req[q]
<1>a. TypeOK /\ Remembers(r)
  BY DEF IInv, MemoryStillTrue
<1>b. req[r].ms \in Milestones
  BY <1>a DEF TypeOK, RequestState
<1>c. \A n \in Milestones : PaidFor(n) => PaidFor(n)'
  BY PaidForLasts
<1>d. AllPaid => \A n \in Milestones : PaidFor(n)
  BY DEF AllPaid, IInv, PaidMilestoneHasPayment
<1>e. CASE Finish(r)
  BY <1>a, <1>e, FinishRemembers
<1>1. CASE CheckSequence(r) /\ ~Finish(r)
  <2>1. /\ req[r].proof \in Proofs /\ req[r].ms = ProofFor[req[r].proof]
        /\ UNCHANGED milestone
    BY <1>1, <1>a DEF CheckSequence, Remembers, db
  <2>2. \A j \in 1..(req[r].ms - 1) : milestone[j] # "WAITING"
    BY <1>1, IsCurrentMeans, <1>a, <1>b DEF CheckSequence
  <2>3. Goto(r, "write")
    BY <1>1 DEF CheckSequence
  <2> QED BY <2>3, <1>a, <2>1, <2>2, GotoKeeps DEF Remembers, Stages
<1>3. CASE CommitAutoSubmission(r)
  <2>1. payment'[req[r].ms, "auto"] = "SENT"
    <3>1. payment' = [payment EXCEPT ![<<req[r].ms, "auto">>] = "SENT"]
      BY <1>3 DEF CommitAutoSubmission, Pay
    <3> QED BY <3>1, <1>a, <1>b, OneRow DEF Routes
  <2>2. /\ req'[r].at = "post1" /\ req'[r].ms = req[r].ms
        /\ \A q \in Requests \ {r} : req'[q] = req[q]
    <3>1. req[r] \in RequestState
      BY <1>a DEF TypeOK
    <3> QED BY <1>3, <1>a, <3>1 DEF CommitAutoSubmission, TypeOK, RequestState
  <2> QED BY <2>1, <2>2 DEF Remembers, PaidFor, Routes
<1>5. CASE LookupPayout(r) /\ Goto(r, "pay")
  <2>1. /\ req[r].proof \in Proofs /\ req[r].ms = ProofFor[req[r].proof]
        /\ proof'[req[r].proof] # "NONE"
    BY <1>5, <1>a DEF LookupPayout, Remembers, db
  <2> QED BY <1>5, <1>a, <2>1, GotoKeeps DEF Remembers, Stages
<1>6. CASE PayApproved(r)
  <2>1. payment'[req[r].ms, "review"] = "SENT"
    BY <1>6, <1>a, <1>b, PayEffect DEF PayApproved, Routes
  <2> QED BY <1>6, <1>a, <2>1, GotoKeeps
          DEF PayApproved, Remembers, PaidFor, Stages, Routes
<1>7. CASE LoseKeyRace(r)
  BY <1>7, <1>a, GotoKeeps DEF LoseKeyRace, Remembers, Stages
<1>8. CASE RecheckClosing(r) /\ Goto(r, "close")
  <2>1. Finish(r) \/ AllPaid
    BY <1>8 DEF RecheckClosing
  <2> QED BY <1>e, <1>8, <1>a, <1>c, <1>d, <2>1, GotoKeeps DEF Remembers, Stages
<1>10. CASE CommitExecution(r)
  <2>1. payment'[req[r].ms, "seed"] = "SENT"
    BY <1>10, <1>a, <1>b, OneRow DEF CommitExecution, Routes
  <2> QED BY <1>10, <1>a, <2>1, GotoKeeps DEF CommitExecution, Remembers, Stages
<1>11. CASE ReadSettlement(r) /\ ~Finish(r)
  <2>1. payment'[req[r].ms, "seed"] \notin {"NONE", "PENDING"}
    BY <1>11, <1>a DEF ReadSettlement, Remembers, db
  <2>2. \/ Goto(r, "settle_only")
        \/ Goto(r, "settle_close") /\ AllPaid
    BY <1>11 DEF ReadSettlement
  <2>3. CASE Goto(r, "settle_only")
    BY <1>a, <2>1, <2>3, GotoKeeps DEF Remembers, Stages
  <2>4. CASE Goto(r, "settle_close") /\ AllPaid
    BY <1>a, <1>c, <1>d, <2>1, <2>4, GotoKeeps DEF Remembers, Stages
  <2> QED BY <2>2, <2>3, <2>4
<1>13. CASE CountMilestones(r)
  <2>1. PaidFor(req[r].ms)
    BY <1>13, <1>a DEF CountMilestones, Remembers
  <2>2. \/ Goto(r, "post2")
        \/ Goto(r, "close") /\ AllPaid
    BY <1>13 DEF CountMilestones
  <2>3. CASE Goto(r, "post2")
    BY <1>a, <1>b, <1>c, <2>1, <2>3, GotoKeeps DEF Remembers, Stages
  <2>4. CASE Goto(r, "close") /\ AllPaid
    BY <1>a, <1>c, <1>d, <2>4, GotoKeeps DEF Remembers, Stages
  <2> QED BY <2>2, <2>3, <2>4
<1>14. CASE ListMilestones(r) /\ Goto(r, "close") /\ ~Finish(r)
  <2>1. PaidFor(req[r].ms)
    BY <1>14, <1>a DEF ListMilestones, Remembers
  <2>2. \A n \in Milestones \ {req[r].ms} : milestone[n] = "PAID"
    BY <1>14 DEF ListMilestones
  <2>3. \A n \in Milestones : PaidFor(n)'
    BY <2>1, <2>2, <1>c DEF IInv, PaidMilestoneHasPayment
  <2> QED BY <1>14, <1>a, <2>3, GotoKeeps DEF Remembers, Stages
<1>16. CASE EscrowEndpoint(r) /\ ~Finish(r)
  <2>1. PICK stage \in {"deposit_only", "deposit_fund"} : Goto(r, stage)
    BY <1>16, EndpointShape
  <2> QED BY <1>a, <2>1, GotoKeeps DEF Remembers, Stages
<1>17. \/ Finish(r)
       \/ EscrowEndpoint(r)
       \/ CheckSequence(r)
       \/ CommitAutoSubmission(r)
       \/ LookupPayout(r) /\ Goto(r, "pay")
       \/ PayApproved(r) \/ LoseKeyRace(r)
       \/ RecheckClosing(r) /\ Goto(r, "close")
       \/ CommitExecution(r)
       \/ ReadSettlement(r)
       \/ CountMilestones(r)
       \/ ListMilestones(r) /\ Goto(r, "close")
  BY DEF Step, CheckSequence, CommitManualSubmission, RefuseSubmission,
         LookupPayout, RecheckClosing, CommitRejection, CommitSettlement,
         ListMilestones, CloseEscrow
<1> QED BY <1>e, <1>1, <1>3, <1>5, <1>6, <1>7, <1>8, <1>10, <1>11, <1>13, <1>14,
           <1>16, <1>17
-----------------------------------------------------------------------------
(***************************************************************************)
(* The theorems.                                                           *)
(***************************************************************************)
LEMMA InitIInv == Init => IInv
<1> SUFFICES ASSUME Init
             PROVE  IInv
  OBVIOUS
<1>1. TypeOK
  BY InitType
<1>2. \A m \in Milestones, route \in Routes :
        /\ payment[m, route] \in {"NONE", "PENDING"}
        /\ payment[m, route] # "NONE" => m \in Seeded
  BY DEF Init
<1>3. \A m \in Milestones :
        /\ milestone[m] # "PAID"
        /\ milestone[m] # "WAITING" <=> m \in Seeded
  BY DEF Init
<1>4. PaidMilestoneHasPayment
  BY <1>3 DEF PaidMilestoneHasPayment
<1>5. ApprovedProofIsPaid /\ ClosedOnlyWhenPaid
  BY DEF Init, ApprovedProofIsPaid, ClosedOnlyWhenPaid
<1>6. NoMilestoneSkipped
  <2> SUFFICES ASSUME NEW m \in Milestones, milestone[m] # "WAITING",
                      NEW j \in 1..(m - 1)
               PROVE  milestone[j] # "WAITING"
    BY DEF NoMilestoneSkipped
  <2>1. j \in Milestones /\ j \in 1..m
    BY PayoutsAssumption DEF Milestones
  <2>2. j \in Seeded
    BY <1>3, <2>1, PayoutsAssumption
  <2> QED BY <1>3, <2>1, <2>2
<1>7. MemoryStillTrue
  BY DEF Init, MemoryStillTrue, Remembers, Blank
<1>8. RowsMeanProgress
  BY <1>2, <1>3, PayoutsAssumption DEF Init, RowsMeanProgress
<1> QED BY <1>1, <1>4, <1>5, <1>6, <1>7, <1>8 DEF IInv

\* Every step preserves the tables and undoes nothing.
LEMMA NextTables ==
  ASSUME IInv, [Next]_vars
  PROVE  Tables' /\ Lasting
<1>1. ASSUME NEW r \in Requests, Step(r)
      PROVE  Tables' /\ Lasting
  BY <1>1, StepTables
<1>2. CASE \/ \E r \in Requests : Start(r) \/ Die(r) \/ DieAfterTransfer(r)
           \/ \E m \in Milestones, route \in Routes :
                PspSettled(m, route) \/ PspFailed(m, route)
  BY <1>2, OtherTables
<1>3. CASE UNCHANGED vars
  <2>1. Tables /\ UNCHANGED db
    BY <1>3 DEF IInv, Tables, vars, db
  <2> QED BY <2>1, QuietStep
<1> QED BY <1>1, <1>2, <1>3 DEF Next

LEMMA NextIInv == IInv /\ [Next]_vars => IInv'
<1> SUFFICES ASSUME IInv, [Next]_vars
             PROVE  IInv'
  OBVIOUS
<1>1. Tables' /\ Lasting
  BY NextTables
<1>2. TypeOK /\ MemoryStillTrue
  BY DEF IInv
<1>3. TypeOK'
  BY <1>2, NextType
<1>4. MemoryStillTrue'
  <2>1. ASSUME NEW r \in Requests, Start(r) \/ Step(r) \/ Die(r) \/ DieAfterTransfer(r)
        PROVE  MemoryStillTrue'
    <3>1. Remembers(r)' /\ \A q \in Requests \ {r} : req'[q] = req[q]
      <4>1. CASE Start(r)
        BY <4>1, StartRemembers
      <4>2. CASE Step(r)
        BY <4>2, <1>1, StepRemembers
      <4>3. CASE Die(r) \/ DieAfterTransfer(r)
        BY <4>3, <1>2, FinishRemembers DEF Die, DieAfterTransfer
      <4> QED BY <2>1, <4>1, <4>2, <4>3
    <3>2. \A q \in Requests \ {r} : Remembers(q)'
      BY <1>1, <1>2, <3>1, OthersRemember
    <3> QED BY <3>1, <3>2 DEF MemoryStillTrue
  <2>2. CASE UNCHANGED req
    <3>1. \A q \in Requests : Remembers(q)'
      BY <1>1, <1>2, <2>2, OthersRemember
    <3> QED BY <3>1 DEF MemoryStillTrue
  <2>3. \/ \E r \in Requests : Start(r) \/ Step(r) \/ Die(r) \/ DieAfterTransfer(r)
        \/ UNCHANGED req
    BY DEF Next, PspSettled, PspFailed, vars
  <2> QED BY <2>1, <2>2, <2>3
<1> QED BY <1>1, <1>3, <1>4 DEF IInv, Tables

LEMMA InductiveInvariant == Spec => []IInv
  BY InitIInv, NextIInv, PTL DEF Spec

\* A milestone is PAID and a proof APPROVED only with a payment that was sent.
THEOREM PaidMeansPayment == Spec => [](PaidMilestoneHasPayment /\ ApprovedProofIsPaid)
<1>1. IInv => PaidMilestoneHasPayment /\ ApprovedProofIsPaid
  BY DEF IInv
<1> QED BY <1>1, InductiveInvariant, PTL

\* The escrow is closed only once every milestone was paid for, however stale
\* the count of milestones on which the closing request acts.
THEOREM ClosingIsRight == Spec => []ClosedOnlyWhenPaid
<1>1. IInv => ClosedOnlyWhenPaid
  BY DEF IInv
<1> QED BY <1>1, InductiveInvariant, PTL

\* Concurrent submissions never skip a milestone.
THEOREM SequenceIsKept == Spec => []NoMilestoneSkipped
<1>1. IInv => NoMilestoneSkipped
  BY DEF IInv
<1> QED BY <1>1, InductiveInvariant, PTL

\* What a request concluded from stale reads is true when it acts on it.
THEOREM StaleReadsAreSafe == Spec => []MemoryStillTrue
<1>1. IInv => MemoryStillTrue
  BY DEF IInv
<1> QED BY <1>1, InductiveInvariant, PTL
-----------------------------------------------------------------------------
(***************************************************************************)
(* The payouts implement PayoutPromise.                                    *)
(***************************************************************************)
Paid == {m \in Milestones : PaidFor(m)}
Approved == {p \in Proofs : proof[p] = "APPROVED"}

\* Writing a status after PENDING pays for one milestone.
LEMMA RowPays ==
  ASSUME TypeOK, NEW m \in Milestones, NEW route \in Routes,
         NEW status \in {"SENT", "SETTLED", "ERROR"},
         payment' = [payment EXCEPT ![<<m, route>>] = status]
  PROVE  Paid' = Paid \cup {m}
<1>1. /\ payment'[m, route] = status
      /\ \A n \in Milestones, way \in Routes :
           <<n, way>> # <<m, route>> => payment'[n, way] = payment[n, way]
  BY OneRow
<1>2. PaidFor(m)'
  BY <1>1 DEF PaidFor
<1>3. \A n \in Milestones : n # m => (PaidFor(n)' <=> PaidFor(n))
  BY <1>1 DEF PaidFor
<1> QED BY <1>2, <1>3 DEF Paid

LEMMA RowApproves ==
  ASSUME TypeOK, NEW p \in Proofs, proof' = [proof EXCEPT ![p] = "APPROVED"]
  PROVE  Approved' = Approved \cup {p}
  BY DEF TypeOK, Approved

\* What each kind of step looks like from the outside.
LEMMA StepShows ==
  ASSUME IInv, [Next]_vars
  PROVE  \/ UNCHANGED <<Paid, Approved, closed>>
         \/ \E p \in Proofs : /\ Approved' = Approved \cup {p}
                             /\ Paid' = Paid \cup {ProofFor[p]}
                             /\ UNCHANGED closed
         \/ \E p \in Proofs : Approved' = Approved \ {p} /\ UNCHANGED <<Paid, closed>>
         \/ \E m \in Milestones : Paid' = Paid \cup {m} /\ UNCHANGED <<Approved, closed>>
         \/ Paid = Milestones /\ closed' = closed + 1 /\ UNCHANGED <<Paid, Approved>>
<1>a. TypeOK
  BY DEF IInv
<1>b. UNCHANGED payment => UNCHANGED Paid
  BY DEF Paid, PaidFor
<1>c. UNCHANGED proof => UNCHANGED Approved
  BY DEF Approved
<1>d. (\A m \in Milestones : PaidFor(m)) => Paid = Milestones
  BY DEF Paid
<1>1. CASE UNCHANGED <<payment, proof, closed>>
  BY <1>1, <1>b, <1>c
<1>2. ASSUME NEW r \in Requests, Remembers(r), req[r].ms \in Milestones,
             \/ CommitAutoSubmission(r)
             \/ PayApproved(r)
      PROVE  \E p \in Proofs : /\ Approved' = Approved \cup {p}
                              /\ Paid' = Paid \cup {ProofFor[p]}
                              /\ UNCHANGED closed
  <2> DEFINE p == req[r].proof
  <2>1. p \in Proofs /\ req[r].ms = ProofFor[p]
    BY <1>2 DEF CommitAutoSubmission, PayApproved, Remembers
  <2>2. Approved' = Approved \cup {p}
    BY <1>2, <1>a, <2>1, RowApproves DEF CommitAutoSubmission, PayApproved
  <2>3. Paid' = Paid \cup {req[r].ms}
    BY <1>2, <1>a, RowPays DEF CommitAutoSubmission, PayApproved, Pay, Routes
  <2> QED BY <1>2, <2>1, <2>2, <2>3 DEF CommitAutoSubmission, PayApproved
<1>3. ASSUME NEW r \in Requests, Remembers(r), CommitManualSubmission(r)
      PROVE  UNCHANGED <<Paid, Approved, closed>>
  <2>1. UNCHANGED Approved
    BY <1>3, <1>a DEF CommitManualSubmission, Approved, TypeOK
  <2> QED BY <1>3, <1>b, <2>1 DEF CommitManualSubmission
<1>4. ASSUME NEW r \in Requests, Remembers(r), CommitRejection(r)
      PROVE  \E p \in Proofs : Approved' = Approved \ {p} /\ UNCHANGED <<Paid, closed>>
  <2>1. req[r].proof \in Proofs
    BY <1>4 DEF CommitRejection, Remembers
  <2>2. Approved' = Approved \ {req[r].proof}
    BY <1>4, <1>a, <2>1 DEF CommitRejection, Approved, TypeOK
  <2> QED BY <1>4, <1>b, <2>1, <2>2 DEF CommitRejection
<1>5. ASSUME NEW r \in Requests, req[r].ms \in Milestones, CommitExecution(r)
      PROVE  \E m \in Milestones : Paid' = Paid \cup {m} /\ UNCHANGED <<Approved, closed>>
  <2>1. Paid' = Paid \cup {req[r].ms}
    BY <1>5, <1>a, RowPays DEF CommitExecution, Routes
  <2> QED BY <1>5, <1>c, <2>1 DEF CommitExecution
<1>6. ASSUME NEW r \in Requests, Remembers(r), req[r].ms \in Milestones,
             CommitSettlement(r) \/ CloseEscrow(r)
      PROVE  \/ UNCHANGED <<Paid, Approved, closed>>
             \/ Paid = Milestones /\ closed' = closed + 1 /\ UNCHANGED <<Paid, Approved>>
  <2>1. UNCHANGED <<Paid, Approved>>
    <3>1. CASE CommitSettlement(r)
      <4>1. Paid' = Paid \cup {req[r].ms}
        BY <3>1, <1>6, <1>a, RowPays DEF CommitSettlement, Routes
      <4>2. PaidFor(req[r].ms)
        BY <3>1, <1>6 DEF CommitSettlement, Remembers, PaidFor, Routes
      <4> QED BY <3>1, <1>6, <1>c, <4>1, <4>2 DEF CommitSettlement, Paid
    <3>2. CASE CloseEscrow(r)
      BY <3>2, <1>b, <1>c DEF CloseEscrow
    <3> QED BY <1>6, <3>1, <3>2
  <2>2. closed' = closed \/ (Paid = Milestones /\ closed' = closed + 1)
    BY <1>6, <1>d DEF CommitSettlement, CloseEscrow, Remembers
  <2> QED BY <2>1, <2>2
<1>7. ASSUME NEW m \in Milestones, NEW route \in Routes, PspSettled(m, route)
      PROVE  \/ UNCHANGED <<Paid, Approved, closed>>
             \/ Paid = Milestones /\ closed' = closed + 1 /\ UNCHANGED <<Paid, Approved>>
  <2>1. UNCHANGED <<Paid, Approved>>
    <3>1. Paid' = Paid \cup {m}
      BY <1>7, <1>a, RowPays DEF PspSettled
    <3>2. PaidFor(m)
      BY <1>7 DEF PspSettled, PaidFor
    <3> QED BY <1>7, <1>c, <3>1, <3>2 DEF PspSettled, Paid
  <2>2. closed' = closed \/ (Paid = Milestones /\ closed' = closed + 1)
    <3>1. closed' = closed \/ (AllPaid /\ closed' = closed + 1)
      BY <1>7 DEF PspSettled
    <3>2. AllPaid => Paid = Milestones
      BY <1>d DEF AllPaid, IInv, PaidMilestoneHasPayment
    <3> QED BY <3>1, <3>2
  <2> QED BY <2>1, <2>2
<1>8. ASSUME NEW m \in Milestones, NEW route \in Routes, PspFailed(m, route)
      PROVE  Paid' = Paid \cup {m} /\ UNCHANGED <<Approved, closed>>
  <2>1. Paid' = Paid \cup {m}
    BY <1>8, <1>a, RowPays DEF PspFailed
  <2> QED BY <1>8, <1>c, <2>1 DEF PspFailed
<1>9. \A r \in Requests : Remembers(r) /\ req[r].ms \in Milestones
  BY <1>a DEF IInv, MemoryStillTrue, TypeOK, RequestState
<1>10. ASSUME NEW r \in Requests, Start(r) \/ Step(r) \/ Die(r) \/ DieAfterTransfer(r)
       PROVE  \/ UNCHANGED <<payment, proof, closed>>
              \/ CommitManualSubmission(r) \/ CommitAutoSubmission(r)
              \/ PayApproved(r) \/ CommitRejection(r) \/ CommitExecution(r)
              \/ CommitSettlement(r) \/ CloseEscrow(r)
  BY <1>10, EndpointShape
  DEF Start, Step, Die, DieAfterTransfer, db, LoadSubmission, LoadApproval,
      LoadRejection, LoadExecution, LoadEscrow, CheckSequence,
      RefuseSubmission, LookupPayout, LoseKeyRace, RecheckClosing,
      ReadSettlement, CountMilestones, ListMilestones
<1>11. \/ UNCHANGED <<payment, proof, closed>>
       \/ \E r \in Requests : Start(r) \/ Step(r) \/ Die(r) \/ DieAfterTransfer(r)
       \/ \E m \in Milestones, route \in Routes : PspSettled(m, route) \/ PspFailed(m, route)
  BY DEF Next, vars
<1>12. ASSUME NEW r \in Requests,
              \/ UNCHANGED <<payment, proof, closed>>
              \/ CommitManualSubmission(r) \/ CommitAutoSubmission(r)
              \/ PayApproved(r) \/ CommitRejection(r) \/ CommitExecution(r)
              \/ CommitSettlement(r) \/ CloseEscrow(r)
       PROVE  \/ UNCHANGED <<Paid, Approved, closed>>
              \/ \E p \in Proofs : /\ Approved' = Approved \cup {p}
                                  /\ Paid' = Paid \cup {ProofFor[p]}
                                  /\ UNCHANGED closed
              \/ \E p \in Proofs : Approved' = Approved \ {p} /\ UNCHANGED <<Paid, closed>>
              \/ \E m \in Milestones : Paid' = Paid \cup {m} /\ UNCHANGED <<Approved, closed>>
              \/ Paid = Milestones /\ closed' = closed + 1 /\ UNCHANGED <<Paid, Approved>>
  BY <1>12, <1>1, <1>2, <1>3, <1>4, <1>5, <1>6, <1>9, <1>b, <1>c
<1> QED BY <1>1, <1>7, <1>8, <1>10, <1>11, <1>12

\* Every step of the payouts is a step of the promise, or none.
THEOREM PayoutsKeepPromise == Spec => KeepsPromise
<1>1. Init => Promise!Init
  <2> SUFFICES ASSUME Init
               PROVE  Promise!Init
    OBVIOUS
  <2>1. Paid = {}
    BY DEF Init, Paid, PaidFor
  <2>2. Approved = {} /\ ~(closed > 0)
    BY DEF Init, Approved
  <2> QED BY <2>1, <2>2 DEF Promise!Init, Paid, Approved
<1>2. IInv /\ [Next]_vars => [Promise!Next]_<<Paid, Approved, closed > 0>>
  <2> SUFFICES ASSUME IInv, [Next]_vars
               PROVE  [Promise!Next]_<<Paid, Approved, closed > 0>>
    OBVIOUS
  <2>1. closed \in Nat
    BY DEF IInv, TypeOK
  <2>2. CASE UNCHANGED <<Paid, Approved, closed>>
    BY <2>2
  <2>3. ASSUME NEW p \in Proofs, Approved' = Approved \cup {p},
               Paid' = Paid \cup {ProofFor[p]}, UNCHANGED closed
        PROVE  Promise!ApproveAndPay(p)
    BY <2>3 DEF Promise!ApproveAndPay, Paid, Approved
  <2>4. ASSUME NEW p \in Proofs, Approved' = Approved \ {p}, UNCHANGED <<Paid, closed>>
        PROVE  Promise!Withdraw(p)
    BY <2>4 DEF Promise!Withdraw, Paid, Approved
  <2>5. ASSUME NEW m \in Milestones, Paid' = Paid \cup {m}, UNCHANGED <<Approved, closed>>
        PROVE  Promise!PayStored(m)
    BY <2>5 DEF Promise!PayStored, Paid, Approved
  <2>6. CASE Paid = Milestones /\ closed' = closed + 1 /\ UNCHANGED <<Paid, Approved>>
    <3>1. closed' > 0
      BY <2>1, <2>6
    <3> QED BY <2>6, <3>1 DEF Promise!Close, Promise!Next, Paid, Approved
  <2> QED BY StepShows, <2>2, <2>3, <2>4, <2>5, <2>6 DEF Promise!Next
<1>3. [Promise!Next]_<<Paid, Approved, closed > 0>> =>
        [Promise!Next]_<<{m \in Milestones : PaidFor(m)},
                         {p \in Proofs : proof[p] = "APPROVED"}, closed > 0>>
  BY DEF Paid, Approved
<1> QED BY <1>1, <1>2, <1>3, InductiveInvariant, PTL DEF Spec, KeepsPromise, Promise!Spec
-----------------------------------------------------------------------------
(***************************************************************************)
(* Requests that do not overlap.  What such a request read is still so     *)
(* when it writes: this, and not only what stays true under interference,  *)
(* is why its decision is final, its payout affordable, and its CLOSED     *)
(* event written only when it releases the escrow.                         *)
(***************************************************************************)

\* One request is served at a time.
Alone == \A q, r \in InFlight : q = r

\* What request r read is how the tables stand.
Current(r) ==
  LET m == req[r].ms  p == req[r].proof  at == req[r].at IN
  /\ at \in {"lookup", "pay", "reject"} => proof[p] = "PENDING"
  /\ at = "pay" => Available >= Amount[m]
  /\ at \in {"lookup", "pay", "transfer", "settle", "post1", "post2"} =>
       req[r].seenEscrow = escrow
  /\ at \in {"close", "settle_close"} => escrow # "RELEASED"

\* The inductive invariant of serial requests, on top of IInv.
SerialInv ==
  /\ Alone
  /\ \A r \in Requests : Current(r)

\* No request is being served when the next one comes.
LEMMA NobodyElse ==
  ASSUME Alone, MaxInFlight = 1, Cardinality(InFlight) < MaxInFlight
  PROVE  InFlight = {}
<1>1. ASSUME NEW r \in InFlight
      PROVE  FALSE
  <2>1. InFlight = {r}
    BY <1>1 DEF Alone
  <2>2. Cardinality(InFlight) = 1
    BY <2>1, FS_Singleton
  <2> QED BY <2>2
<1> QED BY <1>1

\* Then a step of r leaves r alone, and the others have nothing to remember.
LEMMA OnlyMover ==
  ASSUME Alone, NEW r \in Requests, InFlight = {} \/ r \in InFlight,
         \A q \in Requests \ {r} : req'[q] = req[q], Current(r)'
  PROVE  Alone' /\ \A q \in Requests : Current(q)'
<1>1. \A q \in Requests \ {r} : req'[q].at \in {"idle", "done"}
  BY DEF Alone, InFlight
<1>2. Alone'
  BY <1>1 DEF Alone, InFlight
<1>3. \A q \in Requests \ {r} : Current(q)'
  BY <1>1 DEF Current
<1> QED BY <1>2, <1>3

\* A request that ends has nothing to remember.
LEMMA FinishCurrent ==
  ASSUME TypeOK, NEW r \in Requests, Finish(r)
  PROVE  Current(r)'
<1>1. req'[r].at = "done"
  BY DEF TypeOK, Finish, Blank
<1> QED BY <1>1 DEF Current

\* A request that moves on keeps the escrow it saw.
LEMMA GotoKeepsEscrow ==
  ASSUME TypeOK, NEW r \in Requests, NEW stage \in Stages, Goto(r, stage)
  PROVE  req'[r].seenEscrow = req[r].seenEscrow
<1>1. req[r] \in RequestState
  BY DEF TypeOK
<1> QED BY <1>1 DEF TypeOK, Goto, RequestState

\* What a starting request reads is how the tables stand.
LEMMA StartCurrent ==
  ASSUME TypeOK, NEW r \in Requests, Start(r)
  PROVE  /\ Current(r)'
         /\ UNCHANGED db
         /\ \A q \in Requests \ {r} : req'[q] = req[q]
<1>1. ASSUME NEW p \in Proofs, NEW route \in {"auto", "manual"},
             LoadSubmission(r, p, route)
      PROVE  /\ req'[r].at = "check"
             /\ \A q \in Requests \ {r} : req'[q] = req[q]
  BY <1>1 DEF LoadSubmission, Blank, TypeOK
<1>2. ASSUME NEW p \in Proofs, LoadApproval(r, p)
      PROVE  /\ req'[r].at = "lookup" /\ req'[r].proof = p /\ proof'[p] = "PENDING"
             /\ req'[r].seenEscrow = escrow'
             /\ \A q \in Requests \ {r} : req'[q] = req[q]
  BY <1>2 DEF LoadApproval, Blank, TypeOK, db
<1>3. ASSUME NEW p \in Proofs, LoadRejection(r, p)
      PROVE  /\ req'[r].at = "reject" /\ req'[r].proof = p /\ proof'[p] = "PENDING"
             /\ \A q \in Requests \ {r} : req'[q] = req[q]
  BY <1>3 DEF LoadRejection, Blank, TypeOK, db
<1>4. ASSUME NEW m \in Milestones, LoadExecution(r, m)
      PROVE  /\ req'[r].at = "transfer" /\ req'[r].seenEscrow = escrow'
             /\ \A q \in Requests \ {r} : req'[q] = req[q]
  BY <1>4 DEF LoadExecution, Blank, TypeOK, db
<1>5. ASSUME NEW call \in EscrowCalls, LoadEscrow(r, call)
      PROVE  /\ Current(r)' /\ UNCHANGED db
             /\ \A q \in Requests \ {r} : req'[q] = req[q]
  <2>1. /\ req'[r].at = call
        /\ \A q \in Requests \ {r} : req'[q] = req[q]
    BY <1>5 DEF LoadEscrow, Blank, TypeOK
  <2>2. call \in {"mark_delivered", "client_approve", "client_reject", "deposit"}
    BY PayoutsAssumption
  <2> QED BY <1>5, <2>1, <2>2 DEF Current, LoadEscrow
<1>6. UNCHANGED db
  BY DEF Start, LoadSubmission, LoadApproval, LoadRejection, LoadExecution,
         LoadEscrow
<1>7. CASE req'[r].at = "check" /\ \A q \in Requests \ {r} : req'[q] = req[q]
  BY <1>6, <1>7 DEF Current
<1>8. CASE /\ \/ req'[r].at = "lookup" /\ req'[r].seenEscrow = escrow'
              \/ req'[r].at = "reject"
           /\ proof'[req'[r].proof] = "PENDING"
           /\ \A q \in Requests \ {r} : req'[q] = req[q]
  BY <1>6, <1>8 DEF Current
<1>9. CASE /\ req'[r].at = "transfer" /\ req'[r].seenEscrow = escrow'
           /\ \A q \in Requests \ {r} : req'[q] = req[q]
  BY <1>6, <1>9 DEF Current
<1> QED BY <1>1, <1>2, <1>3, <1>4, <1>5, <1>7, <1>8, <1>9 DEF Start

\* The next piece of the only request acts on current rows.
LEMMA StepCurrent ==
  ASSUME IInv, SerialInv, NEW r \in Requests, Step(r)
  PROVE  /\ Current(r)'
         /\ \A q \in Requests \ {r} : req'[q] = req[q]
<1>a. TypeOK /\ Current(r)
  BY DEF IInv, SerialInv
<1>b. UNCHANGED <<payment, deposited>> => UNCHANGED Available
  BY DEF Available, Debited
<1>d. CASE Finish(r)
  BY <1>a, <1>d, FinishCurrent, FinishRemembers
<1>1. CASE CheckSequence(r) /\ Goto(r, "write")
  <2>1. req'[r].at = "write" /\ \A q \in Requests \ {r} : req'[q] = req[q]
    BY <1>1, <1>a, GotoKeeps DEF Stages
  <2> QED BY <1>1, <2>1 DEF CheckSequence, Current, db
<1>2. CASE CommitAutoSubmission(r)
  <2>1. /\ req'[r].at = "post1" /\ req'[r].seenEscrow = escrow'
        /\ \A q \in Requests \ {r} : req'[q] = req[q]
    BY <1>2, <1>a DEF CommitAutoSubmission, TypeOK, RequestState
  <2> QED BY <1>2, <2>1 DEF CommitAutoSubmission, Current
<1>3. CASE LookupPayout(r) /\ Goto(r, "pay")
  <2>1. /\ req'[r].at = "pay" /\ req'[r].ms = req[r].ms /\ req'[r].proof = req[r].proof
        /\ req'[r].seenEscrow = req[r].seenEscrow
        /\ \A q \in Requests \ {r} : req'[q] = req[q]
    BY <1>3, <1>a, GotoKeeps, GotoKeepsEscrow DEF Stages
  <2>2. MayPay(req[r].ms, "review")
    <3>1. req'[r].at # Blank("done").at
      BY <2>1 DEF Blank
    <3>2. ~Finish(r)
      BY <3>1, <1>a DEF Finish, TypeOK
    <3> QED BY <1>3, <3>2 DEF LookupPayout
  <2>3. Available' >= Amount[req[r].ms]
    BY <1>3, <1>b, <2>2 DEF MayPay, LookupPayout, db
  <2>4. req[r].at = "lookup" /\ UNCHANGED db
    BY <1>3 DEF LookupPayout
  <2>5. Current(r)'
    BY <1>a, <2>1, <2>3, <2>4 DEF Current, db
  <2> QED BY <2>1, <2>4, <2>5 DEF db
<1>4. CASE PayApproved(r)
  <2>1. /\ req'[r].at = "post1" /\ req'[r].seenEscrow = req[r].seenEscrow
        /\ \A q \in Requests \ {r} : req'[q] = req[q]
    BY <1>4, <1>a, GotoKeeps, GotoKeepsEscrow DEF PayApproved, Stages
  <2>2. req[r].at = "pay" /\ UNCHANGED <<escrow, closed>>
    BY <1>4 DEF PayApproved
  <2> QED BY <1>a, <2>1, <2>2 DEF Current
<1>5. CASE LoseKeyRace(r)
  <2>1. req'[r].at = "recheck" /\ \A q \in Requests \ {r} : req'[q] = req[q]
    BY <1>5, <1>a, GotoKeeps DEF LoseKeyRace, Stages
  <2> QED BY <1>5, <2>1 DEF LoseKeyRace, Current, db
<1>6. CASE RecheckClosing(r) /\ ~Finish(r)
  <2>1. Goto(r, "close") /\ escrow # "RELEASED" /\ UNCHANGED db
    BY <1>6 DEF RecheckClosing
  <2>2. req'[r].at = "close" /\ \A q \in Requests \ {r} : req'[q] = req[q]
    BY <2>1, <1>a, GotoKeeps DEF Stages
  <2> QED BY <2>1, <2>2 DEF Current, db
<1>7. CASE CommitExecution(r)
  <2>1. /\ req'[r].at = "settle" /\ req'[r].seenEscrow = req[r].seenEscrow
        /\ \A q \in Requests \ {r} : req'[q] = req[q]
    BY <1>7, <1>a, GotoKeeps, GotoKeepsEscrow DEF CommitExecution, Stages
  <2>2. req[r].at = "transfer" /\ UNCHANGED <<escrow, closed>>
    BY <1>7 DEF CommitExecution
  <2> QED BY <1>a, <2>1, <2>2 DEF Current
<1>8. CASE ReadSettlement(r) /\ ~Finish(r)
  <2>1. /\ req[r].at = "settle" /\ UNCHANGED db
        /\ \/ Goto(r, "settle_only")
           \/ Goto(r, "settle_close") /\ req[r].seenEscrow # "RELEASED"
    BY <1>8 DEF ReadSettlement
  <2>2. /\ \/ req'[r].at = "settle_only"
           \/ req'[r].at = "settle_close" /\ escrow # "RELEASED"
        /\ \A q \in Requests \ {r} : req'[q] = req[q]
    BY <2>1, <1>a, GotoKeeps DEF Stages, Current
  <2> QED BY <2>1, <2>2 DEF Current, db
<1>9. CASE CountMilestones(r)
  <2>1. /\ req[r].at = "post1" /\ UNCHANGED db
        /\ \/ Goto(r, "post2")
           \/ Goto(r, "close") /\ req[r].seenEscrow # "RELEASED"
    BY <1>9 DEF CountMilestones
  <2>2. /\ \/ req'[r].at = "post2" /\ req'[r].seenEscrow = escrow
           \/ req'[r].at = "close" /\ escrow # "RELEASED"
        /\ \A q \in Requests \ {r} : req'[q] = req[q]
    BY <2>1, <1>a, GotoKeeps, GotoKeepsEscrow DEF Stages, Current
  <2> QED BY <2>1, <2>2 DEF Current, db
<1>10. CASE ListMilestones(r) /\ ~Finish(r)
  <2>1. /\ req[r].at = "post2" /\ UNCHANGED db
        /\ Goto(r, "close") /\ req[r].seenEscrow # "RELEASED"
    BY <1>10 DEF ListMilestones
  <2>2. /\ req'[r].at = "close" /\ escrow # "RELEASED"
        /\ \A q \in Requests \ {r} : req'[q] = req[q]
    BY <2>1, <1>a, GotoKeeps DEF Stages, Current
  <2> QED BY <2>1, <2>2 DEF Current, db
<1>11. CASE EscrowEndpoint(r) /\ ~Finish(r)
  <2>1. PICK stage \in {"deposit_only", "deposit_fund"} : Goto(r, stage)
    BY <1>11, EndpointShape
  <2>2. /\ req'[r].at \in {"deposit_only", "deposit_fund"}
        /\ \A q \in Requests \ {r} : req'[q] = req[q]
    BY <2>1, <1>a, GotoKeeps DEF Stages
  <2> QED BY <2>2 DEF Current
<1> QED
  BY <1>d, <1>1, <1>2, <1>3, <1>4, <1>5, <1>6, <1>7, <1>8, <1>9, <1>10, <1>11
  DEF Step, CheckSequence, CommitManualSubmission, RefuseSubmission, LookupPayout,
      CommitRejection, CommitSettlement, CloseEscrow

\* A request of which another piece runs is being served.
LEMMA StepInFlight ==
  ASSUME NEW r \in Requests, Step(r) \/ Die(r) \/ DieAfterTransfer(r)
  PROVE  r \in InFlight
<1>1. CASE Step(r)
  BY <1>1, EndpointShape
  DEF Step, InFlight, CheckSequence, CommitManualSubmission, CommitAutoSubmission,
      RefuseSubmission, LookupPayout, PayApproved, LoseKeyRace, RecheckClosing,
      CommitRejection, CommitExecution, ReadSettlement, CommitSettlement,
      CountMilestones, ListMilestones, CloseEscrow
<1>2. CASE Die(r) \/ DieAfterTransfer(r)
  BY <1>2 DEF Die, DieAfterTransfer, InFlight
<1> QED BY <1>1, <1>2

LEMMA InitSerial == Init => SerialInv
<1> SUFFICES ASSUME Init
             PROVE  SerialInv
  OBVIOUS
<1>1. \A r \in Requests : req[r].at = "idle"
  BY DEF Init, Blank
<1>2. Alone
  BY <1>1 DEF Alone, InFlight
<1>3. \A r \in Requests : Current(r)
  BY <1>1 DEF Current
<1> QED BY <1>2, <1>3 DEF SerialInv

LEMMA NextSerial ==
  ASSUME MaxInFlight = 1, IInv, SerialInv, [Next]_vars
  PROVE  SerialInv'
<1>a. TypeOK /\ Alone
  BY DEF IInv, SerialInv
<1>1. ASSUME NEW r \in Requests, Start(r)
      PROVE  SerialInv'
  <2>1. /\ Current(r)' /\ UNCHANGED db
        /\ \A q \in Requests \ {r} : req'[q] = req[q]
    BY <1>1, <1>a, StartCurrent
  <2>2. CanStart(r)
    BY <1>1 DEF Start, LoadSubmission, LoadApproval, LoadRejection, LoadExecution,
                LoadEscrow
  <2>3. InFlight = {}
    BY <1>a, <2>2, NobodyElse DEF CanStart
  <2>4. Alone' /\ \A q \in Requests : Current(q)'
    BY <1>a, <2>1, <2>3, OnlyMover
  <2> QED BY <2>4 DEF SerialInv
<1>2. ASSUME NEW r \in Requests, Step(r)
      PROVE  SerialInv'
  <2>1. /\ Current(r)'
        /\ \A q \in Requests \ {r} : req'[q] = req[q]
    BY <1>2, StepCurrent
  <2>2. r \in InFlight
    BY <1>2, StepInFlight
  <2>3. Alone' /\ \A q \in Requests : Current(q)'
    BY <1>a, <2>1, <2>2, OnlyMover
  <2> QED BY <2>3 DEF SerialInv
<1>3. ASSUME NEW r \in Requests, Die(r) \/ DieAfterTransfer(r)
      PROVE  SerialInv'
  <2>1. Finish(r)
    BY <1>3 DEF Die, DieAfterTransfer
  <2>2. /\ Current(r)'
        /\ \A q \in Requests \ {r} : req'[q] = req[q]
    BY <1>a, <2>1, FinishCurrent, FinishRemembers
  <2>3. r \in InFlight
    BY <1>3, StepInFlight
  <2>4. Alone' /\ \A q \in Requests : Current(q)'
    BY <1>a, <2>2, <2>3, OnlyMover
  <2> QED BY <2>1, <2>4 DEF SerialInv
<1>4. ASSUME NEW m \in Milestones, NEW route \in Routes,
             PspSettled(m, route) \/ PspFailed(m, route)
      PROVE  SerialInv'
  <2>1. UNCHANGED req /\ InFlight = {}
    BY <1>4, <1>a, NobodyElse DEF PspSettled, PspFailed
  <2>2. \A q \in Requests : req'[q].at \in {"idle", "done"}
    BY <2>1 DEF InFlight
  <2>3. Alone' /\ \A q \in Requests : Current(q)'
    BY <2>2 DEF Alone, InFlight, Current
  <2> QED BY <2>3 DEF SerialInv
<1>5. CASE UNCHANGED vars
  <2>1. UNCHANGED Available /\ UNCHANGED InFlight
    BY <1>5 DEF vars, Available, Debited, InFlight
  <2>2. Alone'
    BY <1>a, <2>1 DEF Alone
  <2>3. ASSUME NEW r \in Requests
        PROVE  Current(r)'
    <3>1. Current(r)
      BY DEF SerialInv
    <3> QED BY <1>5, <2>1, <3>1 DEF vars, Current
  <2> QED BY <2>2, <2>3 DEF SerialInv
<1> QED BY <1>1, <1>2, <1>3, <1>4, <1>5 DEF Next

\* Requests that do not overlap write a CLOSED event only when they release the
\* escrow, also when some die half-way, its client and provider set its status,
\* and notifications of the provider come between them.
THEOREM ClosingReleasesWhenSerial == MaxInFlight = 1 /\ Spec => ClosingReleases
<1> SUFFICES ASSUME MaxInFlight = 1
             PROVE  Spec => ClosingReleases
  OBVIOUS
<1>1. IInv /\ SerialInv /\ [Next]_vars => SerialInv'
  BY NextSerial
<1>2. IInv /\ SerialInv /\ [Next]_vars =>
        [closed' # closed => escrow # "RELEASED" /\ escrow' = "RELEASED"]_vars
  <2> SUFFICES ASSUME IInv, SerialInv, Next, closed' # closed
               PROVE  escrow # "RELEASED" /\ escrow' = "RELEASED"
    OBVIOUS
  <2>1. ASSUME NEW r \in Requests, Start(r) \/ Step(r) \/ Die(r) \/ DieAfterTransfer(r)
        PROVE  CloseEscrow(r) \/ CommitSettlement(r)
    BY <2>1, EndpointShape
    DEF Start, Step, Die, DieAfterTransfer, db, LoadSubmission, LoadApproval,
        LoadRejection, LoadExecution, LoadEscrow, CheckSequence,
        CommitManualSubmission, CommitAutoSubmission, RefuseSubmission, LookupPayout,
        PayApproved, LoseKeyRace, RecheckClosing, CommitRejection, CommitExecution,
        ReadSettlement, CountMilestones, ListMilestones
  <2>2. ASSUME NEW r \in Requests, CloseEscrow(r) \/ CommitSettlement(r)
        PROVE  escrow # "RELEASED" /\ escrow' = "RELEASED"
    <3>1. Current(r)
      BY DEF SerialInv
    <3>2. req[r].at \in {"close", "settle_close"} /\ escrow' = "RELEASED"
      BY <2>2 DEF CloseEscrow, CommitSettlement
    <3> QED BY <3>1, <3>2 DEF Current
  <2>3. ASSUME NEW m \in Milestones, NEW route \in Routes,
               PspSettled(m, route) \/ PspFailed(m, route)
        PROVE  escrow # "RELEASED" /\ escrow' = "RELEASED"
    BY <2>3 DEF PspSettled, PspFailed
  <2> QED BY <2>1, <2>2, <2>3 DEF Next
<1> QED BY <1>1, <1>2, InitSerial, InductiveInvariant, PTL DEF Spec, ClosingReleases

\* Their decisions are final: no rejection overwrites a payout, and no payout a
\* rejection.
THEOREM DecisionIsFinalWhenSerial == MaxInFlight = 1 /\ Spec => DecisionIsFinal
<1> SUFFICES ASSUME MaxInFlight = 1
             PROVE  Spec => DecisionIsFinal
  OBVIOUS
<1>1. IInv /\ SerialInv /\ [Next]_vars => SerialInv'
  BY NextSerial
<1>2. IInv /\ SerialInv /\ [Next]_vars =>
        [\A p \in Proofs : proof[p] \in {"APPROVED", "REJECTED"} => proof'[p] = proof[p]]_vars
  <2> SUFFICES ASSUME IInv, SerialInv, Next, NEW p \in Proofs,
                      proof[p] \in {"APPROVED", "REJECTED"}
               PROVE  proof'[p] = proof[p]
    OBVIOUS
  <2>a. TypeOK
    BY DEF IInv
  <2>1. ASSUME NEW r \in Requests, Start(r) \/ Step(r) \/ Die(r) \/ DieAfterTransfer(r)
        PROVE  \/ UNCHANGED proof
               \/ CommitManualSubmission(r) \/ CommitAutoSubmission(r)
               \/ PayApproved(r) \/ CommitRejection(r)
    BY <2>1, EndpointShape
    DEF Start, Step, Die, DieAfterTransfer, db, LoadSubmission, LoadApproval,
        LoadRejection, LoadExecution, LoadEscrow, CheckSequence,
        RefuseSubmission, LookupPayout, LoseKeyRace, RecheckClosing, CommitExecution,
        ReadSettlement, CommitSettlement, CountMilestones, ListMilestones,
        CloseEscrow
  <2>2. ASSUME NEW r \in Requests,
               \/ CommitManualSubmission(r) \/ CommitAutoSubmission(r)
               \/ PayApproved(r) \/ CommitRejection(r)
        PROVE  proof'[p] = proof[p]
    <3>1. /\ proof[req[r].proof] \in {"NONE", "PENDING"}
          /\ \E status \in ProofStatus : proof' = [proof EXCEPT ![req[r].proof] = status]
      <4>1. Current(r)
        BY DEF SerialInv
      <4> QED BY <2>2, <4>1
              DEF CommitManualSubmission, CommitAutoSubmission, PayApproved,
                  CommitRejection, Current, ProofStatus
    <3> QED BY <2>a, <3>1 DEF TypeOK
  <2>3. ASSUME NEW m \in Milestones, NEW route \in Routes,
               PspSettled(m, route) \/ PspFailed(m, route)
        PROVE  UNCHANGED proof
    BY <2>3 DEF PspSettled, PspFailed
  <2> QED BY <2>1, <2>2, <2>3 DEF Next
<1> QED BY <1>1, <1>2, InitSerial, InductiveInvariant, PTL DEF Spec, DecisionIsFinal
-----------------------------------------------------------------------------
(***************************************************************************)
(* The balance.  A payment stored earlier is executed without a look at    *)
(* it, so the payouts below are those of reviews and approvals.            *)
(***************************************************************************)

\* No payment is stored before its transfer.
NoStoredPayment == \A m \in Milestones : payment[m, "seed"] = "NONE"

\* The keys of payments are finitely many, and each has an amount.
LEMMA KeysAndAmounts ==
  /\ IsFiniteSet(Milestones \X Routes)
  /\ \A k \in Milestones \X Routes : Amount[k[1]] \in Nat
<1>1. IsFiniteSet(Milestones)
  BY PayoutsAssumption, FS_Interval DEF Milestones
<1>2. IsFiniteSet(Routes)
  <2>1. IsFiniteSet({} \cup {"auto"} \cup {"review"} \cup {"seed"})
    BY FS_EmptySet, FS_AddElement
  <2>2. Routes = {} \cup {"auto"} \cup {"review"} \cup {"seed"}
    BY DEF Routes
  <2> QED BY <2>1, <2>2
<1>3. IsFiniteSet(Milestones \X Routes)
  BY <1>1, <1>2, FS_Product
<1> QED BY <1>3, PayoutsAssumption

\* What is debited is a sum of amounts.
LEMMA DebitedType == Debited \in Nat
<1> DEFINE amount == [k \in Milestones \X Routes |-> Amount[k[1]]]
           S == {k \in Milestones \X Routes : payment[k] \in Debiting}
<1>1. IsFiniteSet(S) /\ \A k \in S : amount[k] \in Nat
  BY KeysAndAmounts, FS_Subset
<1>2. SumFunctionOnSet(amount, S) \in Nat
  <2> HIDE DEF amount, S
  <2> QED BY <1>1, SumNat
<1> QED BY <1>2 DEF Debited

\* A payment under a new key debits its amount, once.
LEMMA PayDebits ==
  ASSUME TypeOK, NEW m \in Milestones, NEW route \in Routes,
         payment[m, route] = "NONE", Pay(m, route)
  PROVE  Debited' = Amount[m] + Debited
<1> DEFINE amount == [k \in Milestones \X Routes |-> Amount[k[1]]]
           S == {k \in Milestones \X Routes : payment[k] \in Debiting}
           T == {k \in Milestones \X Routes : payment'[k] \in Debiting}
           k0 == <<m, route>>
<1>1. IsFiniteSet(S)
  BY KeysAndAmounts, FS_Subset
<1>2. k0 \notin S
  BY DEF Debiting
<1>3. T = S \cup {k0}
  <2>1. k0 \in T
    BY DEF Pay, TypeOK, Debiting
  <2>2. \A k \in (Milestones \X Routes) \ {k0} : payment'[k] = payment[k]
    BY DEF Pay, TypeOK
  <2> QED BY <2>1, <2>2
<1>4. amount[k0] = Amount[m] /\ \A k \in S \cup {k0} : amount[k] \in Nat
  <2>1. k0 \in Milestones \X Routes /\ k0[1] = m
    OBVIOUS
  <2>2. \A k \in S \cup {k0} : k \in Milestones \X Routes
    BY <2>1
  <2> QED BY <2>1, <2>2, KeysAndAmounts
<1>5. Debited = SumFunctionOnSet(amount, S) /\ Debited' = SumFunctionOnSet(amount, T)
  BY DEF Debited
<1>6. SumFunctionOnSet(amount, S \cup {k0}) = amount[k0] + SumFunctionOnSet(amount, S)
  <2> HIDE DEF amount, S, k0
  <2> QED BY <1>1, <1>2, <1>4, SumAdd
<1>7. SumFunctionOnSet(amount, T) = SumFunctionOnSet(amount, S \cup {k0})
  BY <1>3
<1> HIDE DEF amount, S, T, k0
<1> QED BY <1>4, <1>5, <1>6, <1>7

\* Without a stored payment at the start there is never one.
LEMMA NothingStored ==
  ASSUME IInv, NoStoredPayment, [Next]_vars
  PROVE  /\ NoStoredPayment'
         /\ \A r \in Requests : ~CommitExecution(r) /\ ~CommitSettlement(r)
<1>a. TypeOK /\ \A r \in Requests : Remembers(r) /\ req[r].ms \in Milestones
  BY DEF IInv, MemoryStillTrue, TypeOK, RequestState
<1>1. \A r \in Requests : ~CommitExecution(r) /\ ~CommitSettlement(r)
  BY <1>a DEF CommitExecution, CommitSettlement, Remembers, NoStoredPayment
<1>2. ASSUME NEW r \in Requests, Start(r) \/ Step(r) \/ Die(r) \/ DieAfterTransfer(r)
      PROVE  \/ UNCHANGED payment
             \/ \E route \in {"auto", "review"} : Pay(req[r].ms, route)
  BY <1>1, <1>2, EndpointShape
  DEF Start, Step, Die, DieAfterTransfer, db, LoadSubmission, LoadApproval,
      LoadRejection, LoadExecution, LoadEscrow, CheckSequence,
      CommitManualSubmission, CommitAutoSubmission, RefuseSubmission, LookupPayout,
      PayApproved, LoseKeyRace, RecheckClosing, CommitRejection, ReadSettlement,
      CountMilestones, ListMilestones, CloseEscrow
<1>3. ASSUME NEW m \in Milestones, NEW route \in {"auto", "review"}, Pay(m, route)
      PROVE  NoStoredPayment'
  <2>1. route \in Routes /\ route # "seed"
    BY DEF Routes
  <2>2. \A n \in Milestones, way \in Routes :
          <<n, way>> # <<m, route>> => payment'[n, way] = payment[n, way]
    BY <1>3, <1>a, <2>1 DEF Pay, TypeOK
  <2> QED BY <2>1, <2>2 DEF NoStoredPayment, Routes
<1>4. ASSUME NEW m \in Milestones, NEW route \in Routes,
             PspSettled(m, route) \/ PspFailed(m, route)
      PROVE  NoStoredPayment'
  <2>1. route # "seed"
    BY <1>4 DEF PspSettled, PspFailed, NoStoredPayment
  <2>2. PICK status \in {"SETTLED", "ERROR"} :
           payment' = [payment EXCEPT ![<<m, route>>] = status]
    BY <1>4 DEF PspSettled, PspFailed
  <2> QED BY <1>a, <2>1, <2>2, OneRow DEF NoStoredPayment, Routes
<1>5. ASSUME UNCHANGED payment
      PROVE  NoStoredPayment'
  BY <1>5 DEF NoStoredPayment
<1>6. NoStoredPayment'
  BY <1>a, <1>2, <1>3, <1>4, <1>5 DEF Next, vars
<1> QED BY <1>1, <1>6

\* Payouts of requests that do not overlap never take more than what is left
\* of the deposits, whatever the provider reports between them.
THEOREM AffordableWhenSerial ==
  MaxInFlight = 1 /\ Seeded = {} /\ Spec => PayoutsAffordable
<1> SUFFICES ASSUME MaxInFlight = 1, Seeded = {}
             PROVE  Spec => PayoutsAffordable
  OBVIOUS
<1>1. IInv /\ SerialInv /\ [Next]_vars => SerialInv'
  BY NextSerial
<1>2. Init => NoStoredPayment
  BY DEF Init, NoStoredPayment, Routes
<1>3. IInv /\ NoStoredPayment /\ [Next]_vars => NoStoredPayment'
  BY NothingStored
<1>4. IInv /\ SerialInv /\ NoStoredPayment /\ [Next]_vars =>
        [SendsPayment => Debited' <= deposited]_vars
  <2> SUFFICES ASSUME IInv, SerialInv, NoStoredPayment, Next, SendsPayment
               PROVE  Debited' <= deposited
    OBVIOUS
  <2>a. payment' # payment /\ ~\E n \in Milestones, way \in Routes :
                               PspSettled(n, way) \/ PspFailed(n, way)
    <3>1. PICK m \in Milestones, route \in Routes :
            payment[m, route] # "SENT" /\ payment'[m, route] = "SENT"
      BY DEF SendsPayment
    <3>2. ASSUME NEW n \in Milestones, NEW way \in Routes,
                 PspSettled(n, way) \/ PspFailed(n, way)
          PROVE  FALSE
      <4>1. PICK status \in {"SETTLED", "ERROR"} :
              payment' = [payment EXCEPT ![<<n, way>>] = status]
        BY <3>2 DEF PspSettled, PspFailed
      <4>2. TypeOK
        BY DEF IInv
      <4> QED BY <3>1, <4>1, <4>2, OneRow
    <3> QED BY <3>1, <3>2
  <2>1. PICK r \in Requests : CommitAutoSubmission(r) \/ PayApproved(r)
    <3>1. PICK r \in Requests : Start(r) \/ Step(r) \/ Die(r) \/ DieAfterTransfer(r)
      BY <2>a DEF Next
    <3>2. ~CommitExecution(r) /\ ~CommitSettlement(r)
      BY NothingStored
    <3> QED
      BY <2>a, <3>1, <3>2, EndpointShape
      DEF Start, Step, Die, DieAfterTransfer, db, LoadSubmission, LoadApproval,
          LoadRejection, LoadExecution, LoadEscrow, CheckSequence,
          CommitManualSubmission, RefuseSubmission, LookupPayout, LoseKeyRace,
          RecheckClosing, CommitRejection, ReadSettlement,
          CountMilestones, ListMilestones, CloseEscrow
  <2> DEFINE m == req[r].ms
  <2>2. TypeOK /\ m \in Milestones
    BY DEF IInv, TypeOK, RequestState
  <2>3. PICK route \in Routes :
          payment[m, route] = "NONE" /\ Pay(m, route) /\ Available >= Amount[m]
    <3>1. Current(r)
      BY DEF SerialInv
    <3>2. CASE CommitAutoSubmission(r)
      BY <3>2 DEF CommitAutoSubmission, MayPay, Routes
    <3>3. CASE PayApproved(r)
      BY <3>1, <3>3 DEF PayApproved, Current, Routes
    <3> QED BY <2>1, <3>2, <3>3
  <2>4. Debited' = Amount[m] + Debited
    BY <2>2, <2>3, PayDebits
  <2>5. Debited \in Nat /\ deposited \in Nat /\ Amount[m] \in Nat
    BY <2>2, DebitedType, PayoutsAssumption DEF TypeOK
  <2>6. deposited - Debited >= Amount[m]
    BY <2>3 DEF Available
  <2> HIDE DEF m
  <2> QED BY <2>4, <2>5, <2>6
<1> QED BY <1>1, <1>2, <1>3, <1>4, InitSerial, InductiveInvariant, PTL
        DEF Spec, PayoutsAffordable
-----------------------------------------------------------------------------
(***************************************************************************)
(* How far "idempotent" reaches (payments.py): one payment for a milestone *)
(* when requests do not overlap and no transfer fails, and one transfer for*)
(* a key, also when they overlap, when no request dies.                    *)
(***************************************************************************)

\* A payment on its way or settled is the latest of its milestone, and the
\* milestone of a request about to pay has none.
DebitIsLatest ==
  \A m \in Milestones, route \in Routes :
    payment[m, route] \in Debiting => latest[m] = route
FreshWhenPaying == \A r \in Requests : req[r].at = "pay" => ~Reusable(req[r].ms)
NothingFailed == \A m \in Milestones, route \in Routes : payment[m, route] # "ERROR"

OnceInv == DebitIsLatest /\ FreshWhenPaying /\ NothingFailed

\* A payout of a milestone without a reusable payment is its only one.
LEMMA PayIsOnly ==
  ASSUME TypeOK, OnceInv, NEW m \in Milestones, NEW route \in Routes, ~Reusable(m),
         Pay(m, route)
  PROVE  DebitIsLatest' /\ NothingFailed'
<1>1. \A way \in Routes : payment[m, way] \notin Debiting
  BY DEF Reusable, OnceInv, DebitIsLatest, Routes
<1>2. /\ payment'[m, route] = "SENT"
      /\ \A n \in Milestones, way \in Routes :
           <<n, way>> # <<m, route>> => payment'[n, way] = payment[n, way]
  BY DEF Pay, TypeOK
<1>3. latest'[m] = route /\ \A n \in Milestones \ {m} : latest'[n] = latest[n]
  BY DEF Pay, TypeOK
<1>4. DebitIsLatest'
  <2> SUFFICES ASSUME NEW n \in Milestones, NEW way \in Routes,
                      payment'[n, way] \in Debiting
               PROVE  latest'[n] = way
    BY DEF DebitIsLatest, Debiting
  <2>1. CASE n = m
    BY <1>1, <1>2, <1>3, <2>1
  <2>2. CASE n # m
    BY <1>2, <1>3, <2>2 DEF OnceInv, DebitIsLatest
  <2> QED BY <2>1, <2>2
<1>5. NothingFailed'
  BY <1>2 DEF OnceInv, NothingFailed
<1> QED BY <1>4, <1>5

LEMMA OnceStep ==
  ASSUME MaxInFlight = 1, "failed" \notin PspReports,
         IInv, SerialInv, NoStoredPayment, OnceInv, [Next]_vars
  PROVE  OnceInv'
<1>a. TypeOK
  BY DEF IInv
<1>b. ASSUME UNCHANGED <<payment, latest>>
      PROVE  /\ DebitIsLatest' /\ NothingFailed'
             /\ \A m : Reusable(m)' <=> Reusable(m)
  BY <1>b DEF OnceInv, DebitIsLatest, NothingFailed, Reusable
<1>1. ASSUME NEW r \in Requests, CommitAutoSubmission(r) \/ PayApproved(r)
      PROVE  OnceInv'
  <2>1. req[r].ms \in Milestones
    BY <1>a DEF TypeOK, RequestState
  <2>2. PICK route \in Routes : Pay(req[r].ms, route) /\ ~Reusable(req[r].ms)
    BY <1>1 DEF CommitAutoSubmission, PayApproved, MayPay, OnceInv, FreshWhenPaying, Routes
  <2>3. FreshWhenPaying'
    <3>1. r \in InFlight /\ \A q \in Requests \ {r} : req'[q] = req[q]
      BY <1>1, <1>a DEF CommitAutoSubmission, PayApproved, Goto, TypeOK, InFlight
    <3>2. \A q \in Requests \ {r} : req'[q].at # "pay"
      BY <3>1 DEF SerialInv, Alone, InFlight
    <3>3. req'[r].at = "post1"
      <4>1. CASE CommitAutoSubmission(r)
        BY <1>a, <4>1 DEF CommitAutoSubmission, TypeOK, RequestState
      <4>2. CASE PayApproved(r)
        BY <1>a, <4>2, GotoKeeps DEF PayApproved, Stages
      <4> QED BY <1>1, <4>1, <4>2
    <3> QED BY <3>2, <3>3 DEF FreshWhenPaying
  <2> QED BY <1>a, <2>1, <2>2, <2>3, PayIsOnly DEF OnceInv
<1>2. ASSUME NEW r \in Requests,
             Start(r) \/ Step(r) \/ Die(r) \/ DieAfterTransfer(r),
             UNCHANGED <<payment, latest>>
      PROVE  OnceInv'
  <2>1. ASSUME NEW q \in Requests, req'[q].at = "pay"
        PROVE  ~Reusable(req'[q].ms)
    <3>1. CASE req'[q] = req[q]
      BY <3>1, <2>1 DEF OnceInv, FreshWhenPaying
    <3>2. CASE q = r /\ Start(r)
      <4>1. \A call \in EscrowCalls : call # "pay"
        BY PayoutsAssumption
      <4> QED
        BY <3>2, <2>1, <1>a, <4>1
        DEF Start, LoadSubmission, LoadApproval, LoadRejection, LoadExecution,
            LoadEscrow, Blank, TypeOK
    <3>3. CASE q = r /\ Finish(r)
      BY <3>3, <2>1, <1>a DEF Finish, Blank, TypeOK
    <3>4. ASSUME NEW stage \in Stages, Goto(r, stage), q = r
          PROVE  stage = "pay" /\ req'[q].ms = req[q].ms
      BY <3>4, <2>1, <1>a, GotoKeeps
    <3>5. CASE q = r /\ LookupPayout(r)
      <4>1. ~Finish(r)
        BY <3>5, <2>1, <1>a DEF Finish, Blank, TypeOK
      <4>2. Goto(r, "pay") /\ MayPay(req[r].ms, "review")
        BY <3>5, <4>1 DEF LookupPayout
      <4> QED BY <3>4, <3>5, <4>2 DEF MayPay, Stages
    <3>6. CASE q = r /\ Step(r) /\ ~LookupPayout(r) /\ ~Finish(r)
      <4>1. \/ \E stage \in Stages \ {"pay"} : Goto(r, stage)
            \/ CommitAutoSubmission(r)
        BY <3>6, EndpointShape
        DEF Step, CheckSequence, CommitManualSubmission, RefuseSubmission, PayApproved,
            LoseKeyRace, RecheckClosing, CommitRejection, CommitExecution, ReadSettlement,
            CommitSettlement, CountMilestones, ListMilestones, CloseEscrow,
            Stages
      <4>2. ~CommitAutoSubmission(r)
        BY <2>1, <3>6, <1>a DEF CommitAutoSubmission, TypeOK, RequestState
      <4> QED BY <3>4, <3>6, <4>1, <4>2
    <3>7. q # r => req'[q] = req[q]
      <4>1. CASE Start(r)
        BY <1>a, <4>1, StartCurrent
      <4>2. CASE Step(r)
        BY <4>2, StepCurrent
      <4>3. CASE Die(r) \/ DieAfterTransfer(r)
        BY <1>a, <4>3, FinishRemembers DEF Die, DieAfterTransfer
      <4> QED BY <1>2, <4>1, <4>2, <4>3
    <3> QED BY <1>2, <3>1, <3>2, <3>3, <3>5, <3>6, <3>7 DEF Die, DieAfterTransfer
  <2> QED BY <1>2, <1>b, <2>1 DEF OnceInv, FreshWhenPaying
<1>3. ASSUME NEW m \in Milestones, NEW route \in Routes,
             PspSettled(m, route) \/ PspFailed(m, route)
      PROVE  OnceInv'
  <2>1. /\ payment[m, route] = "SENT"
        /\ payment' = [payment EXCEPT ![<<m, route>>] = "SETTLED"]
        /\ UNCHANGED <<latest, req>>
    BY <1>3 DEF PspSettled, PspFailed, OnceInv, NothingFailed
  <2>2. /\ payment'[m, route] = "SETTLED"
        /\ \A n \in Milestones, way \in Routes :
             <<n, way>> # <<m, route>> => payment'[n, way] = payment[n, way]
    BY <1>a, <2>1, OneRow
  <2>3. DebitIsLatest'
    <3> SUFFICES ASSUME NEW n \in Milestones, NEW way \in Routes,
                        payment'[n, way] \in Debiting
                 PROVE  latest'[n] = way
      BY DEF DebitIsLatest, Debiting
    <3>1. payment[n, way] \in Debiting
      <4>1. CASE n = m /\ way = route
        BY <2>1, <4>1 DEF Debiting
      <4>2. CASE n # m \/ way # route
        <5>1. <<n, way>> # <<m, route>>
          BY <4>2
        <5> QED BY <2>2, <5>1
      <4> QED BY <4>1, <4>2
    <3> QED BY <2>1, <3>1 DEF OnceInv, DebitIsLatest
  <2>5. NothingFailed'
    <3> SUFFICES ASSUME NEW n \in Milestones, NEW way \in Routes
                 PROVE  payment'[n, way] # "ERROR"
      BY DEF NothingFailed
    <3>1. CASE n = m /\ way = route
      BY <2>2, <3>1
    <3>2. CASE n # m \/ way # route
      <4>1. <<n, way>> # <<m, route>>
        BY <3>2
      <4> QED BY <2>2, <4>1 DEF OnceInv, NothingFailed
    <3> QED BY <3>1, <3>2
  <2>4. FreshWhenPaying'
    <3>1. InFlight = {}
      BY <1>3, NobodyElse DEF PspSettled, PspFailed, SerialInv
    <3> QED BY <2>1, <3>1 DEF FreshWhenPaying, InFlight
  <2> QED BY <2>3, <2>4, <2>5 DEF OnceInv
<1>4. CASE UNCHANGED vars
  BY <1>4, <1>b DEF vars, OnceInv, FreshWhenPaying
<1>5. ASSUME NEW r \in Requests, Start(r) \/ Step(r) \/ Die(r) \/ DieAfterTransfer(r)
      PROVE  \/ UNCHANGED <<payment, latest>>
             \/ CommitAutoSubmission(r) \/ PayApproved(r)
  BY <1>5, NothingStored, EndpointShape
  DEF Start, Step, Die, DieAfterTransfer, db, LoadSubmission, LoadApproval,
      LoadRejection, LoadExecution, LoadEscrow, CheckSequence,
      CommitManualSubmission, RefuseSubmission, LookupPayout, LoseKeyRace,
      RecheckClosing, CommitRejection, ReadSettlement, CountMilestones,
      ListMilestones, CloseEscrow
<1> QED BY <1>1, <1>2, <1>3, <1>4, <1>5 DEF Next

\* "Execute (or reuse) a payout in an idempotent fashion" (payments.py) is so for
\* requests that do not overlap, as long as no payment was stored earlier and
\* the provider reports no failure.
THEOREM OnePaymentWhenSerial ==
  MaxInFlight = 1 /\ Seeded = {} /\ "failed" \notin PspReports /\ Spec =>
    []OnePaymentPerMilestone
<1> SUFFICES ASSUME MaxInFlight = 1, Seeded = {}, "failed" \notin PspReports
             PROVE  Spec => []OnePaymentPerMilestone
  OBVIOUS
<1>1. IInv /\ SerialInv /\ [Next]_vars => SerialInv'
  BY NextSerial
<1>2. Init => NoStoredPayment /\ OnceInv
  <2> SUFFICES ASSUME Init
               PROVE  NoStoredPayment /\ OnceInv
    OBVIOUS
  <2>1. \A m \in Milestones, route \in Routes : payment[m, route] = "NONE"
    BY DEF Init
  <2>2. \A r \in Requests : req[r].at = "idle"
    BY DEF Init, Blank
  <2> QED BY <2>1, <2>2
          DEF NoStoredPayment, OnceInv, DebitIsLatest, FreshWhenPaying, NothingFailed,
              Debiting, Routes
<1>3. IInv /\ NoStoredPayment /\ [Next]_vars => NoStoredPayment'
  BY NothingStored
<1>4. IInv /\ SerialInv /\ NoStoredPayment /\ OnceInv /\ [Next]_vars => OnceInv'
  BY OnceStep
<1>5. OnceInv => OnePaymentPerMilestone
  <2> SUFFICES ASSUME OnceInv, NEW m \in Milestones
               PROVE  Cardinality({route \in Routes : payment[m, route] \in Debiting}) <= 1
    BY DEF OnePaymentPerMilestone
  <2> DEFINE S == {route \in Routes : payment[m, route] \in Debiting}
  <2>1. S \subseteq {latest[m]}
    BY DEF OnceInv, DebitIsLatest
  <2>2. S = {} \/ S = {latest[m]}
    BY <2>1
  <2>3. Cardinality({}) = 0 /\ Cardinality({latest[m]}) = 1
    BY FS_EmptySet, FS_Singleton
  <2>4. Cardinality(S) <= 1
    <3>1. Cardinality(S) = 0 \/ Cardinality(S) = 1
      BY <2>2, <2>3
    <3> HIDE DEF S
    <3> QED BY <3>1
  <2> QED BY <2>4
<1> QED BY <1>1, <1>2, <1>3, <1>4, <1>5, InitSerial, InductiveInvariant, PTL DEF Spec

\* A key that requests create is transferred with its row, if at all.
TransferNeedsRow ==
  \A m \in Milestones, route \in {"auto", "review"} :
    /\ transfers[m, route] <= 1
    /\ payment[m, route] = "NONE" => transfers[m, route] = 0

\* A row that stays keeps what its transfers may be.
LEMMA RowsStay ==
  ASSUME TransferNeedsRow,
         \A m \in Milestones, route \in {"auto", "review"} :
           /\ transfers'[m, route] = transfers[m, route]
           /\ payment[m, route] # "NONE" => payment'[m, route] # "NONE"
  PROVE  TransferNeedsRow'
  BY DEF TransferNeedsRow

LEMMA InitTransfers == Init => TransferNeedsRow
<1> SUFFICES ASSUME Init, NEW m \in Milestones, NEW route \in {"auto", "review"}
             PROVE  transfers[m, route] <= 1 /\ transfers[m, route] = 0
  BY DEF TransferNeedsRow
<1>1. <<m, route>> \in Milestones \X Routes
  BY DEF Routes
<1>2. transfers = [k \in Milestones \X Routes |-> 0]
  BY DEF Init
<1>3. transfers[m, route] = 0
  BY <1>1, <1>2
<1>4. 0 <= 1
  OBVIOUS
<1> QED BY <1>3, <1>4

\* However many requests overlap, the provider is asked for the transfer of a
\* payment at most once for each key that requests create, if no request dies:
\* the unique key is inserted before.
THEOREM KeyTransferredOnce == ~Failures /\ Spec => []KeyTransferredAtMostOnce
<1> SUFFICES ASSUME ~Failures
             PROVE  Spec => []KeyTransferredAtMostOnce
  OBVIOUS
<1>1. Init => TransferNeedsRow
  BY InitTransfers
<1>2. IInv /\ TransferNeedsRow /\ [Next]_vars => TransferNeedsRow'
  <2> SUFFICES ASSUME IInv, TransferNeedsRow, [Next]_vars
               PROVE  TransferNeedsRow'
    OBVIOUS
  <2>a. TypeOK /\ Lasting
    BY NextTables DEF IInv
  <2>b. \A m \in Milestones, route \in {"auto", "review"} :
          payment[m, route] # "NONE" => payment'[m, route] # "NONE"
    BY <2>a DEF Lasting, Routes
  <2>1. ASSUME NEW r \in Requests, CommitAutoSubmission(r) \/ PayApproved(r)
        PROVE  TransferNeedsRow'
    <3>1. req[r].ms \in Milestones
      BY <2>a DEF TypeOK, RequestState
    <3>2. PICK route \in {"auto", "review"} :
            payment[req[r].ms, route] = "NONE" /\ Pay(req[r].ms, route)
      BY <2>1 DEF CommitAutoSubmission, PayApproved, MayPay
    <3> DEFINE k0 == <<req[r].ms, route>>
    <3>3. k0 \in Milestones \X Routes /\ transfers[k0] = 0
      BY <3>1, <3>2 DEF TransferNeedsRow, Routes
    <3>4. /\ transfers' \in {transfers, [transfers EXCEPT ![k0] = transfers[k0] + 1]}
          /\ payment' = [payment EXCEPT ![k0] = "SENT"]
      BY <3>2 DEF Pay, Send
    <3> HIDE DEF k0
    <3>5. /\ transfers'[k0] <= 1 /\ payment'[k0] = "SENT"
          /\ \A k \in (Milestones \X Routes) \ {k0} : transfers'[k] = transfers[k]
      BY <2>a, <3>3, <3>4 DEF TypeOK
    <3>6. ASSUME NEW n \in Milestones, NEW way \in {"auto", "review"}
          PROVE  /\ transfers'[n, way] <= 1
                 /\ payment'[n, way] = "NONE" => transfers'[n, way] = 0
      <4>1. <<n, way>> \in Milestones \X Routes
        BY DEF Routes
      <4>2. CASE <<n, way>> = k0
        BY <3>5, <4>2
      <4>3. CASE <<n, way>> # k0
        <5>1. transfers'[n, way] = transfers[n, way]
          BY <3>5, <4>1, <4>3
        <5> QED BY <2>b, <4>1, <5>1 DEF TransferNeedsRow
      <4> QED BY <4>2, <4>3
    <3> QED BY <3>6 DEF TransferNeedsRow
  <2>2. ASSUME NEW r \in Requests, CommitExecution(r)
        PROVE  TransferNeedsRow'
    <3>1. \A n \in Milestones, way \in {"auto", "review"} :
            transfers'[n, way] = transfers[n, way]
      <4> DEFINE k0 == <<req[r].ms, "seed">>
      <4>1. \A n \in Milestones, way \in {"auto", "review"} :
              <<n, way>> \in (Milestones \X Routes) \ {k0}
        BY DEF Routes
      <4>2. transfers' \in {transfers, [transfers EXCEPT ![k0] = transfers[k0] + 1]}
        BY <2>2 DEF CommitExecution, Send
      <4> HIDE DEF k0
      <4>3. \A k \in (Milestones \X Routes) \ {k0} : transfers'[k] = transfers[k]
        BY <2>a, <4>2 DEF TypeOK
      <4> QED BY <4>1, <4>3
    <3> QED BY <2>b, <3>1, RowsStay
  <2>3. CASE UNCHANGED transfers
    BY <2>b, <2>3, RowsStay
  <2>4. ASSUME NEW r \in Requests, Start(r) \/ Step(r) \/ Die(r) \/ DieAfterTransfer(r)
        PROVE  \/ UNCHANGED transfers
               \/ CommitAutoSubmission(r) \/ PayApproved(r) \/ CommitExecution(r)
    BY <2>4, EndpointShape
    DEF Start, Step, Die, DieAfterTransfer, db, LoadSubmission, LoadApproval,
        LoadRejection, LoadExecution, LoadEscrow, CheckSequence,
        CommitManualSubmission, RefuseSubmission, LookupPayout, LoseKeyRace,
        RecheckClosing, CommitRejection, ReadSettlement, CommitSettlement,
        CountMilestones, ListMilestones, CloseEscrow
  <2>5. ASSUME NEW m \in Milestones, NEW route \in Routes,
               PspSettled(m, route) \/ PspFailed(m, route)
        PROVE  UNCHANGED transfers
    BY <2>5 DEF PspSettled, PspFailed
  <2> QED BY <2>1, <2>2, <2>3, <2>4, <2>5 DEF Next, vars
<1>3. TransferNeedsRow => KeyTransferredAtMostOnce
  BY DEF TransferNeedsRow, KeyTransferredAtMostOnce
<1> QED BY <1>1, <1>2, <1>3, InductiveInvariant, PTL DEF Spec
=============================================================================
