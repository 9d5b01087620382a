------------------------------ MODULE Payouts ------------------------------
(***************************************************************************)
(* Milestone payouts of one escrow: the proofs submitted for its           *)
(* milestones, the review of those proofs, the payments they trigger, the  *)
(* closing of the escrow, the calls of its client and provider that set its*)
(* status, and the notifications of the payment provider                   *)
(* (app/services/proofs.py, payments.py, escrow.py, psp_webhooks.py).      *)
(*                                                                         *)
(* Requests are served by a pool of threads, each with its own SQLAlchemy  *)
(* session on SQLite (app/db.py: autoflush off, expire_on_commit off).     *)
(* A request therefore runs in two kinds of atomic pieces:                 *)
(*   - a read, which sees the committed state and whose result stays in    *)
(*     the identity map of the session while other requests commit;        *)
(*   - a write section, from the first flush to the commit: it holds the   *)
(*     only write lock, its own reads are current, nobody sees it before   *)
(*     the commit, and it vanishes if the request dies first.              *)
(* One action below is one such piece of one handler.  SELECT ... FOR      *)
(* UPDATE is a no-op on SQLite, and rows carry no version.                 *)
(***************************************************************************)
EXTENDS Integers, FiniteSets, FiniteSetsExt

CONSTANTS
  Requests,     \* HTTP requests that may ever be served, each at most once
  Proofs,       \* proof files; their sha256 is unique in the proofs table
  NoProof,      \* no proof file
  N,            \* number of milestones, whose idx are 1..N
  Amount,       \* the amount of each milestone
  ProofFor,     \* the milestone each proof file documents
  Seeded,       \* milestones stored with a PENDING payment before we look
  AmountTotal,  \* the amount the escrow was created for
  Deposited,    \* what was deposited on the escrow before we look
  Instalment,   \* what each request deposits, if it is a deposit
  MaxInFlight,  \* requests and notifications served at the same time
  Failures,     \* whether a request may die half-way
  EscrowCalls,  \* calls of the endpoints of the escrow itself
  PspReports    \* kinds of notifications the payment provider sends

Milestones == 1..N

ASSUME PayoutsAssumption ==
  /\ N \in Nat \ {0}
  /\ Amount \in [Milestones -> Nat \ {0}]
  /\ ProofFor \in [Proofs -> Milestones]
  /\ NoProof \notin Proofs
  /\ Seeded \subseteq Milestones
  /\ \A m \in Seeded : 1..m \subseteq Seeded
  /\ AmountTotal \in Nat /\ Deposited \in Nat
  /\ Instalment \in [Requests -> Nat]
  /\ MaxInFlight \in Nat
  /\ Failures \in BOOLEAN
  /\ EscrowCalls \subseteq {"mark_delivered", "client_approve", "client_reject", "deposit"}
  /\ PspReports \subseteq {"settled", "failed"}

EscrowStatus ==
  {"DRAFT", "FUNDED", "RELEASABLE", "RELEASED", "REFUNDED", "CANCELLED"}
MilestoneStatus ==
  {"WAITING", "PENDING_REVIEW", "APPROVED", "REJECTED", "PAYING", "PAID"}
OpenStates == {"WAITING", "PENDING_REVIEW", "APPROVED", "PAYING"}
PaymentStatus == {"PENDING", "SENT", "SETTLED", "ERROR"}
ProofStatus == {"PENDING", "APPROVED", "REJECTED"}

\* How a payment came to be, which is all that tells the idempotency keys of
\* one milestone apart: automatic approval and review use two key formats.
Routes == {"auto", "review", "seed"}

VARIABLES
  escrow,       \* status of the escrow
  milestone,    \* status of each milestone
  proof,        \* status of each proof, "NONE" when it has no row
  payment,      \* status of the payment of each key, "NONE" when it has no row
  latest,       \* route of the last payment created for each milestone
  transfers,    \* transfers the provider executed for each key
  deposited,    \* what has been deposited on the escrow
  closed,       \* number of CLOSED events in the timeline of the escrow
  clientApproved,  \* the timeline has a CLIENT_APPROVED event
  req           \* progress of each request and what its session remembers

db == <<escrow, milestone, proof, payment, latest, transfers, deposited, closed,
        clientApproved>>
vars == <<escrow, milestone, proof, payment, latest, transfers, deposited, closed,
          clientApproved, req>>

\* What only the calls of the escrow endpoints change.
account == <<deposited, clientApproved>>

\* Where a request stands: the piece it executes next.
Stages ==
  {"idle", "check", "write", "lookup", "pay", "recheck", "reject",
   "transfer", "settle", "settle_only", "settle_close", "post1", "post2",
   "close", "mark_delivered", "client_approve", "client_reject", "deposit",
   "deposit_only", "deposit_fund", "done"}

RequestState ==
  [at : Stages, route : Routes \cup {"manual"}, ms : Milestones,
   proof : Proofs \cup {NoProof}, seenMs : MilestoneStatus,
   seenEscrow : EscrowStatus]

\* A request that remembers nothing, before it starts and after it ends.
Blank(stage) ==
  [at |-> stage, route |-> "manual", ms |-> 1, proof |-> NoProof,
   seenMs |-> "WAITING", seenEscrow |-> "DRAFT"]

TypeOK ==
  /\ escrow \in EscrowStatus
  /\ milestone \in [Milestones -> MilestoneStatus]
  /\ proof \in [Proofs -> ProofStatus \cup {"NONE"}]
  /\ payment \in [Milestones \X Routes -> PaymentStatus \cup {"NONE"}]
  /\ latest \in [Milestones -> Routes \cup {"none"}]
  /\ transfers \in [Milestones \X Routes -> Nat]
  /\ deposited \in Nat
  /\ closed \in Nat
  /\ clientApproved \in BOOLEAN
  /\ req \in [Requests -> RequestState]

Init ==
  /\ escrow = IF Deposited >= AmountTotal THEN "FUNDED" ELSE "DRAFT"
  /\ milestone = [m \in Milestones |->
                    IF m \in Seeded THEN "APPROVED" ELSE "WAITING"]
  /\ proof = [p \in Proofs |-> "NONE"]
  /\ payment = [k \in Milestones \X Routes |->
                  IF k[1] \in Seeded /\ k[2] = "seed" THEN "PENDING" ELSE "NONE"]
  /\ latest = [m \in Milestones |-> IF m \in Seeded THEN "seed" ELSE "none"]
  /\ transfers = [k \in Milestones \X Routes |-> 0]
  /\ deposited = Deposited
  /\ closed = 0
  /\ clientApproved = FALSE
  /\ req = [r \in Requests |-> Blank("idle")]

-----------------------------------------------------------------------------
(***************************************************************************)
(* Queries on the committed state.                                         *)
(***************************************************************************)

\* Payments that debit the escrow.
Debiting == {"SENT", "SETTLED"}

Debited ==
  SumFunctionOnSet([k \in Milestones \X Routes |-> Amount[k[1]]],
                   {k \in Milestones \X Routes : payment[k] \in Debiting})

\* Plausible bug: settled payments no longer count.
AvailableIgnoringSettled ==
  deposited - SumFunctionOnSet([k \in Milestones \X Routes |-> Amount[k[1]]],
                {k \in Milestones \X Routes : payment[k] = "SENT"})

\* What is left on the escrow for payouts.
Available == deposited - Debited

\* The last payment of the milestone is already on its way: reuse it.  (Each
\* such payment has a key: the branch that gives it one is never taken.)
Reusable(m) == latest[m] # "none" /\ payment[m, latest[m]] \in Debiting

\* execute_payout creates a payment of milestone m under a fresh key.
MayPay(m, route) ==
  /\ payment[m, route] = "NONE"
  /\ ~Reusable(m)
  /\ Available >= Amount[m]

\* Plausible bug: any open milestone accepts a proof.
IsOpen(m) == milestone[m] \in OpenStates

\* The first open milestone, the only one that accepts a proof.
IsCurrent(m) ==
  /\ milestone[m] \in OpenStates
  /\ \A j \in 1..(m - 1) : milestone[j] \notin OpenStates

\* Plausible bug: one paid milestone is enough.
AnyPaid == \E m \in Milestones : milestone[m] = "PAID"

AllPaid == \A m \in Milestones : milestone[m] = "PAID"

-----------------------------------------------------------------------------
(***************************************************************************)
(* Requests.                                                               *)
(***************************************************************************)
InFlight == {r \in Requests : req[r].at \notin {"idle", "done"}}

CanStart(r) ==
  /\ req[r].at = "idle"
  /\ Cardinality(InFlight) < MaxInFlight

Goto(r, stage) == req' = [req EXCEPT ![r].at = stage]
Finish(r) == req' = [req EXCEPT ![r] = Blank("done")]

\* _send_payout_via_psp: Stripe transfers the money, or, without Stripe Connect
\* or without an account of the provider, the stub invents a reference and the
\* payment is SENT though no transfer was made.
Send(m, route) ==
  transfers' \in {transfers, [transfers EXCEPT ![<<m, route>>] = @ + 1]}

\* The insert of the payment row, its sending and the PAID milestone, which one
\* commit makes visible together.
Pay(m, route) ==
  /\ payment' = [payment EXCEPT ![<<m, route>>] = "SENT"]
  /\ latest' = [latest EXCEPT ![m] = route]
  /\ Send(m, route)
  /\ milestone' = [milestone EXCEPT ![m] = "PAID"]

(***************************************************************************)
(* POST /proofs.  The milestone is loaded first, before the metadata, OCR  *)
(* and AI checks, and its WAITING status is tested on that copy; the query *)
(* for the current milestone runs later.  A proof whose photo passes every *)
(* check is approved at once ("auto"), any other awaits review ("manual"). *)
(* Requests that would be refused on the loaded status leave no trace.     *)
(***************************************************************************)
LoadSubmission(r, p, route) ==
  /\ CanStart(r)
  /\ milestone[ProofFor[p]] = "WAITING"
  /\ req' = [req EXCEPT ![r] = [Blank("check") EXCEPT
               !.route = route, !.ms = ProofFor[p], !.proof = p]]
  /\ UNCHANGED db

CheckSequence(r) ==
  /\ req[r].at = "check"
  /\ IF IsCurrent(req[r].ms) THEN Goto(r, "write") ELSE Finish(r)
  /\ UNCHANGED db

\* Plausible bug: the proof is given the status of its milestone.
SubmitUnderMilestoneStatus(r) ==
  /\ req[r].at = "write" /\ req[r].route = "manual"
  /\ proof[req[r].proof] = "NONE"
  /\ proof' = [proof EXCEPT ![req[r].proof] = "PENDING_REVIEW"]
  /\ milestone' = [milestone EXCEPT ![req[r].ms] = "PENDING_REVIEW"]
  /\ Finish(r)
  /\ UNCHANGED <<escrow, payment, latest, transfers, closed, account>>

\* The write section of a proof that awaits review.
CommitManualSubmission(r) ==
  LET p == req[r].proof  m == req[r].ms IN
  /\ req[r].at = "write" /\ req[r].route = "manual"
  /\ proof[p] = "NONE"
  /\ proof' = [proof EXCEPT ![p] = "PENDING"]
  /\ milestone' = [milestone EXCEPT ![m] = "PENDING_REVIEW"]
  /\ Finish(r)
  /\ UNCHANGED <<escrow, payment, latest, transfers, closed, account>>

\* Plausible bug: nothing follows the commit of the payout.
SubmitWithoutPostPayment(r) ==
  LET p == req[r].proof  m == req[r].ms IN
  /\ req[r].at = "write" /\ req[r].route = "auto"
  /\ proof[p] = "NONE"
  /\ MayPay(m, "auto")
  /\ proof' = [proof EXCEPT ![p] = "APPROVED"]
  /\ Pay(m, "auto")
  /\ Finish(r)
  /\ UNCHANGED <<escrow, closed, account>>

\* The write section of an automatically approved proof: the flush of the
\* proof opens it, so the lookups of execute_payout are current.
CommitAutoSubmission(r) ==
  LET p == req[r].proof  m == req[r].ms IN
  /\ req[r].at = "write" /\ req[r].route = "auto"
  /\ proof[p] = "NONE"
  /\ MayPay(m, "auto")
  /\ proof' = [proof EXCEPT ![p] = "APPROVED"]
  /\ Pay(m, "auto")
  /\ req' = [req EXCEPT ![r].at = "post1", ![r].seenEscrow = escrow]
  /\ UNCHANGED <<escrow, closed, account>>

\* Plausible bug: a refused payout marks the milestone paid.
RefuseButMarkPaid(r) ==
  /\ req[r].at = "write" /\ req[r].route = "auto" /\ ~MayPay(req[r].ms, "auto")
  /\ milestone' = [milestone EXCEPT ![req[r].ms] = "PAID"]
  /\ Finish(r)
  /\ UNCHANGED <<escrow, proof, payment, latest, transfers, closed, account>>

\* The sha256 is taken, the payout is refused, or an earlier payment is
\* reused: execute_payout then returns without a commit and the session is
\* closed with the proof uncommitted.
RefuseSubmission(r) ==
  /\ req[r].at = "write"
  /\ \/ proof[req[r].proof] # "NONE"
     \/ req[r].route = "auto" /\ ~MayPay(req[r].ms, "auto")
  /\ Finish(r)
  /\ UNCHANGED db

(***************************************************************************)
(* POST /proofs/{id}/decision, approve.  All the lookups of execute_payout *)
(* precede the first flush, so they run outside the write section.         *)
(***************************************************************************)
LoadApproval(r, p) ==
  /\ CanStart(r)
  /\ proof[p] = "PENDING"
  /\ req' = [req EXCEPT ![r] = [Blank("lookup") EXCEPT
               !.route = "review", !.ms = ProofFor[p], !.proof = p,
               !.seenEscrow = escrow]]
  /\ UNCHANGED db

\* A payment in ERROR or an insufficient balance rolls back; a payment that
\* is reused is returned without a commit, and the refresh of the proof and of
\* the milestone drops their pending changes.
LookupPayout(r) ==
  /\ req[r].at = "lookup"
  /\ IF MayPay(req[r].ms, "review") THEN Goto(r, "pay") ELSE Finish(r)
  /\ UNCHANGED db

PayApproved(r) ==
  LET p == req[r].proof  m == req[r].ms IN
  /\ req[r].at = "pay"
  /\ payment[m, "review"] = "NONE"
  /\ proof' = [proof EXCEPT ![p] = "APPROVED"]
  /\ Pay(m, "review")
  /\ Goto(r, "post1")
  /\ UNCHANGED <<escrow, closed, account>>

\* Plausible bug: the transfer precedes the insert, so the loser makes one too.
TransferThenLoseKeyRace(r) ==
  /\ req[r].at = "pay"
  /\ payment[req[r].ms, "review"] # "NONE"
  /\ Send(req[r].ms, "review")
  /\ Goto(r, "recheck")
  /\ UNCHANGED <<escrow, milestone, proof, payment, latest, closed, account>>

\* The unique key is taken: rollback, reload, and return the other payment.
LoseKeyRace(r) ==
  /\ req[r].at = "pay"
  /\ payment[req[r].ms, "review"] # "NONE"
  /\ Goto(r, "recheck")
  /\ UNCHANGED db

\* After the rollback every attribute is read again.
RecheckClosing(r) ==
  /\ req[r].at = "recheck"
  /\ IF AllPaid /\ escrow # "RELEASED" THEN Goto(r, "close") ELSE Finish(r)
  /\ UNCHANGED db

(***************************************************************************)
(* POST /proofs/{id}/decision, reject.  The ORM emits an UPDATE only for a *)
(* status that differs from the one it loaded.                             *)
(***************************************************************************)
\* Plausible bug: an approved proof is not protected.
LoadAnyRejection(r, p) ==
  /\ CanStart(r)
  /\ proof[p] \in {"PENDING", "APPROVED"}
  /\ req' = [req EXCEPT ![r] = [Blank("reject") EXCEPT
               !.ms = ProofFor[p], !.proof = p, !.seenMs = milestone[ProofFor[p]]]]
  /\ UNCHANGED db

LoadRejection(r, p) ==
  /\ CanStart(r)
  /\ proof[p] = "PENDING"
  /\ req' = [req EXCEPT ![r] = [Blank("reject") EXCEPT
               !.ms = ProofFor[p], !.proof = p, !.seenMs = milestone[ProofFor[p]]]]
  /\ UNCHANGED db

CommitRejection(r) ==
  LET p == req[r].proof  m == req[r].ms IN
  /\ req[r].at = "reject"
  /\ proof' = [proof EXCEPT ![p] = "REJECTED"]
  /\ milestone' = IF req[r].seenMs = "REJECTED" THEN milestone
                  ELSE [milestone EXCEPT ![m] = "REJECTED"]
  /\ Finish(r)
  /\ UNCHANGED <<escrow, payment, latest, transfers, closed, account>>

(***************************************************************************)
(* POST /payments/execute/{id} on a stored PENDING payment.  The payment   *)
(* stays in the identity map: whoever loaded it PENDING sends it.          *)
(***************************************************************************)
LoadExecution(r, m) ==
  /\ CanStart(r)
  /\ payment[m, "seed"] = "PENDING"
  /\ req' = [req EXCEPT ![r] = [Blank("transfer") EXCEPT
               !.route = "seed", !.ms = m, !.seenMs = milestone[m],
               !.seenEscrow = escrow]]
  /\ UNCHANGED db

CommitExecution(r) ==
  LET m == req[r].ms IN
  /\ req[r].at = "transfer"
  /\ payment' = [payment EXCEPT ![<<m, "seed">>] = "SENT"]
  /\ Send(m, "seed")
  /\ milestone' = IF req[r].seenMs = "PAID" THEN milestone
                  ELSE [milestone EXCEPT ![m] = "PAID"]
  /\ Goto(r, "settle")
  /\ UNCHANGED <<escrow, proof, latest, closed, account>>

\* finalize_payment_settlement: the payment is refreshed and the milestones
\* are counted, then one commit settles the payment and may close the escrow.
ReadSettlement(r) ==
  /\ req[r].at = "settle"
  /\ IF payment[req[r].ms, "seed"] = "SETTLED" THEN Finish(r)
     ELSE Goto(r, IF AllPaid /\ req[r].seenEscrow # "RELEASED"
                  THEN "settle_close" ELSE "settle_only")
  /\ UNCHANGED db

CommitSettlement(r) ==
  /\ req[r].at \in {"settle_only", "settle_close"}
  /\ payment' = [payment EXCEPT ![<<req[r].ms, "seed">>] = "SETTLED"]
  /\ IF req[r].at = "settle_close"
     THEN escrow' = "RELEASED" /\ closed' = closed + 1
     ELSE UNCHANGED <<escrow, closed>>
  /\ Finish(r)
  /\ UNCHANGED <<milestone, proof, latest, transfers, account>>

(***************************************************************************)
(* After a payout is committed: payments._finalize_escrow_if_paid counts   *)
(* the milestones, then proofs._handle_post_payment lists them, its own    *)
(* one as refreshed by the payout.  Each tests the escrow loaded before    *)
(* the payout, and closes it in a commit of its own.                       *)
(***************************************************************************)
CountMilestones(r) ==
  /\ req[r].at = "post1"
  /\ Goto(r, IF AllPaid /\ req[r].seenEscrow # "RELEASED" THEN "close" ELSE "post2")
  /\ UNCHANGED db

ListMilestones(r) ==
  /\ req[r].at = "post2"
  /\ IF /\ \A m \in Milestones \ {req[r].ms} : milestone[m] = "PAID"
        /\ req[r].seenEscrow # "RELEASED"
     THEN Goto(r, "close")
     ELSE Finish(r)
  /\ UNCHANGED db

CloseEscrow(r) ==
  /\ req[r].at = "close"
  /\ escrow' = "RELEASED"
  /\ closed' = closed + 1
  /\ Finish(r)
  /\ UNCHANGED <<milestone, proof, payment, latest, transfers, account>>

(***************************************************************************)
(* The endpoints of the escrow (escrow.py): the provider declares it       *)
(* delivered, the client approves or refuses it, money is deposited.  Each *)
(* loads the escrow, then writes the status it wants whatever became of the*)
(* escrow since, unless it loaded that very status.  No payout looks at the*)
(* outcome.  A deposit under a known key leaves no trace.  check_deadline  *)
(* compares a naive date with an aware one and raises.                     *)
(***************************************************************************)
LoadEscrow(r, call) ==
  /\ CanStart(r)
  /\ call = "client_reject" => escrow \notin {"RELEASED", "REFUNDED", "CANCELLED"}
  /\ req' = [req EXCEPT ![r] = [Blank(call) EXCEPT !.seenEscrow = escrow]]
  /\ UNCHANGED db

SetEscrow(r, status) ==
  escrow' = IF req[r].seenEscrow = status THEN escrow ELSE status

CommitDelivery(r) ==
  /\ req[r].at = "mark_delivered"
  /\ SetEscrow(r, "RELEASABLE")
  /\ Finish(r)
  /\ UNCHANGED <<milestone, proof, payment, latest, transfers, closed, account>>

CommitClientApproval(r) ==
  /\ req[r].at = "client_approve"
  /\ SetEscrow(r, "RELEASED")
  /\ clientApproved' = TRUE
  /\ Finish(r)
  /\ UNCHANGED <<milestone, proof, payment, latest, transfers, deposited, closed>>

CommitClientReject(r) ==
  /\ req[r].at = "client_reject"
  /\ SetEscrow(r, IF req[r].seenEscrow \in {"FUNDED", "RELEASABLE"}
                  THEN "REFUNDED" ELSE "CANCELLED")
  /\ Finish(r)
  /\ UNCHANGED <<milestone, proof, payment, latest, transfers, closed, account>>

\* The deposits are summed outside the write section, a while after the escrow
\* was loaded.
SumDeposits(r) ==
  /\ req[r].at = "deposit"
  /\ Goto(r, IF deposited + Instalment[r] >= AmountTotal
             THEN "deposit_fund" ELSE "deposit_only")
  /\ UNCHANGED db

CommitDeposit(r) ==
  /\ req[r].at \in {"deposit_only", "deposit_fund"}
  /\ deposited' = deposited + Instalment[r]
  /\ IF req[r].at = "deposit_fund" THEN SetEscrow(r, "FUNDED") ELSE UNCHANGED escrow
  /\ Finish(r)
  /\ UNCHANGED <<milestone, proof, payment, latest, transfers, closed, clientApproved>>

(***************************************************************************)
(* Notifications of the provider about payments that were sent; each one   *)
(* may come at any time, in any order, and the code does not ask how the   *)
(* payment was sent.  A settlement names the psp_ref, which is committed   *)
(* with SENT; a failure may name the payment id, so it also finds a stored *)
(* payment whose sender died.  The insert of the event opens the write     *)
(* section, so the rest is current.                                        *)
(***************************************************************************)
\* Plausible bug: a late settlement closes the escrow again.
PspSettledAlwaysCloses(m, route) ==
  /\ "settled" \in PspReports /\ Cardinality(InFlight) < MaxInFlight
  /\ payment[m, route] \in {"SENT", "ERROR"}
  /\ payment' = [payment EXCEPT ![<<m, route>>] = "SETTLED"]
  /\ IF AllPaid
     THEN escrow' = "RELEASED" /\ closed' = closed + 1
     ELSE UNCHANGED <<escrow, closed>>
  /\ UNCHANGED <<milestone, proof, latest, transfers, account, req>>

PspSettled(m, route) ==
  /\ "settled" \in PspReports /\ Cardinality(InFlight) < MaxInFlight
  /\ payment[m, route] \in {"SENT", "ERROR"}
  /\ payment' = [payment EXCEPT ![<<m, route>>] = "SETTLED"]
  /\ IF AllPaid /\ escrow # "RELEASED"
     THEN escrow' = "RELEASED" /\ closed' = closed + 1
     ELSE UNCHANGED <<escrow, closed>>
  /\ UNCHANGED <<milestone, proof, latest, transfers, account, req>>

PspFailed(m, route) ==
  /\ "failed" \in PspReports /\ Cardinality(InFlight) < MaxInFlight
  /\ \/ payment[m, route] \in {"SENT", "SETTLED"}
     \/ payment[m, route] = "PENDING" /\ transfers[m, route] > 0
  /\ payment' = [payment EXCEPT ![<<m, route>>] = "ERROR"]
  /\ UNCHANGED <<escrow, milestone, proof, latest, transfers, closed, account, req>>

(***************************************************************************)
(* A request dies: process killed, 502 of the provider, lock timeout.  What*)
(* it had not committed is gone, but a transfer already made is not.       *)
(***************************************************************************)
Die(r) ==
  /\ Failures
  /\ r \in InFlight
  /\ Finish(r)
  /\ UNCHANGED db

DieAfterTransfer(r) ==
  LET m == req[r].ms  route == req[r].route IN
  /\ Failures
  /\ \/ req[r].at = "write" /\ route = "auto"
        /\ proof[req[r].proof] = "NONE" /\ MayPay(m, route)
     \/ req[r].at = "pay" /\ payment[m, route] = "NONE"
     \/ req[r].at = "transfer"
  /\ transfers' = [transfers EXCEPT ![<<m, route>>] = @ + 1]
  /\ Finish(r)
  /\ UNCHANGED <<escrow, milestone, proof, payment, latest, closed, account>>

-----------------------------------------------------------------------------
Start(r) ==
  \/ \E p \in Proofs : \E route \in {"auto", "manual"} : LoadSubmission(r, p, route)
  \/ \E p \in Proofs : LoadApproval(r, p)
  \/ \E p \in Proofs : LoadRejection(r, p)
  \/ \E m \in Milestones : LoadExecution(r, m)
  \/ \E call \in EscrowCalls : LoadEscrow(r, call)

\* The next piece of a call of the escrow itself.
EscrowEndpoint(r) ==
  \/ CommitDelivery(r)
  \/ CommitClientApproval(r)
  \/ CommitClientReject(r)
  \/ SumDeposits(r)
  \/ CommitDeposit(r)

\* The next piece of a request that has started.
Step(r) ==
  \/ CheckSequence(r)
  \/ CommitManualSubmission(r)
  \/ CommitAutoSubmission(r)
  \/ RefuseSubmission(r)
  \/ LookupPayout(r)
  \/ PayApproved(r)
  \/ LoseKeyRace(r)
  \/ RecheckClosing(r)
  \/ CommitRejection(r)
  \/ CommitExecution(r)
  \/ ReadSettlement(r)
  \/ CommitSettlement(r)
  \/ CountMilestones(r)
  \/ ListMilestones(r)
  \/ CloseEscrow(r)
  \/ EscrowEndpoint(r)

Next ==
  \/ \E r \in Requests : Start(r) \/ Step(r) \/ Die(r) \/ DieAfterTransfer(r)
  \/ \E m \in Milestones, route \in Routes : PspSettled(m, route) \/ PspFailed(m, route)

Spec == Init /\ [][Next]_vars

\* A thread that serves a request runs it to its end; nobody has to send one.
Fairness == \A r \in Requests : WF_vars(Step(r))
FairSpec == Spec /\ Fairness

-----------------------------------------------------------------------------
(***************************************************************************)
(* Properties that hold for any number of overlapping requests, with       *)
(* deaths and with provider notifications in any order.                    *)
(***************************************************************************)

\* A payment of milestone m was sent, be it by the stub, whatever became of it.
PaidFor(m) == \E route \in Routes : payment[m, route] \notin {"NONE", "PENDING"}

\* A PAID milestone has a payment that was sent: no race, reuse or crash lets
\* the status of the milestone run ahead of the payments table.
PaidMilestoneHasPayment ==
  \A m \in Milestones : milestone[m] = "PAID" => PaidFor(m)

\* A proof that is APPROVED has been paid for: the approval and the payment
\* are one commit, also when execute_payout reuses, refuses or loses a race.
ApprovedProofIsPaid ==
  \A p \in Proofs : proof[p] = "APPROVED" => PaidFor(ProofFor[p])

\* The CLOSED event is written only when every milestone was paid for, though
\* the milestones are counted and the escrow is loaded outside its commit.
ClosedOnlyWhenPaid ==
  closed > 0 => \A m \in Milestones : PaidFor(m)

\* No milestone receives a proof while an earlier one never had any: the
\* sequence check of submit_proof is not fooled by concurrent submissions.
NoMilestoneSkipped ==
  \A m \in Milestones : milestone[m] # "WAITING" =>
    \A j \in 1..(m - 1) : milestone[j] # "WAITING"

\* What request r concluded from earlier reads.
Remembers(r) ==
  LET m == req[r].ms  p == req[r].proof  at == req[r].at IN
  /\ at \in {"check", "write", "lookup", "pay", "reject"} =>
       p \in Proofs /\ m = ProofFor[p]
  /\ at = "write" => \A j \in 1..(m - 1) : milestone[j] # "WAITING"
  /\ at \in {"lookup", "pay", "reject"} => proof[p] # "NONE"
  /\ at = "transfer" => payment[m, "seed"] # "NONE"
  /\ at \in {"settle", "settle_only", "settle_close"} =>
       payment[m, "seed"] \notin {"NONE", "PENDING"}
  /\ at \in {"post1", "post2"} => PaidFor(m)
  /\ at \in {"close", "settle_close"} => \A n \in Milestones : PaidFor(n)

\* It is still true when the request acts on it, however stale the rows its
\* session remembers: the milestones before the one it submits for have left
\* WAITING, the proof it decides on was submitted, the milestone it settles was
\* paid for, and all of them were when it is about to close.
MemoryStillTrue == \A r \in Requests : Remembers(r)

\* The payouts keep the promise of PayoutPromise.
Promise == INSTANCE PayoutPromise WITH
  paidFor <- {m \in Milestones : PaidFor(m)},
  approved <- {p \in Proofs : proof[p] = "APPROVED"},
  isClosed <- closed > 0
KeepsPromise == Promise!Spec

(***************************************************************************)
(* Properties of requests that do not overlap (MaxInFlight = 1).           *)
(***************************************************************************)

\* Some payment is sent in this step.
SendsPayment ==
  \E m \in Milestones, route \in Routes :
    payment[m, route] # "SENT" /\ payment'[m, route] = "SENT"

\* A payout never takes more than what is left of the deposits.
PayoutsAffordable == [][SendsPayment => Debited' <= deposited]_vars

\* A decision on a proof is final.
DecisionIsFinal ==
  [][\A p \in Proofs :
       proof[p] \in {"APPROVED", "REJECTED"} => proof'[p] = proof[p]]_vars

\* A CLOSED event is written only by the step that releases the escrow: however
\* often approvals, deliveries and deposits set its status, it was reopened
\* between two CLOSED events, and between the client's approval and one.
ClosingReleases ==
  [][closed' # closed => escrow # "RELEASED" /\ escrow' = "RELEASED"]_vars

(***************************************************************************)
(* Properties of requests that do not die.                                 *)
(***************************************************************************)

\* The provider is asked at most once for the transfer of a payment that a
\* request created, however many requests overlap: of those that raced for its
\* key only the one that inserted it sends it.
KeyTransferredAtMostOnce ==
  \A m \in Milestones, route \in {"auto", "review"} : transfers[m, route] <= 1

\* Once every milestone is PAID the escrow gets closed, unless its client
\* approved it or a milestone loses its status again: of the requests that pay
\* concurrently, the one that commits last sees that nothing remains to be paid.
PaidUpGetsClosed == AllPaid ~> (closed > 0 \/ clientApproved \/ ~AllPaid)

(***************************************************************************)
(* A statement of the code that does not hold when requests overlap.       *)
(***************************************************************************)

\* payments.py: "Execute (or reuse) a payout in an idempotent fashion."  At
\* most one payment of a milestone is on its way or settled.
OnePaymentPerMilestone ==
  \A m \in Milestones :
    Cardinality({route \in Routes : payment[m, route] \in Debiting}) <= 1
=============================================================================
