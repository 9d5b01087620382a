--------------------------- MODULE EscrowFunding ---------------------------
(***************************************************************************)
(* Funding of one escrow and the life of its status: deposits made by the  *)
(* client, deposits paid through Stripe and recorded by its webhook, and   *)
(* the decisions on the whole escrow (app/services/escrow.py, funding.py,  *)
(* handle_stripe_webhook).                                                 *)
(*                                                                         *)
(* As in Payouts, a request is a series of reads of the committed state,   *)
(* remembered by its session, and of write sections that are atomic.  Its  *)
(* UPDATE of a row names only the id, and is emitted only when the new     *)
(* status differs from the one the session loaded.                         *)
(***************************************************************************)
EXTENDS Integers, FiniteSets, FiniteSetsExt

CONSTANTS
  Workers,      \* threads and processes that serve requests
  Keys,         \* idempotency keys of the deposits the client sends
  NoKey,        \* no key
  Intents,      \* Stripe payment intents created for this escrow
  Amount,       \* amount of the deposit of each key and of each intent
  AmountTotal,  \* amount the escrow must hold to be funded
  Mortal        \* keys whose requests may die half-way, NoKey for decisions

\* The deposit of an intent has the key "stripe:<intent>": one name for both.
DepositKeys == Keys \cup Intents

ASSUME FundingAssumption ==
  /\ Keys \cap Intents = {}
  /\ NoKey \notin DepositKeys
  /\ Amount \in [DepositKeys -> Nat \ {0}]
  /\ AmountTotal \in Nat
  /\ Mortal \subseteq DepositKeys \cup {NoKey}

EscrowStatus ==
  {"DRAFT", "FUNDED", "RELEASABLE", "RELEASED", "REFUNDED", "CANCELLED"}
FundingStatus == {"CREATED", "SUCCEEDED", "FAILED"}

VARIABLES
  status,       \* status of the escrow
  deposits,     \* idempotency keys of the rows of escrow_deposits
  funding,      \* status of the record of each intent, "NONE" without a row
  charged,      \* at Stripe: intents that took the money of the client
  declined,     \* at Stripe: intents for which a payment attempt failed
  acked,        \* at Stripe: intents whose success was answered with a 200
  worker,       \* what each worker does and what its session remembers
  calm          \* so far, no request has started while another was in flight

fundingVars == <<status, deposits, funding, charged, declined, acked, worker, calm>>
stripe == <<charged, declined, acked>>

Stages == {"idle", "mark", "load", "check", "insert", "fail", "set"}

WorkerState ==
  [at : Stages, key : DepositKeys \cup {NoKey}, seen : EscrowStatus,
   target : EscrowStatus \cup {"none"}]

IdleWorker == [at |-> "idle", key |-> NoKey, seen |-> "DRAFT", target |-> "none"]

FundingTypeOK ==
  /\ status \in EscrowStatus
  /\ deposits \subseteq DepositKeys
  /\ funding \in [Intents -> FundingStatus \cup {"NONE"}]
  /\ charged \subseteq Intents
  /\ declined \subseteq Intents
  /\ acked \subseteq Intents
  /\ worker \in [Workers -> WorkerState]
  /\ calm \in BOOLEAN

FundingInit ==
  /\ status = "DRAFT"
  /\ deposits = {}
  /\ funding = [i \in Intents |-> "NONE"]
  /\ charged = {} /\ declined = {} /\ acked = {}
  /\ worker = [w \in Workers |-> IdleWorker]
  /\ calm = TRUE

-----------------------------------------------------------------------------
AmountOf(S) == SumFunctionOnSet(Amount, S)
Total == AmountOf(deposits)

\* Plausible bugs: the row just added is counted with the amount it adds, as
\* it would be with autoflush; the funding needs more than the amount.
CountsTwice(k) == Total + 2 * Amount[k] >= AmountTotal
CoversStrictly(k) == Total + Amount[k] > AmountTotal

\* The deposit of k on top of the committed ones funds the escrow.
Covers(k) == Total + Amount[k] >= AmountTotal

Begin(w, state) ==
  /\ worker[w].at = "idle"
  /\ worker' = [worker EXCEPT ![w] = state]
  /\ calm' = (calm /\ \A v \in Workers : worker[v].at = "idle")
Finish(w) == worker' = [worker EXCEPT ![w] = IdleWorker] /\ UNCHANGED calm
Goto(w, stage) == worker' = [worker EXCEPT ![w].at = stage] /\ UNCHANGED calm

(***************************************************************************)
(* deposit.  The escrow is loaded, then the key is looked up and the       *)
(* committed deposits are summed (autoflush is off: the new row is not     *)
(* among them), then one commit inserts the row and may update the status. *)
(***************************************************************************)
StartDeposit(w, k) ==
  /\ Begin(w, [IdleWorker EXCEPT !.at = "check", !.key = k, !.seen = status])
  /\ UNCHANGED <<status, deposits, funding, stripe>>

\* A webhook that recorded a success loads the escrow in its turn.
LoadForDeposit(w) ==
  /\ worker[w].at = "load"
  /\ worker' = [worker EXCEPT ![w].at = "check", ![w].seen = status]
  /\ UNCHANGED <<status, deposits, funding, stripe, calm>>

\* What Stripe learns when a request about key k is answered.
Answer(k) == acked' = acked \cup ({k} \cap Intents)

CheckDeposit(w) ==
  LET k == worker[w].key IN
  /\ worker[w].at = "check"
  /\ IF k \in deposits
     THEN Finish(w) /\ Answer(k)
     ELSE /\ worker' = [worker EXCEPT ![w].at = "insert",
                          ![w].target = IF Covers(k) THEN "FUNDED" ELSE "none"]
          /\ UNCHANGED <<acked, calm>>
  /\ UNCHANGED <<status, deposits, funding, charged, declined>>

\* The unique key decides a race of two inserts; the loser rolls back and
\* returns the other deposit.
InsertDeposit(w) ==
  LET k == worker[w].key  target == worker[w].target IN
  /\ worker[w].at = "insert"
  /\ deposits' = deposits \cup {k}
  /\ status' = IF k \notin deposits /\ target # "none" /\ target # worker[w].seen
               THEN target ELSE status
  /\ Finish(w)
  /\ Answer(k)
  /\ UNCHANGED <<funding, charged, declined>>

(***************************************************************************)
(* Stripe.  A funding session creates an intent for the whole amount at    *)
(* Stripe, then commits its record and hands its secret to the client, who *)
(* may then pay: some attempts fail, one may succeed.  Stripe reports both *)
(* as often as it likes and in any order, and repeats a success until it   *)
(* is answered.  Reports about unknown intents are answered and ignored.   *)
(***************************************************************************)
CreateFundingSession(i) ==
  /\ funding[i] = "NONE"
  /\ funding' = [funding EXCEPT ![i] = "CREATED"]
  /\ UNCHANGED <<status, deposits, stripe, worker, calm>>

ClientPays(i) ==
  /\ funding[i] # "NONE" /\ i \notin charged
  /\ \/ charged' = charged \cup {i} /\ UNCHANGED declined
     \/ declined' = declined \cup {i} /\ UNCHANGED charged
  /\ UNCHANGED <<status, deposits, funding, acked, worker, calm>>

\* payment_intent.succeeded: a record that is SUCCEEDED already ends it.
ReportSuccess(w, i) ==
  /\ worker[w].at = "idle"
  /\ i \in charged
  /\ IF funding[i] = "SUCCEEDED"
     THEN Answer(i) /\ UNCHANGED <<worker, calm>>
     ELSE Begin(w, [IdleWorker EXCEPT !.at = "mark", !.key = i]) /\ UNCHANGED acked
  /\ UNCHANGED <<status, deposits, funding, charged, declined>>

\* Plausible bug: a success is recorded without its deposit.
MarkWithoutDeposit(w) ==
  /\ worker[w].at = "mark"
  /\ funding' = [funding EXCEPT ![worker[w].key] = "SUCCEEDED"]
  /\ Finish(w)
  /\ Answer(worker[w].key)
  /\ UNCHANGED <<status, deposits, charged, declined>>

\* mark_funding_succeeded commits the record before the deposit.
MarkSucceeded(w) ==
  /\ worker[w].at = "mark"
  /\ funding' = [funding EXCEPT ![worker[w].key] = "SUCCEEDED"]
  /\ Goto(w, "load")
  /\ UNCHANGED <<status, deposits, stripe>>

\* payment_intent.payment_failed counts only for a record still CREATED.
ReportFailure(w, i) ==
  /\ i \in declined
  /\ funding[i] = "CREATED"
  /\ Begin(w, [IdleWorker EXCEPT !.at = "fail", !.key = i])
  /\ UNCHANGED <<status, deposits, funding, stripe>>

\* Plausible bug: the name Stripe gives the status is stored.
MarkRequiresMethod(w) ==
  /\ worker[w].at = "fail"
  /\ funding' = [funding EXCEPT ![worker[w].key] = "requires_payment_method"]
  /\ Finish(w)
  /\ UNCHANGED <<status, deposits, stripe>>

MarkFailed(w) ==
  /\ worker[w].at = "fail"
  /\ funding' = [funding EXCEPT ![worker[w].key] = "FAILED"]
  /\ Finish(w)
  /\ UNCHANGED <<status, deposits, stripe>>

(***************************************************************************)
(* Decisions on the whole escrow: the escrow is loaded, then its status is *)
(* set in a commit.  Delivery and approval look at no status at all.       *)
(* check_deadline is absent because it changes nothing: SQLite returns     *)
(* deadline_at without its zone, and comparing that with utcnow() raises   *)
(* before client_approve is reached.                                       *)
(***************************************************************************)
Closed == {"RELEASED", "REFUNDED", "CANCELLED"}

Decide(w, target) ==
  /\ Begin(w, [IdleWorker EXCEPT !.at = "set", !.seen = status, !.target = target])
  /\ UNCHANGED <<status, deposits, funding, stripe>>

MarkDelivered(w) == Decide(w, "RELEASABLE")

ClientApprove(w) == Decide(w, "RELEASED")

ClientReject(w) ==
  /\ status \notin Closed
  /\ Decide(w, IF status \in {"FUNDED", "RELEASABLE"} THEN "REFUNDED" ELSE "CANCELLED")

SetStatus(w) ==
  /\ worker[w].at = "set"
  /\ status' = IF worker[w].target # worker[w].seen THEN worker[w].target ELSE status
  /\ Finish(w)
  /\ UNCHANGED <<deposits, funding, stripe>>

\* A request dies between two of its pieces: nothing is answered.
Die(w) ==
  /\ worker[w].at # "idle" /\ worker[w].key \in Mortal
  /\ Finish(w)
  /\ UNCHANGED <<status, deposits, funding, stripe>>

-----------------------------------------------------------------------------
Start(w) ==
  \/ \E k \in Keys : StartDeposit(w, k)
  \/ \E i \in Intents : ReportSuccess(w, i) \/ ReportFailure(w, i)
  \/ MarkDelivered(w) \/ ClientApprove(w) \/ ClientReject(w)

Step(w) ==
  \/ LoadForDeposit(w) \/ CheckDeposit(w) \/ InsertDeposit(w)
  \/ MarkSucceeded(w) \/ MarkFailed(w) \/ SetStatus(w)

FundingNext ==
  \/ \E w \in Workers : Start(w) \/ Step(w) \/ Die(w)
  \/ \E i \in Intents : CreateFundingSession(i) \/ ClientPays(i)

FundingSpec == FundingInit /\ [][FundingNext]_fundingVars

\* A request that started is served to its end, and Stripe repeats a success
\* until it is answered; a worker is free to take it again and again.
FundingFairness ==
  /\ \A w \in Workers : WF_fundingVars(Step(w))
  /\ \A i \in Intents :
       SF_fundingVars(i \notin acked /\ \E w \in Workers : ReportSuccess(w, i))
FundingFairSpec == FundingSpec /\ FundingFairness

-----------------------------------------------------------------------------
\* An escrow is FUNDED only while its deposits cover its amount, although the
\* sum that decides it is read before the commit: deposits are never removed.
FundedMeansCovered == status = "FUNDED" => Total >= AmountTotal

\* "Mark a funding attempt as succeeded and record the escrow deposit"
\* (funding.py): money that Stripe took ends up as a deposit.
ChargedGetsDeposited == \A i \in Intents : i \in charged ~> i \in deposits

\* As long as requests do not overlap, an escrow with deposits that cover
\* its amount has left DRAFT; two instalments that overlap miss each other.
CalmCoveredLeavesDraft ==
  calm /\ deposits # {} /\ Total >= AmountTotal => status # "DRAFT"

\* The funding keeps the promise of DepositLedger.
Ledger == INSTANCE DepositLedger WITH
  recorded <- deposits,
  Enough <- {S \in SUBSET DepositKeys : AmountOf(S) >= AmountTotal}
KeepsLedger == Ledger!Spec
=============================================================================
