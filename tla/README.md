# Kobatella in TLA+

A verification development for the Kobatella backend: TLA+ modules of the parts that move money or decide
who may, TLC runs on small instances, and TLAPS proofs for all instances. `src/` below is the
repository. `PROJECT.json` maps every definition to its source lines and lists runs, mutations, hazards,
findings and theorems.

## 1. The system

Kobatella is a FastAPI backend on SQLAlchemy and SQLite. A sender funds an escrow; a beneficiary submits
proofs for its milestones; an approved proof pays its milestone through a payment service provider (PSP),
which reports later what became of the transfer. Beside that, beneficiaries pay registered payees from an
escrow, or buy from merchants under a usage mandate.

| Component | State it keeps | Operations | Module |
|---|---|---|---|
| Proofs and payouts (`services/proofs.py`, `payments.py`, `milestones.py`) | proofs, milestones, payments, escrow status, deposits | submit, approve, reject a proof; execute a stored payment; close the escrow; deliver, approve, reject the escrow, deposit on it | `Payouts`, `PayoutPromise` |
| Proof analysis (`services/rules.py`, `ai_proof_advisor.py`, `document_checks.py`, `proofs.py`) | assessment and decision of a proof; failure count and circuit of the advisor | judge a photo, ask the advisor, store, review with a note | `PhotoRules`, `AdvisorCircuit`, `ProofAnalysis` |
| Escrow funding and status (`services/escrow.py`, `funding.py`, `handle_stripe_webhook`) | deposits, funding records, escrow status | deposit, Stripe session, Stripe reports, delivery, approval, rejection | `EscrowFunding`, `DepositLedger` |
| PSP webhook (`services/psp_webhooks.py`) | table of events, map of recent ids in memory | receive, register, settle, fail | `PspWebhook`, `PspInbox` |
| Usage payouts (`services/usage.py`) | payees with limits and counters, payments, events | register a payee, spend; settlements and failures of the payments | `UsageSpend` |
| Usage mandates and purchases (`services/mandates.py`, `spend.py`, `cron.py`) | mandates, purchases, allowed usages | create, purchase, allow, clean up | `SpendMandates`, `Budget` |
| API keys (`security.py`, `utils/apikey.py`, `routers/apikeys.py`) | keys, their audited uses | authenticate, check the scope, create, revoke | `ApiKeys` |
| Restricted transactions (`services/transactions.py`) | transactions, allowlist, certified accounts, alerts | transfer, allow, certify | `RestrictedTransactions` |
| Creation of milestones (`routers/escrow.py`) | milestones | create | `MilestoneCreation` |
| The administrators' endpoints together | the last three | authenticate, then one handler | `AdminApi` |
| Scheduler lock (`services/scheduler_lock.py`, `main.py`) | one row with owner and expiry | acquire at startup, heartbeat, release | `SchedulerLock` |
| Invoice OCR (`services/invoice_ocr.py`) | counters of errors | normalise amount and currency | `PhotoRules`, in part |
| Creation of escrows, public-sector projects, audit log, users, health, configuration | single rows | inserts and reads | not modelled, see §8 |

**How they interact.** Everything meets in the database: `Payouts`, `EscrowFunding`, `PspWebhook` and
`UsageSpend` see different aspects of the rows of escrows and payments. Services call each other inside
one request (approval → `execute_payout` → `finalize_payment_settlement` → `_finalize_escrow_if_paid`), and each request
passes the API key first, with a commit of its own. `submit_proof` decides in memory, by the rules of `PhotoRules`, what
`Payouts` takes as a free choice: refuse, review, or approve and pay at once.
Stripe and the PSP call back through webhooks, at least once and in any order. Two things live in the
memory of a process only: the map of recent webhook ids and the circuit breaker of the AI advisor.

**What is hard.**

- *Overlapping requests.* Handlers read, decide and write; between the reads and the first write any
  other request may commit.
- *Several commits in one request.* A payment commits before the closing of its escrow, a funding record
  before its deposit, a settlement before its event is marked, a usage payment before its counters.
- *Idempotency by keys.* A unique key stops a repetition, but two paths that build different keys for one
  thing do not stop each other.
- *Callbacks* that are repeated, late and out of order, on several servers.
- *Time*: lifetimes of the lock, of map entries and of mandates, and midnight for the daily limits.
- *A helper that fails*: the advisor may answer, fail or hang, while its settings change and its circuit opens.

### What a step is

`db.py` gives every request its own session, with `autoflush` and `expire_on_commit` off. Hence:

- a SELECT runs outside a transaction, sees the committed state, and its rows stay in the identity map
  of the session: the request goes on with what it read first, however stale;
- from the first INSERT, UPDATE or DELETE to the commit a request holds SQLite's only write lock. This is
  one atomic *write section*; reads in it are current; if the request dies in it, nothing happened;
- `SELECT ... FOR UPDATE` is a no-op on SQLite;
- the ORM writes absolute values, by id, and only columns that differ from the loaded ones: writes of
  others are overwritten, unless nothing seemed to change, and then nothing is written.

Every module follows this: one action per read or group of reads that nothing can usefully separate, one
per write section. A request in flight is a record of where it stands (`at`) and what it remembers. Deaths
(`Die`) drop the request between two pieces. The synchronous endpoints run in a thread pool, and several
processes may share the database; the handler of the PSP webhook is `async` and never waits, so that one
process handles one at a time. The schema is that of the Alembic migrations: unique are the hash of a
proof, the idempotency key of payments, deposits and purchases, the intent of a funding record, (provider,
event id) of webhook events, the name of the lock, the ACTIVE mandate of a sender, beneficiary and
currency, the idempotency key of transactions, an allowlist entry, the certified account of a user, the hash and the
prefix of an API key, and (escrow, idx) of milestones.

SQLite gives back dates without their zone, and Python refuses to compare such a date with `utcnow()`. So some code ends in
an exception each time, and the modules say so: `check_deadline` (`services/escrow.py:326`), and a key with an expiry
(`utils/apikey.py:52`).

## 2. The modules

**`Payouts`** - one escrow with milestones 1..N. `milestone`, `proof`, `payment`, `latest`, `transfers`,
`closed` and `escrow` are rows; `req` holds the requests. A payment is named by its milestone and by its
*route*, the format of the idempotency key: `"auto"` for `_milestone_payment_key`, `"review"` for the key
built in `approve_proof`, `"seed"` for payments stored beforehand. `transfers` counts what the PSP really
executed. A payment may be SENT without any: where Stripe or Connect is off, as it is by default, or the provider
has no account, the stub in `_send_payout_via_psp` invents a reference (`payments.py:80-87`), so `Send` leaves the choice.
`clientApproved` says that the timeline has a CLIENT_APPROVED event.

| Actions | Code |
|---|---|
| `LoadSubmission`, `CheckSequence`, `CommitManualSubmission`, `CommitAutoSubmission`, `RefuseSubmission` | `submit_proof` |
| `LoadApproval`, `LookupPayout`, `PayApproved`, `LoseKeyRace`, `RecheckClosing` | `approve_proof` with `execute_payout` |
| `LoadRejection`, `CommitRejection` | `reject_proof` |
| `LoadExecution`, `CommitExecution`, `ReadSettlement`, `CommitSettlement` | `execute_payment` on a stored payment |
| `CountMilestones`, `ListMilestones`, `CloseEscrow` | `_finalize_escrow_if_paid` |
| `LoadEscrow`, then `CommitDelivery`, `CommitClientApproval`, `CommitClientReject`, or `SumDeposits` and `CommitDeposit` | `mark_delivered`, `client_approve`, `client_reject`, `deposit` of `escrow.py`, which set the status that the closing tests |
| `PspSettled`, `PspFailed` | the effect of a webhook |
| `Die`, `DieAfterTransfer` | a request ends early, before or after its transfer |

**`PayoutPromise`** - what the payouts promise, in three variables: the milestones paid for, the approved
proofs, and whether the timeline has a CLOSED event. An approval comes with a payment, a payment stays, the
closing is recorded only when all is paid for, and the record stays; the status does not. `Payouts` implements it under the mapping `Promise`.

**`EscrowFunding`** - `StartDeposit` is a deposit of the client; the webhook of a Stripe intent is
`ReportSuccess`/`MarkSucceeded`, then the deposit in `LoadForDeposit`/`CheckDeposit`/`InsertDeposit`, or
`ReportFailure`/`MarkFailed`. Delivery, approval and rejection (`Decide`, `SetStatus`) are each
a read and an UPDATE that is left out when the loaded status is the target already. `charged`, `declined`
and `acked` are Stripe's. The constant `Mortal` names the keys whose requests may die, so that one run can kill
the requests of clients and another those of Stripe.

**`DepositLedger`** - what the funding promises, in two variables: the keys of the recorded deposits, and the status of
the escrow. A deposit is recorded once and for good; FUNDED comes only with a deposit after which the deposits cover the
amount; no decision touches a deposit or brings DRAFT back. `EscrowFunding` implements it under the mapping `Ledger`.
That a covered escrow becomes FUNDED is not promised, since instalments that overlap miss each other.

**`PspWebhook`** - `Receive`/`Refuse` are the timestamp window and the map of recent ids, swept by the
timestamps of the requests; `Insert` the row of the event; `RecordSettlement` and `FinishSettlement` the two
commits of a settlement; `RecordOther` the other kinds. The clock is not a variable: the map holds the age
of each entry, so that the instance is finite and time unbounded.

**`PspInbox`** - what the webhook promises: as if one server took each report once, in a single step, after the payment it
is about was committed; the escrow is released only when nothing is left to be paid. `PspWebhook`
implements it under the mapping `Inbox`. The two commits of a settlement become one step, the first of them;
what a server does about an event that is stored already is a stutter.

**`UsageSpend`** - `Begin` computes both counters from the payee's row, loaded once; `CheckPayout` reads the
balance; `Pay`, `Settle` and `Count` are the three commits; `Pay` also carries the pending reset of the daily
counter when the day has changed. `PspSettled` and `PspFailed` are the reports of the provider, a settlement over
a reported failure included (`revived`); a payment in ERROR debits the escrow no more, and its key is refused, but
the payee's counters stay. `SetEscrow` closes and reopens the escrow, as its endpoints do. `calm` is a history variable: nothing has happened in the midst of a
request so far, and none has died.

**`SpendMandates`** - `CheckNoDuplicate`/`InsertMandate` with `LoseCreation` for the unique index,
`FindMandate`/`CheckUsage`/`Consume`/`GiveUp` for a purchase, `FindExpired`/`CloseExpired` for the cleanup
endpoint. `Covers` are the restrictions of a mandate to a merchant or a category; the category of a purchase is the one
its request names, and the merchant's only if it names none (`spend.py:279`). `Consume` is the conditional UPDATE, which tests the current row, with the insert of the purchase.
The hourly job of `cron.py` is absent on purpose: it finds `SessionLocal` still `None`.

**`Budget`** - what the mandates promise: one at most is open, a closed one stays closed, a purchase is charged once and for
good to the mandate that is open at that moment, and the charges stay within the limit, the mandate being closed by the one that uses it up.
`SpendMandates` implements it under the mapping `MandateBudget`, in which EXPIRED and CONSUMED are both closed.

**`SchedulerLock`** - `StartUp` reads time and row; `Insert`, `TakeOver`, `TakeBack`, `StandBy` are the
outcomes of `try_acquire_scheduler_lock`, including the startup that fails since `IntegrityError` is not
imported; `BeginBeat`/`EndBeat` and `ShutDown`/`Release` the two later uses of the row, each a read and a
write by id. The shutdown does not wait for a heartbeat: `stray` keeps it, and its write (`EndStray`) meets whatever row
is there by then.

**`PhotoRules`** - no state: `Verdict`, what the checks of `rules.py` and `submit_proof` make of an upload, in their
order, beside `Vetted` and `Unlocated`, the photos against which no reason code of the docstring speaks, or only
MISSING_GPS. A position is `"free"` (no geofence), `"missing"`, `"inside"`, in the `"margin"` of 15 m that `rules.py` means to
grant, or `"outside"`. **`AdvisorCircuit`** - the two globals
of the circuit breaker and the two functions that write them. **`ProofAnalysis`** - the threads of one process
that use both:

| Actions | Code |
|---|---|
| `Submit` | `submit_proof` up to the advisor |
| `Consult`, `AdvisorRaises`, `CallSucceeds`, `CallFails` | `call_ai_proof_advisor`: circuit and settings once, then attempts; the fallbacks; an exception that `submit_proof` swallows |
| `Store`, `RefuseToStore` | the insert with the assessment, or its refusal |
| `LoadApproval`, `CommitApproval`, `RefuseApproval`, `LoadRejection`, `CommitRejection` | `decide_proof` with the note it asks for |
| `Reconfigure`, `Restart` | the settings are re-read; the process is replaced |

**`ApiKeys`** - the way of a request through its key. A request is at `"found"` once its key is read, at `"route"` once its
use is committed, and from there in a handler. `handed` are the keys whose raw value somebody has; `uses` and
`effects` count what the audit log holds and what was changed, for each key. `Root` is made by
`scripts/create_admin_api_key.py`, `Legacy` is the development key.

| Actions | Code |
|---|---|
| `Find`, `RecordUse`, `UseLegacyKey` | `require_api_key` |
| `Admitted` (a guard), `Answer` | `require_scope` for administrators; a handler that changes nothing |
| `CreateKey`, `AuditCreation`, `HandOver` | `create_api_key`: two commits and the answer |
| `LoadRevocation`, `CommitRevocation` | `revoke_api_key` |

**`RestrictedTransactions`** and **`MilestoneCreation`** extend it with handlers:

| Actions | Code |
|---|---|
| `LookupTransfer`, `CheckAllowlist`, `CheckCertified`, `RaiseAlert`, `InsertTransfer` | `create_transaction` |
| `LookupAllowed`, `InsertAllowed` | `add_to_allowlist` |
| `LoadCertificate`, `SaveCertificate` | `add_certification` |
| `SumMilestones`, `CheckIndex`, `InsertMilestone` | `create_milestone_for_escrow` |

**`AdminApi`** composes the three over one set of requests: each step is one module's, with the tables of the
others unchanged.

**`Sums`** - lemmas on the sum of a function over a finite set, for the proofs.

## 3. Runs

| Run | Instance | Shows |
|---|---|---|
| `payouts_races` | 4 requests, 3 of them overlapping, 3 proofs, 2 milestones, deaths, PSP reports, refusals by the client | the tables stay consistent, no milestone is skipped, `PayoutPromise` is kept |
| `payouts_serial` | 5 requests one at a time, all escrow endpoints, deposits for one of two milestones, deaths, PSP reports | decisions are final, a CLOSED event comes only with a release, no payout exceeds the balance |
| `payouts_live` | 4 requests, 3 of them overlapping, one stored payment, deliveries and approvals by the client, settlements, no deaths, fair | the transfer of a payment that requests create is asked for once at most; an escrow that is paid up gets closed, whoever paid last, unless its client approved it |
| `payouts_double_pay` | 4 requests, no deaths | *violated*: automatic approval and review pay one milestone twice |
| `funding` | 2 workers, 2 instalments, 1 intent; requests of clients may die, Stripe's not; fair | `DepositLedger` is kept; a covered escrow has left DRAFT unless requests overlapped; what was charged is deposited |
| `funding_lost_deposit` | 1 worker, Stripe's requests may die, fair | *violated*: a charged intent may never be deposited |
| `scheduler` | 3 processes, TTL 3, beat 1, 8 minutes, disciplined | whoever runs the scheduler owns a live lock; no startup fails |
| `spend` | 2 workers, 3 purchases, 3 mandates, 2 merchants, 1 category, 2 ticks | `Budget` is kept; spending equals purchases, on mandates that are active and whose restrictions cover the purchase; EXPIRED is final |
| `psp_webhook` | 2 servers, 3 events with one id, 1 failure, fair | `PspInbox` is kept, so that an event is handled once at most; what is stored took effect; no settlement is lost |
| `usage` | 2 workers, 3 requests, 2 payees, midnight, deaths, settlements and failures in any order | counters stay within limits; if calm, they are what was sent, and nothing is overdrawn but by settlements that follow a failure |
| `admin_api` | 2 threads, 4 requests with 2 keys or the development key, deaths | no change without an audited use; a revoked key falls silent; a key whose creation left no audit entry is never used; if calm, the log tells the level of each account, and milestones fit their escrow |
| `proof_analysis` | 2 threads, 1 file, 11 uploads, changing settings, restarts, fair | without a reviewer only photos are approved against which nothing speaks but MISSING_GPS; a flagged proof needs a note; an open circuit stays open; every analysis ends |

**Bounds, and why they are enough.**

- Overlap bites with two requests at the same rows; `payouts_races` has four, three of them at a time, so that an approval, an automatic
  approval, a rejection and a refusal by the client meet. Three proofs for two milestones let two proofs compete for
  the first while the second is waiting.
- `payouts_serial` needs length instead: five requests, one at a time, are enough to submit and pay both milestones and close,
  or reject and resubmit, and to deliver or deposit before a settlement closes once more. Deposits for one of two milestones
  bring the payout that cannot be afforded, and the one that a deposit makes affordable.
- `payouts_live` starts with a stored payment, so that four requests, three at a time, get to the last payout and leave some for the
  endpoints that race with it, or let two reviews of one proof race for a key. Its endpoints are the two that matter to the closing,
  and its only reports settlements; the others are in `payouts_serial` and `payouts_races`.
- `funding`: two instalments of half the amount are the least that makes a sum matter; the intent pays the whole,
  so that escrows may be overfunded. `funding_lost_deposit` needs no overlap, hence one worker.
- `spend`: purchases of 1, 1 and 2 under limits of 2 - two exhaust a mandate, the third exceeds it. The first mandate is for the
  category, the second for a merchant, the third for anything; one purchase names a category its merchant does not have; two ticks let
  a mandate expire between each two steps of a purchase, and a second mandate follow it.
- `usage`: two payments of 2 to one payee, within limits of 2 a day and 3 in all, make each limit bind without the other; with
  deposits of 2, one of them or the payment of 1 to the other payee leaves nothing for the second; one midnight.
- `psp_webhook`: `Drift = TTL = 1` keeps the relation TTL < 2 * Drift of the code (300 s against 2 * 180 s),
  in which a request with an early timestamp outlives the sweep of its id. One shared id for events of several
  providers is where the map, keyed by id alone, is most in the way of the table.
- `scheduler`: `TTL = 3`, `Beat = 1` keeps room for a missed beat; eight minutes allow two takeovers.
- `admin_api`: four requests are enough to create a key, use it, revoke it and try once more, or for two to overlap after
  two that prepared the tables. Amounts 1 and 2 with two indices and a total of 2: two milestones
  fit, or exceed by one. For the guards a support key counts as any scope but admin.
- `proof_analysis`: photos one minute beyond each limit and on it, one without a time, one without a position, one in the
  margin and one outside of it, one from an unknown source, documents with good, bad and no amounts. Two failures open the circuit where the code has five, so that
  one thread can open it while the call of the other is under way. The settings are "on" and "off": where "unusable" leads, to the
  fallback without a call, "off" leads as well when it comes after `submit_proof` has read "on".
- Every bound is a constant of the module: `MaxInFlight`, `Failures`, `Mortal`, `MaxTime`, `MaxDay`, `MaxFailures`,
  `MaxRequests`, `M`.
  Symmetry is used for requests, workers and processes, never in a run with a liveness property.
- Deadlock is checked where the system can always go on (`funding`, `funding_lost_deposit`, `psp_webhook`, `scheduler`,
  `proof_analysis`). It is not in the `payouts_*` runs, `spend`, `usage` and `admin_api`, where all requests may have been
  served and the clock may have stopped at its bound.

Each property has a mutation of a definition that models code, of the kind a slip in that code would be, and the run finds it.
They stand beside the definition, under "Plausible bug".

## 4. Fairness

- `Payouts`: weak fairness of the steps of each request that started; nobody has to send one. The thread
  pool runs a handler to its end.
- `EscrowFunding`: the same for workers, and strong fairness of the delivery of a success that is not acknowledged:
  Stripe repeats until it gets a 200, and a worker is free again and again.
- `PspWebhook`: servers serve, time passes, and the provider repeats an event, signed anew, until it is
  answered. Strong fairness, as the map refuses repetitions for a while. Failures are bounded by `MaxFailures`: a provider that meets
  a failure each time proves nothing about the code.
- `ProofAnalysis`: weak fairness of each thread in its handler. A call of the provider ends, if only by its timeout; with what,
  nobody promises, so the circuit may open and `AnalysisEnds` holds all the same.

`SpendMandates`, `UsageSpend`, `AdminApi` and `SchedulerLock` have no liveness property: they promise nothing that
must happen. (A standby process never tries the lock again.)

## 5. What is proved

All proofs are in the `*Proofs` modules and in `Sums`, for every value of the constants that satisfies the named `ASSUME`s.

- **`PayoutsProofs`**: types; `PaidMilestoneHasPayment` with `ApprovedProofIsPaid`,
  `ClosedOnlyWhenPaid`, `NoMilestoneSkipped`, `MemoryStillTrue`; and that `Payouts` implements `PayoutPromise`.
  `ClosedOnlyWhenPaid` is not inductive: the closing request acts on a count made earlier. `IInv` adds that what
  a request remembers stays true (payments never go back to NONE or PENDING, milestones never go back to WAITING)
  and `RowsMeanProgress`: a milestone with a proof or a payment has left WAITING.
  Without `MaxInFlight = 1` the three properties of `payouts_serial` are false, so their theorems have it as a hypothesis:
  - `ClosingReleases` and `DecisionIsFinal`. `SerialInv` says that one request is under way at most (`Alone`), and that
    what it remembers is what the tables hold (`Current`), so that a request about to close meets an escrow that is not RELEASED.
    An escrow may be closed more than once: deliveries and deposits reopen it.
  - `PayoutsAffordable`, with `Seeded = {}` as a second hypothesis: a stored payment is executed without a look at the balance
    (`payments.py:163`). The sum of what was sent changes by one milestone at a time (`Sums`).
  - `OnePaymentPerMilestone`, with `Seeded = {}` and no reported failure: a payment in ERROR is not found by `LookupPayout`,
    so that another route pays once more. `payouts_double_pay` shows what overlap makes of it.

  `KeyTransferredAtMostOnce` needs no serial requests: however many overlap, the PSP is asked for the transfer of a payment once at most
  for each key that requests create, as only the one that inserted the row sends it (`TransferNeedsRow`). It needs `~Failures`, since a request that dies after its transfer leaves no row to stop the next; and it does not hold of
  stored payments, which two executions may both transfer.
- **`WebhookProofs`**, two parts. *`EscrowFunding`*: types, `FundedMeansCovered`, `CalmCoveredLeavesDraft`, and that it
  implements `DepositLedger`. A worker that is about to write FUNDED was right when it summed up the deposits (`TargetsKnown`), and
  deposits are never taken away. For the calm property, `FreshInCalm` says that what a worker alone has read is still
  true: the status, and that its deposit is not there.
  *`PspWebhook`*: types, `AtMostOnce`, `UnprocessedTookEffect`, `AnsweredIsProcessed`, and that it implements `PspInbox`.
  The invariant ties the count of an event to its row, and a server about to finish a settlement to an inserted row;
  `ReportsFollowPayments` says that a stored event is about a payment that exists. The map
  plays no part: at-most-once rests on the unique row alone.
- **`SpendMandatesProofs`**: types, `NeverOverspent`, `SpentIsPurchases`, `ActiveHasLeft`, `OnlyActiveCharged`,
  `ExpiredIsFinal`, and that `SpendMandates` implements `Budget`. `Inv` adds that the mandate a purchase is about to consume covers it
  and that its usage is allowed, which the lemma `AuthorisedIsLegal` puts in terms of what the request names, and that what is to
  be swept exists; the sum of the purchases grows by one of them at a time (`Sums`), so that what the columns of the mandate
  say is what the purchases cost, which is where `Budget` speaks of sets of purchases only.
- **`UsageSpendProofs`**: types, `CountersWithinLimits`, `CountedWasSettled`, for any overlap and deaths: what a
  worker will write was within the limits when computed (`Fits`), and its stage agrees with the payment
  (`Agrees`). `CalmCountersRight` and `CalmNotOverdrawn`, as long as nothing overlaps: `CalmInv` says that counters
  and sums agree up to the one payment under way, at each of its stages, and that this one was covered. A failure takes
  nothing off the counters, so their sums are of what was sent; it takes its amount off the debits, so that a settlement that
  follows it may overdraw, and is left out of the sum (`revived`).
  `MoneyWithinLimits`, just as long: no payee is sent more than its limits allow, on past days either, whose sums no counter holds.
- **`SchedulerLockProofs`**: types without conditions; `OnlyOneScheduler`, `SchedulerOwnsLock`, `NoStartupFails`
  for `Disciplined == Timely /\ ~Overlap`: jobs run on time and startups do not overlap. Both are needed:
  two processes that start together may both find the row expired and take it over by its id, and a holder stalled past the lifetime loses the lock without noticing.
  `Inv` says that a holder's lock outlasts its next beat, and that a starting process still sees the row
  it read unless that is the live lock of another, or its own, prolonged by a stray heartbeat; `StrayInv` that
  whatever a stray heartbeat finds is alive already.
- **`AdminApiProofs`**: types, `EffectsAccounted`, `UnauditedKeyUnused`, `RevokedStaysSilent`, `TransfersAllowed`,
  `CalmLevelAsAudited`, `CalmMilestonesFit`. `EffectsAccounted` is not inductive: `BooksInv` counts, beside the
  effects of a key, the requests of that key that have yet to change something. `HandedInv` says that only audited
  keys were handed out, `GrantInv` that a grant a transfer remembers still stands, `CalmInv` that in calm a
  request remembers the tables as they are.
- **`ProofAnalysisProofs`**: `VerdictAgainstReasons`, for every upload: what the checks approve, measured by the reason codes of the
  docstring of `rules.py`, is what none of them speaks against, less what is in the margin of the geofence, and with what lacks a position. Types,
  `ApprovalsGrounded`, `FlaggedApprovalExplained`, `SilentCircuitStaysOpen`. The invariant adds that a file about to be
  approved is stored, so that its assessment no longer changes, and not flagged unless there is a note
  (`ApprovesStored`), and that a file that is not stored has no approval (`UnstoredBlank`).
- **`Sums`**: the sum over a finite set is a natural number, grows with its set, is zero for the zero function, and changes
  by the difference when one value is replaced. The library's induction rules take an operator and cannot be used with
  the installed provers; the one lemma that needs induction argues by a least counterexample instead.

Some of these have no run, since what is shown by TLC is chosen to be what could most easily break, or is part of a refinement
that has a run: `OnlyOneScheduler`, `ClosedOnlyWhenPaid`, `MemoryStillTrue`, `ApprovedProofIsPaid`, `FundedMeansCovered`,
`NeverOverspent`, `ActiveHasLeft`, `AtMostOnce`, `AnsweredIsProcessed`, `CountedWasSettled`, `MoneyWithinLimits`,
`TransfersAllowed`. `OnePaymentPerMilestone` is what
`payouts_double_pay` violates.

**Only model-checked**: liveness (`PaidUpGetsClosed`, `ChargedGetsDeposited`, `SettlementsTakeEffect`, `AnalysisEnds`), which
is beyond the prover, as is `ENABLED`. Every other property of a passing run is a theorem.

## 6. Where code and documentation disagree

Two disagreements have a run (see "findings" in `PROJECT.json`):

1. `payouts_double_pay`: `execute_payout` says it executes or reuses "in an idempotent fashion"
   (`services/payments.py:141`); two routes with two keys pay one milestone twice.
2. `funding_lost_deposit`: `mark_funding_succeeded` should "record the escrow deposit"
   (`services/funding.py:82`); after a crash between its two commits no repetition does.

Others follow from the code as the modules have it, without a run of their own.

Against a doc, a comment or a message:

- The lock should "ensure only one scheduler runs" (`services/scheduler_lock.py:1`); two startups that overlap on an
  expired row both take it over.
- The default key lives 90 days (`routers/apikeys.py:29`), but a key with an expiry never authenticates on SQLite:
  `utils/apikey.py:52` compares a naive date with an aware one. `check_deadline` (`services/escrow.py:326`)
  raises for the same reason, and no deadline ever approves.
- The same claim of `payments.py:141` fails for a payment stored earlier: two executions that load it PENDING both transfer it
  (`payments.py:163`).
- "if the escrow is now fully paid, it will be closed" (`payments.py:291`). The closing tests the status its session loaded before the
  payout (`:519`): RELEASED by the client's approval then, the escrow may be RELEASABLE by now, and stays so.
- Never promote an error silently, says `payments.py:159`. A spend whose payment was reported as failed while it was under way settles it
  (`:452`).
- `rules.py:32` promises MISSING_GPS where a geofence is set, but the rules are called without the milestone (`proofs.py:144`): a photo
  without coordinates passes (`Unlocated`). OUT_OF_GEOFENCE is "rayon + tolérance" in `rules.py:33`; `proofs.py:168` compares with the radius
  alone, so that the margin of 15 m is never granted.
- A document with an invoice amount never reaches the advisor, as its `Decimal` cannot be serialised
  (`ai_proof_advisor.py:244`), and each attempt counts as a failure of the provider: three such documents open the
  circuit, for photos too, and once no call is left in it only a restart closes it, where the fallback speaks of a temporary one ("indisponibilité temporaire", `ai_proof_advisor.py:76`).
- "Total milestone amounts exceed escrow amount_total" (`routers/escrow.py`) is not averted when two creations overlap.
- Two certifications that overlap may log a level that is not in the table (`transactions.py:97`).
- An idempotency key that is reused with another payload returns the old transaction (`transactions.py:131`).

And in the course of events: a late rejection overwrites an approval that was paid,
and leaves the milestone REJECTED; a rejected milestone accepts no further proof, so that its escrow never closes;
a failed payment is settled by a late settlement, and the reverse; the late settlement of a payment whose balance was spent
again overdraws the escrow; a usage spend that failed stays on the counters of its payee; without Stripe a payout is SENT with no
transfer; a retry after a crash between transfer and
commit transfers again; a crash after the last payout leaves the escrow open for good; two instalments that
overlap each miss the other, and the escrow stays DRAFT; partial deposits of an escrow that is then rejected
end in CANCELLED; deposits and `mark_delivered` reopen a closed escrow, which a later settlement closes again, with a second
CLOSED event; `client_approve` releases an escrow without one, and the last payout does not add it; a mandate for a category pays at any merchant if the request
names that category (`spend.py:279`); overlapping or interrupted usage spends exceed the
limits; an expired mandate stays ACTIVE, and blocks a new one, until the cleanup endpoint is called; a payment stored earlier is
executed without a look at the balance.

## 7. Plan

Done, in this order: `Payouts` with `PayoutPromise` and its proofs; `EscrowFunding`; `SchedulerLock`,
`SpendMandates`, `PspWebhook`, `UsageSpend` and their proofs; one run of `EscrowFunding` with `calm`; `PhotoRules`,
`AdvisorCircuit`, `ProofAnalysis` and `ApiKeys`, `RestrictedTransactions`, `MilestoneCreation`, `AdminApi` with their
proofs; `Sums`, with what it proves of `SpendMandates` and `UsageSpend`.

Then `WebhookProofs` for `EscrowFunding`, the serial properties of `Payouts`, the limits of the money in `UsageSpend`, and the abstract specifications
`DepositLedger`, `Budget` and `PspInbox`, each with the proof that its module implements it. Then the calls of the
escrow endpoints and the stub in `Payouts`, the reports of the provider in `UsageSpend`, the categories in `SpendMandates` and the positions
in `PhotoRules`, with their proofs.

Left:

1. An abstract allowance that `UsageSpend` implements in calm.
2. A common abstraction of the administrators' endpoints: each change as one step of an audited key.
3. An abstract lease for `SchedulerLock` under `Disciplined`.

## 8. What is not modelled

- Creation of escrows, public-sector projects, users, health, audit log and its masking, reading alerts: single inserts,
  reads or guards; no handler decides by a state another one races for. Where an audit entry is part of what a
  request promises, the module of that request has it.
- Configuration, schemas and migrations: constants, shapes and the unique keys of §1. The refresh of the settings is `Reconfigure`.
- OCR: the only provider is a dummy that reads nothing. The normalisation of its amounts is in `PhotoRules`.
- Signatures: a request that gets through is one the model has; others change nothing. Raw API keys are
  their own hashes, and `last_used_at` decides nothing.
- The HTTP clients of Stripe and of the advisor. What they answer, and whether, is a choice.
- Amounts are small integers: cents, so that the tolerance `EPS` of `usage.py` does not show. Currencies
  are not distinguished; every module is about one.
- In `UsageSpend` the escrow has no milestones: with
  them `execute_payout` is the matter of `Payouts`.
- In `ProofAnalysis` distances and ages are on one side or the other of their limit, and the checks of a document
  matter only by what they put before the advisor, since every document is reviewed.
- Other databases than SQLite, under which the atomicity of §1 would differ.
