----------------------------- MODULE UsageSpend -----------------------------
(***************************************************************************)
(* Payouts to allowed payees, within a daily and a total limit for each    *)
(* payee, from one escrow without milestones (app/services/usage.py), and  *)
(* what the payment provider reports of them afterwards                    *)
(* (app/services/psp_webhooks.py).                                         *)
(*                                                                         *)
(* As in Payouts, a request is a series of reads of the committed state    *)
(* and of atomic write sections.  The row of the payee is loaded once      *)
(* (SELECT ... FOR UPDATE locks nothing on SQLite) and the counters are    *)
(* written back as the values computed then.  When the day has changed,    *)
(* the session holds a reset of the daily counter, which goes out with the *)
(* next write of the request, whatever that is.                            *)
(***************************************************************************)
EXTENDS Integers, FiniteSets, FiniteSetsExt

CONSTANTS
  Workers,      \* threads that serve requests
  Keys,         \* idempotency keys of the requests
  NoKey,        \* no key
  Payees,
  PayeeOf,      \* payee of each request
  Amount,       \* amount of each request
  Daily,        \* daily_limit of each payee
  Total,        \* total_limit of each payee
  Deposited,    \* what was paid into the escrow
  PspReports,   \* kinds of notifications the payment provider sends
  MaxDay        \* bound on the calendar

ASSUME UsageAssumption ==
  /\ IsFiniteSet(Keys)
  /\ NoKey \notin Keys
  /\ PayeeOf \in [Keys -> Payees]
  /\ Amount \in [Keys -> Nat \ {0}]
  /\ Daily \in [Payees -> Nat]
  /\ Total \in [Payees -> Nat]
  /\ Deposited \in Nat
  /\ PspReports \subseteq {"settled", "failed"}
  /\ MaxDay \in Nat

VARIABLES
  today,        \* the date
  closed,       \* the escrow is RELEASED, REFUNDED or CANCELLED
  allowed,      \* payees that have a row
  spentToday, spentTotal, resetAt,    \* columns of the row of each payee
  payment,      \* status of the payment of each key, "NONE" without a row
  paidOn,       \* date of the payment of each key
  events,       \* keys with a USAGE_SPEND event
  revived,      \* keys whose payment was settled over a reported failure
  worker,       \* what each worker does and what its session remembers
  calm          \* so far, nothing has happened in the midst of a request and
                \* none has died

world == <<today, closed, allowed>>
counters == <<spentToday, spentTotal, resetAt>>
ledger == <<payment, paidOn, events, revived>>
vars == <<world, counters, ledger, worker, calm>>

Stages ==
  {"idle", "balance", "check", "pay", "refresh", "settle", "event", "count"}
PaymentStatus == {"SENT", "SETTLED", "ERROR"}

\* day: the date the request read; daily, total: the counters it will write;
\* zero, stamp: the session holds a reset of spent_today, of last_reset_at;
\* forgot: a rollback made it forget the row of the payee; sent: it has loaded
\* the payment in a status other than SETTLED.
WorkerState ==
  [at : Stages, key : Keys \cup {NoKey}, day : Nat, daily : Nat, total : Nat,
   zero : BOOLEAN, stamp : BOOLEAN, forgot : BOOLEAN, sent : BOOLEAN]

Idle ==
  [at |-> "idle", key |-> NoKey, day |-> 0, daily |-> 0, total |-> 0,
   zero |-> FALSE, stamp |-> FALSE, forgot |-> FALSE, sent |-> FALSE]

TypeOK ==
  /\ today \in Nat
  /\ closed \in BOOLEAN
  /\ allowed \subseteq Payees
  /\ spentToday \in [Payees -> Nat]
  /\ spentTotal \in [Payees -> Nat]
  /\ resetAt \in [Payees -> Nat]
  /\ payment \in [Keys -> PaymentStatus \cup {"NONE"}]
  /\ paidOn \in [Keys -> Nat]
  /\ events \subseteq Keys
  /\ revived \subseteq Keys
  /\ worker \in [Workers -> WorkerState]
  /\ calm \in BOOLEAN

Init ==
  /\ today = 0
  /\ closed = FALSE
  /\ allowed = {}
  /\ spentToday = [p \in Payees |-> 0]
  /\ spentTotal = [p \in Payees |-> 0]
  /\ resetAt = [p \in Payees |-> 0]
  /\ payment = [k \in Keys |-> "NONE"]
  /\ paidOn = [k \in Keys |-> 0]
  /\ events = {}
  /\ revived = {}
  /\ worker = [w \in Workers |-> Idle]
  /\ calm = TRUE

-----------------------------------------------------------------------------
AllIdle == \A w \in Workers : worker[w].at = "idle"
Become(w, state) == worker' = [worker EXCEPT ![w] = state]
Goto(w, stage) == worker' = [worker EXCEPT ![w].at = stage]
KeyOf(w) == worker[w].key
Payee(w) == PayeeOf[KeyOf(w)]

\* Payments that were made, and those that debit the escrow: one that failed
\* debits it no more.
Made == {k \in Keys : payment[k] # "NONE"}
MadeTo(p) == {k \in Made : PayeeOf[k] = p}
Debiting == {k \in Keys : payment[k] \in {"SENT", "SETTLED"}}
Sum(S) == SumFunctionOnSet(Amount, S)

\* Plausible bug: a settled payment no longer debits the escrow.
AvailableIgnoringSettled == Deposited - Sum({k \in Keys : payment[k] = "SENT"})

Available == Deposited - Sum(Debiting)

\* Plausible bug: the total limit is not looked at.
AllowsDaily(p, daily, total) == daily <= Daily[p]

\* What the daily counter stands for on this day.
SpentSoFar(p) == IF resetAt[p] = today THEN spentToday[p] ELSE 0

Allows(p, daily, total) == daily <= Daily[p] /\ total <= Total[p]

(***************************************************************************)
(* spend_to_allowed_payee.  A key that has a payment ends it at once, a    *)
(* closed escrow, an unknown payee or a limit refuses it; the balance is   *)
(* looked at here and once more by execute_payout.                         *)
(***************************************************************************)
Begin(w, k) ==
  LET p == PayeeOf[k]
      daily == SpentSoFar(p) + Amount[k]
      total == spentTotal[p] + Amount[k]
  IN
  /\ worker[w].at = "idle"
  /\ payment[k] = "NONE" /\ ~closed /\ p \in allowed
  /\ Allows(p, daily, total)
  /\ Become(w, [Idle EXCEPT !.at = "balance", !.key = k, !.day = today,
                  !.daily = daily, !.total = total,
                  !.zero = resetAt[p] # today /\ spentToday[p] # 0,
                  !.stamp = resetAt[p] # today])
  /\ calm' = (calm /\ AllIdle)
  /\ UNCHANGED <<world, counters, ledger>>

CheckBalance(w) ==
  /\ worker[w].at = "balance"
  /\ IF Available >= Amount[KeyOf(w)] THEN Goto(w, "check") ELSE Become(w, Idle)
  /\ UNCHANGED <<world, counters, ledger, calm>>

\* execute_payout looks for the key again, then at the balance.  A payment of
\* this key that failed meanwhile refuses it.
CheckPayout(w) ==
  LET k == KeyOf(w) IN
  /\ worker[w].at = "check"
  /\ \/ /\ payment[k] \in {"SENT", "SETTLED"}
        /\ worker' = [worker EXCEPT ![w].at = "settle",
                                    ![w].sent = payment[k] # "SETTLED"]
     \/ payment[k] = "ERROR" /\ Become(w, Idle)
     \/ /\ payment[k] = "NONE"
        /\ IF Available >= Amount[k] THEN Goto(w, "pay") ELSE Become(w, Idle)
  /\ UNCHANGED <<world, counters, ledger, calm>>

\* The reset the session holds goes out, and the worker moves on.
FlushTo(w, stage) ==
  /\ spentToday' = IF worker[w].zero
                   THEN [spentToday EXCEPT ![Payee(w)] = 0] ELSE spentToday
  /\ resetAt' = IF worker[w].stamp
                THEN [resetAt EXCEPT ![Payee(w)] = worker[w].day] ELSE resetAt
  /\ worker' = [worker EXCEPT ![w].at = stage, ![w].sent = TRUE,
                              ![w].zero = FALSE, ![w].stamp = FALSE]

Pay(w) ==
  LET k == KeyOf(w) IN
  /\ worker[w].at = "pay"
  /\ payment[k] = "NONE"
  /\ payment' = [payment EXCEPT ![k] = "SENT"]
  /\ paidOn' = [paidOn EXCEPT ![k] = today]
  /\ FlushTo(w, "refresh")
  /\ UNCHANGED <<world, spentTotal, events, revived, calm>>

\* After the commit the payment is read again.
Refresh(w) ==
  /\ worker[w].at = "refresh"
  /\ worker' = [worker EXCEPT ![w].at = "settle",
                              ![w].sent = payment[KeyOf(w)] # "SETTLED"]
  /\ UNCHANGED <<world, counters, ledger, calm>>

\* The unique key is taken: the rollback drops the reset and makes the session
\* forget the row, so that its UPDATE will name every column it assigns.  The
\* other payment is returned, also when it has failed.
LoseKeyRace(w) ==
  LET k == KeyOf(w) IN
  /\ worker[w].at = "pay"
  /\ payment[k] # "NONE"
  /\ worker' = [worker EXCEPT ![w].at = "settle", ![w].zero = FALSE,
                  ![w].stamp = FALSE, ![w].forgot = TRUE,
                  ![w].sent = payment[k] # "SETTLED"]
  /\ UNCHANGED <<world, counters, ledger, calm>>

\* A payment becomes SETTLED, be it one whose failure was reported.
SetSettled(k) ==
  /\ payment' = [payment EXCEPT ![k] = "SETTLED"]
  /\ revived' = IF payment[k] = "ERROR" THEN revived \cup {k} ELSE revived

\* Plausible bug: the status of a paid milestone is stored.
SettleAsPaid(w) ==
  /\ worker[w].at = "settle"
  /\ payment' = [payment EXCEPT ![KeyOf(w)] = "PAID"]
  /\ FlushTo(w, "event")
  /\ UNCHANGED <<world, spentTotal, paidOn, events, revived, calm>>

\* finalize_payment_settlement: whatever the payment was found to be, and
\* whatever it has become since, it is SETTLED.
Settle(w) ==
  /\ worker[w].at = "settle"
  /\ IF worker[w].sent
     THEN SetSettled(KeyOf(w)) /\ FlushTo(w, "event")
     ELSE Goto(w, "event") /\ UNCHANGED <<payment, revived, spentToday, resetAt>>
  /\ UNCHANGED <<world, spentTotal, paidOn, events, calm>>

CheckEvent(w) ==
  /\ worker[w].at = "event"
  /\ IF KeyOf(w) \in events THEN Become(w, Idle) ELSE Goto(w, "count")
  /\ UNCHANGED <<world, counters, ledger, calm>>

\* Plausible bug: the total is not written back.
CountDaily(w) ==
  /\ worker[w].at = "count"
  /\ spentToday' = [spentToday EXCEPT ![Payee(w)] = worker[w].daily]
  /\ events' = events \cup {KeyOf(w)}
  /\ Become(w, Idle)
  /\ UNCHANGED <<world, spentTotal, resetAt, payment, paidOn, revived, calm>>

Count(w) ==
  LET p == Payee(w) IN
  /\ worker[w].at = "count"
  /\ spentToday' = [spentToday EXCEPT ![p] = worker[w].daily]
  /\ spentTotal' = [spentTotal EXCEPT ![p] = worker[w].total]
  /\ resetAt' = IF worker[w].stamp \/ worker[w].forgot
                THEN [resetAt EXCEPT ![p] = worker[w].day] ELSE resetAt
  /\ events' = events \cup {KeyOf(w)}
  /\ Become(w, Idle)
  /\ UNCHANGED <<world, payment, paidOn, revived, calm>>

Die(w) ==
  /\ worker[w].at # "idle"
  /\ Become(w, Idle)
  /\ calm' = FALSE
  /\ UNCHANGED <<world, counters, ledger>>

-----------------------------------------------------------------------------
\* add_allowed_payee; a second time it is refused.
AddAllowedPayee(p) ==
  /\ p \notin allowed
  /\ allowed' = allowed \cup {p}
  /\ resetAt' = [resetAt EXCEPT ![p] = today]
  /\ UNCHANGED <<today, closed, spentToday, spentTotal, ledger, worker, calm>>

\* The endpoints of the escrow close it, by the decision of the client, and
\* open it again, by a deposit or mark_delivered (see Payouts).
SetEscrow ==
  /\ closed' = ~closed
  /\ calm' = (calm /\ AllIdle)
  /\ UNCHANGED <<today, allowed, counters, ledger, worker>>

NextDay ==
  /\ today < MaxDay
  /\ today' = today + 1
  /\ calm' = (calm /\ AllIdle)
  /\ UNCHANGED <<closed, allowed, counters, ledger, worker>>

(***************************************************************************)
(* Notifications of the payment provider, in any order and number.  The    *)
(* insert of the event opens the write section, so the rest is current;    *)
(* the counters of the payee are not looked at.                            *)
(***************************************************************************)
PspSettled(k) ==
  /\ "settled" \in PspReports /\ payment[k] \in {"SENT", "ERROR"}
  /\ SetSettled(k)
  /\ calm' = (calm /\ AllIdle)
  /\ UNCHANGED <<world, counters, paidOn, events, worker>>

PspFailed(k) ==
  /\ "failed" \in PspReports /\ payment[k] \in {"SENT", "SETTLED"}
  /\ payment' = [payment EXCEPT ![k] = "ERROR"]
  /\ calm' = (calm /\ AllIdle)
  /\ UNCHANGED <<world, counters, paidOn, events, revived, worker>>

Step(w) ==
  \/ CheckBalance(w) \/ CheckPayout(w) \/ Pay(w) \/ Refresh(w) \/ LoseKeyRace(w)
  \/ Settle(w) \/ CheckEvent(w) \/ Count(w) \/ Die(w)

Next ==
  \/ \E w \in Workers, k \in Keys : Begin(w, k)
  \/ \E w \in Workers : Step(w)
  \/ \E p \in Payees : AddAllowedPayee(p)
  \/ SetEscrow
  \/ NextDay
  \/ \E k \in Keys : PspSettled(k) \/ PspFailed(k)

Spec == Init /\ [][Next]_vars

-----------------------------------------------------------------------------
\* Whatever requests overlap, die or see midnight pass, the counters stay
\* within the limits: they are written as values that were once checked.
CountersWithinLimits ==
  \A p \in Payees : spentToday[p] <= Daily[p] /\ spentTotal[p] <= Total[p]

\* A spend is counted only after its payment was settled, and only the provider
\* ever takes that back.
CountedWasSettled == \A k \in events : payment[k] \in {"SETTLED", "ERROR"}

\* As long as nothing overlaps a request and none dies half-way, the counters
\* are, between the requests and across days, what was sent to the payee: also
\* what failed afterwards, which the code never takes off the counters.
CalmCountersRight ==
  calm /\ AllIdle => \A p \in allowed :
    /\ spentTotal[p] = Sum(MadeTo(p))
    /\ spentToday[p] = Sum({k \in MadeTo(p) : paidOn[k] = resetAt[p]})

\* Just so long the payouts to all payees together stay within what was paid in,
\* not counting those that were settled after their failure had been reported:
\* the balance they gave back may have been spent in between.
CalmNotOverdrawn == calm => Sum(Debiting \ revived) <= Deposited
=============================================================================
