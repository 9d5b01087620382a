--------------------------- MODULE SpendMandates ---------------------------
(***************************************************************************)
(* Usage mandates of one sender, beneficiary and currency, and the         *)
(* purchases that consume them (app/services/mandates.py, spend.py).       *)
(*                                                                         *)
(* A request reads the committed state in one or more pieces and ends in   *)
(* one write section, as in Payouts.  The UPDATE that consumes a mandate   *)
(* tests and changes the current row; it opens the write section, so the   *)
(* insert of the purchase, with its unique key, is in the same one.  The   *)
(* hourly job that should expire mandates finds no session factory (cron.py*)
(* binds SessionLocal when it is imported, before init_engine), so only    *)
(* the cleanup endpoint does.                                              *)
(***************************************************************************)
EXTENDS Integers, FiniteSets, FiniteSetsExt

CONSTANTS
  Workers,      \* threads that serve requests
  Keys,         \* idempotency keys of the purchases
  NoKey,        \* no key
  Price,        \* amount of the purchase of each key
  Merchant,     \* merchant of the purchase of each key
  Merchants,
  Certified,    \* merchants that need no allowed usage
  Categories,
  None,         \* no merchant, or no category
  CategoryOf,   \* category of each merchant
  Named,        \* category the request of each key names
  M,            \* number of mandates that may be created, with ids 1..M
  Limit,        \* total_amount of each mandate
  OnlyMerchant, \* allowed_merchant_id of each mandate
  OnlyCategory, \* allowed_category_id of each mandate
  MaxTime       \* bound on the clock

Mandates == 1..M

ASSUME SpendAssumption ==
  /\ IsFiniteSet(Keys) /\ Keys # {} /\ NoKey \notin Keys
  /\ Price \in [Keys -> Nat]
  /\ Merchant \in [Keys -> Merchants]
  /\ Certified \subseteq Merchants
  /\ None \notin Merchants \cup Categories
  /\ CategoryOf \in [Merchants -> Categories \cup {None}]
  /\ Named \in [Keys -> Categories \cup {None}]
  /\ M \in Nat \ {0}
  /\ Limit \in [Mandates -> Nat \ {0}]
  /\ OnlyMerchant \in [Mandates -> Merchants \cup {None}]
  /\ OnlyCategory \in [Mandates -> Categories \cup {None}]
  /\ MaxTime \in Nat

MandateStatus == {"ACTIVE", "EXPIRED", "CONSUMED"}

VARIABLES
  now,          \* the clock
  status,       \* status of each mandate, "NONE" when it has no row
  spent,        \* total_spent of each mandate
  expires,      \* expires_at of each mandate
  charged,      \* mandate that paid for the purchase of each key, 0 without a row
  allowed,      \* merchants and categories the beneficiary may use
  worker        \* what each worker does, and what it read

vars == <<now, status, spent, expires, charged, allowed, worker>>
db == <<status, spent, expires, charged, allowed>>

Stages == {"idle", "create", "authorise", "consume", "sweep"}

WorkerState ==
  [at : Stages, key : Keys \cup {NoKey}, mandate : Mandates,
   clock : 0..MaxTime, sweep : SUBSET Mandates]

Idle == [at |-> "idle", key |-> NoKey, mandate |-> 1, clock |-> 0, sweep |-> {}]

TypeOK ==
  /\ now \in 0..MaxTime
  /\ status \in [Mandates -> MandateStatus \cup {"NONE"}]
  /\ spent \in [Mandates -> Nat]
  /\ expires \in [Mandates -> Nat]
  /\ charged \in [Keys -> Mandates \cup {0}]
  /\ allowed \subseteq Merchants \cup Categories
  /\ worker \in [Workers -> WorkerState]

Init ==
  /\ now = 0
  /\ status = [m \in Mandates |-> "NONE"]
  /\ spent = [m \in Mandates |-> 0]
  /\ expires = [m \in Mandates |-> 0]
  /\ charged = [k \in Keys |-> 0]
  /\ allowed = {}
  /\ worker = [w \in Workers |-> Idle]

-----------------------------------------------------------------------------
Become(w, state) == worker' = [worker EXCEPT ![w] = state]

Active == {m \in Mandates : status[m] = "ACTIVE"}
Usable == {m \in Active : expires[m] > now}

(***************************************************************************)
(* create_mandate.  The search for an active mandate of the pair ignores   *)
(* the expiry date, as does the unique index that backs it: an insert that *)
(* meets an active row is an error no handler catches.                     *)
(***************************************************************************)
CheckNoDuplicate(w) ==
  /\ worker[w].at = "idle"
  /\ Active = {}
  /\ Become(w, [Idle EXCEPT !.at = "create", !.clock = now])
  /\ UNCHANGED <<now, db>>

InsertMandate(w, m, date) ==
  /\ worker[w].at = "create"
  /\ Active = {}
  /\ status[m] = "NONE" /\ \A n \in 1..(m - 1) : status[n] # "NONE"
  /\ date > worker[w].clock
  /\ status' = [status EXCEPT ![m] = "ACTIVE"]
  /\ expires' = [expires EXCEPT ![m] = date]
  /\ Become(w, Idle)
  /\ UNCHANGED <<now, spent, charged, allowed>>

LoseCreation(w) ==
  /\ worker[w].at = "create"
  /\ Active # {}
  /\ Become(w, Idle)
  /\ UNCHANGED <<now, db>>

(***************************************************************************)
(* create_purchase looks for the usable mandate of the pair, whatever the  *)
(* merchant; the index leaves it no choice.                                *)
(***************************************************************************)
FindMandate(w, k) ==
  /\ worker[w].at = "idle"
  /\ charged[k] = 0
  /\ \E m \in Usable :
       Become(w, [Idle EXCEPT !.at = "authorise", !.key = k, !.clock = now, !.mandate = m])
  /\ UNCHANGED <<now, db>>

\* The category of a purchase is the one its request names, which nothing
\* compares with the merchant's; without one, it is the merchant's.
Category(k) == IF Named[k] # None THEN Named[k] ELSE CategoryOf[Merchant[k]]

\* Plausible bug: the restriction of the mandate to a category is not looked at.
CoversMerchant(m, k) == OnlyMerchant[m] \in {None, Merchant[k]}

Covers(m, k) ==
  /\ OnlyMerchant[m] \in {None, Merchant[k]}
  /\ OnlyCategory[m] \in {None, Category(k)}

Authorised(k, m) ==
  /\ Covers(m, k)
  /\ {Merchant[k], Category(k)} \cap allowed # {} \/ Merchant[k] \in Certified

CheckUsage(w) ==
  LET k == worker[w].key  m == worker[w].mandate IN
  /\ worker[w].at = "authorise"
  /\ IF Authorised(k, m)
     THEN worker' = [worker EXCEPT ![w].at = "consume"]
     ELSE Become(w, Idle)
  /\ UNCHANGED <<now, db>>

\* Plausible bugs: the clause leaves out the status, or the limit.
CanConsumeAnyStatus(m, price, time) ==
  expires[m] > time /\ spent[m] + price <= Limit[m]
CanConsumeOnce(m, price, time) ==
  status[m] = "ACTIVE" /\ expires[m] > time /\ spent[m] <= Limit[m]

\* The WHERE clause of the UPDATE that consumes the mandate.
CanConsume(m, price, time) ==
  /\ status[m] = "ACTIVE"
  /\ expires[m] > time
  /\ spent[m] + price <= Limit[m]

StatusAfter(m, price) ==
  IF spent[m] + price >= Limit[m] THEN "CONSUMED" ELSE "ACTIVE"

\* Plausible bugs: the consumption is committed before the insert that loses
\* the race for the key; the purchase of the other request is overwritten.
ConsumeFirst(w) ==
  LET k == worker[w].key  m == worker[w].mandate IN
  /\ worker[w].at = "consume"
  /\ CanConsume(m, Price[k], worker[w].clock)
  /\ spent' = [spent EXCEPT ![m] = @ + Price[k]]
  /\ status' = [status EXCEPT ![m] = StatusAfter(m, Price[k])]
  /\ charged' = IF charged[k] = 0 THEN [charged EXCEPT ![k] = m] ELSE charged
  /\ Become(w, Idle)
  /\ UNCHANGED <<now, expires, allowed>>

Consume(w) ==
  LET k == worker[w].key  m == worker[w].mandate IN
  /\ worker[w].at = "consume"
  /\ charged[k] = 0
  /\ CanConsume(m, Price[k], worker[w].clock)
  /\ spent' = [spent EXCEPT ![m] = @ + Price[k]]
  /\ status' = [status EXCEPT ![m] = StatusAfter(m, Price[k])]
  /\ charged' = [charged EXCEPT ![k] = m]
  /\ Become(w, Idle)
  /\ UNCHANGED <<now, expires, allowed>>

\* A mandate that is no longer good is a conflict; a key that was taken rolls
\* the consumption back and returns the other purchase.
GiveUp(w) ==
  LET k == worker[w].key  m == worker[w].mandate IN
  /\ worker[w].at = "consume"
  /\ charged[k] # 0 \/ ~CanConsume(m, Price[k], worker[w].clock)
  /\ Become(w, Idle)
  /\ UNCHANGED <<now, db>>

\* allow_usage, for a merchant or for a category; a second time it is refused.
AllowUsage(usage) ==
  /\ usage \notin allowed
  /\ allowed' = allowed \cup {usage}
  /\ UNCHANGED <<now, status, spent, expires, charged, worker>>

(***************************************************************************)
(* close_expired_mandates loads the active mandates past their date and    *)
(* sets their status by id.                                                *)
(***************************************************************************)
FindExpired(w) ==
  /\ worker[w].at = "idle"
  /\ Active \ Usable # {}
  /\ Become(w, [Idle EXCEPT !.at = "sweep", !.sweep = Active \ Usable])
  /\ UNCHANGED <<now, db>>

\* Plausible bug: the cleanup deletes the mandates.
DeleteExpired(w) ==
  /\ worker[w].at = "sweep"
  /\ status' = [m \in Mandates |->
                  IF m \in worker[w].sweep THEN "DELETED" ELSE status[m]]
  /\ Become(w, Idle)
  /\ UNCHANGED <<now, spent, expires, charged, allowed>>

CloseExpired(w) ==
  /\ worker[w].at = "sweep"
  /\ status' = [m \in Mandates |->
                  IF m \in worker[w].sweep THEN "EXPIRED" ELSE status[m]]
  /\ Become(w, Idle)
  /\ UNCHANGED <<now, spent, expires, charged, allowed>>

\* A request dies before its commit.
Die(w) ==
  /\ worker[w].at # "idle"
  /\ Become(w, Idle)
  /\ UNCHANGED <<now, db>>

Tick ==
  /\ now < MaxTime
  /\ now' = now + 1
  /\ UNCHANGED <<db, worker>>

-----------------------------------------------------------------------------
Serve(w) ==
  \/ CheckNoDuplicate(w)
  \/ \E m \in Mandates, date \in 0..(MaxTime + 1) : InsertMandate(w, m, date)
  \/ LoseCreation(w)
  \/ \E k \in Keys : FindMandate(w, k)
  \/ CheckUsage(w) \/ Consume(w) \/ GiveUp(w)
  \/ FindExpired(w) \/ CloseExpired(w)
  \/ Die(w)

Next ==
  \/ \E w \in Workers : Serve(w)
  \/ \E usage \in Merchants \cup Categories : AllowUsage(usage)
  \/ Tick

Spec == Init /\ [][Next]_vars

-----------------------------------------------------------------------------
\* What a mandate counts as spent is what its purchases cost: a request that
\* loses the race for its key or dies leaves nothing behind.
SpentIsPurchases ==
  \A m \in Mandates :
    spent[m] = SumFunctionOnSet(Price, {k \in Keys : charged[k] = m})

\* Concurrent purchases never exceed the limit of a mandate, though each was
\* authorised before the others were charged.
NeverOverspent == \A m \in Mandates : spent[m] <= Limit[m]

\* A mandate that is active has something left to spend.
ActiveHasLeft ==
  \A m \in Mandates : status[m] = "ACTIVE" => spent[m] < Limit[m]

\* A mandate that is restricted, or whose beneficiary may use only some
\* merchants and categories, pays just for these.  The category is the one the
\* request names (spend.py:279), so this says nothing of the merchant's own.
LegalCharge(k, m) ==
  /\ OnlyMerchant[m] # None => Merchant[k] = OnlyMerchant[m]
  /\ OnlyCategory[m] # None =>
       \/ Named[k] = OnlyCategory[m]
       \/ Named[k] = None /\ CategoryOf[Merchant[k]] = OnlyCategory[m]
  /\ \/ Merchant[k] \in allowed \cup Certified
     \/ Named[k] \in allowed
     \/ Named[k] = None /\ CategoryOf[Merchant[k]] \in allowed

\* A purchase is charged once, to a mandate that is active when it is charged
\* and may pay for it, though the mandate was chosen, and the usage looked up,
\* before other purchases, cleanups and new mandates committed.
OnlyActiveCharged ==
  [][\A k \in Keys : charged'[k] # charged[k] =>
       /\ charged[k] = 0
       /\ status[charged'[k]] = "ACTIVE"
       /\ LegalCharge(k, charged'[k])]_vars

\* A mandate that expired is never used again: a purchase that found it before
\* the cleanup does not bring it back to life.
ExpiredIsFinal ==
  [][\A m \in Mandates : status[m] = "EXPIRED" => status'[m] = "EXPIRED"]_vars
\* Concurrent purchases, creations and cleanups keep the promise of Budget,
\* though each acts on a mandate it chose before the others committed.
CostOf(purchases) == SumFunctionOnSet(Price, purchases)
Life(m) == CASE status[m] = "NONE" -> "new"
             [] status[m] = "ACTIVE" -> "open"
             [] OTHER -> "closed"

MandateBudget == INSTANCE Budget WITH
  NoMandate <- 0,
  Within <- [m \in Mandates |-> {S \in SUBSET Keys : CostOf(S) < Limit[m]}],
  SpendUp <- [m \in Mandates |-> {S \in SUBSET Keys : CostOf(S) = Limit[m]}],
  life <- [m \in Mandates |-> Life(m)]
KeepsBudget == MandateBudget!Spec

=============================================================================
