-------------------------- MODULE UsageSpendProofs --------------------------
(***************************************************************************)
(* Proofs about UsageSpend, for any number of requests, payees and days,   *)
(* and however requests overlap or die.  What a worker will write was      *)
(* within the limits when it was computed, and the limits do not move; a   *)
(* worker past the settlement looks at a payment that was settled, which   *)
(* only a reported failure undoes.  As long as nothing overlaps a request, *)
(* the counters and the balance are exact; these are facts about finite    *)
(* sums.                                                                   *)
(***************************************************************************)
EXTENDS UsageSpend, Sums, TLAPS

\* What a busy worker holds.
Fits(state) ==
  state.at # "idle" =>
    /\ state.key \in Keys
    /\ state.daily <= Daily[PayeeOf[state.key]]
    /\ state.total <= Total[PayeeOf[state.key]]

\* Payments that were settled, whatever was reported of them since.
Over == {"SETTLED", "ERROR"}

\* What its stage says of the payment of its key.
Agrees(state) ==
  /\ state.at = "settle" /\ ~state.sent => payment[state.key] \in Over
  /\ state.at \in {"event", "count"} => payment[state.key] \in Over
  /\ state.at = "refresh" => payment[state.key] # "NONE"

WorkersFit == \A w \in Workers : Fits(worker[w])
WorkersAgree == \A w \in Workers : Agrees(worker[w])

IInv ==
  /\ TypeOK
  /\ WorkersFit
  /\ WorkersAgree
  /\ CountersWithinLimits
  /\ CountedWasSettled

-----------------------------------------------------------------------------
\* Every state a worker is put in is a state of a worker.
LEMMA WorkerStep ==
  ASSUME TypeOK, WorkersFit, [Next]_vars
  PROVE  worker' \in [Workers -> WorkerState] /\ WorkersFit'
  <1> USE UsageAssumption DEF TypeOK, WorkersFit, Fits
  <1>0. Idle \in WorkerState /\ Idle.at = "idle"
    BY DEF Idle, WorkerState, Stages
  <1>a. ASSUME NEW w \in Workers, NEW state \in WorkerState, Fits(state),
               worker' = [worker EXCEPT ![w] = state]
        PROVE  worker' \in [Workers -> WorkerState] /\ WorkersFit'
    BY <1>a
  <1>b. ASSUME NEW w \in Workers, NEW state, worker[w].at # "idle",
               NEW s \in Stages, NEW z \in BOOLEAN, NEW m \in BOOLEAN,
               NEW n \in BOOLEAN, NEW f \in BOOLEAN,
               state = [worker[w] EXCEPT !.at = s, !.zero = z, !.stamp = m,
                          !.sent = n, !.forgot = f],
               worker' = [worker EXCEPT ![w] = state]
        PROVE  worker' \in [Workers -> WorkerState] /\ WorkersFit'
    <2>1. worker[w] \in WorkerState /\ Fits(worker[w])
      OBVIOUS
    <2>2. state \in WorkerState
      BY <1>b, <2>1 DEF WorkerState
    <2>3. /\ state.key = worker[w].key
          /\ state.daily = worker[w].daily
          /\ state.total = worker[w].total
      BY <1>b, <2>1 DEF WorkerState
    <2>4. Fits(state)
      BY <1>b, <2>1, <2>3
    <2> QED
      BY <1>b, <2>2, <2>4, <1>a
  <1>c. ASSUME NEW w \in Workers, NEW s \in Stages, Goto(w, s),
               worker[w].at # "idle"
        PROVE  worker' \in [Workers -> WorkerState] /\ WorkersFit'
    <2>1. worker[w] \in WorkerState
      OBVIOUS
    <2>2. PICK z \in BOOLEAN, m \in BOOLEAN, n \in BOOLEAN, f \in BOOLEAN :
            /\ z = worker[w].zero /\ m = worker[w].stamp
            /\ n = worker[w].sent /\ f = worker[w].forgot
      BY <2>1 DEF WorkerState
    <2>3. PICK state : state = [worker[w] EXCEPT !.at = s, !.zero = z,
                                  !.stamp = m, !.sent = n, !.forgot = f]
      OBVIOUS
    <2>4. worker' = [worker EXCEPT ![w] = state]
      BY <1>c, <2>1, <2>2, <2>3 DEF Goto, WorkerState
    <2> QED
      BY <1>c, <2>3, <2>4, <1>b
  <1>d. UNCHANGED worker => worker' \in [Workers -> WorkerState] /\ WorkersFit'
    OBVIOUS
  <1>s. /\ "check" \in Stages /\ "pay" \in Stages /\ "refresh" \in Stages
        /\ "settle" \in Stages /\ "event" \in Stages /\ "count" \in Stages
    BY DEF Stages
  \* A worker that finds a payment remembers whether it is settled.
  <1>f. ASSUME NEW w \in Workers, worker[w].at # "idle",
               worker' = [worker EXCEPT ![w].at = "settle",
                                        ![w].sent = payment[KeyOf(w)] # "SETTLED"]
        PROVE  worker' \in [Workers -> WorkerState] /\ WorkersFit'
    <2>1. worker[w] \in WorkerState
      OBVIOUS
    <2>a. worker[w].at # "idle"
      BY <1>f
    <2>2. PICK z \in BOOLEAN, m \in BOOLEAN, n \in BOOLEAN, f \in BOOLEAN :
            /\ z = worker[w].zero /\ m = worker[w].stamp
            /\ n = (payment[KeyOf(w)] # "SETTLED") /\ f = worker[w].forgot
      BY <2>1 DEF WorkerState
    <2>3. PICK state : state = [worker[w] EXCEPT !.at = "settle", !.zero = z,
                                  !.stamp = m, !.sent = n, !.forgot = f]
      OBVIOUS
    <2>4. worker' = [worker EXCEPT ![w].at = "settle", ![w].sent = n]
      BY <1>f, <2>2
    <2>5. worker' = [worker EXCEPT ![w] = state]
      BY <2>1, <2>2, <2>3, <2>4 DEF WorkerState
    <2> QED
      BY <2>a, <2>3, <2>5, <1>s, <1>b
  <1>i. ASSUME NEW w \in Workers, Become(w, Idle)
        PROVE  worker' \in [Workers -> WorkerState] /\ WorkersFit'
    BY <1>0, <1>a, <1>i DEF Become
  <1>1. ASSUME NEW w \in Workers, NEW k \in Keys, Begin(w, k)
        PROVE  worker' \in [Workers -> WorkerState] /\ WorkersFit'
    <2>1. PICK daily, total :
            /\ daily = SpentSoFar(PayeeOf[k]) + Amount[k]
            /\ total = spentTotal[PayeeOf[k]] + Amount[k]
      OBVIOUS
    <2>2. daily \in Nat /\ total \in Nat
      BY <2>1 DEF SpentSoFar
    <2>3. daily <= Daily[PayeeOf[k]] /\ total <= Total[PayeeOf[k]]
      BY <1>1, <2>1 DEF Begin, Allows
    <2>4. PICK z \in BOOLEAN, m \in BOOLEAN :
            Become(w, [Idle EXCEPT !.at = "balance", !.key = k, !.day = today,
                         !.daily = daily, !.total = total, !.zero = z,
                         !.stamp = m])
      BY <1>1, <2>1 DEF Begin
    <2>5. PICK state : state = [Idle EXCEPT !.at = "balance", !.key = k,
                         !.day = today, !.daily = daily, !.total = total,
                         !.zero = z, !.stamp = m]
      OBVIOUS
    <2>6. state \in WorkerState /\ Fits(state) /\ state.key \in Keys
      BY <2>2, <2>3, <2>5 DEF Idle, WorkerState, Stages
    <2> QED
      BY <2>4, <2>5, <2>6, <1>a DEF Become
  <1>2. ASSUME NEW w \in Workers, CheckBalance(w) \/ CheckPayout(w)
        PROVE  worker' \in [Workers -> WorkerState] /\ WorkersFit'
    <2>1. worker[w].at # "idle"
      BY <1>2 DEF CheckBalance, CheckPayout
    <2>2. \/ Goto(w, "check") \/ Goto(w, "pay") \/ Become(w, Idle)
          \/ worker' = [worker EXCEPT ![w].at = "settle",
                                      ![w].sent = payment[KeyOf(w)] # "SETTLED"]
      BY <1>2 DEF CheckBalance, CheckPayout
    <2> QED
      BY <2>1, <2>2, <1>s, <1>c, <1>f, <1>i
  <1>3. ASSUME NEW w \in Workers, Pay(w)
        PROVE  worker' \in [Workers -> WorkerState] /\ WorkersFit'
    <2>1. worker[w].at # "idle" /\ worker[w] \in WorkerState
      BY <1>3 DEF Pay
    <2>2. PICK f \in BOOLEAN : f = worker[w].forgot
      BY <2>1 DEF WorkerState
    <2>3. PICK state : state = [worker[w] EXCEPT !.at = "refresh", !.zero = FALSE,
                                  !.stamp = FALSE, !.sent = TRUE, !.forgot = f]
      OBVIOUS
    <2>4. worker' = [worker EXCEPT ![w] = state]
      BY <1>3, <2>1, <2>2, <2>3 DEF Pay, FlushTo, WorkerState
    <2> QED
      BY <2>1, <2>3, <2>4, <1>s, <1>b
  <1>r. ASSUME NEW w \in Workers, Refresh(w)
        PROVE  worker' \in [Workers -> WorkerState] /\ WorkersFit'
    BY <1>r, <1>f DEF Refresh
  <1>4. ASSUME NEW w \in Workers, LoseKeyRace(w)
        PROVE  worker' \in [Workers -> WorkerState] /\ WorkersFit'
    <2>1. worker[w].at # "idle" /\ worker[w] \in WorkerState
      BY <1>4 DEF LoseKeyRace
    <2>2. PICK n \in BOOLEAN : n = (payment[KeyOf(w)] # "SETTLED")
      OBVIOUS
    <2>3. PICK state : state = [worker[w] EXCEPT !.at = "settle", !.zero = FALSE,
                                  !.stamp = FALSE, !.sent = n, !.forgot = TRUE]
      OBVIOUS
    <2>4. worker' = [worker EXCEPT ![w] = state]
      BY <1>4, <2>1, <2>2, <2>3 DEF LoseKeyRace, WorkerState
    <2> QED
      BY <2>1, <2>3, <2>4, <1>s, <1>b
  <1>5. ASSUME NEW w \in Workers, Settle(w)
        PROVE  worker' \in [Workers -> WorkerState] /\ WorkersFit'
    <2>1. worker[w].at # "idle" /\ worker[w] \in WorkerState
      BY <1>5 DEF Settle
    <2>2. PICK f \in BOOLEAN : f = worker[w].forgot
      BY <2>1 DEF WorkerState
    <2>a. PICK state : state = [worker[w] EXCEPT !.at = "event", !.zero = FALSE,
                                  !.stamp = FALSE, !.sent = TRUE, !.forgot = f]
      OBVIOUS
    <2>3. CASE worker[w].sent
      <3>1. worker' = [worker EXCEPT ![w].at = "event", ![w].sent = TRUE,
                         ![w].zero = FALSE, ![w].stamp = FALSE]
        BY <1>5, <2>3 DEF Settle, FlushTo
      <3>2. worker' = [worker EXCEPT ![w] = state]
        BY <2>1, <2>2, <2>a, <3>1 DEF WorkerState
      <3> QED
        BY <2>1, <2>a, <3>2, <1>s, <1>b
    <2>4. CASE ~worker[w].sent
      BY <1>5, <2>1, <2>4, <1>s, <1>c DEF Settle
    <2> QED
      BY <2>3, <2>4
  <1>6. ASSUME NEW w \in Workers, CheckEvent(w)
        PROVE  worker' \in [Workers -> WorkerState] /\ WorkersFit'
    BY <1>6, <1>s, <1>c, <1>i DEF CheckEvent
  <1>7. ASSUME NEW w \in Workers, Count(w) \/ Die(w)
        PROVE  worker' \in [Workers -> WorkerState] /\ WorkersFit'
    BY <1>7, <1>i DEF Count, Die
  <1>8. ASSUME NEW p \in Payees, AddAllowedPayee(p)
        PROVE  worker' = worker
    BY <1>8 DEF AddAllowedPayee
  <1>9. CASE SetEscrow \/ NextDay \/ UNCHANGED vars
    BY <1>9 DEF SetEscrow, NextDay, vars
  <1>10. ASSUME NEW k \in Keys, PspSettled(k) \/ PspFailed(k)
         PROVE  worker' = worker
    BY <1>10 DEF PspSettled, PspFailed
  <1> QED
    BY <1>d, <1>1, <1>2, <1>3, <1>r, <1>4, <1>5, <1>6, <1>7, <1>8, <1>9, <1>10
    DEF Next, Step

-----------------------------------------------------------------------------
\* Only Pay, Settle and the provider touch the payments: a key without one gets
\* one, and one that was settled can only fail.
LEMMA PaymentsStep ==
  ASSUME TypeOK, WorkersFit, WorkersAgree, [Next]_vars
  PROVE  /\ payment' \in [Keys -> PaymentStatus \cup {"NONE"}]
         /\ \A k \in Keys : payment[k] \in Over => payment'[k] \in Over
         /\ \A k \in Keys : payment[k] # "NONE" => payment'[k] # "NONE"
  <1> USE DEF TypeOK, WorkersFit, Fits, KeyOf, PaymentStatus, Over
  <1>1. ASSUME NEW w \in Workers, Pay(w)
        PROVE  /\ payment[KeyOf(w)] = "NONE" /\ KeyOf(w) \in Keys
               /\ payment' = [payment EXCEPT ![KeyOf(w)] = "SENT"]
    BY <1>1 DEF Pay
  <1>2. ASSUME NEW w \in Workers, Settle(w)
        PROVE  /\ KeyOf(w) \in Keys
               /\ \/ payment' = [payment EXCEPT ![KeyOf(w)] = "SETTLED"]
                  \/ payment' = payment
    BY <1>2 DEF Settle, SetSettled
  <1>3. ASSUME NEW w \in Workers, NEW k \in Keys, Begin(w, k)
        PROVE  payment' = payment
    BY <1>3 DEF Begin, ledger
  <1>4. ASSUME NEW w \in Workers,
               \/ CheckBalance(w) \/ CheckPayout(w) \/ Refresh(w) \/ LoseKeyRace(w)
               \/ CheckEvent(w) \/ Count(w) \/ Die(w)
        PROVE  payment' = payment
    BY <1>4 DEF CheckBalance, CheckPayout, Refresh, LoseKeyRace, CheckEvent, Count,
                Die, ledger
  <1>5. ASSUME NEW p \in Payees, AddAllowedPayee(p)
        PROVE  payment' = payment
    BY <1>5 DEF AddAllowedPayee, ledger
  <1>6. CASE SetEscrow \/ NextDay \/ UNCHANGED vars
    BY <1>6 DEF SetEscrow, NextDay, vars, ledger
  <1>7. ASSUME NEW k \in Keys, PspSettled(k) \/ PspFailed(k)
        PROVE  \/ payment' = [payment EXCEPT ![k] = "SETTLED"]
               \/ payment' = [payment EXCEPT ![k] = "ERROR"]
    BY <1>7 DEF PspSettled, PspFailed, SetSettled
  <1> QED
    BY <1>1, <1>2, <1>3, <1>4, <1>5, <1>6, <1>7 DEF Next, Step

\* The other columns.
LEMMA ColumnsStep ==
  ASSUME IInv, [Next]_vars
  PROVE  /\ today' \in Nat /\ closed' \in BOOLEAN /\ allowed' \subseteq Payees
         /\ spentToday' \in [Payees -> Nat] /\ spentTotal' \in [Payees -> Nat]
         /\ resetAt' \in [Payees -> Nat] /\ paidOn' \in [Keys -> Nat]
         /\ events' \subseteq Keys /\ revived' \subseteq Keys
         /\ calm' \in BOOLEAN /\ CountersWithinLimits'
  <1> USE UsageAssumption DEF IInv, TypeOK
  <1> DEFINE Goal == /\ today' \in Nat /\ closed' \in BOOLEAN
                     /\ allowed' \subseteq Payees
                     /\ spentToday' \in [Payees -> Nat]
                     /\ spentTotal' \in [Payees -> Nat]
                     /\ resetAt' \in [Payees -> Nat] /\ paidOn' \in [Keys -> Nat]
                     /\ events' \subseteq Keys /\ revived' \subseteq Keys
                     /\ calm' \in BOOLEAN /\ CountersWithinLimits'
  <1>a. ASSUME NEW w \in Workers, worker[w].at # "idle"
        PROVE  /\ KeyOf(w) \in Keys /\ Payee(w) \in Payees
               /\ worker[w].daily \in Nat /\ worker[w].total \in Nat
               /\ worker[w].day \in Nat
               /\ worker[w].daily <= Daily[Payee(w)]
               /\ worker[w].total <= Total[Payee(w)]
    BY <1>a DEF WorkersFit, Fits, KeyOf, Payee, WorkerState
  <1>b. ASSUME NEW w \in Workers, NEW s, worker[w].at # "idle", FlushTo(w, s),
               spentTotal' = spentTotal
        PROVE  /\ spentToday' \in [Payees -> Nat] /\ resetAt' \in [Payees -> Nat]
               /\ CountersWithinLimits'
    <2>1. /\ spentToday' = spentToday
             \/ spentToday' = [spentToday EXCEPT ![Payee(w)] = 0]
          /\ resetAt' = resetAt
             \/ resetAt' = [resetAt EXCEPT ![Payee(w)] = worker[w].day]
      BY <1>b DEF FlushTo
    <2>2. spentToday' \in [Payees -> Nat] /\ resetAt' \in [Payees -> Nat]
      BY <2>1, <1>a, <1>b
    <2>3. CountersWithinLimits'
      BY <2>1, <1>a, <1>b DEF CountersWithinLimits
    <2> QED
      BY <2>2, <2>3
  <1>1. ASSUME NEW w \in Workers, Pay(w)
        PROVE  Goal
    BY <1>1, <1>a, <1>b DEF Pay, world
  <1>2. ASSUME NEW w \in Workers, Settle(w)
        PROVE  Goal
    <2>1. CASE worker[w].sent
      <3>1. revived' = revived \/ revived' = revived \cup {KeyOf(w)}
        BY <1>2, <2>1 DEF Settle, SetSettled
      <3>2. revived' \subseteq Keys
        BY <1>2, <1>a, <3>1 DEF Settle
      <3> QED
        BY <1>2, <1>b, <2>1, <3>2 DEF Settle, world
    <2>2. CASE ~worker[w].sent
      BY <1>2, <2>2 DEF Settle, world, CountersWithinLimits
    <2> QED
      BY <2>1, <2>2
  <1>3. ASSUME NEW w \in Workers, Count(w)
        PROVE  Goal
    <2>1. worker[w].at # "idle"
      BY <1>3 DEF Count
    <2>2. PICK p \in Payees, k \in Keys, daily \in Nat, total \in Nat, day \in Nat :
            /\ p = Payee(w) /\ k = KeyOf(w)
            /\ daily = worker[w].daily /\ total = worker[w].total
            /\ day = worker[w].day
            /\ daily <= Daily[p] /\ total <= Total[p]
      BY <1>a, <2>1
    <2>3. /\ spentToday' = [spentToday EXCEPT ![p] = daily]
          /\ spentTotal' = [spentTotal EXCEPT ![p] = total]
          /\ resetAt' = resetAt \/ resetAt' = [resetAt EXCEPT ![p] = day]
          /\ events' = events \cup {k}
          /\ UNCHANGED <<today, closed, allowed, paidOn, revived, calm>>
      BY <1>3, <2>2 DEF Count, world
    <2>4. CountersWithinLimits'
      BY <2>2, <2>3 DEF CountersWithinLimits
    <2> QED
      BY <2>3, <2>4
  <1>4. ASSUME NEW w \in Workers, NEW k \in Keys, Begin(w, k)
        PROVE  Goal
    <2>1. calm' \in BOOLEAN
      BY <1>4 DEF Begin, AllIdle
    <2> QED
      BY <1>4, <2>1 DEF Begin, world, counters, ledger, CountersWithinLimits
  <1>5. ASSUME NEW w \in Workers,
               \/ CheckBalance(w) \/ CheckPayout(w) \/ Refresh(w) \/ LoseKeyRace(w)
               \/ CheckEvent(w) \/ Die(w)
        PROVE  Goal
    BY <1>5 DEF CheckBalance, CheckPayout, Refresh, LoseKeyRace, CheckEvent, Die,
       world, counters, ledger, CountersWithinLimits
  <1>6. ASSUME NEW p \in Payees, AddAllowedPayee(p)
        PROVE  Goal
    BY <1>6 DEF AddAllowedPayee, ledger, CountersWithinLimits
  <1>7. ASSUME SetEscrow \/ NextDay
        PROVE  Goal
    <2>1. calm' \in BOOLEAN
      BY <1>7 DEF SetEscrow, NextDay, AllIdle
    <2>2. /\ today' = today \/ today' = today + 1
          /\ closed' = closed \/ closed' = ~closed
          /\ UNCHANGED <<allowed, spentToday, spentTotal, resetAt, paidOn, events,
                         revived>>
      BY <1>7 DEF SetEscrow, NextDay, counters, ledger
    <2>3. today' \in Nat
      BY <2>2
    <2>4. closed' \in BOOLEAN
      BY <2>2
    <2>5. CountersWithinLimits'
      BY <2>2 DEF CountersWithinLimits
    <2> QED
      BY <2>1, <2>2, <2>3, <2>4, <2>5
  <1>8. ASSUME UNCHANGED vars
        PROVE  Goal
    BY <1>8 DEF vars, world, counters, ledger, CountersWithinLimits
  <1>p. ASSUME NEW k \in Keys, PspSettled(k) \/ PspFailed(k)
        PROVE  Goal
    <2>1. calm' \in BOOLEAN
      BY <1>p DEF PspSettled, PspFailed, AllIdle
    <2>2. revived' = revived \/ revived' = revived \cup {k}
      BY <1>p DEF PspSettled, PspFailed, SetSettled
    <2>3. /\ UNCHANGED <<today, closed, allowed, spentToday, spentTotal, resetAt,
                         paidOn, events>>
      BY <1>p DEF PspSettled, PspFailed, world, counters
    <2>4. CountersWithinLimits'
      BY <2>3 DEF CountersWithinLimits
    <2> QED
      BY <2>1, <2>2, <2>3, <2>4
  <1> HIDE UsageAssumption DEF Goal, IInv, TypeOK
  <1>9. ASSUME NEW w \in Workers, Step(w)
        PROVE  Goal
    BY <1>1, <1>2, <1>3, <1>5, <1>9 DEF Step
  <1>10. Goal
    BY <1>4, <1>6, <1>7, <1>8, <1>9, <1>p DEF Next
  <1> QED
    BY <1>10 DEF Goal

\* A worker goes past the settlement only with a settled payment.
LEMMA AgreementStep ==
  ASSUME IInv, [Next]_vars
  PROVE  WorkersAgree' /\ CountedWasSettled'
  <1> USE DEF IInv, TypeOK
  <1>a. ASSUME NEW w \in Workers, worker'[w] = worker[w]
        PROVE  Agrees(worker[w])'
    BY <1>a, PaymentsStep DEF WorkersAgree, Agrees, WorkersFit, Fits
  <1>b. ASSUME NEW w \in Workers, Agrees(worker[w])',
               \A v \in Workers : v # w => worker'[v] = worker[v]
        PROVE  WorkersAgree'
    BY <1>a, <1>b DEF WorkersAgree
  <1>c. ASSUME UNCHANGED events PROVE CountedWasSettled'
    BY <1>c, PaymentsStep DEF CountedWasSettled, Over
  <1>1. ASSUME NEW w \in Workers, NEW k \in Keys, Begin(w, k)
        PROVE  WorkersAgree' /\ UNCHANGED events
    <2>1. worker'[w].at = "balance"
      BY <1>1 DEF Begin, Become, Idle
    <2>2. Agrees(worker[w])'
      BY <2>1 DEF Agrees
    <2>3. \A v \in Workers : v # w => worker'[v] = worker[v]
      BY <1>1 DEF Begin, Become
    <2> QED
      BY <1>1, <2>2, <2>3, <1>b DEF Begin, ledger
  \* A worker that finds a payment remembers whether it is settled.
  <1>f. ASSUME NEW w \in Workers, worker[w].at # "idle", payment[KeyOf(w)] # "NONE",
               worker'[w].at = "settle", worker'[w].key = KeyOf(w),
               worker'[w].sent = (payment[KeyOf(w)] # "SETTLED"),
               payment' = payment,
               \A v \in Workers : v # w => worker'[v] = worker[v]
        PROVE  WorkersAgree'
    <2>1. Agrees(worker[w])'
      BY <1>f DEF Agrees, Over
    <2> QED
      BY <1>f, <2>1, <1>b
  \* One that has yet to find one agrees with anything.
  <1>g. ASSUME NEW w \in Workers, Goto(w, "check") \/ Goto(w, "pay") \/ Become(w, Idle)
        PROVE  WorkersAgree'
    <2>1. worker'[w].at \in {"check", "pay", "idle"}
      BY <1>g DEF Goto, Become, Idle, WorkerState
    <2>2. Agrees(worker[w])'
      BY <2>1 DEF Agrees
    <2>3. \A v \in Workers : v # w => worker'[v] = worker[v]
      BY <1>g DEF Goto, Become
    <2> QED
      BY <2>2, <2>3, <1>b
  <1>2. ASSUME NEW w \in Workers, CheckBalance(w) \/ CheckPayout(w)
        PROVE  WorkersAgree' /\ UNCHANGED events
    <2>1. worker[w].at # "idle" /\ worker[w] \in WorkerState /\ KeyOf(w) \in Keys
      BY <1>2 DEF CheckBalance, CheckPayout, WorkersFit, Fits, KeyOf
    <2>2. payment' = payment /\ UNCHANGED events
      BY <1>2 DEF CheckBalance, CheckPayout, ledger
    <2>3. \/ Goto(w, "check") \/ Goto(w, "pay") \/ Become(w, Idle)
          \/ /\ payment[KeyOf(w)] # "NONE"
             /\ worker' = [worker EXCEPT ![w].at = "settle",
                                         ![w].sent = payment[KeyOf(w)] # "SETTLED"]
      BY <1>2 DEF CheckBalance, CheckPayout
    <2>4. ASSUME payment[KeyOf(w)] # "NONE",
                 worker' = [worker EXCEPT ![w].at = "settle",
                                          ![w].sent = payment[KeyOf(w)] # "SETTLED"]
          PROVE  WorkersAgree'
      <3>1. /\ worker'[w].at = "settle" /\ worker'[w].key = KeyOf(w)
            /\ worker'[w].sent = (payment[KeyOf(w)] # "SETTLED")
            /\ \A v \in Workers : v # w => worker'[v] = worker[v]
        BY <2>1, <2>4 DEF WorkerState, KeyOf
      <3> QED
        BY <2>1, <2>2, <2>4, <3>1, <1>f
    <2> QED
      BY <2>2, <2>3, <2>4, <1>g
  <1>3. ASSUME NEW w \in Workers, Pay(w)
        PROVE  WorkersAgree' /\ UNCHANGED events
    <2>1. worker'[w].at = "refresh" /\ worker'[w].key = KeyOf(w) /\ KeyOf(w) \in Keys
      BY <1>3 DEF Pay, FlushTo, WorkerState, WorkersFit, Fits, KeyOf
    <2>2. Agrees(worker[w])'
      BY <1>3, <2>1 DEF Agrees, Pay
    <2>3. \A v \in Workers : v # w => worker'[v] = worker[v]
      BY <1>3 DEF Pay, FlushTo
    <2> QED
      BY <1>3, <2>2, <2>3, <1>b DEF Pay
  <1>r. ASSUME NEW w \in Workers, Refresh(w)
        PROVE  WorkersAgree' /\ UNCHANGED events
    <2>1. /\ worker[w].at = "refresh" /\ worker[w] \in WorkerState
          /\ payment' = payment /\ UNCHANGED events
      BY <1>r DEF Refresh, ledger
    <2>2. /\ worker'[w].at = "settle" /\ worker'[w].key = KeyOf(w)
          /\ worker'[w].sent = (payment[KeyOf(w)] # "SETTLED")
          /\ \A v \in Workers : v # w => worker'[v] = worker[v]
      BY <1>r, <2>1 DEF Refresh, WorkerState, KeyOf
    <2>3. payment[KeyOf(w)] # "NONE"
      BY <2>1 DEF WorkersAgree, Agrees, KeyOf
    <2> QED
      BY <2>1, <2>2, <2>3, <1>f
  <1>4. ASSUME NEW w \in Workers, LoseKeyRace(w)
        PROVE  WorkersAgree' /\ UNCHANGED events
    <2>1. /\ worker[w].at # "idle" /\ worker[w] \in WorkerState
          /\ payment[KeyOf(w)] # "NONE"
          /\ payment' = payment /\ UNCHANGED events
      BY <1>4 DEF LoseKeyRace, ledger
    <2>2. /\ worker'[w].at = "settle" /\ worker'[w].key = KeyOf(w)
          /\ worker'[w].sent = (payment[KeyOf(w)] # "SETTLED")
          /\ \A v \in Workers : v # w => worker'[v] = worker[v]
      BY <1>4, <2>1 DEF LoseKeyRace, WorkerState, KeyOf
    <2> QED
      BY <2>1, <2>2, <1>f
  <1>5. ASSUME NEW w \in Workers, Settle(w)
        PROVE  WorkersAgree' /\ UNCHANGED events
    <2>1. /\ worker[w].at = "settle" /\ worker[w] \in WorkerState
          /\ KeyOf(w) \in Keys
      BY <1>5 DEF Settle, WorkersFit, Fits, KeyOf
    <2>2. payment'[KeyOf(w)] \in Over
      BY <1>5, <2>1 DEF Settle, SetSettled, WorkersAgree, Agrees, KeyOf, Over
    <2>3. worker'[w].key = KeyOf(w) /\ worker'[w].at = "event"
      BY <1>5, <2>1 DEF Settle, FlushTo, Goto, WorkerState, KeyOf
    <2>4. Agrees(worker[w])'
      BY <2>2, <2>3 DEF Agrees
    <2>5. \A v \in Workers : v # w => worker'[v] = worker[v]
      BY <1>5 DEF Settle, FlushTo, Goto
    <2> QED
      BY <1>5, <2>4, <2>5, <1>b DEF Settle
  <1>6. ASSUME NEW w \in Workers, CheckEvent(w)
        PROVE  WorkersAgree' /\ UNCHANGED events
    <2>1. worker[w].at = "event" /\ worker[w] \in WorkerState
      BY <1>6 DEF CheckEvent
    <2>2. payment'[worker[w].key] \in Over
      BY <1>6, <2>1 DEF CheckEvent, WorkersAgree, Agrees, ledger
    <2>3. \/ worker'[w].at = "idle"
          \/ worker'[w].at = "count" /\ worker'[w].key = worker[w].key
      BY <1>6, <2>1 DEF CheckEvent, Goto, Become, Idle, WorkerState
    <2>4. Agrees(worker[w])'
      BY <2>2, <2>3 DEF Agrees
    <2>5. \A v \in Workers : v # w => worker'[v] = worker[v]
      BY <1>6 DEF CheckEvent, Goto, Become
    <2> QED
      BY <1>6, <2>4, <2>5, <1>b DEF CheckEvent, ledger
  <1>7. ASSUME NEW w \in Workers, Become(w, Idle)
        PROVE  WorkersAgree'
    <2>1. worker'[w].at = "idle"
      BY <1>7 DEF Become, Idle
    <2>2. Agrees(worker[w])'
      BY <2>1 DEF Agrees
    <2>3. \A v \in Workers : v # w => worker'[v] = worker[v]
      BY <1>7 DEF Become
    <2> QED
      BY <2>2, <2>3, <1>b
  <1>8. ASSUME NEW w \in Workers, Count(w)
        PROVE  WorkersAgree' /\ CountedWasSettled'
    <2>1. payment[KeyOf(w)] \in Over
      BY <1>8 DEF Count, WorkersAgree, Agrees, KeyOf
    <2>2. payment' = payment /\ events' = events \cup {KeyOf(w)}
      BY <1>8 DEF Count
    <2>3. CountedWasSettled'
      BY <2>1, <2>2 DEF CountedWasSettled, Over
    <2> QED
      BY <1>8, <1>7, <2>3 DEF Count
  <1>9. ASSUME NEW w \in Workers, Die(w)
        PROVE  WorkersAgree' /\ UNCHANGED events
    BY <1>9, <1>7 DEF Die, ledger
  <1>10. ASSUME NEW p \in Payees, AddAllowedPayee(p)
         PROVE  UNCHANGED <<worker, events>>
    BY <1>10 DEF AddAllowedPayee, ledger
  <1>11. CASE SetEscrow \/ NextDay \/ UNCHANGED vars
    <2>1. UNCHANGED <<worker, events>>
      BY <1>11 DEF SetEscrow, NextDay, vars, ledger
    <2> QED
      BY <2>1, <1>a, <1>c DEF WorkersAgree
  <1>12. ASSUME UNCHANGED <<worker, events>>
         PROVE  WorkersAgree' /\ CountedWasSettled'
    BY <1>12, <1>a, <1>c DEF WorkersAgree
  <1>13. ASSUME NEW k \in Keys, PspSettled(k) \/ PspFailed(k)
         PROVE  UNCHANGED <<worker, events>>
    BY <1>13 DEF PspSettled, PspFailed
  <1> HIDE DEF IInv, TypeOK
  <1> QED
    BY <1>c, <1>1, <1>2, <1>3, <1>r, <1>4, <1>5, <1>6, <1>8, <1>9, <1>10, <1>11, <1>12,
       <1>13
       DEF Next, Step

LEMMA InitIInv == Init => IInv
  <1> SUFFICES ASSUME Init PROVE IInv
    OBVIOUS
  <1>1. Idle \in WorkerState /\ Idle.at = "idle"
    BY DEF Idle, WorkerState, Stages
  <1>2. TypeOK
    BY <1>1 DEF Init, TypeOK
  <1>3. WorkersFit /\ WorkersAgree
    BY <1>1 DEF Init, WorkersFit, WorkersAgree, Fits, Agrees
  <1>4. CountersWithinLimits
    BY UsageAssumption DEF Init, CountersWithinLimits
  <1> QED
    BY <1>2, <1>3, <1>4 DEF Init, IInv, CountedWasSettled

LEMMA Invariant == Spec => []IInv
  <1>1. IInv /\ [Next]_vars => IInv'
    <2> SUFFICES ASSUME IInv, [Next]_vars PROVE IInv'
      OBVIOUS
    <2>1. TypeOK /\ WorkersFit /\ WorkersAgree
      BY DEF IInv
    <2>2. TypeOK'
      BY <2>1, WorkerStep, PaymentsStep, ColumnsStep DEF TypeOK
    <2> QED
      BY <2>1, <2>2, WorkerStep, ColumnsStep, AgreementStep DEF IInv
  <1> QED
    BY InitIInv, <1>1, PTL DEF Spec

-----------------------------------------------------------------------------
(***************************************************************************)
(* While nothing overlaps a request, the counters lag behind the payments  *)
(* only for the payee of the one request that is past its payment, and it  *)
(* holds the values that make up for it.                                   *)
(***************************************************************************)
SpentOn(p, day) == Sum({k \in MadeTo(p) : paidOn[k] = day})

Right(p) == /\ spentTotal[p] = Sum(MadeTo(p))
            /\ spentToday[p] = SpentOn(p, resetAt[p])

Before(w) ==
  /\ payment[KeyOf(w)] = "NONE" /\ Payee(w) \in allowed
  /\ worker[w].day = today
  /\ worker[w].daily = SpentSoFar(Payee(w)) + Amount[KeyOf(w)]
  /\ worker[w].total = spentTotal[Payee(w)] + Amount[KeyOf(w)]
  /\ worker[w].zero = (resetAt[Payee(w)] # today /\ spentToday[Payee(w)] # 0)
  /\ worker[w].stamp = (resetAt[Payee(w)] # today)
  /\ ~worker[w].forgot
  /\ worker[w].at = "pay" => Sum(Debiting) + Amount[KeyOf(w)] <= Deposited

PastPayment(w) == worker[w].at \in {"refresh", "settle", "event", "count"}

After(w) ==
  /\ payment[KeyOf(w)] # "NONE" /\ Payee(w) \in allowed
  /\ resetAt[Payee(w)] = today /\ ~worker[w].zero /\ ~worker[w].stamp
  /\ ~worker[w].forgot
  /\ worker[w].daily = SpentOn(Payee(w), today)
  /\ worker[w].total = Sum(MadeTo(Payee(w)))
  /\ KeyOf(w) \notin events
  /\ worker[w].at \in {"refresh", "settle"} =>
       payment[KeyOf(w)] = "SENT" /\ worker[w].sent

Here(w) ==
  /\ \A p \in Payees : (PastPayment(w) => Payee(w) # p) => Right(p)
  /\ worker[w].at \in {"balance", "check", "pay"} => Before(w)
  /\ PastPayment(w) => After(w)

Tables ==
  /\ \A p \in Payees : resetAt[p] <= today /\ (p \notin allowed => MadeTo(p) = {})
  /\ \A k \in Made : paidOn[k] <= resetAt[PayeeOf[k]]
  /\ Sum(Debiting \ revived) <= Deposited

CalmInv ==
  calm =>
    /\ Tables
    /\ AllIdle => \A p \in Payees : Right(p)
    /\ \A w \in Workers : worker[w].at # "idle" =>
         Here(w) /\ \A v \in Workers \ {w} : worker[v].at = "idle"

LEMMA SumTypes ==
  /\ IsFiniteSet(Keys)
  /\ Sum({}) = 0
  /\ \A S \in SUBSET Keys : Sum(S) \in Nat
  /\ \A S \in SUBSET Keys, k \in Keys : k \notin S => Sum(S \cup {k}) = Amount[k] + Sum(S)
  /\ \A T \in SUBSET Keys : \A S \in SUBSET T : Sum(S) <= Sum(T)
<1>1. IsFiniteSet(Keys) /\ \A k \in Keys : Amount[k] \in Nat
  BY UsageAssumption
<1>2. ASSUME NEW S \in SUBSET Keys PROVE IsFiniteSet(S) /\ \A k \in S : Amount[k] \in Nat
  BY <1>1, FS_Subset
<1>3. ASSUME NEW S \in SUBSET Keys PROVE Sum(S) \in Nat
  BY <1>2, SumNat DEF Sum
<1>4. ASSUME NEW S \in SUBSET Keys, NEW k \in Keys, k \notin S
      PROVE  Sum(S \cup {k}) = Amount[k] + Sum(S)
  <2>1. \A y \in S \cup {k} : Amount[y] \in Nat
    BY <1>1
  <2> QED
    BY <1>2, <1>4, <2>1, SumAdd DEF Sum
<1>5. Sum({}) = 0
  BY SumEmpty DEF Sum
<1>6. ASSUME NEW T \in SUBSET Keys, NEW S \in SUBSET T PROVE Sum(S) <= Sum(T)
  BY <1>2, SumMonotone DEF Sum
<1> QED
  BY <1>1, <1>3, <1>4, <1>5, <1>6

\* What the daily counter stands for is what was paid today.
LEMMA SoFar ==
  ASSUME TypeOK, Tables, NEW p \in Payees, Right(p)
  PROVE  SpentSoFar(p) = SpentOn(p, today)
<1>1. CASE resetAt[p] = today
  BY <1>1 DEF SpentSoFar, Right
<1>2. CASE resetAt[p] # today
  <2>1. \A k \in MadeTo(p) : paidOn[k] # today
    <3> SUFFICES ASSUME NEW k \in MadeTo(p) PROVE paidOn[k] # today
      OBVIOUS
    <3>1. paidOn[k] <= resetAt[p] /\ resetAt[p] <= today /\ k \in Keys
      BY DEF Tables, MadeTo, Made
    <3> QED
      BY <1>2, <3>1 DEF TypeOK
  <2>2. {k \in MadeTo(p) : paidOn[k] = today} = {}
    BY <2>1
  <2> QED
    BY <1>2, <2>2, SumTypes DEF SpentSoFar, SpentOn
<1> QED
  BY <1>1, <1>2

\* A step of the only request there is.
LEMMA Lone ==
  ASSUME NEW w \in Workers, \A v \in Workers \ {w} : worker'[v].at = "idle",
         Tables', Here(w)'
  PROVE  CalmInv'
<1>1. AllIdle' => \A p \in Payees : Right(p)'
  BY DEF AllIdle, Here, PastPayment
<1>2. \A u \in Workers : worker'[u].at # "idle" => u = w
  OBVIOUS
<1> QED
  BY <1>1, <1>2 DEF CalmInv

\* Nothing the invariant speaks of depends on the workers alone.
LEMMA SameTables ==
  ASSUME UNCHANGED <<today, allowed, counters, ledger>>
  PROVE  /\ Made' = Made /\ Debiting' = Debiting /\ Tables' = Tables
         /\ \A p \in Payees : /\ MadeTo(p)' = MadeTo(p) /\ Right(p)' = Right(p)
                              /\ SpentSoFar(p)' = SpentSoFar(p)
                              /\ SpentOn(p, today)' = SpentOn(p, today)
BY DEF counters, ledger, Made, MadeTo, Debiting, Sum, Tables, Right, SpentSoFar, SpentOn

\* The columns move, but for the payee of w only, and nothing it was paid does.
LEMMA OtherPayees ==
  ASSUME TypeOK, NEW p \in Payees, NEW q \in Payees \ {p}, Right(q),
         MadeTo(q)' = MadeTo(q), \A k \in MadeTo(q) : paidOn'[k] = paidOn[k],
         spentToday'[q] = spentToday[q], spentTotal'[q] = spentTotal[q],
         resetAt'[q] = resetAt[q]
  PROVE  Right(q)'
<1>1. {k \in MadeTo(q)' : paidOn'[k] = resetAt'[q]} = {k \in MadeTo(q) : paidOn[k] = resetAt[q]}
  OBVIOUS
<1> QED
  BY <1>1 DEF Right, SpentOn, Sum

LEMMA CalmBegin ==
  ASSUME IInv, CalmInv, calm', NEW w \in Workers, NEW k \in Keys, Begin(w, k)
  PROVE  CalmInv'
<1> USE DEF IInv
<1>1. calm /\ AllIdle /\ UNCHANGED <<today, allowed, counters, ledger>>
  BY DEF Begin, world
<1>2. Tables /\ \A p \in Payees : Right(p)
  BY <1>1 DEF CalmInv
<1>3. Tables' /\ \A p \in Payees : Right(p)'
  BY <1>1, <1>2, SameTables
<1>4. \A v \in Workers \ {w} : worker'[v].at = "idle"
  BY <1>1 DEF Begin, Become, AllIdle, TypeOK
<1>5. /\ worker'[w].at = "balance" /\ worker'[w].key = k /\ ~worker'[w].forgot
      /\ worker'[w].day = today
      /\ worker'[w].daily = SpentSoFar(PayeeOf[k]) + Amount[k]
      /\ worker'[w].total = spentTotal[PayeeOf[k]] + Amount[k]
      /\ worker'[w].zero = (resetAt[PayeeOf[k]] # today /\ spentToday[PayeeOf[k]] # 0)
      /\ worker'[w].stamp = (resetAt[PayeeOf[k]] # today)
  BY DEF Begin, Become, Idle, TypeOK
<1>6. Before(w)'
  <2>1. payment'[k] = "NONE" /\ PayeeOf[k] \in allowed'
    BY <1>1 DEF Begin, ledger
  <2>2. PayeeOf[k] \in Payees
    BY UsageAssumption
  <2>3. /\ SpentSoFar(PayeeOf[k])' = SpentSoFar(PayeeOf[k])
        /\ UNCHANGED <<today, resetAt, spentToday, spentTotal>>
    BY <1>1, <2>2, SameTables DEF counters
  <2> QED
    BY <1>5, <2>1, <2>3 DEF Before, KeyOf, Payee
<1>7. Here(w)'
  BY <1>3, <1>5, <1>6 DEF Here, PastPayment
<1> QED
  BY <1>3, <1>4, <1>7, Lone

LEMMA CalmCheck ==
  ASSUME IInv, CalmInv, calm', NEW w \in Workers,
         CheckBalance(w) \/ CheckPayout(w)
  PROVE  CalmInv'
<1> USE DEF IInv
<1>1. calm /\ UNCHANGED <<today, allowed, counters, ledger>> /\ worker[w].at \in {"balance", "check"}
  BY DEF CheckBalance, CheckPayout, world
<1>2. Tables /\ Here(w) /\ \A v \in Workers \ {w} : worker[v].at = "idle"
  BY <1>1 DEF CalmInv
<1>3. Before(w) /\ \A p \in Payees : Right(p)
  BY <1>1, <1>2 DEF Here, PastPayment
<1>4. Tables' /\ \A p \in Payees : Right(p)'
  BY <1>1, <1>2, <1>3, SameTables
<1>5. /\ KeyOf(w) \in Keys /\ Payee(w) \in Payees /\ worker[w] \in WorkerState
      /\ Amount[KeyOf(w)] \in Nat /\ Deposited \in Nat
  BY <1>1, UsageAssumption DEF WorkersFit, Fits, TypeOK, KeyOf, Payee
<1>6. /\ Available >= Amount[KeyOf(w)] => \E s \in {"check", "pay"} : Goto(w, s)
      /\ ~ (Available >= Amount[KeyOf(w)]) => Become(w, Idle)
  BY <1>3 DEF CheckBalance, CheckPayout, Before
<1>7. CASE Available >= Amount[KeyOf(w)]
  <2>0. PICK s \in {"check", "pay"} : Goto(w, s)
    BY <1>6, <1>7
  <2>1. /\ worker' = [worker EXCEPT ![w].at = s]
        /\ worker'[w].at = s /\ worker'[w].key = worker[w].key
        /\ worker'[w].day = worker[w].day /\ worker'[w].daily = worker[w].daily
        /\ worker'[w].total = worker[w].total /\ worker'[w].zero = worker[w].zero
        /\ worker'[w].stamp = worker[w].stamp
        /\ worker'[w].forgot = worker[w].forgot
    BY <1>5, <2>0 DEF Goto, TypeOK, WorkerState
  <2>2. Sum(Debiting) + Amount[KeyOf(w)] <= Deposited
    <3>1. Sum(Debiting) \in Nat
      BY SumTypes DEF Debiting
    <3> QED
      BY <1>5, <1>7, <3>1 DEF Available
  <2>3. Before(w)'
    <3>1. UNCHANGED <<today, allowed, payment, resetAt, spentToday, spentTotal>>
      BY <1>1 DEF counters, ledger
    <3>2. SpentSoFar(Payee(w))' = SpentSoFar(Payee(w)) /\ Sum(Debiting)' = Sum(Debiting)
      BY <2>1, <3>1 DEF SpentSoFar, Payee, KeyOf, Sum, Debiting
    <3>3. KeyOf(w)' = KeyOf(w) /\ Payee(w)' = Payee(w)
      BY <2>1 DEF KeyOf, Payee
    <3> QED
      BY <1>3, <2>1, <2>2, <3>1, <3>2, <3>3 DEF Before
  <2>4. Here(w)'
    BY <1>4, <2>1, <2>3 DEF Here, PastPayment
  <2>5. \A v \in Workers \ {w} : worker'[v].at = "idle"
    BY <1>2, <2>1 DEF TypeOK
  <2> QED
    BY <1>4, <2>4, <2>5, Lone
<1>8. CASE ~ (Available >= Amount[KeyOf(w)])
  <2>1. worker'[w].at = "idle" /\ \A v \in Workers \ {w} : worker'[v].at = "idle"
    BY <1>2, <1>6, <1>8 DEF Become, Idle, TypeOK
  <2>2. Here(w)'
    BY <1>4, <2>1 DEF Here, PastPayment
  <2> QED
    BY <1>4, <2>1, <2>2, Lone
<1> QED
  BY <1>7, <1>8

LEMMA CalmPay ==
  ASSUME IInv, CalmInv, calm', NEW w \in Workers, Pay(w)
  PROVE  CalmInv'
<1> USE DEF IInv
<1>0. PICK k \in Keys, p \in Payees : k = KeyOf(w) /\ p = Payee(w)
  <2>1. KeyOf(w) \in Keys
    BY DEF Pay, WorkersFit, Fits, TypeOK, KeyOf
  <2> QED
    BY <2>1, UsageAssumption DEF Payee
<1>1. /\ calm /\ worker[w].at = "pay" /\ payment[k] = "NONE"
      /\ payment' = [payment EXCEPT ![k] = "SENT"]
      /\ paidOn' = [paidOn EXCEPT ![k] = today]
      /\ UNCHANGED <<today, allowed, spentTotal, events, revived>>
      /\ FlushTo(w, "refresh")
  BY <1>0 DEF Pay, world
<1>2. Tables /\ Here(w) /\ \A v \in Workers \ {w} : worker[v].at = "idle"
  BY <1>1 DEF CalmInv
<1>3. Before(w) /\ \A q \in Payees : Right(q)
  BY <1>1, <1>2 DEF Here, PastPayment
<1>4. /\ k \in Keys /\ p \in Payees /\ worker[w] \in WorkerState
      /\ Amount[k] \in Nat /\ Deposited \in Nat
  BY <1>0, <1>1, UsageAssumption DEF TypeOK
<1>5. /\ spentToday' = [spentToday EXCEPT ![p] = SpentSoFar(p)]
      /\ resetAt' = [resetAt EXCEPT ![p] = today]
  <2>1. spentToday' = [spentToday EXCEPT ![p] = SpentSoFar(p)]
    <3>1. SpentSoFar(p) = IF worker[w].zero THEN 0 ELSE spentToday[p]
      BY <1>0, <1>3 DEF Before, SpentSoFar
    <3> QED
      BY <1>0, <1>1, <1>4, <3>1 DEF FlushTo, TypeOK
  <2>2. resetAt' = [resetAt EXCEPT ![p] = today]
    BY <1>0, <1>1, <1>3, <1>4 DEF FlushTo, Before, TypeOK
  <2> QED
    BY <2>1, <2>2
<1>6. /\ worker'[w].at = "refresh" /\ worker'[w].key = k
      /\ worker'[w].daily = worker[w].daily /\ worker'[w].total = worker[w].total
      /\ ~worker'[w].zero /\ ~worker'[w].stamp /\ worker'[w].sent
      /\ ~worker'[w].forgot
      /\ \A v \in Workers \ {w} : worker'[v].at = "idle"
  <2>1. ~worker[w].forgot
    BY <1>3 DEF Before
  <2> QED
    BY <1>0, <1>1, <1>2, <1>4, <2>1 DEF FlushTo, TypeOK, WorkerState, KeyOf
<1>7. /\ Made' = Made \cup {k} /\ MadeTo(p)' = MadeTo(p) \cup {k}
      /\ k \notin Made /\ k \notin MadeTo(p) /\ Made \subseteq Keys
      /\ \A q \in Payees \ {p} : MadeTo(q)' = MadeTo(q) /\ k \notin MadeTo(q)
  <2>1. Made' = Made \cup {k} /\ k \notin Made /\ Made \subseteq Keys
    BY <1>1, <1>4 DEF Made, TypeOK
  <2>2. PayeeOf[k] = p
    BY <1>0 DEF Payee
  <2> QED
    BY <2>1, <2>2 DEF MadeTo
<1>8. \A j \in Made : paidOn'[j] = paidOn[j] /\ j \in Keys
  BY <1>1, <1>7 DEF TypeOK
<1>9. paidOn'[k] = today
  BY <1>1, <1>4 DEF TypeOK
<1>10. Tables'
  <2>1. Sum(Debiting' \ revived') <= Deposited
    <3>a. /\ Debiting \subseteq Keys /\ k \notin Debiting
          /\ Debiting' \ revived' \subseteq Debiting \cup {k}
      BY <1>1, <1>4 DEF Debiting, TypeOK
    <3>1. Sum(Debiting \cup {k}) = Amount[k] + Sum(Debiting) /\ Sum(Debiting) \in Nat
      BY <1>4, <3>a, SumTypes
    <3>2. Sum(Debiting) + Amount[k] <= Deposited
      BY <1>0, <1>1, <1>3 DEF Before
    <3>3. /\ Sum(Debiting' \ revived') <= Sum(Debiting \cup {k})
          /\ Sum(Debiting' \ revived') \in Nat
      BY <1>4, <3>a, SumTypes
    <3> DEFINE new == Sum(Debiting' \ revived')
    <3> DEFINE old == Sum(Debiting)
    <3>4. /\ new \in Nat /\ old \in Nat
          /\ new <= Amount[k] + old /\ old + Amount[k] <= Deposited
      BY <3>1, <3>2, <3>3
    <3> HIDE DEF new, old
    <3>5. new <= Deposited
      BY <1>4, <3>4
    <3> QED
      BY <3>5 DEF new
  <2>2. ASSUME NEW j \in Made' PROVE paidOn'[j] <= resetAt'[PayeeOf[j]]
    <3>1. CASE j = k
      BY <1>0, <1>4, <1>5, <1>9, <3>1 DEF Payee, TypeOK
    <3>2. CASE j # k
      <4>1. j \in Made /\ paidOn'[j] = paidOn[j] /\ paidOn[j] <= resetAt[PayeeOf[j]]
            /\ PayeeOf[j] \in Payees
        BY <1>2, <1>7, <1>8, <3>2, UsageAssumption DEF Tables
      <4>2. resetAt[PayeeOf[j]] <= today
        BY <1>2, <4>1 DEF Tables
      <4>3. resetAt'[PayeeOf[j]] = resetAt[PayeeOf[j]] \/ resetAt'[PayeeOf[j]] = today
        BY <1>5, <4>1 DEF TypeOK
      <4> QED
        BY <1>8, <4>1, <4>2, <4>3 DEF TypeOK
    <3> QED
      BY <3>1, <3>2
  <2>3. ASSUME NEW q \in Payees
        PROVE  (resetAt[q] <= today /\ (q \notin allowed => MadeTo(q) = {}))'
    <3>1. resetAt'[q] <= today
      BY <1>2, <1>5 DEF Tables, TypeOK
    <3>2. q \notin allowed => MadeTo(q)' = {}
      BY <1>0, <1>2, <1>3, <1>7 DEF Tables, Before
    <3> QED
      BY <1>1, <3>1, <3>2
  <2>4. Sum(Debiting \ revived)' = Sum(Debiting' \ revived')
    BY DEF Sum
  <2> QED
    BY <2>1, <2>2, <2>3, <2>4 DEF Tables
<1>11. After(w)'
  <2>1. KeyOf(w)' = k /\ Payee(w)' = p
    BY <1>0, <1>6 DEF KeyOf, Payee
  <2>2. payment'[k] # "NONE" /\ p \in allowed' /\ resetAt'[p] = today'
    BY <1>0, <1>1, <1>3, <1>4, <1>5 DEF Before, TypeOK
  <2>3. worker'[w].daily = Sum({j \in MadeTo(p)' : paidOn'[j] = today})
    <3> DEFINE S == {j \in MadeTo(p) : paidOn[j] = today}
    <3>1. {j \in MadeTo(p)' : paidOn'[j] = today} = S \cup {k} /\ k \notin S
          /\ S \in SUBSET Keys
      BY <1>7, <1>8, <1>9 DEF MadeTo
    <3>2. Sum(S \cup {k}) = Amount[k] + Sum(S) /\ Sum(S) \in Nat
      BY <1>4, <3>1, SumTypes
    <3>3. SpentSoFar(p) = Sum(S)
      BY <1>2, <1>3, <1>4, SoFar DEF SpentOn
    <3>4. worker[w].daily = SpentSoFar(p) + Amount[k]
      BY <1>0, <1>3 DEF Before
    <3>5. worker'[w].daily = Sum(S \cup {k})
      <4> HIDE DEF S
      <4> QED
        BY <1>4, <1>6, <3>2, <3>3, <3>4
    <3> QED
      BY <3>1, <3>5
  <2>4. worker'[w].total = Sum(MadeTo(p)')
    <3>1. Sum(MadeTo(p) \cup {k}) = Amount[k] + Sum(MadeTo(p)) /\ Sum(MadeTo(p)) \in Nat
      <4>1. MadeTo(p) \in SUBSET Keys
        BY <1>7 DEF MadeTo
      <4> QED
        BY <1>4, <1>7, <4>1, SumTypes
    <3>2. worker[w].total = spentTotal[p] + Amount[k] /\ spentTotal[p] = Sum(MadeTo(p))
      BY <1>0, <1>3, <1>4 DEF Before, Right
    <3> QED
      BY <1>4, <1>6, <1>7, <3>1, <3>2
  <2>5. k \notin events' /\ payment'[k] = "SENT"
    BY <1>1, <1>4 DEF CountedWasSettled, TypeOK
  <2>6. SpentOn(Payee(w), today)' = worker'[w].daily
    <3>1. SpentOn(Payee(w), today)' = Sum({j \in MadeTo(Payee(w)) : paidOn[j] = today})'
      BY DEF SpentOn
    <3>2. {j \in MadeTo(Payee(w)) : paidOn[j] = today}' = {j \in MadeTo(p)' : paidOn'[j] = today}
      BY <1>1, <2>1
    <3> QED
      BY <2>3, <3>1, <3>2 DEF Sum
  <2>7. Sum(MadeTo(Payee(w)))' = worker'[w].total
    BY <2>1, <2>4 DEF Sum
  <2> QED
    BY <1>6, <2>1, <2>2, <2>5, <2>6, <2>7 DEF After
<1>12. ASSUME NEW q \in Payees, q # p PROVE Right(q)'
  <2>1. spentToday'[q] = spentToday[q] /\ spentTotal'[q] = spentTotal[q]
        /\ resetAt'[q] = resetAt[q]
    BY <1>1, <1>5, <1>12 DEF TypeOK
  <2>2. \A j \in MadeTo(q) : paidOn'[j] = paidOn[j]
    BY <1>8 DEF MadeTo
  <2> QED
    BY <1>3, <1>4, <1>7, <1>12, <2>1, <2>2, OtherPayees
<1>13. Payee(w)' = p
  BY <1>0, <1>6 DEF KeyOf, Payee
<1>14. Here(w)'
  BY <1>6, <1>11, <1>12, <1>13 DEF Here, PastPayment
<1> QED
  BY <1>6, <1>10, <1>14, Lone

LEMMA CalmSettle ==
  ASSUME IInv, CalmInv, calm', NEW w \in Workers, Settle(w)
  PROVE  CalmInv'
<1> USE DEF IInv
<1>0. PICK k \in Keys, p \in Payees : k = KeyOf(w) /\ p = Payee(w)
  <2>1. KeyOf(w) \in Keys
    BY DEF Settle, WorkersFit, Fits, TypeOK, KeyOf
  <2> QED
    BY <2>1, UsageAssumption DEF Payee
<1>1. calm /\ worker[w].at = "settle" /\ worker[w] \in WorkerState
  BY DEF Settle, TypeOK
<1>2. /\ Tables /\ Here(w) /\ After(w)
      /\ \A v \in Workers \ {w} : worker[v].at = "idle"
  BY <1>1 DEF CalmInv, Here, PastPayment
<1>3. /\ payment' = [payment EXCEPT ![k] = "SETTLED"] /\ payment[k] = "SENT"
      /\ FlushTo(w, "event")
      /\ UNCHANGED <<today, allowed, spentToday, spentTotal, resetAt, paidOn, events,
                     revived>>
  <2>1. payment[k] = "SENT" /\ worker[w].sent /\ ~worker[w].zero /\ ~worker[w].stamp
    BY <1>0, <1>1, <1>2 DEF After
  <2> QED
    BY <1>0, <2>1 DEF Settle, SetSettled, FlushTo, world
<1>4. /\ worker'[w].at = "event" /\ worker'[w].key = k
      /\ worker'[w].daily = worker[w].daily /\ worker'[w].total = worker[w].total
      /\ ~worker'[w].zero /\ ~worker'[w].stamp /\ ~worker'[w].forgot
      /\ \A v \in Workers \ {w} : worker'[v].at = "idle"
  <2>1. ~worker[w].forgot
    BY <1>2 DEF After
  <2> QED
    BY <1>0, <1>1, <1>2, <1>3, <2>1 DEF FlushTo, TypeOK, WorkerState, KeyOf
<1>5. Made' = Made /\ Debiting' = Debiting
  BY <1>3 DEF Made, Debiting, TypeOK
<1>6. \A q \in Payees : /\ MadeTo(q)' = MadeTo(q) /\ Right(q)' = Right(q)
                        /\ SpentOn(q, today)' = SpentOn(q, today)
  BY <1>3, <1>5 DEF MadeTo, Right, SpentOn, Sum
<1>7. Tables'
  BY <1>2, <1>3, <1>5, <1>6 DEF Tables, Sum
<1>8. KeyOf(w)' = k /\ Payee(w)' = p
  BY <1>0, <1>4 DEF KeyOf, Payee
<1>9. After(w)'
  <2>1. payment'[k] # "NONE" /\ p \in allowed' /\ resetAt'[p] = today' /\ k \notin events'
    BY <1>0, <1>2, <1>3 DEF After, TypeOK
  <2>2. SpentOn(Payee(w), today)' = worker'[w].daily
    <3>1. worker'[w].daily = SpentOn(p, today)
      BY <1>0, <1>2, <1>4 DEF After
    <3>2. SpentOn(Payee(w), today)' = SpentOn(p, today)
      BY <1>3, <1>6, <1>8 DEF SpentOn, Sum
    <3> QED
      BY <3>1, <3>2
  <2>3. Sum(MadeTo(Payee(w)))' = worker'[w].total
    BY <1>0, <1>2, <1>4, <1>6, <1>8 DEF After, Sum
  <2> QED
    BY <1>4, <1>8, <2>1, <2>2, <2>3 DEF After
<1>10. Here(w)'
  BY <1>0, <1>1, <1>2, <1>4, <1>6, <1>8, <1>9 DEF Here, PastPayment
<1> QED
  BY <1>4, <1>7, <1>10, Lone

LEMMA CalmEvent ==
  ASSUME IInv, CalmInv, calm', NEW w \in Workers,
         Refresh(w) \/ CheckEvent(w)
  PROVE  CalmInv'
<1> USE DEF IInv
<1>0. PICK k \in Keys, p \in Payees : k = KeyOf(w) /\ p = Payee(w)
  <2>1. KeyOf(w) \in Keys
    BY DEF Refresh, CheckEvent, WorkersFit, Fits, TypeOK, KeyOf
  <2> QED
    BY <2>1, UsageAssumption DEF Payee
<1>1. /\ calm /\ worker[w].at \in {"refresh", "event"} /\ worker[w] \in WorkerState
      /\ UNCHANGED <<today, allowed, counters, ledger>>
  BY DEF Refresh, CheckEvent, world, TypeOK
<1>2. /\ Tables /\ Here(w) /\ After(w)
      /\ \A v \in Workers \ {w} : worker[v].at = "idle"
  BY <1>1 DEF CalmInv, Here, PastPayment
<1>3. \/ /\ worker[w].at = "event"
         /\ worker' = [worker EXCEPT ![w].at = "count"]
      \/ /\ worker[w].at = "refresh" /\ payment[k] = "SENT"
         /\ worker' = [worker EXCEPT ![w].at = "settle",
                                     ![w].sent = payment[k] # "SETTLED"]
  BY <1>0, <1>2 DEF Refresh, CheckEvent, After, Goto
<1>4. /\ worker'[w].at \in {"settle", "count"} /\ worker'[w].key = k
      /\ worker'[w].daily = worker[w].daily /\ worker'[w].total = worker[w].total
      /\ worker'[w].zero = worker[w].zero /\ worker'[w].stamp = worker[w].stamp
      /\ worker'[w].forgot = worker[w].forgot
      /\ \A v \in Workers \ {w} : worker'[v].at = "idle"
  BY <1>0, <1>1, <1>2, <1>3 DEF TypeOK, WorkerState, KeyOf
<1>s. worker'[w].at = "settle" => payment[k] = "SENT" /\ worker'[w].sent
  BY <1>1, <1>3 DEF TypeOK, WorkerState
<1>5. /\ Tables'
      /\ \A q \in Payees : /\ MadeTo(q)' = MadeTo(q) /\ Right(q)' = Right(q)
                           /\ SpentOn(q, today)' = SpentOn(q, today)
  BY <1>1, <1>2, SameTables
<1>6. KeyOf(w)' = k /\ Payee(w)' = p
  BY <1>0, <1>4 DEF KeyOf, Payee
<1>7. After(w)'
  <2>1. UNCHANGED <<today, allowed, resetAt, payment, paidOn, events>>
    BY <1>1 DEF counters, ledger
  <2>2. SpentOn(Payee(w), today)' = worker'[w].daily
    <3>1. worker'[w].daily = SpentOn(p, today)
      BY <1>0, <1>2, <1>4 DEF After
    <3>2. SpentOn(Payee(w), today)' = SpentOn(p, today)
      BY <1>5, <1>6, <2>1 DEF SpentOn, Sum
    <3> QED
      BY <3>1, <3>2
  <2>3. Sum(MadeTo(Payee(w)))' = worker'[w].total
    BY <1>0, <1>2, <1>4, <1>5, <1>6 DEF After, Sum
  <2>4. /\ payment[k] # "NONE" /\ p \in allowed /\ resetAt[p] = today
        /\ ~worker[w].zero /\ ~worker[w].stamp /\ k \notin events
        /\ ~worker[w].forgot
    BY <1>0, <1>2 DEF After
  <2> QED
    BY <1>4, <1>6, <1>s, <2>1, <2>2, <2>3, <2>4 DEF After
<1>8. Here(w)'
  BY <1>0, <1>1, <1>2, <1>4, <1>5, <1>6, <1>7 DEF Here, PastPayment
<1> QED
  BY <1>4, <1>5, <1>8, Lone

LEMMA CalmCount ==
  ASSUME IInv, CalmInv, calm', NEW w \in Workers, Count(w)
  PROVE  CalmInv'
<1> USE DEF IInv
<1>0. PICK p \in Payees : p = Payee(w)
  <2>1. KeyOf(w) \in Keys
    BY DEF Count, WorkersFit, Fits, TypeOK, KeyOf
  <2> QED
    BY <2>1, UsageAssumption DEF Payee
<1>1. /\ calm /\ worker[w].at = "count" /\ worker[w] \in WorkerState
      /\ UNCHANGED <<today, allowed, payment, paidOn, revived>>
      /\ Become(w, Idle)
  BY DEF Count, world, TypeOK
<1>2. /\ Tables /\ Here(w) /\ After(w)
      /\ \A v \in Workers \ {w} : worker[v].at = "idle"
  BY <1>1 DEF CalmInv, Here, PastPayment
<1>3. /\ spentToday' = [spentToday EXCEPT ![p] = worker[w].daily]
      /\ spentTotal' = [spentTotal EXCEPT ![p] = worker[w].total]
      /\ UNCHANGED resetAt
  BY <1>0, <1>2 DEF Count, After
<1>4. worker'[w].at = "idle" /\ \A v \in Workers \ {w} : worker'[v].at = "idle"
  BY <1>1, <1>2 DEF Become, Idle, TypeOK
<1>5. /\ Made' = Made /\ Debiting' = Debiting
      /\ \A q \in Payees : MadeTo(q)' = MadeTo(q)
  BY <1>1 DEF Made, MadeTo, Debiting
<1>6. Tables'
  BY <1>1, <1>2, <1>3, <1>5 DEF Tables, Sum
<1>7. Right(p)'
  <2>1. /\ worker[w].daily = SpentOn(p, today) /\ resetAt[p] = today
        /\ worker[w].total = Sum(MadeTo(p))
    BY <1>0, <1>2 DEF After
  <2>2. spentToday'[p] = SpentOn(p, resetAt[p]) /\ spentTotal'[p] = Sum(MadeTo(p))
    BY <1>3, <2>1 DEF TypeOK
  <2>3. SpentOn(p, resetAt[p])' = SpentOn(p, resetAt[p]) /\ Sum(MadeTo(p))' = Sum(MadeTo(p))
    BY <1>1, <1>3, <1>5 DEF SpentOn, Sum
  <2> QED
    BY <2>2, <2>3 DEF Right
<1>8. ASSUME NEW q \in Payees, q # p PROVE Right(q)'
  <2>1. Right(q)
    BY <1>0, <1>2, <1>8 DEF Here
  <2>2. UNCHANGED <<spentToday[q], spentTotal[q], resetAt[q]>>
    BY <1>3, <1>8 DEF TypeOK
  <2> QED
    BY <1>1, <1>5, <1>8, <2>1, <2>2, OtherPayees
<1>9. Here(w)'
  BY <1>4, <1>7, <1>8 DEF Here, PastPayment
<1> QED
  BY <1>4, <1>6, <1>9, Lone

LEMMA CalmAdd ==
  ASSUME IInv, CalmInv, calm', NEW p \in Payees, AddAllowedPayee(p)
  PROVE  CalmInv'
<1> USE DEF IInv
<1>1. /\ calm /\ p \notin allowed /\ allowed' = allowed \cup {p}
      /\ resetAt' = [resetAt EXCEPT ![p] = today]
      /\ UNCHANGED <<today, spentToday, spentTotal, payment, paidOn, events, revived, worker>>
  BY DEF AddAllowedPayee, ledger
<1>2. Tables
  BY <1>1 DEF CalmInv
<1>3. /\ Made' = Made /\ Debiting' = Debiting
      /\ \A q \in Payees : MadeTo(q)' = MadeTo(q)
  BY <1>1 DEF Made, MadeTo, Debiting
<1>4. MadeTo(p) = {}
  BY <1>1, <1>2 DEF Tables
<1>5. Tables'
  <2>1. ASSUME NEW k \in Made PROVE paidOn[k] <= resetAt'[PayeeOf[k]]
    <3>1. k \in Keys /\ PayeeOf[k] \in Payees /\ paidOn[k] <= resetAt[PayeeOf[k]]
      BY <1>2, UsageAssumption DEF Tables, Made
    <3>2. PayeeOf[k] # p
      BY <1>4 DEF MadeTo
    <3> QED
      BY <1>1, <3>1, <3>2 DEF TypeOK
  <2>2. ASSUME NEW q \in Payees
        PROVE  resetAt'[q] <= today /\ (q \notin allowed' => MadeTo(q) = {})
    BY <1>1, <1>2 DEF Tables, TypeOK
  <2> QED
    BY <1>1, <1>2, <1>3, <2>1, <2>2 DEF Tables, Sum
<1>6. ASSUME NEW q \in Payees, Right(q) PROVE Right(q)'
  <2>1. CASE q = p
    <3>1. spentTotal[p] = 0 /\ spentToday[p] = 0
      BY <1>4, <1>6, <2>1, SumTypes DEF Right, SpentOn
    <3>2. MadeTo(p)' = {}
      BY <1>3, <1>4
    <3>3. Sum(MadeTo(p))' = 0 /\ SpentOn(p, resetAt[p])' = 0
      BY <3>2, SumTypes DEF SpentOn, Sum
    <3> QED
      BY <1>1, <2>1, <3>1, <3>3 DEF Right
  <2>2. CASE q # p
    BY <1>1, <1>3, <1>6, <2>2, OtherPayees DEF TypeOK
  <2> QED
    BY <2>1, <2>2
<1>7. ASSUME NEW w \in Workers, worker[w].at # "idle"
      PROVE  Here(w)' /\ \A v \in Workers \ {w} : worker'[v].at = "idle"
  <2>1. Here(w) /\ \A v \in Workers \ {w} : worker[v].at = "idle"
    BY <1>1, <1>7 DEF CalmInv
  <2>2. KeyOf(w)' = KeyOf(w) /\ Payee(w)' = Payee(w) /\ PastPayment(w)' = PastPayment(w)
    BY <1>1 DEF KeyOf, Payee, PastPayment
  <2>3. PICK q \in Payees : q = Payee(w)
    BY <1>7, UsageAssumption DEF WorkersFit, Fits, TypeOK, Payee, KeyOf
  <2>4. Before(w) \/ After(w) => q # p /\ resetAt'[q] = resetAt[q]
    BY <1>1, <2>3 DEF Before, After, TypeOK
  <2>5. Before(w) => Before(w)'
    <3> SUFFICES ASSUME Before(w) PROVE Before(w)'
      OBVIOUS
    <3>1. SpentSoFar(Payee(w))' = SpentSoFar(Payee(w)) /\ Sum(Debiting)' = Sum(Debiting)
      BY <1>1, <1>3, <2>2, <2>3, <2>4 DEF SpentSoFar, Sum
    <3>2. /\ payment'[KeyOf(w)] = "NONE" /\ Payee(w) \in allowed'
          /\ resetAt'[Payee(w)] = resetAt[Payee(w)]
      BY <1>1, <2>3, <2>4 DEF Before
    <3> QED
      BY <1>1, <2>2, <3>1, <3>2 DEF Before
  <2>6. After(w) => After(w)'
    <3> SUFFICES ASSUME After(w) PROVE After(w)'
      OBVIOUS
    <3>1. /\ SpentOn(Payee(w), today)' = SpentOn(Payee(w), today)
          /\ Sum(MadeTo(Payee(w)))' = Sum(MadeTo(Payee(w)))
      BY <1>1, <1>3, <2>2, <2>3 DEF SpentOn, Sum
    <3>2. payment'[KeyOf(w)] # "NONE" /\ Payee(w) \in allowed' /\ resetAt'[Payee(w)] = today'
      BY <1>1, <2>3, <2>4 DEF After
    <3> QED
      BY <1>1, <2>2, <3>1, <3>2 DEF After
  <2>7. Here(w)'
    BY <1>1, <1>6, <2>1, <2>2, <2>5, <2>6 DEF Here
  <2> QED
    BY <1>1, <2>1, <2>7
<1> QED
  BY <1>1, <1>5, <1>6, <1>7 DEF CalmInv, AllIdle

LEMMA CalmWorld ==
  ASSUME IInv, CalmInv, calm', SetEscrow \/ NextDay
  PROVE  CalmInv'
<1> USE DEF IInv
<1>1. /\ calm /\ AllIdle /\ today <= today'
      /\ UNCHANGED <<allowed, counters, ledger, worker>>
  <2>1. today' = today \/ today' = today + 1
    BY DEF SetEscrow, NextDay
  <2>2. today <= today'
    BY <2>1 DEF TypeOK
  <2> QED
    BY <2>2 DEF SetEscrow, NextDay
<1>2. Tables /\ \A p \in Payees : Right(p)
  BY <1>1 DEF CalmInv
<1>3. today' \in Nat
  BY ColumnsStep DEF Next
<1>4. /\ Made' = Made /\ Debiting' = Debiting
      /\ \A p \in Payees : MadeTo(p)' = MadeTo(p) /\ Right(p)' = Right(p)
  BY <1>1 DEF counters, ledger, Made, MadeTo, Debiting, Right, SpentOn, Sum
<1>5. Tables'
  <2>1. UNCHANGED <<resetAt, paidOn, revived>>
    BY <1>1 DEF counters, ledger
  <2>2. \A p \in Payees : resetAt[p] <= today'
    BY <1>1, <1>2, <1>3 DEF Tables, TypeOK
  <2> QED
    BY <1>1, <1>2, <1>4, <2>1, <2>2 DEF Tables, Sum
<1> QED
  BY <1>1, <1>2, <1>4, <1>5 DEF CalmInv, AllIdle

\* A notification leaves the payments made and the counters alone, and of those
\* that debit the escrow it adds at most one that is counted as revived.
LEMMA CalmPsp ==
  ASSUME IInv, CalmInv, calm', NEW k \in Keys, PspSettled(k) \/ PspFailed(k)
  PROVE  CalmInv'
<1> USE DEF IInv
<1>1. /\ calm /\ AllIdle /\ payment[k] # "NONE"
      /\ UNCHANGED <<today, allowed, counters, paidOn, events, worker>>
  BY DEF PspSettled, PspFailed, world
<1>2. Tables /\ \A p \in Payees : Right(p)
  BY <1>1 DEF CalmInv
<1>3. \/ /\ payment' = [payment EXCEPT ![k] = "ERROR"] /\ revived' = revived
      \/ /\ payment' = [payment EXCEPT ![k] = "SETTLED"]
         /\ revived' = IF payment[k] = "ERROR" THEN revived \cup {k} ELSE revived
         /\ payment[k] \in {"SENT", "ERROR"}
  BY DEF PspSettled, PspFailed, SetSettled
<1>4. Made' = Made /\ Debiting \subseteq Keys
      /\ Debiting' \ revived' \subseteq Debiting \ revived
  <2>1. \A j \in Keys : j # k => payment'[j] = payment[j]
    BY <1>3 DEF TypeOK
  <2>2. payment'[k] \in {"ERROR", "SETTLED"} /\ revived \subseteq revived'
    BY <1>3 DEF TypeOK
  <2>3. payment'[k] = "SETTLED" => payment[k] = "SENT" \/ k \in revived'
    BY <1>3 DEF TypeOK
  <2>5. Made' = Made
    BY <1>1, <2>1, <2>2 DEF Made
  <2>6. Debiting' \ revived' \subseteq Debiting \ revived
    BY <2>1, <2>2, <2>3 DEF Debiting
  <2> QED BY <2>5, <2>6 DEF Debiting
<1>5. \A p \in Payees : MadeTo(p)' = MadeTo(p) /\ Right(p)' = Right(p)
  BY <1>1, <1>4 DEF counters, MadeTo, Right, SpentOn, Sum
<1>6. Tables'
  <2> DEFINE new == Sum(Debiting' \ revived')
  <2> DEFINE old == Sum(Debiting \ revived)
  <2>1. new <= old /\ new \in Nat /\ old \in Nat /\ old <= Deposited
    BY <1>2, <1>4, SumTypes DEF Tables
  <2>2. new <= Deposited
    <3> HIDE DEF new, old
    <3> QED BY <2>1, UsageAssumption
  <2>3. Sum(Debiting \ revived)' <= Deposited
    BY <2>2 DEF Sum
  <2>4. UNCHANGED resetAt
    BY <1>1 DEF counters
  <2> QED
    BY <1>1, <1>2, <1>4, <1>5, <2>3, <2>4 DEF Tables
<1> QED
  BY <1>1, <1>2, <1>5, <1>6 DEF CalmInv, AllIdle

LEMMA CalmStep ==
  ASSUME IInv, CalmInv, [Next]_vars
  PROVE  CalmInv'
<1> SUFFICES ASSUME calm' PROVE CalmInv'
  BY DEF CalmInv
<1>1. ASSUME NEW w \in Workers, LoseKeyRace(w) PROVE FALSE
  BY <1>1 DEF LoseKeyRace, CalmInv, Here, Before
<1>2. ASSUME NEW w \in Workers, Die(w) PROVE FALSE
  BY <1>2 DEF Die
<1>3. CASE UNCHANGED vars
  <2>1. /\ UNCHANGED <<today, allowed, spentToday, spentTotal, resetAt, payment, paidOn, events,
                     revived>>
        /\ UNCHANGED <<counters, ledger, worker, calm>>
    BY <1>3 DEF vars, world, counters, ledger
  <2>2. /\ Made' = Made /\ Debiting' = Debiting /\ Tables' = Tables
        /\ \A p \in Payees : /\ MadeTo(p)' = MadeTo(p) /\ Right(p)' = Right(p)
    BY <2>1, SameTables
  <2>3. ASSUME NEW w \in Workers PROVE Before(w)' = Before(w) /\ After(w)' = After(w)
    BY <2>1 DEF Before, After, SpentOn, SpentSoFar, Sum, Made, MadeTo, Debiting,
                 KeyOf, Payee
  <2>4. ASSUME NEW w \in Workers
        PROVE  PastPayment(w)' = PastPayment(w) /\ Payee(w)' = Payee(w)
    BY <2>1 DEF PastPayment, Payee, KeyOf
  <2>5. ASSUME NEW w \in Workers, Here(w) PROVE Here(w)'
    BY <2>1, <2>2, <2>3, <2>4, <2>5 DEF Here
  <2> QED
    BY <2>1, <2>2, <2>5 DEF CalmInv, AllIdle
<1> QED
  BY <1>1, <1>2, <1>3, CalmBegin, CalmCheck, CalmPay, CalmSettle, CalmEvent, CalmCount,
     CalmAdd, CalmWorld, CalmPsp DEF Next, Step

LEMMA InitCalm == Init => CalmInv
<1> SUFFICES ASSUME Init PROVE CalmInv
  OBVIOUS
<1>1. /\ Made = {} /\ Debiting \ revived = {}
      /\ \A p \in Payees : MadeTo(p) = {}
  BY DEF Init, Made, MadeTo, Debiting
<1>2. \A p \in Payees : Right(p)
  <2> SUFFICES ASSUME NEW p \in Payees PROVE Right(p)
    OBVIOUS
  <2>1. {k \in MadeTo(p) : paidOn[k] = resetAt[p]} = {}
    BY <1>1
  <2> QED
    BY <1>1, <2>1, SumTypes DEF Init, Right, SpentOn
<1>3. Tables
  BY <1>1, SumTypes, UsageAssumption DEF Init, Tables
<1> QED
  BY <1>2, <1>3 DEF Init, CalmInv, Idle

LEMMA CalmInvariant == Spec => []CalmInv
<1>1. IInv /\ CalmInv /\ [Next]_vars => CalmInv'
  BY CalmStep
<1> QED
  BY InitCalm, Invariant, <1>1, PTL DEF Spec

-----------------------------------------------------------------------------
(***************************************************************************)
(* The limits bound the money itself, not only the counters: on no day is  *)
(* a payee paid more than its daily limit, past days included, whose sums  *)
(* no counter holds any more.                                              *)
(***************************************************************************)
MoneyWithinLimits ==
  \A p \in Payees : /\ Sum(MadeTo(p)) <= Total[p]
                    /\ \A day \in Nat : SpentOn(p, day) <= Daily[p]

CalmMoneyInv == calm => MoneyWithinLimits

\* A payment is what its worker computed, which was within the limits.
LEMMA PayWithinLimits ==
  ASSUME IInv, IInv', CalmInv, CalmInv', calm', MoneyWithinLimits,
         NEW w \in Workers, Pay(w)
  PROVE  MoneyWithinLimits'
<1> SUFFICES ASSUME NEW q \in Payees
             PROVE  /\ Sum(MadeTo(q))' <= Total[q]
                    /\ \A day \in Nat : SpentOn(q, day)' <= Daily[q]
  BY DEF MoneyWithinLimits
<1> USE DEF IInv
<1>0. PICK k \in Keys : k = KeyOf(w) /\ payment[k] = "NONE"
  BY DEF Pay, WorkersFit, Fits, TypeOK, KeyOf
<1>1. /\ payment' = [payment EXCEPT ![k] = "SENT"]
      /\ paidOn' = [paidOn EXCEPT ![k] = today]
      /\ today' = today
  BY <1>0 DEF Pay, world
<1>2. worker'[w].at = "refresh" /\ worker'[w].key = k
  BY <1>0 DEF Pay, FlushTo, TypeOK, WorkerState, KeyOf
<1>3. KeyOf(w)' = k /\ Payee(w)' = PayeeOf[k]
  BY <1>2 DEF KeyOf, Payee
<1>4. \A j \in Keys : j # k => payment'[j] = payment[j] /\ paidOn'[j] = paidOn[j]
  BY <1>1 DEF TypeOK
<1>5. paidOn'[k] = today
  BY <1>1 DEF TypeOK
<1>6. Sum(MadeTo(q)) <= Total[q] /\ \A day \in Nat : SpentOn(q, day) <= Daily[q]
  BY DEF MoneyWithinLimits
<1>7. CASE q = PayeeOf[k]
  <2>1. After(w)'
    BY <1>2 DEF CalmInv, Here, PastPayment
  <2>2. /\ Sum(MadeTo(q))' = worker'[w].total
        /\ SpentOn(q, today)' = worker'[w].daily
    <3>1. SpentOn(Payee(w), today)' = SpentOn(q, today)'
      BY <1>3, <1>7 DEF SpentOn, Sum
    <3>2. Sum(MadeTo(Payee(w)))' = Sum(MadeTo(q))'
      BY <1>3, <1>7 DEF Sum
    <3> QED BY <2>1, <3>1, <3>2 DEF After
  <2>3. worker'[w].total <= Total[q] /\ worker'[w].daily <= Daily[q]
    BY <1>2, <1>7 DEF WorkersFit, Fits
  <2>4. ASSUME NEW day \in Nat, day # today
        PROVE  SpentOn(q, day)' = SpentOn(q, day)
    <3>1. {j \in MadeTo(q) : paidOn[j] = day}' = {j \in MadeTo(q) : paidOn[j] = day}
      BY <1>0, <1>1, <1>4, <1>5, <2>4 DEF MadeTo, Made, TypeOK
    <3> QED BY <3>1 DEF SpentOn, Sum
  <2>5. ASSUME NEW day \in Nat PROVE SpentOn(q, day)' <= Daily[q]
    <3>1. CASE day = today
      <4>1. SpentOn(q, day)' = SpentOn(q, today)'
        BY <1>1, <3>1 DEF SpentOn
      <4> QED BY <2>2, <2>3, <4>1
    <3>2. CASE day # today
      BY <1>6, <2>4, <3>2
    <3> QED BY <3>1, <3>2
  <2> QED BY <2>2, <2>3, <2>5
<1>8. CASE q # PayeeOf[k]
  <2>1. MadeTo(q)' = MadeTo(q)
    BY <1>0, <1>1, <1>4, <1>8 DEF MadeTo, Made, TypeOK
  <2>2. ASSUME NEW day \in Nat
        PROVE  {j \in MadeTo(q) : paidOn[j] = day}' = {j \in MadeTo(q) : paidOn[j] = day}
    BY <1>0, <1>4, <2>1 DEF MadeTo, Made
  <2> QED BY <1>6, <2>1, <2>2 DEF SpentOn, Sum
<1> QED BY <1>7, <1>8

\* No other step adds a payment.
LEMMA MoneyStays ==
  ASSUME MoneyWithinLimits, Made' = Made, paidOn' = paidOn
  PROVE  MoneyWithinLimits'
BY DEF MoneyWithinLimits, MadeTo, SpentOn, Sum

LEMMA CalmMoneyStep ==
  ASSUME IInv, IInv', CalmInv, CalmInv', CalmMoneyInv, [Next]_vars
  PROVE  CalmMoneyInv'
<1> SUFFICES ASSUME calm' PROVE MoneyWithinLimits'
  BY DEF CalmMoneyInv
<1>1. ASSUME NEW w \in Workers, Pay(w)
      PROVE  MoneyWithinLimits'
  <2>1. calm
    BY <1>1 DEF Pay
  <2> QED BY <1>1, <2>1, PayWithinLimits DEF CalmMoneyInv
<1>2. ASSUME NEW w \in Workers, Settle(w)
      PROVE  calm /\ Made' = Made /\ paidOn' = paidOn
  <2>1. calm /\ paidOn' = paidOn /\ worker[w].at = "settle"
    BY <1>2 DEF Settle
  <2>2. After(w) /\ KeyOf(w) \in Keys
    BY <2>1 DEF CalmInv, Here, PastPayment, IInv, WorkersFit, Fits, TypeOK, KeyOf
  <2>3. \/ payment' = payment
        \/ payment' = [payment EXCEPT ![KeyOf(w)] = "SETTLED"]
    BY <1>2 DEF Settle, SetSettled
  <2> QED BY <2>1, <2>2, <2>3 DEF After, Made, IInv, TypeOK
<1>3. ASSUME NEW w \in Workers,
             \/ \E k \in Keys : Begin(w, k)
             \/ CheckBalance(w) \/ CheckPayout(w) \/ Refresh(w) \/ LoseKeyRace(w)
             \/ CheckEvent(w) \/ Count(w) \/ Die(w)
      PROVE  calm /\ Made' = Made /\ paidOn' = paidOn
  BY <1>3 DEF Begin, CheckBalance, CheckPayout, Refresh, LoseKeyRace, CheckEvent, Count,
              Die, ledger, Made
<1>4. ASSUME \/ \E p \in Payees : AddAllowedPayee(p)
             \/ SetEscrow \/ NextDay \/ UNCHANGED vars
      PROVE  calm /\ Made' = Made /\ paidOn' = paidOn
  BY <1>4 DEF AddAllowedPayee, SetEscrow, NextDay, vars, ledger, Made
<1>p. ASSUME NEW k \in Keys, PspSettled(k) \/ PspFailed(k)
      PROVE  calm /\ Made' = Made /\ paidOn' = paidOn
  <2>1. /\ calm /\ paidOn' = paidOn /\ payment[k] # "NONE"
        /\ \E status \in {"SETTLED", "ERROR"} :
             payment' = [payment EXCEPT ![k] = status]
    BY <1>p DEF PspSettled, PspFailed, SetSettled
  <2> QED BY <2>1 DEF Made, IInv, TypeOK
<1>5. ASSUME calm /\ Made' = Made /\ paidOn' = paidOn
      PROVE  MoneyWithinLimits'
  BY <1>5, MoneyStays DEF CalmMoneyInv
<1> QED BY <1>1, <1>2, <1>3, <1>4, <1>5, <1>p DEF Next, Step

LEMMA InitMoney == Init => CalmMoneyInv
<1> SUFFICES ASSUME Init, NEW p \in Payees
             PROVE  /\ Sum(MadeTo(p)) <= Total[p]
                    /\ \A day \in Nat : SpentOn(p, day) <= Daily[p]
  BY DEF CalmMoneyInv, MoneyWithinLimits
<1>1. MadeTo(p) = {}
  BY DEF Init, Made, MadeTo
<1>2. ASSUME NEW day \in Nat PROVE {k \in MadeTo(p) : paidOn[k] = day} = {}
  BY <1>1
<1> QED BY <1>1, <1>2, SumTypes, UsageAssumption DEF SpentOn

-----------------------------------------------------------------------------
\* Every variable keeps its type.
THEOREM TypeCorrect == Spec => []TypeOK
  BY Invariant, PTL DEF IInv

\* The counters of a payee never pass its limits, though each request writes
\* what it computed from a row that others may have changed since.
THEOREM CountersHold == Spec => []CountersWithinLimits
  BY Invariant, PTL DEF IInv

\* No spend is counted whose payment was not settled, though the request that
\* counts may have found the payment of another one, and though the provider
\* may report its failure at any time.
THEOREM CountingIsRight == Spec => []CountedWasSettled
  BY Invariant, PTL DEF IInv

\* While nothing overlaps a request and none dies, the counters of a payee are
\* the sums of what it was sent, altogether and on the day of the last reset:
\* the provider's reports between the requests do not touch them.
THEOREM CalmCountersAreRight == Spec => []CalmCountersRight
<1>1. IInv /\ CalmInv => CalmCountersRight
  BY DEF IInv, TypeOK, CalmInv, CalmCountersRight, Right, SpentOn
<1> QED
  BY <1>1, Invariant, CalmInvariant, PTL

\* Just so long the payouts to all payees stay within what was paid in, but for
\* those that were settled after their failure had been reported.
THEOREM CalmPayoutsAreCovered == Spec => []CalmNotOverdrawn
<1>1. CalmInv => CalmNotOverdrawn
  BY DEF CalmInv, Tables, CalmNotOverdrawn
<1> QED
  BY <1>1, CalmInvariant, PTL

\* Just so long no payee is sent more than its total limit, nor more than its
\* daily limit on any day, counting what failed afterwards.
THEOREM CalmPayeesWithinLimits == Spec => [](calm => MoneyWithinLimits)
<1>1. /\ IInv /\ IInv' /\ CalmInv /\ CalmInv' /\ CalmMoneyInv /\ [Next]_vars
      => CalmMoneyInv'
  BY CalmMoneyStep
<1>2. CalmMoneyInv => (calm => MoneyWithinLimits)
  BY DEF CalmMoneyInv
<1> QED
  BY <1>1, <1>2, InitMoney, Invariant, CalmInvariant, PTL DEF Spec
=============================================================================
