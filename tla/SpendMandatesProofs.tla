------------------------ MODULE SpendMandatesProofs ------------------------
(***************************************************************************)
(* Why concurrent purchases never exceed a mandate nor use one that is not *)
(* theirs, for any number of threads, mandates, purchases, merchants and   *)
(* categories.                                                             *)
(***************************************************************************)
EXTENDS SpendMandates, Sums, TLAPS

\* What a request concluded from its reads: its mandate is good for its
\* purchase, and the mandates it will close were created.
MemoryInv(w) ==
  /\ worker[w].at \in {"authorise", "consume"} => worker[w].key \in Keys
  /\ worker[w].at = "consume" => Authorised(worker[w].key, worker[w].mandate)
  /\ worker[w].at = "sweep" => \A m \in worker[w].sweep : status[m] # "NONE"

\* What is left on a mandate of some status; one without a row is unspent.
MandateInv(m) ==
  /\ spent[m] <= Limit[m]
  /\ status[m] = "ACTIVE" => spent[m] < Limit[m]
  /\ status[m] = "NONE" => spent[m] = 0

Inv ==
  /\ TypeOK
  /\ \A w \in Workers : MemoryInv(w)
  /\ \A m \in Mandates : MandateInv(m)

-----------------------------------------------------------------------------
LEMMA IdleIsWorker == 1 \in Mandates /\ Idle \in WorkerState
  BY SpendAssumption DEF Mandates, Idle, WorkerState, Stages

LEMMA InitInv == Init => Inv
<1> SUFFICES ASSUME Init PROVE Inv
  OBVIOUS
<1>1. TypeOK
  BY SpendAssumption, IdleIsWorker DEF Init, TypeOK
<1>2. ASSUME NEW w \in Workers PROVE MemoryInv(w)
  BY DEF Init, MemoryInv, Idle
<1>3. ASSUME NEW m \in Mandates PROVE MandateInv(m)
  BY SpendAssumption DEF Init, MandateInv
<1> QED
  BY <1>1, <1>2, <1>3 DEF Inv

\* A worker whose state is replaced by one of the right type.
LEMMA BecomeType ==
  ASSUME TypeOK, NEW w \in Workers, NEW state \in WorkerState, Become(w, state)
  PROVE worker' \in [Workers -> WorkerState]
  BY DEF TypeOK, Become

LEMMA TypeStep == Inv /\ [Next]_vars => TypeOK'
<1> SUFFICES ASSUME Inv, TypeOK, [Next]_vars PROVE TypeOK'
  BY DEF Inv
<1> USE IdleIsWorker
<1>1. CASE Tick
  BY <1>1, SpendAssumption DEF Tick, TypeOK, db
<1>2. ASSUME NEW usage \in Merchants \cup Categories, AllowUsage(usage) PROVE TypeOK'
  BY <1>2 DEF AllowUsage, TypeOK
<1>3. ASSUME NEW w \in Workers, Serve(w) PROVE TypeOK'
  <2>1. worker[w] \in WorkerState /\ now \in 0..MaxTime
    BY DEF TypeOK
  <2>2. CASE CheckNoDuplicate(w)
    <3>1. [Idle EXCEPT !.at = "create", !.clock = now] \in WorkerState
      BY <2>1 DEF Idle, WorkerState, Stages
    <3> QED
      BY <2>2, <3>1, BecomeType DEF CheckNoDuplicate, TypeOK, db
  <2>3. ASSUME NEW m \in Mandates, NEW date \in 0..(MaxTime + 1), InsertMandate(w, m, date)
        PROVE TypeOK'
    <3>1. date \in Nat
      BY SpendAssumption
    <3>2. status' \in [Mandates -> MandateStatus \cup {"NONE"}] /\ expires' \in [Mandates -> Nat]
      BY <2>3, <3>1 DEF InsertMandate, TypeOK, MandateStatus
    <3> QED
      BY <2>3, <3>2, BecomeType DEF InsertMandate, TypeOK
  <2>4. ASSUME NEW k \in Keys, FindMandate(w, k) PROVE TypeOK'
    <3>1. PICK m \in Mandates : Become(w, [Idle EXCEPT !.at = "authorise", !.key = k,
                                             !.clock = now, !.mandate = m])
      BY <2>4 DEF FindMandate, Usable, Active
    <3>2. [Idle EXCEPT !.at = "authorise", !.key = k, !.clock = now, !.mandate = m]
            \in WorkerState
      BY <2>1 DEF Idle, WorkerState, Stages
    <3> QED
      BY <2>4, <3>1, <3>2, BecomeType DEF FindMandate, TypeOK, db
  <2>5. CASE CheckUsage(w)
    <3>1. [worker[w] EXCEPT !.at = "consume"] \in WorkerState
      BY <2>1 DEF WorkerState, Stages
    <3>2. worker' \in [Workers -> WorkerState]
      BY <2>5, <3>1, BecomeType DEF CheckUsage, Become, TypeOK
    <3> QED
      BY <2>5, <3>2 DEF CheckUsage, TypeOK, db
  <2>6. CASE Consume(w)
    <3> DEFINE m == worker[w].mandate
               k == worker[w].key
    <3>1. m \in Mandates /\ (spent[m] \in Nat)
      BY <2>1 DEF WorkerState, TypeOK
    <3>2. k \in Keys
      BY <2>6 DEF Consume, Inv, MemoryInv
    <3>3. spent[m] + Price[k] \in Nat
      BY <3>1, <3>2, SpendAssumption
    <3>4. spent' \in [Mandates -> Nat]
      BY <2>6, <3>1, <3>3 DEF Consume, TypeOK
    <3>5. status' \in [Mandates -> MandateStatus \cup {"NONE"}]
      BY <2>6, <3>1 DEF Consume, TypeOK, StatusAfter, MandateStatus
    <3>6. charged' \in [Keys -> Mandates \cup {0}]
      BY <2>6, <3>1 DEF Consume, TypeOK
    <3> QED
      BY <2>6, <3>4, <3>5, <3>6, BecomeType DEF Consume, TypeOK
  <2>7. CASE LoseCreation(w) \/ GiveUp(w) \/ FindExpired(w) \/ Die(w)
    <3>1. [Idle EXCEPT !.at = "sweep", !.sweep = Active \ Usable] \in WorkerState
      BY DEF Idle, WorkerState, Stages, Active
    <3> QED
      BY <2>7, <3>1, BecomeType DEF LoseCreation, GiveUp, FindExpired, Die, TypeOK, db
  <2>8. CASE CloseExpired(w)
    <3>1. status' \in [Mandates -> MandateStatus \cup {"NONE"}]
      BY <2>8 DEF CloseExpired, TypeOK, MandateStatus
    <3> QED
      BY <2>8, <3>1, BecomeType DEF CloseExpired, TypeOK
  <2> QED
    BY <1>3, <2>2, <2>3, <2>4, <2>5, <2>6, <2>7, <2>8 DEF Serve
<1>4. CASE UNCHANGED vars
  BY <1>4 DEF vars, TypeOK
<1> QED
  BY <1>1, <1>2, <1>3, <1>4 DEF Next

-----------------------------------------------------------------------------
\* Steps that leave the mandates and the allowed usages alone.
LEMMA ReadStep ==
  ASSUME Inv, NEW w \in Workers, UNCHANGED db, MemoryInv(w)',
         \A v \in Workers \ {w} : worker'[v] = worker[v]
  PROVE (\A v \in Workers : MemoryInv(v)') /\ (\A m \in Mandates : MandateInv(m)')
<1>1. ASSUME NEW v \in Workers \ {w} PROVE MemoryInv(v)'
  <2>1. MemoryInv(v) /\ worker'[v] = worker[v] /\ UNCHANGED <<status, allowed>>
    BY DEF Inv, db
  <2> QED
    BY <2>1 DEF MemoryInv, Authorised
<1>2. ASSUME NEW m \in Mandates PROVE MandateInv(m)'
  BY DEF Inv, MandateInv, db
<1> QED
  BY <1>1, <1>2

\* A commit ends its request; it takes no mandate back.
LEMMA CommitStep ==
  ASSUME Inv, NEW w \in Workers, Become(w, Idle), UNCHANGED allowed,
         \A m \in Mandates : status[m] # "NONE" => status'[m] # "NONE"
  PROVE \A v \in Workers : MemoryInv(v)'
<1> SUFFICES ASSUME NEW v \in Workers PROVE MemoryInv(v)'
  OBVIOUS
<1>1. CASE v = w
  <2>1. worker'[w] = Idle
    BY DEF Become, Inv, TypeOK
  <2> QED
    BY <1>1, <2>1 DEF MemoryInv, Idle
<1>2. CASE v # w
  <2>1. worker'[v] = worker[v] /\ MemoryInv(v) /\ worker[v] \in WorkerState
    BY <1>2 DEF Become, Inv, TypeOK
  <2> QED
    BY <2>1 DEF MemoryInv, Authorised, WorkerState
<1> QED
  BY <1>1, <1>2

\* The consumption of a mandate, under the conditions the UPDATE tests.
LEMMA ConsumeStep ==
  ASSUME Inv, NEW w \in Workers, Consume(w)
  PROVE /\ \A n \in Mandates : MandateInv(n)'
        /\ \A n \in Mandates : status[n] # "NONE" => status'[n] # "NONE"
<1>0. worker[w].mandate \in Mandates /\ worker[w].key \in Keys
  BY DEF Inv, TypeOK, WorkerState, MemoryInv, Consume
<1>1. PICK m \in Mandates, k \in Keys : m = worker[w].mandate /\ k = worker[w].key
  BY <1>0
<1>2. spent[m] \in Nat /\ Price[k] \in Nat /\ Limit[m] \in Nat
  BY <1>1, SpendAssumption DEF Inv, TypeOK
<1>3. spent[m] + Price[k] <= Limit[m] /\ status[m] = "ACTIVE"
  BY <1>1 DEF Consume, CanConsume
<1>4. /\ spent' = [spent EXCEPT ![m] = spent[m] + Price[k]]
      /\ status' = [status EXCEPT ![m] = StatusAfter(m, Price[k])]
  BY <1>1 DEF Consume
<1>5. spent'[m] = spent[m] + Price[k] /\ status'[m] = StatusAfter(m, Price[k])
  BY <1>1, <1>4 DEF Inv, TypeOK
<1>6. MandateInv(m)' /\ status'[m] # "NONE"
  BY <1>2, <1>3, <1>5 DEF MandateInv, StatusAfter
<1>7. ASSUME NEW n \in Mandates \ {m}
      PROVE MandateInv(n)' /\ status'[n] = status[n]
  BY <1>1, <1>4, <1>7 DEF Inv, TypeOK, MandateInv
<1> QED
  BY <1>6, <1>7

LEMMA InductiveInv == Inv /\ [Next]_vars => Inv'
<1> SUFFICES ASSUME Inv, [Next]_vars
             PROVE (\A v \in Workers : MemoryInv(v)') /\ (\A m \in Mandates : MandateInv(m)')
  BY TypeStep DEF Inv
<1>1. CASE Tick \/ UNCHANGED vars
  <2>1. UNCHANGED <<status, spent, allowed, worker>>
    BY <1>1 DEF Tick, db, vars
  <2> QED
    BY <2>1 DEF Inv, MemoryInv, MandateInv, Authorised
<1>2. ASSUME NEW usage \in Merchants \cup Categories, AllowUsage(usage)
      PROVE (\A v \in Workers : MemoryInv(v)') /\ (\A m \in Mandates : MandateInv(m)')
  BY <1>2 DEF AllowUsage, Inv, MemoryInv, MandateInv, Authorised
<1>3. ASSUME NEW w \in Workers, Serve(w)
      PROVE (\A v \in Workers : MemoryInv(v)') /\ (\A m \in Mandates : MandateInv(m)')
  <2> USE DEF Become
  <2>1. worker \in [Workers -> WorkerState] /\ worker[w] \in WorkerState
    BY DEF Inv, TypeOK
  <2>2. CASE CheckNoDuplicate(w)
    <3>1. /\ worker'[w] = [Idle EXCEPT !.at = "create", !.clock = now]
          /\ \A v \in Workers \ {w} : worker'[v] = worker[v]
      BY <2>1, <2>2 DEF CheckNoDuplicate
    <3> QED
      BY <2>2, <3>1, ReadStep DEF CheckNoDuplicate, MemoryInv, Idle
  <2>3. ASSUME NEW m \in Mandates, NEW date \in 0..(MaxTime + 1), InsertMandate(w, m, date)
        PROVE (\A v \in Workers : MemoryInv(v)') /\ (\A n \in Mandates : MandateInv(n)')
    <3>1. /\ status[m] = "NONE" /\ status' = [status EXCEPT ![m] = "ACTIVE"]
          /\ UNCHANGED <<spent, allowed>> /\ Become(w, Idle)
      BY <2>3 DEF InsertMandate
    <3>2. \A n \in Mandates : status'[n] = IF n = m THEN "ACTIVE" ELSE status[n]
      BY <3>1 DEF Inv, TypeOK
    <3>3. \A n \in Mandates : MandateInv(n)'
      BY <3>1, <3>2, SpendAssumption DEF Inv, MandateInv
    <3> QED
      BY <3>1, <3>2, <3>3, CommitStep
  <2>4. ASSUME NEW k \in Keys, FindMandate(w, k)
        PROVE (\A v \in Workers : MemoryInv(v)') /\ (\A m \in Mandates : MandateInv(m)')
    <3>1. PICK m \in Mandates :
            worker' = [worker EXCEPT ![w] =
                        [Idle EXCEPT !.at = "authorise", !.key = k, !.clock = now, !.mandate = m]]
      BY <2>4 DEF FindMandate, Usable, Active
    <3>2. /\ worker'[w].at = "authorise" /\ worker'[w].key = k
          /\ \A v \in Workers \ {w} : worker'[v] = worker[v]
      BY <2>1, <3>1 DEF Idle
    <3> QED
      BY <2>4, <3>2, ReadStep DEF FindMandate, MemoryInv
  <2>5. CASE CheckUsage(w)
    <3>1. UNCHANGED db /\ \A v \in Workers \ {w} : worker'[v] = worker[v]
      BY <2>1, <2>5 DEF CheckUsage
    <3>2. MemoryInv(w)'
      <4>1. CASE Authorised(worker[w].key, worker[w].mandate)
        <5>1. /\ worker'[w].at = "consume" /\ worker'[w].key = worker[w].key
              /\ worker'[w].mandate = worker[w].mandate /\ worker[w].key \in Keys
          BY <2>1, <2>5, <4>1 DEF CheckUsage, WorkerState, Inv, MemoryInv
        <5> QED
          BY <3>1, <4>1, <5>1 DEF MemoryInv, Authorised, db
      <4>2. CASE ~Authorised(worker[w].key, worker[w].mandate)
        BY <2>1, <2>5, <4>2 DEF CheckUsage, MemoryInv, Idle
      <4> QED
        BY <4>1, <4>2
    <3> QED
      BY <3>1, <3>2, ReadStep
  <2>6. CASE Consume(w)
    BY <2>6, ConsumeStep, CommitStep DEF Consume
  <2>7. CASE LoseCreation(w) \/ GiveUp(w) \/ Die(w)
    <3>1. UNCHANGED db /\ worker' = [worker EXCEPT ![w] = Idle]
      BY <2>7 DEF LoseCreation, GiveUp, Die
    <3>2. worker'[w] = Idle /\ \A v \in Workers \ {w} : worker'[v] = worker[v]
      BY <2>1, <3>1
    <3> QED
      BY <3>1, <3>2, ReadStep DEF MemoryInv, Idle
  <2>8. CASE FindExpired(w)
    <3>1. /\ UNCHANGED db
          /\ worker'[w] = [Idle EXCEPT !.at = "sweep", !.sweep = Active \ Usable]
          /\ \A v \in Workers \ {w} : worker'[v] = worker[v]
      BY <2>1, <2>8 DEF FindExpired
    <3>2. MemoryInv(w)'
      BY <3>1 DEF MemoryInv, Idle, Active, db
    <3> QED
      BY <3>1, <3>2, ReadStep
  <2>9. CASE CloseExpired(w)
    <3>1. /\ Become(w, Idle) /\ UNCHANGED <<spent, allowed>>
          /\ \A m \in Mandates :
               status'[m] = IF m \in worker[w].sweep THEN "EXPIRED" ELSE status[m]
          /\ \A m \in worker[w].sweep : status[m] # "NONE"
      BY <2>9 DEF CloseExpired, Inv, MemoryInv
    <3>2. \A m \in Mandates : MandateInv(m)'
      BY <3>1 DEF Inv, MandateInv
    <3> QED
      BY <3>1, <3>2, CommitStep
  <2> QED
    BY <1>3, <2>2, <2>3, <2>4, <2>5, <2>6, <2>7, <2>8, <2>9 DEF Serve
<1> QED
  BY <1>1, <1>2, <1>3 DEF Next

\* Only Consume charges: it adds to a mandate what it adds to its purchases.
LEMMA PurchasesStep ==
  ASSUME Inv, SpentIsPurchases, [Next]_vars
  PROVE  SpentIsPurchases'
<1> DEFINE Charged(n) == {k \in Keys : charged[k] = n}
<1>1. ASSUME NEW w \in Workers, Consume(w) PROVE SpentIsPurchases'
  <2>1. PICK m \in Mandates, k \in Keys : m = worker[w].mandate /\ k = worker[w].key
    BY <1>1 DEF Inv, TypeOK, WorkerState, MemoryInv, Consume
  <2>2. /\ charged[k] = 0 /\ charged' = [charged EXCEPT ![k] = m]
        /\ spent' = [spent EXCEPT ![m] = spent[m] + Price[k]]
    BY <1>1, <2>1 DEF Consume
  <2>3. ASSUME NEW n \in Mandates \ {m}
        PROVE  spent'[n] = SumFunctionOnSet(Price, Charged(n)')
    <3>1. Charged(n)' = Charged(n)
      BY <2>2, SpendAssumption DEF Inv, TypeOK, Mandates
    <3>2. spent'[n] = spent[n]
      BY <2>2 DEF Inv, TypeOK
    <3> QED
      BY <3>1, <3>2 DEF SpentIsPurchases
  <2>4. spent'[m] = SumFunctionOnSet(Price, Charged(m)')
    <3>1. Charged(m)' = Charged(m) \cup {k} /\ k \notin Charged(m)
      BY <2>2, SpendAssumption DEF Inv, TypeOK, Mandates
    <3>2. IsFiniteSet(Charged(m))
      BY SpendAssumption, FS_Subset
    <3>3. \A y \in Charged(m) \cup {k} : Price[y] \in Nat
      BY SpendAssumption
    <3> HIDE DEF Charged
    <3>4. SumFunctionOnSet(Price, Charged(m) \cup {k})
            = Price[k] + SumFunctionOnSet(Price, Charged(m))
      BY <3>1, <3>2, <3>3, SumAdd
    <3>5. spent[m] = SumFunctionOnSet(Price, Charged(m)) /\ spent'[m] = spent[m] + Price[k]
      BY <2>2 DEF SpentIsPurchases, Charged, Inv, TypeOK
    <3>6. spent[m] \in Nat /\ Price[k] \in Nat
      BY SpendAssumption DEF Inv, TypeOK
    <3> QED
      BY <3>1, <3>4, <3>5, <3>6
  <2> QED
    BY <2>3, <2>4 DEF SpentIsPurchases
<1>2. CASE UNCHANGED <<spent, charged>>
  BY <1>2 DEF SpentIsPurchases
<1> QED
  BY <1>1, <1>2 DEF Next, Tick, AllowUsage, Serve, CheckNoDuplicate, InsertMandate,
     LoseCreation, FindMandate, CheckUsage, GiveUp, FindExpired, CloseExpired, Die, db, vars

LEMMA Invariant == Spec => []Inv
  BY InitInv, InductiveInv, PTL DEF Spec

-----------------------------------------------------------------------------
\* Every variable keeps its type.
THEOREM TypeCorrect == Spec => []TypeOK
<1>1. Inv => TypeOK
  BY DEF Inv
<1> QED
  BY <1>1, Invariant, PTL

\* No interleaving of purchases exceeds the limit of a mandate.
THEOREM LimitsHold == Spec => []NeverOverspent
<1>1. Inv => NeverOverspent
  BY DEF Inv, MandateInv, NeverOverspent
<1> QED
  BY <1>1, Invariant, PTL

\* What a mandate counts as spent is the sum of its purchases, however many
\* purchases race for it and whichever of them lose their key or die.
THEOREM SpentIsAccounted == Spec => []SpentIsPurchases
<1>1. Init => SpentIsPurchases
  <2> SUFFICES ASSUME Init, NEW m \in Mandates
               PROVE  spent[m] = SumFunctionOnSet(Price, {k \in Keys : charged[k] = m})
    BY DEF SpentIsPurchases
  <2>1. {k \in Keys : charged[k] = m} = {}
    BY SpendAssumption DEF Init, Mandates
  <2> QED
    BY <2>1, SumEmpty DEF Init
<1>2. Inv /\ SpentIsPurchases /\ [Next]_vars => SpentIsPurchases'
  BY PurchasesStep
<1> QED
  BY <1>1, <1>2, Invariant, PTL DEF Spec

\* A mandate that is spent up has left ACTIVE in the commit that spent it.
THEOREM SpentUpIsClosed == Spec => []ActiveHasLeft
<1>1. Inv => ActiveHasLeft
  BY DEF Inv, MandateInv, ActiveHasLeft
<1> QED
  BY <1>1, Invariant, PTL

\* What the request looked up before it charges makes the charge legal.
LEMMA AuthorisedIsLegal ==
  ASSUME NEW k \in Keys, NEW m \in Mandates, Authorised(k, m),
         allowed \subseteq Merchants \cup Categories
  PROVE  LegalCharge(k, m)
<1>1. /\ Merchant[k] \in Merchants /\ None \notin allowed
      /\ Named[k] # None => Category(k) = Named[k]
      /\ Named[k] = None => Category(k) = CategoryOf[Merchant[k]]
  BY SpendAssumption DEF Category
<1> QED
  BY <1>1 DEF Authorised, Covers, LegalCharge

\* A purchase is charged once, to a mandate that is active at that moment and
\* restricted to no other merchant and no other category than the one its
\* request names, or, when it names none, its merchant has; and a usage of the
\* beneficiary covers it or the merchant is certified.  The mandate was chosen
\* and the usage looked up before.
THEOREM ChargesAreLegal == Spec => OnlyActiveCharged
<1>1. Inv /\ [Next]_vars =>
        [\A k \in Keys : charged'[k] # charged[k] =>
           /\ charged[k] = 0
           /\ status[charged'[k]] = "ACTIVE"
           /\ LegalCharge(k, charged'[k])]_vars
  <2> SUFFICES ASSUME Inv, Next, NEW k \in Keys, charged'[k] # charged[k]
               PROVE /\ charged[k] = 0
                     /\ status[charged'[k]] = "ACTIVE"
                     /\ LegalCharge(k, charged'[k])
    OBVIOUS
  <2>1. PICK w \in Workers : Consume(w)
    BY DEF Next, Tick, AllowUsage, Serve, CheckNoDuplicate, InsertMandate, LoseCreation,
           FindMandate, CheckUsage, GiveUp, FindExpired, CloseExpired, Die, db
  <2>2. /\ charged' = [charged EXCEPT ![worker[w].key] = worker[w].mandate]
        /\ charged[worker[w].key] = 0 /\ status[worker[w].mandate] = "ACTIVE"
        /\ Authorised(worker[w].key, worker[w].mandate)
    BY <2>1 DEF Consume, CanConsume, Inv, MemoryInv
  <2>3. /\ k = worker[w].key /\ charged'[k] = worker[w].mandate
        /\ worker[w].mandate \in Mandates /\ allowed \subseteq Merchants \cup Categories
    BY <2>2 DEF Inv, TypeOK, WorkerState
  <2> QED
    BY <2>2, <2>3, AuthorisedIsLegal
<1> QED
  BY <1>1, Invariant, PTL DEF Spec, OnlyActiveCharged

\* The cleanup is final: no purchase revives a mandate that expired.
THEOREM ExpiryIsFinal == Spec => ExpiredIsFinal
<1>1. Inv /\ [Next]_vars =>
        [\A m \in Mandates : status[m] = "EXPIRED" => status'[m] = "EXPIRED"]_vars
  <2> SUFFICES ASSUME Inv, Next, NEW m \in Mandates, status[m] = "EXPIRED"
               PROVE status'[m] = "EXPIRED"
    OBVIOUS
  <2>1. CASE UNCHANGED status
    BY <2>1
  <2>2. ASSUME NEW w \in Workers, Consume(w) PROVE status'[m] = "EXPIRED"
    BY <2>2 DEF Consume, CanConsume, Inv, TypeOK
  <2>3. ASSUME NEW w \in Workers, CloseExpired(w) PROVE status'[m] = "EXPIRED"
    BY <2>3 DEF CloseExpired
  <2>4. ASSUME NEW w \in Workers, NEW n \in Mandates, NEW date \in 0..(MaxTime + 1),
               InsertMandate(w, n, date)
        PROVE status'[m] = "EXPIRED"
    BY <2>4 DEF InsertMandate, Inv, TypeOK
  <2> QED
    BY <2>1, <2>2, <2>3, <2>4
    DEF Next, Tick, AllowUsage, Serve, CheckNoDuplicate, LoseCreation, FindMandate, CheckUsage,
        GiveUp, FindExpired, Die, db
<1> QED
  BY <1>1, Invariant, PTL DEF Spec, ExpiredIsFinal
-----------------------------------------------------------------------------
(***************************************************************************)
(* The mandates implement Budget.                                          *)
(***************************************************************************)
Lives == [m \in Mandates |-> Life(m)]
Bought(m) == {k \in Keys : charged[k] = m}
WithinLimit == [m \in Mandates |-> {S \in SUBSET Keys : CostOf(S) < Limit[m]}]
AtLimit == [m \in Mandates |-> {S \in SUBSET Keys : CostOf(S) = Limit[m]}]

\* The life of a mandate only depends on its status.
LEMMA LifeOfStatus ==
  ASSUME NEW m \in Mandates
  PROVE  /\ (Lives[m] = "new") <=> (status[m] = "NONE")
         /\ (Lives[m] = "open") <=> (status[m] = "ACTIVE")
         /\ (status[m] \notin {"NONE", "ACTIVE"}) => Lives[m] = "closed"
         /\ (Lives'[m] = "new") <=> (status'[m] = "NONE")
         /\ (Lives'[m] = "open") <=> (status'[m] = "ACTIVE")
         /\ (status'[m] \notin {"NONE", "ACTIVE"}) => Lives'[m] = "closed"
         /\ (status'[m] = status[m]) => Lives'[m] = Lives[m]
  BY DEF Lives, Life

\* What the commit of a purchase makes of the budget of its mandate.
LEMMA ConsumeCharges ==
  ASSUME Inv, SpentIsPurchases, NEW w \in Workers, Consume(w)
  PROVE  \E k \in Keys, m \in Mandates : MandateBudget!Charge(k, m)
<1>1. PICK m \in Mandates, k \in Keys : m = worker[w].mandate /\ k = worker[w].key
  BY DEF Inv, TypeOK, WorkerState, MemoryInv, Consume
<1>2. /\ charged[k] = 0 /\ charged' = [charged EXCEPT ![k] = m]
      /\ status' = [status EXCEPT ![m] = StatusAfter(m, Price[k])]
      /\ status[m] = "ACTIVE" /\ spent[m] + Price[k] <= Limit[m]
  BY <1>1 DEF Consume, CanConsume
<1>3. /\ status'[m] = StatusAfter(m, Price[k])
      /\ \A n \in Mandates \ {m} : status'[n] = status[n]
  BY <1>2 DEF Inv, TypeOK
<1>4. CostOf(Bought(m) \cup {k}) = Price[k] + spent[m]
  <2>1. k \notin Bought(m)
    BY <1>2, SpendAssumption DEF Bought, Mandates
  <2>2. IsFiniteSet(Bought(m)) /\ \A y \in Bought(m) \cup {k} : Price[y] \in Nat
    BY SpendAssumption, FS_Subset DEF Bought
  <2>3. SumFunctionOnSet(Price, Bought(m) \cup {k}) = Price[k] + SumFunctionOnSet(Price, Bought(m))
    BY <2>1, <2>2, SumAdd
  <2>4. spent[m] = SumFunctionOnSet(Price, Bought(m))
    BY DEF SpentIsPurchases, Bought
  <2> QED BY <2>3, <2>4 DEF CostOf
<1>5. spent[m] \in Nat /\ Price[k] \in Nat /\ Limit[m] \in Nat
  BY SpendAssumption DEF Inv, TypeOK
<1>6. \/ Bought(m) \cup {k} \in WithinLimit[m] /\ UNCHANGED Lives
      \/ Bought(m) \cup {k} \in AtLimit[m] /\ Lives' = [Lives EXCEPT ![m] = "closed"]
  <2>1. Bought(m) \cup {k} \in SUBSET Keys
    BY DEF Bought
  <2>2. \A n \in Mandates \ {m} : Lives'[n] = Lives[n]
    BY <1>3, LifeOfStatus
  <2>3. CASE Price[k] + spent[m] < Limit[m]
    <3>1. status'[m] = status[m]
      BY <1>2, <1>3, <1>5, <2>3 DEF StatusAfter
    <3>2. UNCHANGED Lives
      BY <1>3, <3>1 DEF Lives, Life
    <3> QED BY <1>4, <2>1, <2>3, <3>2 DEF WithinLimit
  <2>4. CASE Price[k] + spent[m] = Limit[m]
    <3>1. status'[m] = "CONSUMED"
      BY <1>3, <1>5, <2>4 DEF StatusAfter
    <3>2. Lives'[m] = "closed"
      BY <3>1, LifeOfStatus
    <3>3. Lives' = [Lives EXCEPT ![m] = "closed"]
      BY <2>2, <3>2 DEF Lives
    <3> QED BY <1>4, <2>1, <2>4, <3>3 DEF AtLimit
  <2> QED BY <1>2, <1>5, <2>3, <2>4
<1>7. Lives[m] = "open"
  BY <1>2, LifeOfStatus
<1> QED
  BY <1>2, <1>6, <1>7
  DEF MandateBudget!Charge, MandateBudget!Purchases, Bought, WithinLimit, AtLimit, Lives

\* Only one mandate is open, and the cleanup closes none that does not exist.
LEMMA InsertIssues ==
  ASSUME Inv, NEW w \in Workers, NEW m \in Mandates, NEW date \in 0..(MaxTime + 1),
         InsertMandate(w, m, date)
  PROVE  MandateBudget!Issue(m)
<1>1. /\ \A n \in Mandates : status[n] # "ACTIVE"
      /\ status[m] = "NONE" /\ status'[m] = "ACTIVE" /\ UNCHANGED charged
      /\ \A n \in Mandates \ {m} : status'[n] = status[n]
  BY DEF InsertMandate, Active, Inv, TypeOK
<1>2. /\ \A n \in Mandates : Lives[n] # "open"
      /\ Lives[m] = "new" /\ Lives'[m] = "open"
      /\ \A n \in Mandates \ {m} : Lives'[n] = Lives[n]
  BY <1>1, LifeOfStatus
<1>3. Lives' = [Lives EXCEPT ![m] = "open"]
  BY <1>2 DEF Lives
<1> QED BY <1>1, <1>2, <1>3 DEF MandateBudget!Issue, Lives

LEMMA CloseRetires ==
  ASSUME Inv, NEW w \in Workers, CloseExpired(w)
  PROVE  \E old \in SUBSET Mandates : MandateBudget!Retire(old)
<1> DEFINE old == worker[w].sweep
<1>1. old \in SUBSET Mandates /\ \A m \in old : status[m] # "NONE"
  BY DEF CloseExpired, Inv, TypeOK, WorkerState, MemoryInv
<1>2. /\ \A m \in Mandates : status'[m] = IF m \in old THEN "EXPIRED" ELSE status[m]
      /\ UNCHANGED charged
  BY DEF CloseExpired
<1>3. \A m \in Mandates : Lives'[m] = IF m \in old THEN "closed" ELSE Lives[m]
  BY <1>2, LifeOfStatus
<1>4. Lives' = [m \in Mandates |-> IF m \in old THEN "closed" ELSE Lives[m]]
  BY <1>3 DEF Lives
<1>5. \A m \in old : Lives[m] # "new"
  BY <1>1, LifeOfStatus
<1> HIDE DEF old
<1> QED BY <1>1, <1>2, <1>4, <1>5 DEF MandateBudget!Retire, Lives

\* Every step of the requests is a step of the budget, or none.
THEOREM MandatesKeepBudget == Spec => KeepsBudget
<1>1. Init => MandateBudget!Init
  <2> SUFFICES ASSUME Init
               PROVE  MandateBudget!Init
    OBVIOUS
  <2>1. \A m \in Mandates : Life(m) = "new"
    BY DEF Init, Life
  <2> QED BY <2>1 DEF Init, MandateBudget!Init
<1>2. Inv /\ SpentIsPurchases /\ [Next]_vars => [MandateBudget!Next]_<<charged, Lives>>
  <2> SUFFICES ASSUME Inv, SpentIsPurchases, [Next]_vars
               PROVE  [MandateBudget!Next]_<<charged, Lives>>
    OBVIOUS
  <2>1. CASE UNCHANGED <<status, charged>>
    BY <2>1 DEF Lives, Life
  <2>2. ASSUME NEW w \in Workers, Consume(w) \/ CloseExpired(w)
        PROVE  MandateBudget!Next
    BY <2>2, ConsumeCharges, CloseRetires DEF MandateBudget!Next
  <2>3. ASSUME NEW w \in Workers, NEW m \in Mandates, NEW date \in 0..(MaxTime + 1),
               InsertMandate(w, m, date)
        PROVE  MandateBudget!Next
    BY <2>3, InsertIssues DEF MandateBudget!Next
  <2> QED
    BY <2>1, <2>2, <2>3
    DEF Next, Tick, AllowUsage, Serve, CheckNoDuplicate, LoseCreation, FindMandate,
        CheckUsage, GiveUp, FindExpired, Die, db, vars
<1>3. [MandateBudget!Next]_<<charged, Lives>> =>
        [MandateBudget!Next]_<<charged, [m \in Mandates |-> Life(m)]>>
  BY DEF Lives
<1> QED
  BY <1>1, <1>2, <1>3, Invariant, SpentIsAccounted, PTL
  DEF Spec, KeepsBudget, MandateBudget!Spec
=============================================================================
