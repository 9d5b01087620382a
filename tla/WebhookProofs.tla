--------------------------- MODULE WebhookProofs ---------------------------
(***************************************************************************)
(* Proofs about the two services that learn of money from outside: the     *)
(* webhook of the payment provider (PspWebhook) and the funding of an      *)
(* escrow, through Stripe or by the client (EscrowFunding).  Both handle   *)
(* reports that are repeated and late (app/services/psp_webhooks.py).  They*)
(* share no variable; each part has an inductive invariant of its own.     *)
(***************************************************************************)
EXTENDS PspWebhook, EscrowFunding, Sums, TLAPS

(***************************************************************************)
(* The webhook of the payment provider, for any number of servers, events  *)
(* and failures.  The inductive invariant ties the count of each event to  *)
(* its row, and the second commit of a settlement to a row that is there.  *)
(***************************************************************************)

\* The count of an event is the number of its rows, and a server that is about
\* to finish a settlement has inserted its row.
CountedByRow == \A e \in Events : handled[e] = IF row[e] = "none" THEN 0 ELSE 1

FinishingIsInserted ==
  \A s \in Servers :
    Working(s, "finish") => row[server[s].event] # "none"

IInv ==
  /\ TypeOK
  /\ CountedByRow
  /\ FinishingIsInserted
  /\ UnprocessedTookEffect
  /\ AnsweredIsProcessed

\* A sweep leaves a map of the type of the maps.
LEMMA SweptType ==
  ASSUME TypeOK, NEW s \in Servers, NEW d \in -Drift..Drift
  PROVE  Swept(s, d) \in [EventIds -> Gone..Drift]
  <1> USE WebhookAssumption
  <1>1. Gone \in Gone..Drift
    BY DEF Gone
  <1>2. memory[s] \in [EventIds -> Gone..Drift]
    BY DEF TypeOK
  <1> QED
    BY <1>1, <1>2 DEF Swept

\* A server that stands somewhere handles an event.
LEMMA WorkingType ==
  ASSUME TypeOK, NEW s \in Servers, NEW stage \in {"insert", "finish"},
         Working(s, stage)
  PROVE  server[s] \in Handling /\ server[s].event \in Events
  BY DEF TypeOK, Working, Handling

\* The type invariant is inductive.
LEMMA TypeStep ==
  ASSUME TypeOK, [Next]_vars
  PROVE  TypeOK'
  <1> USE WebhookAssumption DEF TypeOK
  <1>1. ASSUME NEW p \in Payments, CommitPayout(p)
        PROVE  TypeOK'
    BY <1>1 DEF CommitPayout, provider
  <1>2. CASE CloseAfterPayout
    BY <1>2 DEF CloseAfterPayout, provider
  <1>3. ASSUME NEW e \in Events, Report(e)
        PROVE  TypeOK'
    BY <1>3 DEF Report, db
  <1>4. ASSUME NEW s \in Servers, NEW e \in Events, NEW d \in -Drift..Drift,
               Refuse(s, e, d)
        PROVE  TypeOK'
    BY <1>4, SweptType DEF Refuse, db, provider
  <1>5. ASSUME NEW s \in Servers, NEW e \in Events, NEW d \in -Drift..Drift,
               Receive(s, e, d)
        PROVE  TypeOK'
    <2>1. d \in Gone..Drift
      BY DEF Gone
    <2>2. memory' \in [Servers -> [EventIds -> Gone..Drift]]
      BY <1>5, <2>1, SweptType DEF Receive
    <2>3. [at |-> "insert", event |-> e] \in Handling
      BY DEF Handling
    <2>4. server' \in [Servers -> Handling \cup {Idle}]
      BY <1>5, <2>3 DEF Receive
    <2> QED
      BY <1>5, <2>2, <2>4 DEF Receive, db, provider
  <1>6. ASSUME NEW s \in Servers, LoseRace(s)
        PROVE  TypeOK'
    BY <1>6 DEF LoseRace, Done, db, provider
  <1>7. ASSUME NEW s \in Servers, RecordSettlement(s)
        PROVE  TypeOK'
    <2>1. server[s] \in Handling /\ server[s].event \in Events
      BY <1>7, WorkingType DEF RecordSettlement, Insert
    <2>2. [server[s] EXCEPT !.at = "finish"] \in Handling
      BY <2>1 DEF Handling
    <2>3. server' \in [Servers -> Handling \cup {Idle}]
      BY <1>7, <2>2 DEF RecordSettlement
    <2>4. payment' \in [Payments -> {"NONE", "SENT", "SETTLED", "ERROR"}]
      BY <1>7 DEF RecordSettlement
    <2>5. released' \in BOOLEAN
      BY <1>7 DEF RecordSettlement, AllPaid
    <2>6. /\ row' \in [Events -> {"none", "received", "processed"}]
          /\ handled' \in [Events -> Nat]
      BY <1>7, <2>1 DEF RecordSettlement
    <2> QED
      BY <1>7, <2>3, <2>4, <2>5, <2>6 DEF RecordSettlement, provider
  <1>8. ASSUME NEW s \in Servers, FinishSettlement(s)
        PROVE  TypeOK'
    BY <1>8, WorkingType DEF FinishSettlement, Done
  <1>9. ASSUME NEW s \in Servers, RecordOther(s)
        PROVE  TypeOK'
    BY <1>9, WorkingType DEF RecordOther, Insert, Done
  <1>10. ASSUME NEW s \in Servers, Fail(s)
         PROVE  TypeOK'
    BY <1>10 DEF Fail, Done, db, provider
  <1>11. ASSUME NEW s \in Servers, Crash(s)
         PROVE  TypeOK'
    <2>1. Gone \in Gone..Drift
      BY DEF Gone
    <2> QED
      BY <1>11, <2>1 DEF Crash, Done, db, provider
  <1>12. CASE Tick
    <2>1. \A x \in Gone..Drift : x # Gone => x - 1 \in Gone..Drift
      BY DEF Gone
    <2>2. Gone \in Gone..Drift
      BY DEF Gone
    <2>3. memory' \in [Servers -> [EventIds -> Gone..Drift]]
      BY <1>12, <2>1, <2>2 DEF Tick
    <2> QED
      BY <1>12, <2>3 DEF Tick, db, provider
  <1>13. CASE UNCHANGED vars
    BY <1>13 DEF vars, db, provider
  <1> QED
    BY <1>1, <1>2, <1>3, <1>4, <1>5, <1>6, <1>7, <1>8, <1>9, <1>10, <1>11, <1>12,
       <1>13 DEF Next, Handle, Deliver

-----------------------------------------------------------------------------
\* Every part of the invariant that a step can disturb follows from what the
\* step does to the rows: an insert finds none, a second commit finds one.
LEMMA RowsStep ==
  ASSUME IInv, [Next]_vars
  PROVE  CountedByRow' /\ FinishingIsInserted' /\ UnprocessedTookEffect'
         /\ AnsweredIsProcessed'
  <1> DEFINE Quiet == UNCHANGED <<payment, row, handled, answered>>
             Stays == \A s \in Servers :
                        Working(s, "finish")' =>
                          Working(s, "finish") /\ server'[s].event = server[s].event
  <1> USE DEF IInv
  <1>a. ASSUME Quiet, Stays
        PROVE  CountedByRow' /\ FinishingIsInserted' /\ UnprocessedTookEffect'
               /\ AnsweredIsProcessed'
    BY <1>a DEF CountedByRow, FinishingIsInserted, UnprocessedTookEffect,
       AnsweredIsProcessed
  <1>1. ASSUME NEW p \in Payments, CommitPayout(p)
        PROVE  CountedByRow' /\ FinishingIsInserted' /\ UnprocessedTookEffect'
               /\ AnsweredIsProcessed'
    <2>1. \A q \in Payments : payment[q] \in {"SETTLED", "ERROR"} =>
            payment'[q] = payment[q]
      BY <1>1 DEF CommitPayout, TypeOK
    <2>2. UNCHANGED <<row, handled, server, answered>>
      BY <1>1 DEF CommitPayout, provider
    <2>3. UnprocessedTookEffect'
      BY <2>1, <2>2, WebhookAssumption DEF UnprocessedTookEffect
    <2> QED
      BY <2>2, <2>3 DEF CountedByRow, FinishingIsInserted, AnsweredIsProcessed,
         Working
  <1>2. CASE CloseAfterPayout
    BY <1>2, <1>a DEF CloseAfterPayout, provider, Working
  <1>3. ASSUME NEW e \in Events, Report(e)
        PROVE  Quiet /\ Stays
    BY <1>3 DEF Report, db, Working
  <1>4. ASSUME NEW s \in Servers, NEW e \in Events, NEW d \in -Drift..Drift,
               Refuse(s, e, d)
        PROVE  Quiet /\ Stays
    BY <1>4 DEF Refuse, db, provider, Working
  <1>5. ASSUME NEW s \in Servers, NEW e \in Events, NEW d \in -Drift..Drift,
               Receive(s, e, d)
        PROVE  Quiet /\ Stays
    BY <1>5 DEF Receive, db, provider, Working, TypeOK
  <1>6. ASSUME NEW s \in Servers, LoseRace(s)
        PROVE  Quiet /\ Stays
    BY <1>6 DEF LoseRace, Done, db, provider, Working, TypeOK
  <1>7. ASSUME NEW s \in Servers, RecordSettlement(s)
        PROVE  CountedByRow' /\ FinishingIsInserted' /\ UnprocessedTookEffect'
               /\ AnsweredIsProcessed'
    <2> DEFINE e == server[s].event
    <2>1. e \in Events /\ server[s] \in Handling /\ row[e] = "none"
      BY <1>7, WorkingType DEF RecordSettlement, Insert
    <2>2. /\ row' = [row EXCEPT ![e] = "received"]
          /\ handled' = [handled EXCEPT ![e] = @ + 1]
          /\ payment' = [payment EXCEPT ![Ref[e]] = "SETTLED"]
          /\ server' = [server EXCEPT ![s].at = "finish"]
          /\ answered' = answered
          /\ Kind[e] = "settled"
      BY <1>7 DEF RecordSettlement, Settles, provider
    <2>3. CountedByRow'
      BY <2>1, <2>2 DEF CountedByRow, TypeOK
    <2>4. FinishingIsInserted'
      BY <2>1, <2>2 DEF FinishingIsInserted, Working, TypeOK, Handling
    <2>5. UnprocessedTookEffect'
      BY <2>1, <2>2, WebhookAssumption DEF UnprocessedTookEffect, TypeOK
    <2>6. AnsweredIsProcessed'
      BY <2>1, <2>2 DEF AnsweredIsProcessed, TypeOK
    <2> QED
      BY <2>3, <2>4, <2>5, <2>6
  <1>8. ASSUME NEW s \in Servers, FinishSettlement(s)
        PROVE  CountedByRow' /\ FinishingIsInserted' /\ UnprocessedTookEffect'
               /\ AnsweredIsProcessed'
    <2> DEFINE e == server[s].event
    <2>1. e \in Events /\ row[e] # "none"
      BY <1>8, WorkingType DEF FinishSettlement, FinishingIsInserted
    <2>2. /\ row' = [row EXCEPT ![e] = "processed"]
          /\ server' = [server EXCEPT ![s] = Idle]
          /\ answered' = answered \cup {e}
          /\ UNCHANGED <<payment, handled>>
      BY <1>8 DEF FinishSettlement, Done
    <2>3. CountedByRow'
      BY <2>1, <2>2 DEF CountedByRow, TypeOK
    <2>4. FinishingIsInserted'
      BY <2>1, <2>2 DEF FinishingIsInserted, Working, TypeOK
    <2>5. UnprocessedTookEffect'
      BY <2>1, <2>2 DEF UnprocessedTookEffect, TypeOK
    <2>6. AnsweredIsProcessed'
      BY <2>1, <2>2 DEF AnsweredIsProcessed, TypeOK
    <2> QED
      BY <2>3, <2>4, <2>5, <2>6
  <1>9. ASSUME NEW s \in Servers, RecordOther(s)
        PROVE  CountedByRow' /\ FinishingIsInserted' /\ UnprocessedTookEffect'
               /\ AnsweredIsProcessed'
    <2> DEFINE e == server[s].event
    <2>1. e \in Events /\ row[e] = "none"
      BY <1>9, WorkingType DEF RecordOther, Insert
    <2>2. /\ row' = [row EXCEPT ![e] = "processed"]
          /\ handled' = [handled EXCEPT ![e] = @ + 1]
          /\ server' = [server EXCEPT ![s] = Idle]
          /\ answered' = answered \cup {e}
          /\ \/ payment' = payment
             \/ payment' = [payment EXCEPT ![Ref[e]] = "ERROR"]
      BY <1>9 DEF RecordOther, Done
    <2>3. CountedByRow'
      BY <2>1, <2>2 DEF CountedByRow, TypeOK
    <2>4. FinishingIsInserted'
      BY <2>1, <2>2 DEF FinishingIsInserted, Working, TypeOK
    <2>5. UnprocessedTookEffect'
      BY <2>1, <2>2, WebhookAssumption DEF UnprocessedTookEffect, TypeOK
    <2>6. AnsweredIsProcessed'
      BY <2>1, <2>2 DEF AnsweredIsProcessed, TypeOK
    <2> QED
      BY <2>3, <2>4, <2>5, <2>6
  <1>10. ASSUME NEW s \in Servers, Fail(s) \/ Crash(s)
         PROVE  Quiet /\ Stays
    BY <1>10 DEF Fail, Crash, Done, db, provider, Working, TypeOK
  <1>11. CASE Tick \/ UNCHANGED vars
    BY <1>11, <1>a DEF Tick, vars, db, provider, Working
  <1> HIDE DEF Quiet, Stays
  <1> QED
    BY <1>a, <1>1, <1>2, <1>3, <1>4, <1>5, <1>6, <1>7, <1>8, <1>9, <1>10, <1>11
       DEF Next, Handle, Deliver

LEMMA InitIInv == Init => IInv
  <1> SUFFICES ASSUME Init PROVE IInv
    OBVIOUS
  <1>1. Gone \in Gone..Drift
    BY WebhookAssumption DEF Gone
  <1>2. TypeOK
    BY <1>1 DEF Init, TypeOK
  <1> QED
    BY <1>2 DEF Init, IInv, CountedByRow, FinishingIsInserted, Working, Idle,
       UnprocessedTookEffect, AnsweredIsProcessed

LEMMA Invariant == Spec => []IInv
  <1>1. IInv /\ [Next]_vars => IInv'
    BY TypeStep, RowsStep DEF IInv
  <1> QED
    BY InitIInv, <1>1, PTL DEF Spec

-----------------------------------------------------------------------------
\* Every variable keeps its type.
THEOREM TypeCorrect == Spec => []TypeOK
  BY Invariant, PTL DEF IInv

\* An event is handled at most once, though the map of recent ids forgets, is
\* lost in a crash and is not shared: the row it is counted by is inserted once.
THEOREM HandledAtMostOnce == Spec => []AtMostOnce
  <1>1. IInv => AtMostOnce
    BY DEF IInv, CountedByRow, AtMostOnce
  <1> QED
    BY <1>1, Invariant, PTL

\* An event that was stored but never marked as processed has taken effect, so
\* that refusing its repeats loses nothing.
THEOREM StoredTookEffect == Spec => []UnprocessedTookEffect
  BY Invariant, PTL DEF IInv

\* The provider stops repeating an event only when it is stored and processed.
THEOREM AnswerIsKept == Spec => []AnsweredIsProcessed
  BY Invariant, PTL DEF IInv

-----------------------------------------------------------------------------
(***************************************************************************)
(* The webhook implements PspInbox.  The row of an event makes its effect  *)
(* visible in the same commit, and only one server inserts it; that its    *)
(* payment is there by then follows from what the provider reports.        *)
(***************************************************************************)
Applied == {e \in Events : row[e] # "none"}

\* What is reported and what is handled was paid out before.
ReportsFollowPayments ==
  /\ \A e \in reported : payment[Ref[e]] # "NONE"
  /\ \A s \in Servers : server[s] # Idle => server[s].event \in reported

\* A payment that was made stays so, a report is not taken back.
LEMMA MadeStaysMade ==
  ASSUME TypeOK, [Next]_vars
  PROVE  /\ \A p \in Payments : payment[p] # "NONE" => payment'[p] # "NONE"
         /\ reported \subseteq reported'
  <1>1. \/ UNCHANGED payment
        \/ \E p \in Payments, outcome \in {"SENT", "SETTLED", "ERROR"} :
             payment' = [payment EXCEPT ![p] = outcome]
    <2>1. ASSUME NEW s \in Servers, RecordSettlement(s) \/ RecordOther(s)
          PROVE  \/ UNCHANGED payment
                 \/ \E p \in Payments, outcome \in {"SENT", "SETTLED", "ERROR"} :
                      payment' = [payment EXCEPT ![p] = outcome]
      <3>1. server[s].event \in Events
        BY <2>1, WorkingType DEF RecordSettlement, RecordOther, Insert
      <3> QED
        BY <2>1, <3>1, WebhookAssumption DEF RecordSettlement, RecordOther
    <2> QED
      BY <2>1 DEF Next, vars, CommitPayout, CloseAfterPayout, Report, Handle, LoseRace,
         FinishSettlement, Fail, Crash, Deliver, Refuse, Receive, Tick, db, provider
  <1>2. reported \subseteq reported'
    BY DEF Next, vars, CommitPayout, CloseAfterPayout, Report, Handle, LoseRace,
       RecordSettlement, FinishSettlement, RecordOther, Fail, Crash, Deliver, Refuse,
       Receive, Tick, db, provider
  <1> QED
    BY <1>1, <1>2 DEF TypeOK

LEMMA ReportsStep ==
  ASSUME TypeOK, ReportsFollowPayments, [Next]_vars
  PROVE  ReportsFollowPayments'
  <1>1. \A e \in reported' : payment'[Ref[e]] # "NONE"
    <2>1. \A e \in reported' : e \in Events /\ payment[Ref[e]] # "NONE"
      <3>1. ASSUME NEW e \in Events, Report(e)
            PROVE  \A f \in reported' : payment[Ref[f]] # "NONE"
        BY <3>1 DEF Report, ReportsFollowPayments
      <3>2. UNCHANGED reported \/ \E e \in Events : Report(e)
        BY DEF Next, vars, CommitPayout, CloseAfterPayout, Handle, LoseRace,
           RecordSettlement, FinishSettlement, RecordOther, Fail, Crash, Deliver,
           Refuse, Receive, Tick, db, provider
      <3>3. reported' \subseteq Events
        BY TypeStep DEF TypeOK
      <3> QED
        BY <3>1, <3>2, <3>3 DEF ReportsFollowPayments
    <2> QED
      BY <2>1, MadeStaysMade, WebhookAssumption
  <1>2. ASSUME NEW s \in Servers, server'[s] # Idle
        PROVE  server'[s].event \in reported
    <2>1. CASE server'[s] = server[s]
      BY <2>1, <1>2 DEF ReportsFollowPayments
    <2>2. ASSUME NEW e \in Events, NEW t \in Servers, NEW d \in -Drift..Drift,
                 e \in reported, Receive(t, e, d)
          PROVE  server'[s] = server[s] \/ server'[s].event \in reported
      BY <2>2 DEF Receive, TypeOK
    <2>3. ASSUME NEW t \in Servers, Done(t)
          PROVE  server'[s] = server[s]
      BY <2>3, <1>2 DEF Done, TypeOK
    <2>4. ASSUME NEW t \in Servers, RecordSettlement(t)
          PROVE  server'[s] = server[s] \/ server'[s].event \in reported
      <3>1. server[t] \in Handling /\ server[t] # Idle
        BY <2>4, WorkingType DEF RecordSettlement, Insert, Working
      <3>2. server'[t].event = server[t].event
        BY <2>4, <3>1 DEF RecordSettlement, TypeOK, Handling
      <3>3. \A r \in Servers \ {t} : server'[r] = server[r]
        BY <2>4 DEF RecordSettlement, TypeOK
      <3> QED
        BY <3>1, <3>2, <3>3 DEF ReportsFollowPayments
    <2>5. \/ UNCHANGED server
          \/ \E t \in Servers : Done(t) \/ RecordSettlement(t)
          \/ \E t \in Servers, e \in Events, d \in -Drift..Drift :
               e \in reported /\ Receive(t, e, d)
      BY DEF Next, vars, CommitPayout, CloseAfterPayout, Report, Handle, LoseRace,
         FinishSettlement, RecordOther, Fail, Crash, Deliver, Refuse, Tick
    <2> QED
      BY <2>1, <2>2, <2>3, <2>4, <2>5
  <1> QED
    BY <1>1, <1>2, MadeStaysMade DEF ReportsFollowPayments

\* The commit that inserts the row of an event applies it.
LEMMA RecordApplies ==
  ASSUME IInv, ReportsFollowPayments, NEW s \in Servers,
         RecordSettlement(s) \/ RecordOther(s)
  PROVE  \E e \in Events : Inbox!Apply(e)
  <1> DEFINE e == server[s].event
  <1>1. e \in Events /\ row[e] = "none" /\ payment[Ref[e]] # "NONE" /\ Ref[e] \in Payments
    <2>1. e \in Events /\ server[s] # Idle /\ row[e] = "none"
      BY WorkingType DEF RecordSettlement, RecordOther, Insert, Working, IInv
    <2> QED
      BY <2>1, WebhookAssumption DEF ReportsFollowPayments
  <1>2. Applied' = Applied \cup {e}
    <2>1. \E outcome \in {"received", "processed"} : row' = [row EXCEPT ![e] = outcome]
      BY DEF RecordSettlement, RecordOther
    <2> QED
      BY <1>1, <2>1 DEF Applied, IInv, TypeOK
  <1>3. payment[Ref[e]] \in {"SENT", "SETTLED", "ERROR"} /\ Kind[e] \in {"settled", "failed", "other"}
    BY <1>1, WebhookAssumption DEF IInv, TypeOK
  <1>4. /\ payment' = [payment EXCEPT ![Ref[e]] = Inbox!Outcome(e)]
        /\ UNCHANGED released \/ Inbox!Release
    <2>1. CASE RecordSettlement(s)
      <3>1. payment' = [payment EXCEPT ![Ref[e]] = "SETTLED"] /\ Kind[e] = "settled"
        BY <2>1 DEF RecordSettlement, Settles
      <3>2. released' = (released \/ AllPaid(payment'))
        BY <2>1 DEF RecordSettlement
      <3>3. AllPaid(payment') => AllPaid(payment)
        BY <1>1, <3>1 DEF AllPaid, IInv, TypeOK
      <3>4. UNCHANGED released \/ (AllPaid(payment) /\ released' = TRUE)
        BY <3>2, <3>3 DEF IInv, TypeOK, AllPaid
      <3> QED
        BY <3>1, <3>4 DEF Inbox!Outcome, Inbox!Release, Inbox!AllMade, AllPaid
    <2>2. CASE RecordOther(s)
      <3>1. UNCHANGED released /\ ~Settles(e)
        BY <2>2 DEF RecordOther
      <3>2. CASE Fails(e)
        BY <2>2, <3>1, <3>2 DEF RecordOther, Fails, Inbox!Outcome
      <3>3. CASE ~Fails(e)
        <4>1. payment' = payment
          BY <2>2, <3>3 DEF RecordOther
        <4>2. Inbox!Outcome(e) = payment[Ref[e]]
          BY <1>3, <3>1, <3>3 DEF Inbox!Outcome, Settles, Fails
        <4>3. payment = [payment EXCEPT ![Ref[e]] = payment[Ref[e]]]
          BY DEF IInv, TypeOK
        <4> QED
          BY <3>1, <4>1, <4>2, <4>3
      <3> QED
        BY <3>2, <3>3
    <2> QED
      BY <2>1, <2>2
  <1>5. e \notin Applied
    BY <1>1 DEF Applied
  <1> HIDE DEF e
  <1> QED
    BY <1>1, <1>2, <1>4, <1>5 DEF Inbox!Apply, Applied

\* Every step of the servers is a step of the inbox, or none.
THEOREM WebhookKeepsInbox == Spec => KeepsInbox
  <1>1. Init => Inbox!Init /\ ReportsFollowPayments
    BY DEF Init, Inbox!Init, ReportsFollowPayments
  <1>2. IInv /\ ReportsFollowPayments /\ [Next]_vars => ReportsFollowPayments'
    BY ReportsStep DEF IInv
  <1>3. IInv /\ ReportsFollowPayments /\ [Next]_vars =>
          [Inbox!Next]_<<payment, released, Applied>>
    <2> SUFFICES ASSUME IInv, ReportsFollowPayments, [Next]_vars
                 PROVE  [Inbox!Next]_<<payment, released, Applied>>
      OBVIOUS
    <2>1. ASSUME NEW p \in Payments, CommitPayout(p)
          PROVE  Inbox!Make(p)
      BY <2>1 DEF CommitPayout, Inbox!Make
    <2>2. CASE CloseAfterPayout
      BY <2>2 DEF CloseAfterPayout, AllPaid, Inbox!Release, Inbox!AllMade, Inbox!Next
    <2>3. ASSUME NEW s \in Servers, RecordSettlement(s) \/ RecordOther(s)
          PROVE  Inbox!Next
      BY <2>3, RecordApplies DEF Inbox!Next
    <2>4. ASSUME NEW s \in Servers, FinishSettlement(s)
          PROVE  UNCHANGED <<payment, released, Applied>>
      <3>1. server[s].event \in Events /\ row[server[s].event] # "none"
        BY <2>4, WorkingType DEF FinishSettlement, FinishingIsInserted, IInv
      <3>2. row' = [row EXCEPT ![server[s].event] = "processed"]
        BY <2>4 DEF FinishSettlement
      <3>3. Applied' = Applied
        BY <3>1, <3>2 DEF Applied, IInv, TypeOK
      <3> QED
        BY <2>4, <3>3 DEF FinishSettlement
    <2>5. CASE UNCHANGED db
      BY <2>5 DEF db, Applied
    <2> QED
      BY <2>1, <2>2, <2>3, <2>4, <2>5
      DEF Next, vars, Report, Handle, LoseRace, Fail, Crash, Deliver, Refuse, Receive,
          Tick, Inbox!Next
  <1>4. [Inbox!Next]_<<payment, released, Applied>> =>
          [Inbox!Next]_<<payment, released, {e \in Events : row[e] # "none"}>>
    BY DEF Applied
  <1> QED
    BY <1>1, <1>2, <1>3, <1>4, Invariant, PTL DEF Spec, KeepsInbox, Inbox!Spec

-----------------------------------------------------------------------------
(***************************************************************************)
(* The funding of an escrow, for any number of workers, deposits and       *)
(* intents, with any requests that may die.  That FUNDED is covered rests  *)
(* on what a worker concluded from an earlier read: it stays true because  *)
(* deposits are never removed.                                             *)
(***************************************************************************)

\* What a worker is about is known to the tables: a deposit has a key, a report
\* an intent.
KeysKnown ==
  \A w \in Workers :
    /\ worker[w].at \in {"check", "insert"} => worker[w].key \in DepositKeys
    /\ worker[w].at \in {"mark", "load", "fail"} => worker[w].key \in Intents

Decided == {"RELEASABLE", "RELEASED", "REFUNDED", "CANCELLED"}

\* A worker that is about to set FUNDED was right when it read the deposits, and
\* still is, unless another one has recorded its deposit.
TargetsKnown ==
  \A w \in Workers :
    /\ worker[w].at = "insert" =>
         \/ worker[w].target = "none"
         \/ /\ worker[w].target = "FUNDED"
            /\ worker[w].key \in deposits \/ Covers(worker[w].key)
    /\ worker[w].at = "set" => worker[w].target \in Decided

FundingInv ==
  /\ FundingTypeOK
  /\ IsFiniteSet(deposits)
  /\ KeysKnown
  /\ TargetsKnown
  /\ FundedMeansCovered

-----------------------------------------------------------------------------
\* The sum of recorded deposits is a number, and grows by what is recorded.
LEMMA TotalNat ==
  ASSUME FundingTypeOK, IsFiniteSet(deposits)
  PROVE  Total \in Nat
<1>1. \A k \in deposits : Amount[k] \in Nat
  BY FundingAssumption DEF FundingTypeOK
<1> QED
  BY <1>1, SumNat DEF Total, AmountOf

LEMMA RecordDeposit ==
  ASSUME FundingTypeOK, IsFiniteSet(deposits), NEW k \in DepositKeys,
         deposits' = deposits \cup {k}
  PROVE  /\ IsFiniteSet(deposits')
         /\ deposits' \subseteq DepositKeys
         /\ Total \in Nat /\ Total' \in Nat /\ Total <= Total'
         /\ k \notin deposits => Total' = Total + Amount[k]
<1>1. IsFiniteSet(deposits')
  BY FS_AddElement
<1>2. \A x \in deposits' : Amount[x] \in Nat
  BY FundingAssumption DEF FundingTypeOK
<1>3. Total' = SumFunctionOnSet(Amount, deposits') /\ Total = SumFunctionOnSet(Amount, deposits)
  BY DEF Total, AmountOf
<1>4. Total' \in Nat /\ Total \in Nat
  BY <1>1, <1>2, <1>3, TotalNat, SumNat
<1>5. ASSUME k \notin deposits
      PROVE  Total' = Total + Amount[k]
  <2>1. SumFunctionOnSet(Amount, deposits \cup {k}) = Amount[k] + SumFunctionOnSet(Amount, deposits)
    BY <1>2, <1>5, SumAdd
  <2>2. Amount[k] \in Nat
    BY <1>2
  <2> QED
    BY <1>3, <1>4, <2>1, <2>2
<1>6. Total <= Total'
  <2>1. CASE k \in deposits
    <3>1. deposits' = deposits
      BY <2>1
    <3> QED
      BY <1>3, <1>4, <3>1
  <2>2. CASE k \notin deposits
    BY <1>2, <1>4, <1>5, <2>2
  <2> QED
    BY <2>1, <2>2
<1> QED
  BY <1>1, <1>4, <1>5, <1>6 DEF FundingTypeOK

\* What a step changes when it records nothing.
LEMMA SameTotal ==
  ASSUME UNCHANGED deposits
  PROVE  Total' = Total /\ \A k : Covers(k)' <=> Covers(k)
BY DEF Total, AmountOf, Covers

-----------------------------------------------------------------------------
(***************************************************************************)
(* The steps, by what they do to the worker: w takes up a state, or no     *)
(* worker moves.  Others keep theirs.                                      *)
(***************************************************************************)
Takes(w, state) == worker' = [worker EXCEPT ![w] = state]

\* A state that satisfies the invariant in the next tables.
Sound(state) ==
  /\ state \in WorkerState
  /\ state.at \in {"check", "insert"} => state.key \in DepositKeys
  /\ state.at \in {"mark", "load", "fail"} => state.key \in Intents
  /\ state.at = "insert" =>
       \/ state.target = "none"
       \/ state.target = "FUNDED" /\ (state.key \in deposits \/ Covers(state.key))
  /\ state.at = "set" => state.target \in Decided

LEMMA IdleSound == Sound(IdleWorker)
BY DEF Sound, IdleWorker, WorkerState, Stages, EscrowStatus

\* What the invariant says of a worker is that its state is sound.
LEMMA WorkersSound ==
  worker \in [Workers -> WorkerState] /\ KeysKnown /\ TargetsKnown
    <=> worker \in [Workers -> WorkerState] /\ \A w \in Workers : Sound(worker[w])
BY DEF Sound, KeysKnown, TargetsKnown

\* The tables as they stay while a worker reads.
LEMMA ReadStep ==
  ASSUME FundingInv, NEW w \in Workers, NEW state, Sound(state), Takes(w, state),
         UNCHANGED <<deposits>>
  PROVE  worker' \in [Workers -> WorkerState] /\ KeysKnown' /\ TargetsKnown'
<1>1. worker' \in [Workers -> WorkerState]
  BY DEF FundingInv, FundingTypeOK, Takes, Sound
<1>2. \A v \in Workers : worker'[v] = worker[v] \/ worker'[v] = state
  BY DEF FundingInv, FundingTypeOK, Takes
<1>3. KeysKnown'
  BY <1>2 DEF KeysKnown, FundingInv, Sound
<1>4. TargetsKnown'
  BY <1>2, SameTotal DEF TargetsKnown, FundingInv, Sound
<1> QED
  BY <1>1, <1>3, <1>4

\* No worker moves.
LEMMA NoWorkerMoves ==
  ASSUME FundingInv, UNCHANGED <<deposits, worker>>
  PROVE  worker' \in [Workers -> WorkerState] /\ KeysKnown' /\ TargetsKnown'
BY SameTotal DEF FundingInv, FundingTypeOK, KeysKnown, TargetsKnown

\* The variables that say nothing of deposits keep their types.
RestTyped ==
  /\ funding' \in [Intents -> FundingStatus \cup {"NONE"}]
  /\ charged' \subseteq Intents
  /\ declined' \subseteq Intents
  /\ acked' \subseteq Intents
  /\ calm' \in BOOLEAN

\* A step that reads, or writes other tables: some worker may take up a state.
Quiet ==
  /\ UNCHANGED <<status, deposits>>
  /\ RestTyped
  /\ UNCHANGED worker \/ \E w \in Workers : \E state : Sound(state) /\ Takes(w, state)

LEMMA QuietStep ==
  ASSUME FundingInv, Quiet
  PROVE  FundingInv'
<1>1. worker' \in [Workers -> WorkerState] /\ KeysKnown' /\ TargetsKnown'
  BY ReadStep, NoWorkerMoves DEF Quiet
<1>2. FundedMeansCovered'
  BY SameTotal DEF Quiet, FundingInv, FundedMeansCovered
<1> QED
  BY <1>1, <1>2 DEF Quiet, RestTyped, FundingInv, FundingTypeOK

\* Requests start, and webhooks and deposits go on, without a word to the
\* deposits or the status.
LEMMA StartIsQuiet ==
  ASSUME FundingInv, NEW w \in Workers, Start(w)
  PROVE  Quiet
<1> USE DEF stripe
<1>0. /\ UNCHANGED <<funding, charged, declined>> /\ acked' \subseteq Intents
           /\ calm' \in BOOLEAN => RestTyped
      /\ acked \subseteq Intents /\ status \in EscrowStatus /\ calm \in BOOLEAN
  BY DEF FundingInv, FundingTypeOK, RestTyped
<1>1. ASSUME NEW k \in Keys, StartDeposit(w, k)
      PROVE  Quiet
  <2> DEFINE state == [IdleWorker EXCEPT !.at = "check", !.key = k, !.seen = status]
  <2>1. Sound(state)
    BY <1>0 DEF Sound, IdleWorker, WorkerState, Stages, DepositKeys
  <2>2. Takes(w, state)
    BY <1>1 DEF StartDeposit, Begin, Takes
  <2> QED
    BY <1>0, <1>1, <2>1, <2>2 DEF StartDeposit, Begin, Quiet
<1>2. ASSUME NEW i \in Intents, ReportSuccess(w, i)
      PROVE  Quiet
  <2> DEFINE state == [IdleWorker EXCEPT !.at = "mark", !.key = i]
  <2>1. Sound(state)
    BY DEF Sound, IdleWorker, WorkerState, Stages, DepositKeys, EscrowStatus
  <2>2. CASE funding[i] = "SUCCEEDED"
    <3>1. acked' \subseteq Intents /\ UNCHANGED <<worker, calm>>
      BY <1>0, <1>2, <2>2 DEF ReportSuccess, Answer
    <3> QED
      BY <1>0, <1>2, <3>1 DEF ReportSuccess, Quiet
  <2>3. CASE funding[i] # "SUCCEEDED"
    <3>1. Takes(w, state) /\ acked' \subseteq Intents /\ calm' \in BOOLEAN
      BY <1>0, <1>2, <2>3 DEF ReportSuccess, Begin, Takes
    <3> QED
      BY <1>0, <1>2, <2>1, <3>1 DEF ReportSuccess, Quiet
  <2> QED
    BY <2>2, <2>3
<1>3. ASSUME NEW i \in Intents, ReportFailure(w, i)
      PROVE  Quiet
  <2> DEFINE state == [IdleWorker EXCEPT !.at = "fail", !.key = i]
  <2>1. Sound(state)
    BY DEF Sound, IdleWorker, WorkerState, Stages, DepositKeys, EscrowStatus
  <2>2. Takes(w, state)
    BY <1>3 DEF ReportFailure, Begin, Takes
  <2> QED
    BY <1>0, <1>3, <2>1, <2>2 DEF ReportFailure, Begin, Quiet
<1>4. ASSUME NEW target \in Decided, Decide(w, target)
      PROVE  Quiet
  <2> DEFINE state == [IdleWorker EXCEPT !.at = "set", !.seen = status, !.target = target]
  <2>1. Sound(state)
    BY <1>0 DEF Sound, IdleWorker, WorkerState, Stages, EscrowStatus, Decided
  <2>2. Takes(w, state)
    BY <1>4 DEF Decide, Begin, Takes
  <2> QED
    BY <1>0, <1>4, <2>1, <2>2 DEF Decide, Begin, Quiet
<1> QED
  BY <1>1, <1>2, <1>3, <1>4
     DEF Start, MarkDelivered, ClientApprove, ClientReject, Decided

LEMMA OtherIsQuiet ==
  ASSUME FundingInv, NEW w \in Workers,
         \/ LoadForDeposit(w) \/ CheckDeposit(w) \/ MarkSucceeded(w)
         \/ MarkFailed(w) \/ Die(w)
  PROVE  Quiet
<1> USE DEF stripe
<1>0. /\ Sound(worker[w])
      /\ UNCHANGED <<funding, charged, declined, acked, calm>> => RestTyped
      /\ acked \subseteq Intents /\ status \in EscrowStatus
  BY WorkersSound DEF FundingInv, FundingTypeOK, RestTyped
<1>1. CASE LoadForDeposit(w)
  <2> DEFINE state == [worker[w] EXCEPT !.at = "check", !.seen = status]
  <2>1. Sound(state)
    BY <1>0, <1>1 DEF LoadForDeposit, Sound, WorkerState, Stages, DepositKeys
  <2>2. Takes(w, state)
    BY <1>1 DEF LoadForDeposit, Takes
  <2> QED
    BY <1>0, <1>1, <2>1, <2>2 DEF LoadForDeposit, Quiet
<1>2. CASE CheckDeposit(w)
  <2>1. CASE worker[w].key \in deposits
    <3>1. Takes(w, IdleWorker) /\ acked' \subseteq Intents
      BY <1>0, <1>2, <2>1 DEF CheckDeposit, Finish, Answer, Takes
    <3>2. RestTyped
      BY <1>2, <2>1, <3>1 DEF CheckDeposit, Finish, RestTyped, FundingInv, FundingTypeOK
    <3> QED
      BY <1>2, <3>1, <3>2, IdleSound DEF CheckDeposit, Quiet
  <2>2. CASE worker[w].key \notin deposits
    <3> DEFINE target == IF Covers(worker[w].key) THEN "FUNDED" ELSE "none"
               state == [worker[w] EXCEPT !.at = "insert", !.target = target]
    <3>1. Sound(state)
      BY <1>0, <1>2 DEF CheckDeposit, Sound, WorkerState, Stages, EscrowStatus
    <3>2. Takes(w, state)
      BY <1>2, <2>2 DEF CheckDeposit, Takes
    <3> QED
      BY <1>0, <1>2, <2>2, <3>1, <3>2 DEF CheckDeposit, Quiet
  <2> QED
    BY <2>1, <2>2
<1>3. CASE MarkSucceeded(w)
  <2> DEFINE state == [worker[w] EXCEPT !.at = "load"]
  <2>1. Sound(state)
    BY <1>0, <1>3 DEF MarkSucceeded, Sound, WorkerState, Stages
  <2>2. Takes(w, state)
    BY <1>3 DEF MarkSucceeded, Goto, Takes
  <2>3. RestTyped
    BY <1>3 DEF MarkSucceeded, Goto, RestTyped, FundingInv, FundingTypeOK, FundingStatus
  <2> QED
    BY <1>3, <2>1, <2>2, <2>3 DEF MarkSucceeded, Quiet
<1>4. CASE MarkFailed(w)
  <2>1. RestTyped
    BY <1>4 DEF MarkFailed, Finish, RestTyped, FundingInv, FundingTypeOK, FundingStatus
  <2> QED
    BY <1>4, <2>1, IdleSound DEF MarkFailed, Finish, Takes, Quiet
<1>5. CASE Die(w)
  BY <1>0, <1>5, IdleSound DEF Die, Finish, Takes, Quiet
<1> QED
  BY <1>1, <1>2, <1>3, <1>4, <1>5

\* The client and Stripe act outside the workers.
LEMMA StripeIsQuiet ==
  ASSUME FundingInv, NEW i \in Intents, CreateFundingSession(i) \/ ClientPays(i)
  PROVE  Quiet
BY DEF CreateFundingSession, ClientPays, stripe, Quiet, RestTyped, FundingInv,
       FundingTypeOK, FundingStatus

\* The commit of a deposit.  FUNDED is written only with a new deposit, on top of
\* the deposits that were there when the worker read them, or more.
LEMMA InsertStep ==
  ASSUME FundingInv, NEW w \in Workers, InsertDeposit(w)
  PROVE  FundingInv'
<1> DEFINE k == worker[w].key
           target == worker[w].target
<1>1. k \in DepositKeys /\ deposits' = deposits \cup {k} /\ Takes(w, IdleWorker)
  BY DEF InsertDeposit, Finish, FundingInv, KeysKnown, Takes
<1>2. /\ IsFiniteSet(deposits')
      /\ deposits' \subseteq DepositKeys
      /\ Total \in Nat /\ Total' \in Nat /\ Total <= Total'
      /\ k \notin deposits => Total' = Total + Amount[k]
  BY <1>1, RecordDeposit DEF FundingInv
<1>3. target \in {"none", "FUNDED"}
      /\ (target = "FUNDED" => k \in deposits \/ Covers(k))
  BY DEF InsertDeposit, FundingInv, TargetsKnown
<1>4. \/ status' = status
      \/ status' = "FUNDED" /\ k \notin deposits /\ Covers(k)
  BY <1>3 DEF InsertDeposit
<1>5. FundedMeansCovered'
  BY <1>2, <1>4, FundingAssumption DEF FundingInv, FundedMeansCovered, Covers
<1>6. \A v \in Workers : worker'[v] = worker[v] \/ worker'[v] = IdleWorker
  BY <1>1 DEF Takes, FundingInv, FundingTypeOK
<1>7. worker' \in [Workers -> WorkerState]
  BY <1>1, IdleSound DEF Takes, Sound, FundingInv, FundingTypeOK
<1>8. KeysKnown'
  BY <1>6 DEF KeysKnown, FundingInv, IdleWorker
<1>9. TargetsKnown'
  <2>1. \A x \in DepositKeys : Covers(x) => Covers(x)'
    BY <1>2, FundingAssumption DEF Covers
  <2> QED
    BY <1>1, <1>6, <2>1 DEF TargetsKnown, KeysKnown, FundingInv, IdleWorker
<1>10. /\ acked' \subseteq Intents
       /\ status' \in EscrowStatus
       /\ UNCHANGED <<funding, charged, declined, calm>>
  BY <1>4 DEF InsertDeposit, Answer, Finish, FundingInv, FundingTypeOK, EscrowStatus
<1> QED
  BY <1>2, <1>5, <1>7, <1>8, <1>9, <1>10 DEF FundingInv, FundingTypeOK

\* A decision is never FUNDED.
LEMMA SetStep ==
  ASSUME FundingInv, NEW w \in Workers, SetStatus(w)
  PROVE  FundingInv'
<1>1. worker[w].target \in Decided
  BY DEF SetStatus, FundingInv, TargetsKnown
<1>2. status' = status \/ status' \in Decided
  BY <1>1 DEF SetStatus
<1>3. worker' \in [Workers -> WorkerState] /\ KeysKnown' /\ TargetsKnown'
  BY IdleSound, ReadStep DEF SetStatus, Finish, Takes
<1>4. FundedMeansCovered'
  BY <1>2, SameTotal DEF SetStatus, FundingInv, FundedMeansCovered, Decided
<1>5. status' \in EscrowStatus
  BY <1>2 DEF FundingInv, FundingTypeOK, EscrowStatus, Decided
<1> QED
  BY <1>3, <1>4, <1>5 DEF SetStatus, Finish, stripe, FundingInv, FundingTypeOK

\* Every step is one of these.
LEMMA FundingSteps ==
  ASSUME FundingInv, [FundingNext]_fundingVars
  PROVE  \/ Quiet
         \/ \E w \in Workers : InsertDeposit(w) \/ SetStatus(w)
<1>1. CASE UNCHANGED fundingVars
  BY <1>1 DEF fundingVars, Quiet, RestTyped, FundingInv, FundingTypeOK
<1> QED
  BY <1>1, StartIsQuiet, OtherIsQuiet, StripeIsQuiet DEF FundingNext, Step

LEMMA FundingInvariant == FundingSpec => []FundingInv
<1>1. FundingInit => FundingInv
  <2> SUFFICES ASSUME FundingInit PROVE FundingInv
    OBVIOUS
  <2>1. Sound(IdleWorker)
    BY IdleSound
  <2>2. \A w \in Workers : worker[w] = IdleWorker
    BY DEF FundingInit
  <2>3. worker \in [Workers -> WorkerState] /\ KeysKnown /\ TargetsKnown
    BY <2>1, <2>2, WorkersSound DEF FundingInit, Sound
  <2> QED
    BY <2>3, FS_EmptySet DEF FundingInit, FundingInv, FundingTypeOK, EscrowStatus,
       FundedMeansCovered
<1>2. FundingInv /\ [FundingNext]_fundingVars => FundingInv'
  BY FundingSteps, QuietStep, InsertStep, SetStep
<1> QED
  BY <1>1, <1>2, PTL DEF FundingSpec

\* Every variable keeps its type.
THEOREM FundingTypes == FundingSpec => []FundingTypeOK
  BY FundingInvariant, PTL DEF FundingInv

\* An escrow is FUNDED only while its deposits cover its amount, though the sum
\* is read before the commit and other deposits and decisions come in between.
THEOREM FundedIsCovered == FundingSpec => []FundedMeansCovered
  BY FundingInvariant, PTL DEF FundingInv

-----------------------------------------------------------------------------
\* The tables and columns of the funding implement DepositLedger.
THEOREM FundingKeepsLedger == FundingSpec => KeepsLedger
<1>1. FundingInit => Ledger!Init
  BY DEF FundingInit, Ledger!Init
<1>2. ASSUME FundingInv, [FundingNext]_fundingVars
      PROVE  [Ledger!Next]_<<deposits, status>>
  <2>1. CASE Quiet
    BY <2>1 DEF Quiet
  <2>2. ASSUME NEW w \in Workers, InsertDeposit(w)
        PROVE  [Ledger!Next]_<<deposits, status>>
    <3> DEFINE k == worker[w].key
    <3>1. k \in DepositKeys /\ deposits' = deposits \cup {k}
      BY <1>2, <2>2 DEF InsertDeposit, FundingInv, KeysKnown
    <3>2. CASE k \in deposits
      BY <2>2, <3>1, <3>2 DEF InsertDeposit
    <3>3. CASE k \notin deposits
      <4>1. status' = status \/ (status' = "FUNDED" /\ Covers(k))
        BY <1>2, <2>2, <3>3 DEF InsertDeposit, FundingInv, TargetsKnown
      <4>2. Total' = Total + Amount[k]
        BY <1>2, <3>1, <3>3, RecordDeposit DEF FundingInv
      <4>3. Covers(k) => AmountOf(deposits') >= AmountTotal
        BY <4>2 DEF Covers, Total, AmountOf
      <4>4. deposits' \in SUBSET DepositKeys
        BY <1>2, <3>1 DEF FundingInv, FundingTypeOK
      <4>5. Ledger!Record(k)
        BY <3>1, <3>3, <4>1, <4>3, <4>4 DEF Ledger!Record
      <4> QED
        BY <3>1, <4>5 DEF Ledger!Next
    <3> QED
      BY <3>2, <3>3
  <2>3. ASSUME NEW w \in Workers, SetStatus(w)
        PROVE  [Ledger!Next]_<<deposits, status>>
    BY <1>2, <2>3 DEF SetStatus, FundingInv, TargetsKnown, Decided, Ledger!Next, Ledger!Decide
  <2> QED
    BY <1>2, <2>1, <2>2, <2>3, FundingSteps
<1> QED
  BY <1>1, <1>2, FundingInvariant, PTL DEF FundingSpec, KeepsLedger, Ledger!Spec

-----------------------------------------------------------------------------
(***************************************************************************)
(* Requests that do not overlap.  While calm lasts, the one worker that is *)
(* busy remembers the escrow as it is, and has counted every deposit.      *)
(***************************************************************************)
Busy(w) == worker[w].at # "idle"

AloneInCalm == calm => \A v, w \in Workers : Busy(v) /\ Busy(w) => v = w

\* What a calm worker has read is true: the status, and that its deposit is not
\* recorded and, if it will not fund the escrow, does not cover its amount.
Fresh(state) ==
  /\ state.at \in {"check", "insert", "set"} => state.seen = status
  /\ state.at = "insert" =>
       /\ state.key \notin deposits
       /\ state.target = "none" => ~Covers(state.key)

FreshInCalm == calm => \A w \in Workers : Fresh(worker[w])

CalmFundingInv ==
  AloneInCalm /\ FreshInCalm /\ CalmCoveredLeavesDraft

\* A request that starts is alone, or ends the calm.
LEMMA CalmStart ==
  ASSUME FundingInv, CalmFundingInv, NEW w \in Workers, NEW state, Begin(w, state),
         UNCHANGED <<status, deposits>>, Fresh(state)
  PROVE  CalmFundingInv'
<1>1. calm' => calm /\ \A v \in Workers : ~Busy(v)
  BY DEF Begin, Busy
<1>2. \A v \in Workers : v # w => worker'[v] = worker[v]
  BY DEF Begin, FundingInv, FundingTypeOK
<1>3. worker'[w] = state
  BY DEF Begin, FundingInv, FundingTypeOK
<1>4. AloneInCalm'
  BY <1>1, <1>2 DEF AloneInCalm, Busy
<1>5. FreshInCalm'
  BY <1>1, <1>2, <1>3, SameTotal DEF FreshInCalm, CalmFundingInv, Fresh
<1>6. CalmCoveredLeavesDraft'
  BY <1>1, SameTotal DEF CalmFundingInv, CalmCoveredLeavesDraft
<1> QED
  BY <1>4, <1>5, <1>6 DEF CalmFundingInv

\* A request that goes on reads what is there, or forgets.
LEMMA CalmRead ==
  ASSUME FundingInv, CalmFundingInv, NEW w \in Workers, NEW state, Takes(w, state),
         UNCHANGED <<status, deposits, calm>>, Busy(w), Fresh(state)
  PROVE  CalmFundingInv'
<1>1. \A v \in Workers : v # w => worker'[v] = worker[v]
  BY DEF Takes, FundingInv, FundingTypeOK
<1>2. worker'[w] = state
  BY DEF Takes, FundingInv, FundingTypeOK
<1>3. AloneInCalm'
  BY <1>1 DEF AloneInCalm, CalmFundingInv, Busy
<1>4. FreshInCalm'
  BY <1>1, <1>2, SameTotal DEF FreshInCalm, CalmFundingInv, Fresh
<1>5. CalmCoveredLeavesDraft'
  BY SameTotal DEF CalmFundingInv, CalmCoveredLeavesDraft
<1> QED
  BY <1>3, <1>4, <1>5 DEF CalmFundingInv

\* So do steps that move no worker.
LEMMA CalmPause ==
  ASSUME CalmFundingInv, UNCHANGED <<status, deposits, calm, worker>>
  PROVE  CalmFundingInv'
BY SameTotal DEF CalmFundingInv, AloneInCalm, Busy, FreshInCalm, Fresh,
   CalmCoveredLeavesDraft

\* A request that commits leaves nobody at work.
LEMMA CalmCommit ==
  ASSUME FundingInv, CalmFundingInv, NEW w \in Workers, Busy(w), Finish(w),
         calm => CalmCoveredLeavesDraft'
  PROVE  CalmFundingInv'
<1>1. \A v \in Workers : calm => worker'[v].at = "idle"
  BY DEF Finish, FundingInv, FundingTypeOK, CalmFundingInv, AloneInCalm, Busy, IdleWorker
<1>2. UNCHANGED calm
  BY DEF Finish
<1>3. AloneInCalm'
  BY <1>1, <1>2 DEF AloneInCalm, Busy
<1>4. FreshInCalm'
  BY <1>1, <1>2 DEF FreshInCalm, Fresh
<1>5. CalmCoveredLeavesDraft'
  BY <1>2 DEF CalmCoveredLeavesDraft
<1> QED
  BY <1>3, <1>4, <1>5 DEF CalmFundingInv

LEMMA IdleFresh == Fresh(IdleWorker)
BY DEF Fresh, IdleWorker

LEMMA CalmStarts ==
  ASSUME FundingInv, CalmFundingInv, NEW w \in Workers, Start(w)
  PROVE  CalmFundingInv'
<1>1. ASSUME NEW k \in Keys, StartDeposit(w, k)
      PROVE  CalmFundingInv'
  <2>1. Fresh([IdleWorker EXCEPT !.at = "check", !.key = k, !.seen = status])
    BY DEF Fresh, IdleWorker
  <2> QED
    BY <1>1, <2>1, CalmStart DEF StartDeposit
<1>2. ASSUME NEW i \in Intents, ReportSuccess(w, i)
      PROVE  CalmFundingInv'
  <2>1. Fresh([IdleWorker EXCEPT !.at = "mark", !.key = i])
    BY DEF Fresh, IdleWorker
  <2> QED
    BY <1>2, <2>1, CalmStart, CalmPause DEF ReportSuccess
<1>3. ASSUME NEW i \in Intents, ReportFailure(w, i)
      PROVE  CalmFundingInv'
  <2>1. Fresh([IdleWorker EXCEPT !.at = "fail", !.key = i])
    BY DEF Fresh, IdleWorker
  <2> QED
    BY <1>3, <2>1, CalmStart DEF ReportFailure
<1>4. ASSUME NEW target, Decide(w, target)
      PROVE  CalmFundingInv'
  <2>1. Fresh([IdleWorker EXCEPT !.at = "set", !.seen = status, !.target = target])
    BY DEF Fresh, IdleWorker
  <2> QED
    BY <1>4, <2>1, CalmStart DEF Decide
<1> QED
  BY <1>1, <1>2, <1>3, <1>4 DEF Start, MarkDelivered, ClientApprove, ClientReject

LEMMA CalmGoesOn ==
  ASSUME FundingInv, CalmFundingInv, NEW w \in Workers,
         \/ LoadForDeposit(w) \/ CheckDeposit(w) \/ MarkSucceeded(w)
         \/ MarkFailed(w) \/ Die(w)
  PROVE  CalmFundingInv'
<1>1. CASE LoadForDeposit(w)
  <2> DEFINE state == [worker[w] EXCEPT !.at = "check", !.seen = status]
  <2>1. Takes(w, state) /\ Busy(w)
    BY <1>1 DEF LoadForDeposit, Takes, Busy
  <2>2. Fresh(state)
    BY DEF Fresh, FundingInv, FundingTypeOK, WorkerState
  <2> QED
    BY <1>1, <2>1, <2>2, CalmRead DEF LoadForDeposit
<1>2. CASE CheckDeposit(w)
  <2>1. CASE worker[w].key \in deposits
    BY <1>2, <2>1, CalmRead, IdleFresh DEF CheckDeposit, Finish, Takes, Busy
  <2>2. CASE worker[w].key \notin deposits
    <3> DEFINE target == IF Covers(worker[w].key) THEN "FUNDED" ELSE "none"
               state == [worker[w] EXCEPT !.at = "insert", !.target = target]
    <3>1. Takes(w, state) /\ Busy(w)
      BY <1>2, <2>2 DEF CheckDeposit, Takes, Busy
    <3>2. calm => Fresh(state)
      BY <1>2, <2>2
         DEF CheckDeposit, Fresh, FundingInv, FundingTypeOK, WorkerState,
             CalmFundingInv, FreshInCalm
    <3>3. CASE calm
      BY <1>2, <2>2, <3>1, <3>2, <3>3, CalmRead DEF CheckDeposit
    <3>4. CASE ~calm
      BY <1>2, <2>2, <3>4
         DEF CheckDeposit, CalmFundingInv, AloneInCalm, FreshInCalm,
             CalmCoveredLeavesDraft
    <3> QED
      BY <3>3, <3>4
  <2> QED
    BY <2>1, <2>2
<1>3. CASE MarkSucceeded(w)
  <2> DEFINE state == [worker[w] EXCEPT !.at = "load"]
  <2>1. Takes(w, state) /\ Busy(w)
    BY <1>3 DEF MarkSucceeded, Goto, Takes, Busy
  <2>2. Fresh(state)
    BY DEF Fresh, FundingInv, FundingTypeOK, WorkerState
  <2> QED
    BY <1>3, <2>1, <2>2, CalmRead DEF MarkSucceeded, Goto
<1>4. CASE MarkFailed(w)
  BY <1>4, CalmRead, IdleFresh DEF MarkFailed, Finish, Takes, Busy
<1>5. CASE Die(w)
  BY <1>5, CalmRead, IdleFresh DEF Die, Finish, Takes, Busy
<1> QED
  BY <1>1, <1>2, <1>3, <1>4, <1>5

\* A calm deposit that covers the amount together with the others funds the
\* escrow, or leaves it FUNDED.
LEMMA CalmInsert ==
  ASSUME FundingInv, CalmFundingInv, NEW w \in Workers, InsertDeposit(w)
  PROVE  CalmFundingInv'
<1> DEFINE k == worker[w].key
           target == worker[w].target
<1>1. Busy(w) /\ Finish(w) /\ k \in DepositKeys /\ deposits' = deposits \cup {k}
  BY DEF InsertDeposit, Busy, FundingInv, KeysKnown
<1>2. k \notin deposits => Total' = Total + Amount[k]
  BY <1>1, RecordDeposit DEF FundingInv
<1>3. ASSUME calm, Total' >= AmountTotal
      PROVE  status' # "DRAFT"
  <2>1. /\ k \notin deposits /\ worker[w].seen = status
        /\ target = "none" => ~Covers(k)
    BY <1>3 DEF InsertDeposit, CalmFundingInv, FreshInCalm, Fresh
  <2>2. Covers(k)
    BY <1>2, <1>3, <2>1 DEF Covers
  <2>3. target = "FUNDED"
    BY <2>1, <2>2 DEF InsertDeposit, FundingInv, TargetsKnown
  <2> QED
    BY <2>1, <2>3 DEF InsertDeposit
<1>4. calm => CalmCoveredLeavesDraft'
  BY <1>3 DEF CalmCoveredLeavesDraft
<1> QED
  BY <1>1, <1>4, CalmCommit

LEMMA CalmSet ==
  ASSUME FundingInv, CalmFundingInv, NEW w \in Workers, SetStatus(w)
  PROVE  CalmFundingInv'
<1>1. Busy(w) /\ Finish(w)
  BY DEF SetStatus, Busy
<1>2. status' = status \/ status' # "DRAFT"
  BY DEF SetStatus, FundingInv, TargetsKnown, Decided
<1>3. calm => CalmCoveredLeavesDraft'
  BY <1>2, SameTotal DEF SetStatus, CalmFundingInv, CalmCoveredLeavesDraft
<1> QED
  BY <1>1, <1>3, CalmCommit

\* As long as requests do not overlap, deposits that cover the amount of the
\* escrow have brought it out of DRAFT.
THEOREM CalmDepositsFund == FundingSpec => []CalmCoveredLeavesDraft
<1>1. FundingInit => CalmFundingInv
  BY DEF FundingInit, CalmFundingInv, AloneInCalm, Busy, FreshInCalm, Fresh,
     CalmCoveredLeavesDraft, IdleWorker
<1>2. ASSUME FundingInv, CalmFundingInv, [FundingNext]_fundingVars
      PROVE  CalmFundingInv'
  <2>1. ASSUME NEW i \in Intents, CreateFundingSession(i) \/ ClientPays(i)
        PROVE  CalmFundingInv'
    BY <1>2, <2>1, CalmPause DEF CreateFundingSession, ClientPays, stripe
  <2>2. CASE UNCHANGED fundingVars
    BY <1>2, <2>2, CalmPause DEF fundingVars
  <2> QED
    BY <1>2, <2>1, <2>2, CalmStarts, CalmGoesOn, CalmInsert, CalmSet
       DEF FundingNext, Step
<1> QED
  BY <1>1, <1>2, FundingInvariant, PTL DEF FundingSpec, CalmFundingInv
=============================================================================
