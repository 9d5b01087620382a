----------------------------- MODULE PspWebhook -----------------------------
(***************************************************************************)
(* The webhook by which the payment service provider reports what became   *)
(* of a payout (app/routers/psp.py, app/services/psp_webhooks.py), for the *)
(* payments of one escrow.                                                 *)
(*                                                                         *)
(* Two guards stand against replays: a map of recent event ids in the      *)
(* memory of each server process, filled before the event is handled and   *)
(* swept by the timestamps of the requests, and the unique (provider,      *)
(* event_id) of the table of events.  The handler of a server never waits, *)
(* so that a server handles one request at a time; several servers share   *)
(* the database.                                                           *)
(***************************************************************************)
EXTENDS Integers

CONSTANTS
  Servers,      \* server processes
  Events,       \* events of the provider: (provider, event_id) pairs
  EventIds,
  Id,           \* event_id of each event; providers may use the same one
  Kind,         \* "settled", "failed" or "other"
  Payments,     \* payments of the escrow, one for each milestone
  Ref,          \* payment each event is about
  Drift,        \* psp_webhook_max_drift_seconds, in units of the clock
  TTL,          \* _RECENT_PSP_EVENTS_TTL_SECONDS
  MaxFailures   \* bound on the requests that fail and servers that crash

ASSUME WebhookAssumption ==
  /\ Id \in [Events -> EventIds]
  /\ Kind \in [Events -> {"settled", "failed", "other"}]
  /\ Ref \in [Events -> Payments]
  /\ Drift \in Nat /\ TTL \in Nat
  /\ MaxFailures \in Nat

VARIABLES
  payment,      \* status of each payment, "NONE" before its row is committed
  released,     \* the escrow is RELEASED
  row,          \* what the table holds of each event
  memory,       \* per server and event id, the timestamp of its entry in
                \* _recent_psp_events, relative to the clock
  server,       \* the event each server handles, and where it stands
  reported,     \* at the provider: events it reports
  answered,     \* at the provider: events answered with a 200
  handled,      \* how many times each event was handled
  failures      \* requests that failed and servers that crashed

db == <<payment, released, row, handled>>
provider == <<reported, answered>>
vars == <<db, memory, server, provider, failures>>

\* An entry this old falls to any sweep, like one that is not there.
Gone == -(TTL + Drift + 1)

Handling == [at : {"insert", "finish"}, event : Events]
Idle == [at |-> "idle"]

TypeOK ==
  /\ payment \in [Payments -> {"NONE", "SENT", "SETTLED", "ERROR"}]
  /\ released \in BOOLEAN
  /\ row \in [Events -> {"none", "received", "processed"}]
  /\ memory \in [Servers -> [EventIds -> Gone..Drift]]
  /\ server \in [Servers -> Handling \cup {Idle}]
  /\ reported \subseteq Events
  /\ answered \subseteq Events
  /\ handled \in [Events -> Nat]
  /\ failures \in Nat

Init ==
  /\ payment = [p \in Payments |-> "NONE"]
  /\ released = FALSE
  /\ row = [e \in Events |-> "none"]
  /\ memory = [s \in Servers |-> [i \in EventIds |-> Gone]]
  /\ server = [s \in Servers |-> Idle]
  /\ reported = {} /\ answered = {}
  /\ handled = [e \in Events |-> 0]
  /\ failures = 0

-----------------------------------------------------------------------------
(***************************************************************************)
(* The payouts (see Payouts): one write section makes the transfer and     *)
(* commits the payment with its PAID milestone, then the escrow may be     *)
(* closed.  A report on the transfer that is quicker than the commit waits *)
(* for the write section before it looks for the payment.                  *)
(***************************************************************************)
CommitPayout(p) ==
  /\ payment[p] = "NONE"
  /\ payment' = [payment EXCEPT ![p] = "SENT"]
  /\ UNCHANGED <<released, row, handled, memory, server, provider, failures>>

AllPaid(status) == \A p \in Payments : status[p] # "NONE"

CloseAfterPayout ==
  /\ AllPaid(payment) /\ ~released
  /\ released' = TRUE
  /\ UNCHANGED <<payment, row, handled, memory, server, provider, failures>>

Report(e) ==
  /\ e \notin reported
  /\ payment[Ref[e]] # "NONE"
  /\ reported' = reported \cup {e}
  /\ UNCHANGED <<db, memory, server, answered, failures>>

-----------------------------------------------------------------------------
(***************************************************************************)
(* A request with event e, signed at a time that is d ahead of the clock.  *)
(* Outside the window it is refused.  Then the map is swept: the entries   *)
(* older than TTL, as the timestamp of this request counts, are dropped.   *)
(* An id that is still in the map is refused; another is entered, and the  *)
(* table is searched for the event.                                        *)
(***************************************************************************)
Swept(s, d) ==
  [i \in EventIds |-> IF memory[s][i] < d - TTL THEN Gone ELSE memory[s][i]]

Refuse(s, e, d) ==
  /\ server[s] = Idle
  /\ Swept(s, d)[Id[e]] # Gone
  /\ memory' = [memory EXCEPT ![s] = Swept(s, d)]
  /\ UNCHANGED <<db, server, provider, failures>>

\* Plausible bug: the map keeps when the entry expires.
ReceiveUntil(s, e, d) ==
  /\ server[s] = Idle
  /\ Swept(s, d)[Id[e]] = Gone
  /\ memory' = [memory EXCEPT ![s] = [Swept(s, d) EXCEPT ![Id[e]] = d + TTL]]
  /\ server' = [server EXCEPT ![s] = [at |-> "insert", event |-> e]]
  /\ UNCHANGED <<db, provider, failures>>

Receive(s, e, d) ==
  /\ server[s] = Idle
  /\ Swept(s, d)[Id[e]] = Gone
  /\ memory' = [memory EXCEPT ![s] = [Swept(s, d) EXCEPT ![Id[e]] = d]]
  /\ server' = IF row[e] = "none"
               THEN [server EXCEPT ![s] = [at |-> "insert", event |-> e]]
               ELSE server
  /\ UNCHANGED <<db, provider, failures>>

Deliver(s, e) ==
  /\ e \in reported
  /\ \E d \in -Drift..Drift : Refuse(s, e, d) \/ Receive(s, e, d)

(***************************************************************************)
(* handle_event inserts the event, which opens the write section, and      *)
(* applies it.  A settlement that takes effect commits (and may close the  *)
(* escrow) before the event is marked as processed in a second commit.     *)
(***************************************************************************)
Settles(e) == Kind[e] = "settled" /\ payment[Ref[e]] \in {"SENT", "ERROR"}
Fails(e) == Kind[e] = "failed" /\ payment[Ref[e]] \in {"SENT", "SETTLED"}

Working(s, stage) == server[s] # Idle /\ server[s].at = stage
Done(s) == server' = [server EXCEPT ![s] = Idle]

\* Another server inserted the event in the meantime.
LoseRace(s) ==
  /\ Working(s, "insert")
  /\ row[server[s].event] # "none"
  /\ Done(s)
  /\ UNCHANGED <<db, memory, provider, failures>>

\* Plausible bug: the table has no unique constraint.
InsertAnyway(s) == Working(s, "insert")

Insert(s) ==
  /\ Working(s, "insert")
  /\ row[server[s].event] = "none"

\* Plausible bug: the event is committed before its effect.
RecordBeforeEffect(s) ==
  LET e == server[s].event IN
  /\ Insert(s)
  /\ Settles(e)
  /\ row' = [row EXCEPT ![e] = "received"]
  /\ handled' = [handled EXCEPT ![e] = @ + 1]
  /\ server' = [server EXCEPT ![s].at = "finish"]
  /\ UNCHANGED <<payment, released, memory, provider, failures>>

RecordSettlement(s) ==
  LET e == server[s].event IN
  /\ Insert(s)
  /\ Settles(e)
  /\ payment' = [payment EXCEPT ![Ref[e]] = "SETTLED"]
  /\ released' = (released \/ AllPaid(payment'))
  /\ row' = [row EXCEPT ![e] = "received"]
  /\ handled' = [handled EXCEPT ![e] = @ + 1]
  /\ server' = [server EXCEPT ![s].at = "finish"]
  /\ UNCHANGED <<memory, provider, failures>>

FinishSettlement(s) ==
  LET e == server[s].event IN
  /\ Working(s, "finish")
  /\ row' = [row EXCEPT ![e] = "processed"]
  /\ answered' = answered \cup {e}
  /\ Done(s)
  /\ UNCHANGED <<payment, released, handled, memory, reported, failures>>

\* A failure, or an event that changes nothing: its payment is unknown or has
\* that status already.
RecordOther(s) ==
  LET e == server[s].event IN
  /\ Insert(s)
  /\ ~Settles(e)
  /\ payment' = IF Fails(e) THEN [payment EXCEPT ![Ref[e]] = "ERROR"]
                           ELSE payment
  /\ row' = [row EXCEPT ![e] = "processed"]
  /\ handled' = [handled EXCEPT ![e] = @ + 1]
  /\ answered' = answered \cup {e}
  /\ Done(s)
  /\ UNCHANGED <<released, memory, reported, failures>>

\* A request fails half-way, as when the database is locked: the session rolls
\* back, the map keeps the id.
Fail(s) ==
  /\ server[s] # Idle /\ failures < MaxFailures
  /\ failures' = failures + 1
  /\ Done(s)
  /\ UNCHANGED <<db, memory, provider>>

\* A server dies and is restarted with an empty map.
Crash(s) ==
  /\ failures < MaxFailures
  /\ failures' = failures + 1
  /\ Done(s)
  /\ memory' = [memory EXCEPT ![s] = [i \in EventIds |-> Gone]]
  /\ UNCHANGED <<db, provider>>

Tick ==
  /\ memory' = [s \in Servers |-> [i \in EventIds |->
                  IF memory[s][i] = Gone THEN Gone ELSE memory[s][i] - 1]]
  /\ UNCHANGED <<db, server, provider, failures>>

-----------------------------------------------------------------------------
Handle(s) ==
  LoseRace(s) \/ RecordSettlement(s) \/ FinishSettlement(s) \/ RecordOther(s)

Next ==
  \/ \E p \in Payments : CommitPayout(p)
  \/ CloseAfterPayout
  \/ \E e \in Events : Report(e)
  \/ \E s \in Servers : Handle(s) \/ Fail(s) \/ Crash(s)
  \/ \E s \in Servers, e \in Events : Deliver(s, e)
  \/ Tick

Spec == Init /\ [][Next]_vars

\* Servers serve, time passes, and the provider repeats a report, signed anew
\* within the window, until it is answered.
Fairness ==
  /\ \A s \in Servers : WF_vars(Handle(s))
  /\ \A e \in Events :
       SF_vars(/\ e \in reported \ answered
               /\ \E s \in Servers, d \in -Drift..Drift : Receive(s, e, d))
  /\ WF_vars(Tick)
FairSpec == Spec /\ Fairness

-----------------------------------------------------------------------------
\* An event is handled once at most, whatever the servers, restarts, repeats
\* and forgotten entries of the map.
AtMostOnce == \A e \in Events : handled[e] <= 1

\* The servers, with their two commits, their maps and their crashes, do what
\* PspInbox does in one step: no report takes effect twice, in part or too early.
Inbox == INSTANCE PspInbox WITH applied <- {e \in Events : row[e] # "none"}
KeepsInbox == Inbox!Spec

\* A settlement received but never marked as processed, which no repeat can
\* process any more, has taken effect.
UnprocessedTookEffect ==
  \A e \in Events : row[e] = "received" =>
    Kind[e] = "settled" /\ payment[Ref[e]] \in {"SETTLED", "ERROR"}

\* What was answered with a 200 is in the table for good.
AnsweredIsProcessed == \A e \in answered : row[e] = "processed"

\* "Mark a payment as settled if a PSP confirmation references it"
\* (_mark_payment_settled), however often requests fail and whatever the map
\* refuses in the meantime: no settlement is lost.
SettlementsTakeEffect ==
  \A e \in Events :
    e \in reported /\ Kind[e] = "settled"
      ~> payment[Ref[e]] \in {"SETTLED", "ERROR"}
=============================================================================
