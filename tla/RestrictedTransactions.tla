----------------------- MODULE RestrictedTransactions -----------------------
(***************************************************************************)
(* Transfers to recipients that are allowlisted by their sender or         *)
(* certified (app/services/transactions.py, app/routers/transactions.py,   *)
(* alerts.py, idempotency.py), for one sender.  Every handler here starts  *)
(* at the stage "route" of an authenticated request (ApiKeys).             *)
(***************************************************************************)
EXTENDS ApiKeys

CONSTANTS
  Receivers,   \* recipients of the sender's transfers
  NoReceiver,  \* no transaction
  TransferKeys \* idempotency keys of POST /transactions

ASSUME ReceiversAssumption == NoReceiver \notin Receivers

Levels == {"BASIC", "GOLD"}

VARIABLES
  transaction,  \* receiver of the row with each idempotency key
  allowed,      \* recipients on the sender's allowlist
  level,        \* level of the certified account of each user, "none" without
  levelAudited, \* level in the last CERTIFICATION_UPDATE entry of each user
  alerts        \* recipients for whom a transfer raised an alert

transferVars == <<transaction, allowed, level, levelAudited, alerts>>

TransfersInit ==
  /\ transaction = [i \in TransferKeys |-> NoReceiver]
  /\ allowed = {}
  /\ level = [r \in Receivers |-> "none"]
  /\ levelAudited = [r \in Receivers |-> "none"]
  /\ alerts = {}

(***************************************************************************)
(* create_transaction: the key, the allowlist and the certification are    *)
(* read one after the other, then an alert or the transaction is committed.*)
(***************************************************************************)
\* A key that is taken returns its transaction, whatever the payload says.
LookupTransfer(w, i, r) ==
  /\ Admitted(w)
  /\ IF transaction[i] # NoReceiver
     THEN Finish(w)
     ELSE Handle(w, "allowlist", [id |-> i, to |-> r, granted |-> FALSE])
  /\ UNCHANGED <<keyTable, books, transferVars>>

CheckAllowlist(w) ==
  /\ req[w].at = "allowlist"
  /\ Handle(w, "certificate",
       [req[w].arg EXCEPT !.granted = req[w].arg.to \in allowed])
  /\ UNCHANGED <<keyTable, books, transferVars>>

CheckCertified(w) ==
  /\ req[w].at = "certificate"
  /\ Goto(w, IF req[w].arg.granted \/ level[req[w].arg.to] # "none"
             THEN "transfer" ELSE "alert")
  /\ UNCHANGED <<keyTable, books, transferVars>>

RaiseAlert(w) ==
  /\ req[w].at = "alert"
  /\ alerts' = alerts \cup {req[w].arg.to}
  /\ CountEffect(w)
  /\ Finish(w)
  /\ UNCHANGED <<keyTable, transaction, allowed, level, levelAudited>>

\* The unique key decides a race; the loser rolls back and returns the other.
InsertTransfer(w) ==
  LET t == req[w].arg IN
  /\ req[w].at = "transfer"
  /\ IF transaction[t.id] = NoReceiver
     THEN transaction' = [transaction EXCEPT ![t.id] = t.to] /\ CountEffect(w)
     ELSE UNCHANGED <<transaction, books>>
  /\ Finish(w)
  /\ UNCHANGED <<keyTable, allowed, level, levelAudited, alerts>>

(***************************************************************************)
(* add_to_allowlist and add_certification look for a row before they       *)
(* insert one; a unique index stops the second of two inserts, whose       *)
(* request fails without a trace.  Both rows are there for good.           *)
(***************************************************************************)
LookupAllowed(w, r) ==
  /\ Admitted(w)
  /\ IF r \in allowed
     THEN Finish(w)
     ELSE Handle(w, "allow", [to |-> r, new |-> "none", seen |-> "none"])
  /\ UNCHANGED <<keyTable, books, transferVars>>

InsertAllowed(w) ==
  LET r == req[w].arg.to IN
  /\ req[w].at = "allow"
  /\ allowed' = allowed \cup {r}
  /\ IF r \in allowed THEN UNCHANGED books ELSE CountEffect(w)
  /\ Finish(w)
  /\ UNCHANGED <<keyTable, transaction, level, levelAudited, alerts>>

LoadCertificate(w, r, new) ==
  /\ Admitted(w)
  /\ Handle(w, "certify", [to |-> r, new |-> new, seen |-> level[r]])
  /\ UNCHANGED <<keyTable, books, transferVars>>

\* The level of the row is set, and its audit entry written.
SetLevel(r, new) ==
  /\ level' = [level EXCEPT ![r] = new]
  /\ levelAudited' = [levelAudited EXCEPT ![r] = new]

\* Plausible bug: an existing account only gets a new date.
RenewCertificate(w) ==
  LET c == req[w].arg IN
  /\ req[w].at = "certify"
  /\ IF level[c.to] = "none"
     THEN SetLevel(c.to, c.new)
     ELSE levelAudited' = [levelAudited EXCEPT ![c.to] = c.new] /\ UNCHANGED level
  /\ CountEffect(w)
  /\ Finish(w)
  /\ UNCHANGED <<keyTable, transaction, allowed, alerts>>

\* Of an account that was loaded only the columns that differ are written, so
\* that a level that seemed right already is not written at all.
SaveCertificate(w) ==
  LET c == req[w].arg IN
  /\ req[w].at = "certify"
  /\ \/ /\ c.seen # "none" /\ c.seen = c.new
        /\ levelAudited' = [levelAudited EXCEPT ![c.to] = c.new]
        /\ UNCHANGED level
        /\ CountEffect(w)
     \/ /\ c.seen # c.new
        /\ c.seen = "none" => level[c.to] = "none"
        /\ SetLevel(c.to, c.new)
        /\ CountEffect(w)
     \/ /\ c.seen = "none" /\ level[c.to] # "none"
        /\ UNCHANGED <<level, levelAudited, books>>
  /\ Finish(w)
  /\ UNCHANGED <<keyTable, transaction, allowed, alerts>>

TransferStep(w) ==
  \/ \E i \in TransferKeys, r \in Receivers : LookupTransfer(w, i, r)
  \/ CheckAllowlist(w) \/ CheckCertified(w) \/ RaiseAlert(w) \/ InsertTransfer(w)
  \/ \E r \in Receivers : LookupAllowed(w, r)
  \/ InsertAllowed(w)
  \/ \E r \in Receivers, new \in Levels : LoadCertificate(w, r, new)
  \/ SaveCertificate(w)
=============================================================================
