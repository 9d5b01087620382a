--------------------------- MODULE AdminApiProofs ---------------------------
(***************************************************************************)
(* Proofs about AdminApi, for any number of threads, keys, recipients and  *)
(* milestones, however requests overlap or die.                            *)
(***************************************************************************)
EXTENDS AdminApi, Sums, TLAPS

USE KeysAssumption

\* What the stage of a request says of its key and its argument.
LEMMA RequestShape ==
  ASSUME NEW r \in Requests
  PROVE  /\ r = [at |-> r.at, key |-> r.key, arg |-> r.arg]
         /\ r.at \in {"idle", "found", "route", "audit", "answer", "revoke", "allowlist",
              "certificate", "alert", "transfer", "allow", "certify", "index", "milestone"}
         /\ r.at = "idle" => r.key = NoKey /\ r.arg = NoArg
         /\ r.at = "found" => r.key \in Keys /\ r.arg = NoArg
         /\ r.at \notin {"idle"} => r.key \in Principals
         /\ r.at \in {"audit", "answer", "revoke"} => r.arg \in KeyArgs
         /\ r.at \in {"allowlist", "certificate", "alert", "transfer"} =>
              r.arg \in TransferArgs
         /\ r.at \in {"allow", "certify"} => r.arg \in GrantArgs
         /\ r.at \in {"index", "milestone"} => r.arg \in MilestoneArgs
  BY DEF Requests, Principals

\* A request of a principal at a stage, with an argument that fits.
LEMMA RequestTypes ==
  ASSUME NEW p \in Principals
  PROVE  /\ Idle \in Requests
         /\ [at |-> "route", key |-> p, arg |-> NoArg] \in Requests
         /\ p \in Keys => [at |-> "found", key |-> p, arg |-> NoArg] \in Requests
         /\ \A s \in {"audit", "answer", "revoke"}, a \in KeyArgs :
              [at |-> s, key |-> p, arg |-> a] \in Requests
         /\ \A s \in {"allowlist", "certificate", "alert", "transfer"}, a \in TransferArgs :
              [at |-> s, key |-> p, arg |-> a] \in Requests
         /\ \A s \in {"allow", "certify"}, a \in GrantArgs :
              [at |-> s, key |-> p, arg |-> a] \in Requests
         /\ \A s \in {"index", "milestone"}, a \in MilestoneArgs :
              [at |-> s, key |-> p, arg |-> a] \in Requests
  BY DEF Requests, Idle

-----------------------------------------------------------------------------
\* One request takes one step; one that goes on keeps its key.
Act(w) ==
  \/ (KeyStart(w) \/ Die(w)) /\ UNCHANGED <<transferVars, milestone>>
  \/ Step(w)

Moved(w) ==
  \E r \in Requests :
    /\ req' = [req EXCEPT ![w] = r]
    /\ req[w].at # "idle" /\ r.at # "idle" => r.key = req[w].key

LEMMA GotoMoves ==
  ASSUME TypeOK, NEW w \in Workers, NEW s, req[w].at # "idle", Goto(w, s),
         [at |-> s, key |-> req[w].key, arg |-> req[w].arg] \in Requests
  PROVE  Moved(w)
<1>1. req[w] = [at |-> req[w].at, key |-> req[w].key, arg |-> req[w].arg]
  BY RequestShape DEF TypeOK
<1>2. [req[w] EXCEPT !.at = s] = [at |-> s, key |-> req[w].key, arg |-> req[w].arg]
  BY <1>1
<1>3. req' = [req EXCEPT ![w] = [at |-> s, key |-> req[w].key, arg |-> req[w].arg]]
  BY <1>2 DEF Goto
<1> QED
  BY <1>3 DEF Moved

LEMMA HandleMoves ==
  ASSUME TypeOK, NEW w \in Workers, NEW s, NEW a, req[w].at # "idle", Handle(w, s, a),
         [at |-> s, key |-> req[w].key, arg |-> a] \in Requests
  PROVE  Moved(w)
<1>1. req' = [req EXCEPT ![w] = [at |-> s, key |-> req[w].key, arg |-> a]]
  BY DEF Handle
<1> QED
  BY <1>1 DEF Moved

LEMMA FinishMoves ==
  ASSUME TypeOK, NEW w \in Workers, Finish(w)
  PROVE  Moved(w)
<1>1. Idle \in Requests /\ Idle.at = "idle"
  BY DEF Idle, Requests
<1> QED
  BY <1>1 DEF Finish, Moved

LEMMA Moves ==
  ASSUME TypeOK, NEW w \in Workers, Act(w)
  PROVE  Moved(w)
<1> DEFINE r == req[w]
<1>0. /\ r \in Requests
      /\ r.at \in {"audit", "answer", "revoke"} => r.arg \in KeyArgs
      /\ r.at \in {"allowlist", "certificate", "alert", "transfer"} => r.arg \in TransferArgs
      /\ r.at \in {"allow", "certify"} => r.arg \in GrantArgs
      /\ r.at \in {"index", "milestone"} => r.arg \in MilestoneArgs
      /\ r.at = "found" => r.key \in Keys /\ r.arg = NoArg
      /\ r.at # "idle" => r.key \in Principals
  BY RequestShape DEF TypeOK
<1>1. CASE KeyStart(w)
  <2>1. ASSUME NEW p \in Principals, NEW s, Begin(w, s, p),
               [at |-> s, key |-> p, arg |-> NoArg] \in Requests
        PROVE  Moved(w)
    BY <2>1 DEF Begin, Moved
  <2>2. ASSUME NEW k \in Keys, Find(w, k) PROVE Moved(w)
    BY <2>1, <2>2, RequestTypes DEF Find, Principals
  <2>3. CASE UseLegacyKey(w)
    BY <2>1, <2>3, RequestTypes DEF UseLegacyKey, Principals
  <2> QED
    BY <1>1, <2>2, <2>3 DEF KeyStart
<1>2. CASE Die(w) \/ Answer(w) \/ HandOver(w) \/ CommitRevocation(w)
  BY <1>2, FinishMoves DEF Die, Answer, HandOver, CommitRevocation
<1>3. CASE KeyStep(w)
  <2>1. CASE RecordUse(w)
    BY <1>0, <2>1, GotoMoves, RequestTypes DEF RecordUse
  <2>2. ASSUME NEW k \in Keys, NEW s, NEW d, CreateKey(w, k, s, d) PROVE Moved(w)
    <3>1. [of |-> k, active |-> TRUE] \in KeyArgs
      BY DEF KeyArgs
    <3> QED
      BY <1>0, <2>2, <3>1, HandleMoves, RequestTypes DEF CreateKey, Admitted
  <2>3. CASE AuditCreation(w)
    BY <1>0, <2>3, GotoMoves, RequestTypes DEF AuditCreation
  <2>4. ASSUME NEW k \in Keys, LoadRevocation(w, k) PROVE Moved(w)
    <3>1. PICK b \in BOOLEAN : b = (k = req[w].key \/ key[k].state = "active")
      OBVIOUS
    <3>2. [of |-> k, active |-> b] \in KeyArgs
      BY DEF KeyArgs
    <3>3. Handle(w, "revoke", [of |-> k, active |-> b])
      BY <2>4, <3>1 DEF LoadRevocation
    <3> QED
      BY <1>0, <2>4, <3>2, <3>3, HandleMoves, RequestTypes DEF LoadRevocation, Admitted
  <2> QED
    BY <1>2, <1>3, <2>1, <2>2, <2>3, <2>4 DEF KeyStep
<1>4. CASE TransferStep(w)
  <2>1. ASSUME NEW i \in TransferKeys, NEW x \in Receivers, LookupTransfer(w, i, x)
        PROVE  Moved(w)
    <3>1. [id |-> i, to |-> x, granted |-> FALSE] \in TransferArgs
      BY DEF TransferArgs
    <3> QED
      BY <1>0, <2>1, <3>1, FinishMoves, HandleMoves, RequestTypes DEF LookupTransfer, Admitted
  <2>2. CASE CheckAllowlist(w)
    <3>1. req[w].arg \in TransferArgs
      BY <1>0, <2>2 DEF CheckAllowlist
    <3>2. (req[w].arg.to \in allowed) \in BOOLEAN
      OBVIOUS
    <3>3. [req[w].arg EXCEPT !.granted = req[w].arg.to \in allowed] \in TransferArgs
      BY <3>1, <3>2 DEF TransferArgs
    <3> QED
      BY <1>0, <2>2, <3>3, HandleMoves, RequestTypes DEF CheckAllowlist
  <2>3. CASE CheckCertified(w)
    <3>1. Goto(w, "transfer") \/ Goto(w, "alert")
      BY <2>3 DEF CheckCertified
    <3> QED
      BY <1>0, <2>3, <3>1, GotoMoves, RequestTypes DEF CheckCertified
  <2>4. CASE RaiseAlert(w) \/ InsertTransfer(w) \/ InsertAllowed(w) \/ SaveCertificate(w)
    BY <2>4, FinishMoves DEF RaiseAlert, InsertTransfer, InsertAllowed, SaveCertificate
  <2>5. ASSUME NEW x \in Receivers, LookupAllowed(w, x) PROVE Moved(w)
    <3>1. [to |-> x, new |-> "none", seen |-> "none"] \in GrantArgs
      BY DEF GrantArgs
    <3> QED
      BY <1>0, <2>5, <3>1, FinishMoves, HandleMoves, RequestTypes DEF LookupAllowed, Admitted
  <2>6. ASSUME NEW x \in Receivers, NEW new \in Levels, LoadCertificate(w, x, new)
        PROVE  Moved(w)
    <3>1. [to |-> x, new |-> new, seen |-> level[x]] \in GrantArgs
      BY DEF GrantArgs, TypeOK
    <3> QED
      BY <1>0, <2>6, <3>1, HandleMoves, RequestTypes DEF LoadCertificate, Admitted
  <2> QED
    BY <1>4, <2>1, <2>2, <2>3, <2>4, <2>5, <2>6 DEF TransferStep
<1>5. CASE MilestoneStep(w)
  <2>1. ASSUME NEW x \in Indices, NEW a \in Amounts, SumMilestones(w, x, a)
        PROVE  Moved(w)
    <3>1. [idx |-> x, amount |-> a] \in MilestoneArgs
      BY DEF MilestoneArgs
    <3> QED
      BY <1>0, <2>1, <3>1, FinishMoves, HandleMoves, RequestTypes DEF SumMilestones, Admitted
  <2>2. CASE CheckIndex(w)
    BY <1>0, <2>2, FinishMoves, GotoMoves, RequestTypes DEF CheckIndex
  <2>3. CASE InsertMilestone(w)
    BY <2>3, FinishMoves DEF InsertMilestone
  <2> QED
    BY <1>5, <2>1, <2>2, <2>3 DEF MilestoneStep
<1> QED
  BY <1>1, <1>2, <1>3, <1>4, <1>5 DEF Act, Step

\* What a request is after each kind of step.
LEMMA Moving ==
  ASSUME TypeOK, NEW w \in Workers
  PROVE  /\ \A s : Goto(w, s) => /\ req'[w].at = s /\ req'[w].key = req[w].key
                                 /\ req'[w].arg = req[w].arg
         /\ \A s, a : Handle(w, s, a) => /\ req'[w].at = s /\ req'[w].key = req[w].key
                                         /\ req'[w].arg = a
         /\ Finish(w) => req'[w].at = "idle"
         /\ \A s, p : Begin(w, s, p) => req'[w].at = s /\ req'[w].key = p
<1>1. req[w] = [at |-> req[w].at, key |-> req[w].key, arg |-> req[w].arg]
  BY RequestShape DEF TypeOK
<1>2. ASSUME NEW s, Goto(w, s)
      PROVE  /\ req'[w].at = s /\ req'[w].key = req[w].key
             /\ req'[w].arg = req[w].arg
  <2>1. [req[w] EXCEPT !.at = s] = [at |-> s, key |-> req[w].key, arg |-> req[w].arg]
    BY <1>1
  <2>2. req'[w] = [at |-> s, key |-> req[w].key, arg |-> req[w].arg]
    BY <1>2, <2>1 DEF Goto, TypeOK
  <2> QED
    BY <2>2
<1> QED
  BY <1>2 DEF Handle, Finish, Begin, Idle, TypeOK

-----------------------------------------------------------------------------
\* A request whose use is written down and whose change may still come.
Owes(r) == r.at \notin {"idle", "found", "audit", "answer"}

\* What a step does to the books: nothing, a use, or the change it was owed.
Quiet(w) == UNCHANGED books /\ (Owes(req'[w]) => Owes(req[w]))
Uses(w) ==
  /\ ~Owes(req[w])
  /\ req'[w].key \in Principals
  /\ req'[w].key \in Keys => req[w].at = "found" /\ req[w].key = req'[w].key
  /\ uses' = [uses EXCEPT ![req'[w].key] = @ + 1]
  /\ UNCHANGED effects
Changes(w) ==
  /\ Owes(req[w]) /\ ~Owes(req'[w])
  /\ effects' = [effects EXCEPT ![req[w].key] = @ + 1]
  /\ UNCHANGED uses

LEMMA BooksStep ==
  ASSUME TypeOK, NEW w \in Workers, Act(w)
  PROVE  Quiet(w) \/ Uses(w) \/ Changes(w)
<1> USE Moving DEF Quiet, Owes
<1>1. CASE KeyStart(w)
  <2>1. ASSUME NEW k \in Keys, Find(w, k) PROVE Quiet(w)
    BY <2>1 DEF Find
  <2>2. CASE UseLegacyKey(w)
    BY <2>2 DEF UseLegacyKey, CountUse, Begin, Uses, Principals
  <2> QED
    BY <1>1, <2>1, <2>2 DEF KeyStart
<1>2. CASE Die(w)
  BY <1>2 DEF Die
<1>3. CASE KeyStep(w)
  <2>1. CASE RecordUse(w)
    <3>1. req[w].key \in Principals
      BY <2>1, RequestShape DEF RecordUse, TypeOK, Principals
    <3> QED
      BY <2>1, <3>1 DEF RecordUse, CountUse, Uses
  <2>2. CASE Answer(w)
    BY <2>2 DEF Answer
  <2>3. ASSUME NEW k \in Keys, NEW s, NEW d, CreateKey(w, k, s, d) PROVE Changes(w)
    BY <2>3 DEF CreateKey, Admitted, CountEffect, Changes
  <2>4. CASE AuditCreation(w)
    BY <2>4 DEF AuditCreation
  <2>5. CASE HandOver(w)
    BY <2>5 DEF HandOver
  <2>6. ASSUME NEW k \in Keys, LoadRevocation(w, k) PROVE Quiet(w)
    BY <2>6 DEF LoadRevocation, Admitted
  <2>7. CASE CommitRevocation(w)
    BY <2>7 DEF CommitRevocation, CountEffect, Changes
  <2> QED
    BY <1>3, <2>1, <2>2, <2>3, <2>4, <2>5, <2>6, <2>7 DEF KeyStep
<1>4. CASE TransferStep(w)
  <2>1. ASSUME NEW i \in TransferKeys, NEW x \in Receivers, LookupTransfer(w, i, x)
        PROVE  Quiet(w)
    BY <2>1 DEF LookupTransfer, Admitted
  <2>2. CASE CheckAllowlist(w) \/ CheckCertified(w)
    BY <2>2 DEF CheckAllowlist, CheckCertified
  <2>3. CASE RaiseAlert(w)
    BY <2>3 DEF RaiseAlert, CountEffect, Changes
  <2>4. CASE InsertTransfer(w)
    BY <2>4 DEF InsertTransfer, CountEffect, Changes
  <2>5. ASSUME NEW x \in Receivers, LookupAllowed(w, x) PROVE Quiet(w)
    BY <2>5 DEF LookupAllowed, Admitted
  <2>6. CASE InsertAllowed(w)
    BY <2>6 DEF InsertAllowed, CountEffect, Changes
  <2>7. ASSUME NEW x \in Receivers, NEW new \in Levels, LoadCertificate(w, x, new)
        PROVE  Quiet(w)
    BY <2>7 DEF LoadCertificate, Admitted
  <2>8. CASE SaveCertificate(w)
    BY <2>8 DEF SaveCertificate, CountEffect, Changes
  <2> QED
    BY <1>4, <2>1, <2>2, <2>3, <2>4, <2>5, <2>6, <2>7, <2>8 DEF TransferStep
<1>5. CASE MilestoneStep(w)
  <2>1. ASSUME NEW x \in Indices, NEW a \in Amounts, SumMilestones(w, x, a)
        PROVE  Quiet(w)
    BY <2>1 DEF SumMilestones, Admitted
  <2>2. CASE CheckIndex(w)
    BY <2>2 DEF CheckIndex
  <2>3. CASE InsertMilestone(w)
    BY <2>3 DEF InsertMilestone, CountEffect, Changes
  <2> QED
    BY <1>5, <2>1, <2>2, <2>3 DEF MilestoneStep
<1> QED
  BY <1>1, <1>2, <1>3, <1>4, <1>5 DEF Act, Step

-----------------------------------------------------------------------------
\* The key table, and who was handed a key.
KeyCases(w) ==
  \/ UNCHANGED keyTable
  \/ \E k \in Keys, s \in Scopes, d \in BOOLEAN :
       /\ key[k].state = "none"
       /\ key' = [key EXCEPT ![k] = [state |-> "active", scope |-> s, dated |-> d]]
       /\ UNCHANGED <<created, handed>>
  \/ \E k \in Keys : /\ key' = [key EXCEPT ![k].state = "revoked"]
                     /\ UNCHANGED <<created, handed>>
  \/ \E k \in Keys : /\ created' = created \cup {k} /\ UNCHANGED <<key, handed>>
  \/ \E k \in Keys : /\ req[w].at = "answer" /\ req[w].arg.of = k
                     /\ handed' = handed \cup {k} /\ UNCHANGED <<key, created>>

LEMMA KeyTableStep ==
  ASSUME TypeOK, NEW w \in Workers, Act(w)
  PROVE  KeyCases(w)
<1>0. req[w].at \in {"audit", "answer", "revoke"} => req[w].arg.of \in Keys
  BY RequestShape DEF TypeOK, KeyArgs
<1>1. CASE UNCHANGED keyTable
  BY <1>1 DEF KeyCases
<1>2. ASSUME NEW k \in Keys, NEW s \in Scopes, NEW d \in BOOLEAN, CreateKey(w, k, s, d)
      PROVE  KeyCases(w)
  BY <1>2 DEF CreateKey, KeyCases
<1>3. CASE AuditCreation(w)
  BY <1>0, <1>3 DEF AuditCreation, KeyCases
<1>4. CASE HandOver(w)
  BY <1>0, <1>4 DEF HandOver, KeyCases
<1>5. CASE CommitRevocation(w)
  <2>1. CASE req[w].arg.active
    BY <1>0, <1>5, <2>1 DEF CommitRevocation, KeyCases
  <2>2. CASE ~req[w].arg.active
    BY <1>5, <2>2 DEF CommitRevocation, KeyCases, keyTable
  <2> QED
    BY <2>1, <2>2
<1> QED
  BY <1>1, <1>2, <1>3, <1>4, <1>5
  DEF Act, Step, KeyStart, KeyStep, TransferStep, MilestoneStep, Find, UseLegacyKey, Die,
      RecordUse, Answer, LoadRevocation, LookupTransfer, CheckAllowlist, CheckCertified,
      RaiseAlert, InsertTransfer, LookupAllowed, InsertAllowed, LoadCertificate,
      SaveCertificate, SumMilestones, CheckIndex, InsertMilestone

\* The tables of the restricted transactions.
LEMMA TransferTablesStep ==
  ASSUME TypeOK, NEW w \in Workers, Act(w)
  PROVE  \/ UNCHANGED transferVars
         \/ RaiseAlert(w) \/ InsertTransfer(w) \/ InsertAllowed(w) \/ SaveCertificate(w)
BY DEF Act, Step, TransferStep, LookupTransfer, CheckAllowlist, CheckCertified,
       LookupAllowed, LoadCertificate

\* The milestones.
LEMMA MilestonesStep ==
  ASSUME TypeOK, NEW w \in Workers, Act(w)
  PROVE  UNCHANGED milestone \/ InsertMilestone(w)
BY DEF Act, Step, MilestoneStep, SumMilestones, CheckIndex

\* No request starts in the midst of another, and none is lost.
LEMMA SentStep ==
  ASSUME TypeOK, NEW w \in Workers, Act(w)
  PROVE  \/ UNCHANGED <<calm, sent>> /\ req[w].at # "idle"
         \/ /\ req[w].at = "idle" /\ sent < MaxRequests /\ sent' = sent + 1
            /\ calm' = (calm /\ \A v \in Workers : req[v].at = "idle")
BY DEF Act, Step, KeyStart, KeyStep, TransferStep, MilestoneStep, Find, UseLegacyKey, Die,
       RecordUse, Answer, CreateKey, AuditCreation, HandOver, LoadRevocation,
       CommitRevocation, LookupTransfer, CheckAllowlist, CheckCertified, RaiseAlert,
       InsertTransfer, LookupAllowed, InsertAllowed, LoadCertificate, SaveCertificate,
       SumMilestones, CheckIndex, InsertMilestone, Admitted, Begin, Goto, Handle, Finish

LEMMA TypeStep ==
  ASSUME TypeOK, NEW w \in Workers, Act(w)
  PROVE  TypeOK'
<1> USE DEF TypeOK
<1>1. req' \in [Workers -> Requests]
  BY Moves DEF Moved
<1>2. key' \in [Keys -> Row] /\ created' \subseteq Keys /\ handed' \subseteq Keys
  <2>1. CASE UNCHANGED <<key, created, handed>>
    BY <2>1
  <2>2. ASSUME NEW k \in Keys, NEW s \in Scopes, NEW d \in BOOLEAN,
               key' = [key EXCEPT ![k] = [state |-> "active", scope |-> s, dated |-> d]]
        PROVE  key' \in [Keys -> Row]
    BY <2>2 DEF Row
  <2>3. ASSUME NEW k \in Keys, key' = [key EXCEPT ![k].state = "revoked"]
        PROVE  key' \in [Keys -> Row]
    BY <2>3 DEF Row
  <2> QED
    BY <2>1, <2>2, <2>3, KeyTableStep DEF KeyCases, keyTable
<1>3. uses' \in [Principals -> Nat] /\ effects' \in [Principals -> Nat]
  <2>1. Owes(req[w]) => req[w].key \in Principals
    BY RequestShape DEF Owes
  <2> QED
    BY <2>1, BooksStep DEF Quiet, Uses, Changes, books
<1>4. calm' \in BOOLEAN /\ sent' \in 0..MaxRequests
  <2>1. sent' \in 0..MaxRequests
    BY SentStep
  <2>2. calm' \in BOOLEAN
    BY SentStep
  <2> QED
    BY <2>1, <2>2
<1>5. /\ transaction' \in [TransferKeys -> Receivers \cup {NoReceiver}]
      /\ allowed' \subseteq Receivers /\ alerts' \subseteq Receivers
      /\ level' \in [Receivers -> Levels \cup {"none"}]
      /\ levelAudited' \in [Receivers -> Levels \cup {"none"}]
  <2> DEFINE a == req[w].arg
  <2>1. /\ req[w].at \in {"alert", "transfer"} => a.id \in TransferKeys /\ a.to \in Receivers
        /\ req[w].at \in {"allow", "certify"} =>
             a.to \in Receivers /\ a.new \in Levels \cup {"none"}
    BY RequestShape DEF TransferArgs, GrantArgs
  <2>2. CASE UNCHANGED transferVars
    BY <2>2 DEF transferVars
  <2>3. CASE RaiseAlert(w)
    BY <2>1, <2>3 DEF RaiseAlert
  <2>4. CASE InsertTransfer(w)
    BY <2>1, <2>4 DEF InsertTransfer
  <2>5. CASE InsertAllowed(w)
    BY <2>1, <2>5 DEF InsertAllowed
  <2>6. CASE SaveCertificate(w)
    BY <2>1, <2>6 DEF SaveCertificate, SetLevel
  <2> QED
    BY <2>2, <2>3, <2>4, <2>5, <2>6, TransferTablesStep
<1>6. milestone' \in [Indices -> Amounts \cup {0}]
  <2>1. req[w].at = "milestone" => req[w].arg.idx \in Indices /\ req[w].arg.amount \in Amounts
    BY RequestShape DEF MilestoneArgs
  <2> QED
    BY <2>1, MilestonesStep DEF InsertMilestone
<1> QED
  BY <1>1, <1>2, <1>3, <1>4, <1>5, <1>6

-----------------------------------------------------------------------------
\* The steps that bring a request to the stages the invariants speak of.
LEMMA Arrivals ==
  ASSUME TypeOK, NEW w \in Workers, Act(w)
  PROVE  /\ req'[w].at = "found" => \E k \in Keys : Find(w, k)
         /\ req'[w].at = "answer" => AuditCreation(w)
         /\ req'[w].at = "certificate" => CheckAllowlist(w)
         /\ req'[w].at = "transfer" => CheckCertified(w)
         /\ req'[w].at = "certify" =>
              \E x \in Receivers, new \in Levels : LoadCertificate(w, x, new)
         /\ req'[w].at = "index" =>
              \E x \in Indices, a \in Amounts : SumMilestones(w, x, a)
         /\ req'[w].at = "milestone" => CheckIndex(w)
<1> USE Moving
<1>1. ASSUME UseLegacyKey(w) \/ RecordUse(w) PROVE req'[w].at = "route"
  BY <1>1 DEF UseLegacyKey, RecordUse
<1>2. ASSUME Die(w) \/ Answer(w) \/ HandOver(w) \/ CommitRevocation(w)
      PROVE  req'[w].at = "idle"
  BY <1>2 DEF Die, Answer, HandOver, CommitRevocation
<1>3. ASSUME NEW k \in Keys, NEW s, NEW d, CreateKey(w, k, s, d) \/ LoadRevocation(w, k)
      PROVE  req'[w].at \in {"audit", "revoke"}
  BY <1>3 DEF CreateKey, LoadRevocation
<1>4. ASSUME NEW i \in TransferKeys, NEW x \in Receivers,
             LookupTransfer(w, i, x) \/ LookupAllowed(w, x)
      PROVE  req'[w].at \in {"idle", "allowlist", "allow"}
  BY <1>4 DEF LookupTransfer, LookupAllowed
<1>5. ASSUME NEW x \in Receivers, LookupAllowed(w, x)
      PROVE  req'[w].at \in {"idle", "allow"}
  BY <1>5 DEF LookupAllowed
<1>6. ASSUME RaiseAlert(w) \/ InsertTransfer(w) \/ InsertAllowed(w) \/ SaveCertificate(w)
             \/ InsertMilestone(w)
      PROVE  req'[w].at = "idle"
  BY <1>6 DEF RaiseAlert, InsertTransfer, InsertAllowed, SaveCertificate, InsertMilestone
<1>7. ASSUME NEW k \in Keys, Find(w, k) PROVE req'[w].at = "found"
  BY <1>7 DEF Find
<1>8. AuditCreation(w) => req'[w].at = "answer"
  BY DEF AuditCreation
<1>9. CheckAllowlist(w) => req'[w].at = "certificate"
  BY DEF CheckAllowlist
<1>10. CheckCertified(w) => req'[w].at \in {"transfer", "alert"}
  BY DEF CheckCertified
<1>11. ASSUME NEW x \in Receivers, NEW new \in Levels, LoadCertificate(w, x, new)
       PROVE  req'[w].at = "certify"
  BY <1>11 DEF LoadCertificate
<1>12. ASSUME NEW x \in Indices, NEW a \in Amounts, SumMilestones(w, x, a)
       PROVE  req'[w].at \in {"index", "idle"}
  BY <1>12 DEF SumMilestones
<1>13. CheckIndex(w) => req'[w].at \in {"milestone", "idle"}
  BY DEF CheckIndex
<1>14. CASE KeyStart(w) \/ Die(w)
  BY <1>1, <1>2, <1>7, <1>14 DEF KeyStart
<1>15. CASE KeyStep(w)
  BY <1>1, <1>2, <1>3, <1>8, <1>15 DEF KeyStep
<1>16. CASE TransferStep(w)
  BY <1>4, <1>5, <1>6, <1>9, <1>10, <1>11, <1>16 DEF TransferStep
<1>17. CASE MilestoneStep(w)
  BY <1>6, <1>12, <1>13, <1>17 DEF MilestoneStep
<1> QED
  BY <1>14, <1>15, <1>16, <1>17 DEF Act, Step

\* The other requests stay where they are.
LEMMA OthersStay ==
  ASSUME TypeOK, NEW w \in Workers, Act(w), NEW v \in Workers \ {w}
  PROVE  req'[v] = req[v]
BY Moves DEF Moved, TypeOK

-----------------------------------------------------------------------------
\* Changes made on behalf of p, and those still owed, were written down as uses.
Owing(p) == {w \in Workers : req[w].key = p /\ Owes(req[w])}
BooksInv == \A p \in Principals : effects[p] + Cardinality(Owing(p)) <= uses[p]

LEMMA BooksInvStep ==
  ASSUME TypeOK, BooksInv, NEW w \in Workers, Act(w)
  PROVE  BooksInv'
<1> SUFFICES ASSUME NEW p \in Principals
             PROVE  effects'[p] + Cardinality(Owing(p)') <= uses'[p]
  BY DEF BooksInv
<1>1. effects[p] + Cardinality(Owing(p)) <= uses[p]
  BY DEF BooksInv
<1>2. IsFiniteSet(Owing(p)) /\ IsFiniteSet(Owing(p)')
  BY FS_Subset DEF Owing
<1>3. effects[p] \in Nat /\ uses[p] \in Nat /\ Cardinality(Owing(p)) \in Nat
      /\ Cardinality(Owing(p)') \in Nat
  BY <1>2, FS_CardinalityType DEF TypeOK
<1>4. Owing(p)' \subseteq Owing(p) \cup {w}
  BY OthersStay DEF Owing
<1>5. Owes(req'[w]) /\ Owes(req[w]) => req'[w].key = req[w].key
  <2>1. PICK r \in Requests : /\ req' = [req EXCEPT ![w] = r]
                              /\ req[w].at # "idle" /\ r.at # "idle" => r.key = req[w].key
    BY Moves DEF Moved
  <2>2. req'[w] = r
    BY <2>1 DEF TypeOK
  <2> QED
    BY <2>1, <2>2 DEF Owes
<1>6. CASE Owing(p)' \subseteq Owing(p) /\ effects'[p] = effects[p] /\ uses'[p] >= uses[p]
  BY <1>1, <1>2, <1>3, <1>6, FS_Subset, TypeStep DEF TypeOK
<1>7. CASE Quiet(w)
  <2>1. Owing(p)' \subseteq Owing(p)
    BY <1>4, <1>5, <1>7 DEF Quiet, Owing
  <2> QED
    BY <1>3, <1>6, <1>7, <2>1 DEF Quiet, books
<1>8. CASE Uses(w)
  <2>1. CASE p = req'[w].key
    <3>1. uses'[p] = uses[p] + 1 /\ effects'[p] = effects[p]
      BY <1>8, <2>1 DEF Uses, TypeOK
    <3>2. Cardinality(Owing(p) \cup {w}) <= Cardinality(Owing(p)) + 1
          /\ IsFiniteSet(Owing(p) \cup {w})
      <4>1. /\ IsFiniteSet(Owing(p) \cup {w})
            /\ Cardinality(Owing(p) \cup {w}) =
                 IF w \in Owing(p) THEN Cardinality(Owing(p)) ELSE Cardinality(Owing(p)) + 1
        BY <1>2, FS_AddElement
      <4> QED
        BY <1>3, <4>1
    <3>3. Cardinality(Owing(p)') <= Cardinality(Owing(p) \cup {w})
          /\ Cardinality(Owing(p) \cup {w}) \in Nat
      BY <1>4, <3>2, FS_Subset, FS_CardinalityType
    <3> QED
      BY <1>1, <1>3, <3>1, <3>2, <3>3
  <2>2. CASE p # req'[w].key
    <3>1. Owing(p)' \subseteq Owing(p)
      BY <1>4, <2>2 DEF Owing
    <3>2. uses'[p] = uses[p] /\ effects'[p] = effects[p]
      BY <1>8, <2>2 DEF Uses, TypeOK
    <3> QED
      BY <1>3, <1>6, <3>1, <3>2
  <2> QED
    BY <2>1, <2>2
<1>9. CASE Changes(w)
  <2>1. Owing(p)' \subseteq Owing(p) \ {w}
    BY <1>4, <1>9 DEF Changes, Owing
  <2>2. CASE p = req[w].key
    <3>1. w \in Owing(p) /\ uses'[p] = uses[p] /\ effects'[p] = effects[p] + 1
      BY <1>9, <2>2 DEF Changes, Owing, TypeOK
    <3>2. Cardinality(Owing(p) \ {w}) = Cardinality(Owing(p)) - 1
          /\ IsFiniteSet(Owing(p) \ {w})
      BY <1>2, <3>1, FS_RemoveElement
    <3>3. Cardinality(Owing(p)') <= Cardinality(Owing(p) \ {w})
      BY <2>1, <3>2, FS_Subset
    <3> QED
      BY <1>1, <1>3, <3>1, <3>2, <3>3
  <2>3. CASE p # req[w].key
    <3>1. uses'[p] = uses[p] /\ effects'[p] = effects[p]
      BY <1>9, <2>3 DEF Changes, TypeOK
    <3> QED
      BY <1>3, <1>6, <2>1, <3>1
  <2> QED
    BY <2>2, <2>3
<1> QED
  BY <1>7, <1>8, <1>9, BooksStep

-----------------------------------------------------------------------------
\* Whoever has a key, asks with it or has used it got it after the audit.
HandedInv ==
  /\ handed \subseteq created \cup {Root}
  /\ \A w \in Workers : req[w].at = "answer" => req[w].arg.of \in created
  /\ \A w \in Workers : req[w].at = "found" => req[w].key \in handed
  /\ \A k \in Keys : uses[k] > 0 => k \in handed

LEMMA HandedInvStep ==
  ASSUME TypeOK, HandedInv, NEW w \in Workers, Act(w)
  PROVE  HandedInv'
<1>1. created \subseteq created' /\ handed \subseteq handed'
  BY KeyTableStep DEF KeyCases, keyTable
<1>2. handed' \subseteq created' \cup {Root}
  BY <1>1, KeyTableStep DEF KeyCases, HandedInv, keyTable
<1>3. ASSUME NEW v \in Workers, req'[v].at = "answer" PROVE req'[v].arg.of \in created'
  <2>1. CASE v = w
    <3>1. AuditCreation(w)
      BY <1>3, <2>1, Arrivals
    <3> QED
      BY <2>1, <3>1, Moving DEF AuditCreation
  <2>2. CASE v # w
    BY <1>1, <1>3, <2>2, OthersStay DEF HandedInv
  <2> QED
    BY <2>1, <2>2
<1>4. ASSUME NEW v \in Workers, req'[v].at = "found" PROVE req'[v].key \in handed'
  <2>1. CASE v = w
    <3>1. PICK k \in Keys : Find(w, k)
      BY <1>4, <2>1, Arrivals
    <3> QED
      BY <1>1, <2>1, <3>1, Moving DEF Find
  <2>2. CASE v # w
    BY <1>1, <1>4, <2>2, OthersStay DEF HandedInv
  <2> QED
    BY <2>1, <2>2
<1>5. ASSUME NEW k \in Keys, uses'[k] > 0 PROVE k \in handed'
  <2>1. CASE uses'[k] = uses[k]
    BY <1>1, <1>5, <2>1 DEF HandedInv
  <2>2. CASE uses'[k] # uses[k]
    <3>1. Uses(w) /\ k = req'[w].key
      BY <2>2, BooksStep DEF Quiet, Uses, Changes, books, TypeOK, Principals
    <3> QED
      BY <1>1, <3>1 DEF Uses, HandedInv
  <2> QED
    BY <2>1, <2>2
<1> QED
  BY <1>2, <1>3, <1>4, <1>5 DEF HandedInv

-----------------------------------------------------------------------------
\* Grants are for good, and whoever is about to be paid has one.
Granted(x) == x \in allowed \/ level[x] # "none"
GrantInv ==
  /\ TransfersAllowed
  /\ \A w \in Workers : req[w].at = "certificate" /\ req[w].arg.granted =>
       req[w].arg.to \in allowed
  /\ \A w \in Workers : req[w].at = "transfer" => Granted(req[w].arg.to)
  /\ \A w \in Workers : req[w].at = "certify" => req[w].arg.new \in Levels

LEMMA GrantsLast ==
  ASSUME TypeOK, GrantInv, NEW w \in Workers, Act(w)
  PROVE  /\ allowed \subseteq allowed'
         /\ \A x \in Receivers : Granted(x) => Granted(x)'
<1>1. CASE UNCHANGED <<allowed, level>>
  BY <1>1 DEF Granted
<1>2. CASE InsertAllowed(w)
  BY <1>2 DEF InsertAllowed, Granted
<1>3. CASE SaveCertificate(w)
  <2>1. req[w].arg.new \in Levels
    BY <1>3 DEF SaveCertificate, GrantInv
  <2>2. level' = level \/ level' = [level EXCEPT ![req[w].arg.to] = req[w].arg.new]
    BY <1>3 DEF SaveCertificate, SetLevel
  <2> QED
    BY <1>3, <2>1, <2>2 DEF SaveCertificate, Granted, Levels, TypeOK
<1> QED
  BY <1>1, <1>2, <1>3, TransferTablesStep DEF transferVars, RaiseAlert, InsertTransfer

LEMMA GrantInvStep ==
  ASSUME TypeOK, GrantInv, NEW w \in Workers, Act(w)
  PROVE  GrantInv'
<1>0. ASSUME NEW v \in Workers,
             req[v].at \in {"allowlist", "certificate", "alert", "transfer"}
      PROVE  req[v].arg \in TransferArgs /\ req[v].arg.to \in Receivers
  BY <1>0, RequestShape DEF TypeOK, TransferArgs
<1>1. TransfersAllowed'
  <2>1. \/ transaction' = transaction
        \/ /\ InsertTransfer(w)
           /\ transaction' = [transaction EXCEPT ![req[w].arg.id] = req[w].arg.to]
    BY TransferTablesStep DEF transferVars, RaiseAlert, InsertTransfer, InsertAllowed,
       SaveCertificate
  <2>2. InsertTransfer(w) => Granted(req[w].arg.to) /\ req[w].arg.to \in Receivers
    BY <1>0 DEF InsertTransfer, GrantInv
  <2>3. SUFFICES ASSUME NEW i \in TransferKeys, transaction'[i] # NoReceiver
                 PROVE  Granted(transaction[i])'
    BY DEF TransfersAllowed, Granted
  <2>4. transaction[i] # NoReceiver => Granted(transaction[i]) /\ transaction[i] \in Receivers
    BY DEF GrantInv, TransfersAllowed, Granted, TypeOK
  <2>5. PICK x \in Receivers : x = transaction'[i] /\ Granted(x)
    BY <2>1, <2>2, <2>3, <2>4 DEF TypeOK
  <2>6. Granted(x)'
    BY <2>5, GrantsLast
  <2> QED
    BY <2>5, <2>6 DEF Granted
<1>2. ASSUME NEW v \in Workers, req'[v].at = "certificate", req'[v].arg.granted
      PROVE  req'[v].arg.to \in allowed'
  <2>1. CASE v = w
    <3>1. CheckAllowlist(w)
      BY <1>2, <2>1, Arrivals
    <3>2. req[w].arg \in TransferArgs
      BY <1>0, <3>1 DEF CheckAllowlist
    <3>3. /\ req'[w].arg = [req[w].arg EXCEPT !.granted = req[w].arg.to \in allowed]
          /\ UNCHANGED allowed
      BY <3>1, Moving DEF CheckAllowlist, transferVars
    <3> QED
      BY <1>2, <2>1, <3>2, <3>3 DEF TransferArgs
  <2>2. CASE v # w
    BY <1>2, <2>2, OthersStay, GrantsLast DEF GrantInv
  <2> QED
    BY <2>1, <2>2
<1>3. ASSUME NEW v \in Workers, req'[v].at = "transfer"
      PROVE  Granted(req[v].arg.to)'
  <2>1. CASE v = w
    <3>1. CheckCertified(w)
      BY <1>3, <2>1, Arrivals
    <3>2. req'[w].arg = req[w].arg /\ UNCHANGED <<allowed, level>>
      BY <3>1, Moving DEF CheckCertified, transferVars
    <3>3. req[w].arg.granted \/ level[req[w].arg.to] # "none"
      BY <1>3, <2>1, <3>1, Moving DEF CheckCertified
    <3>4. Granted(req[w].arg.to)
      BY <3>1, <3>3 DEF CheckCertified, GrantInv, Granted
    <3> QED
      BY <2>1, <3>2, <3>4 DEF Granted
  <2>2. CASE v # w
    <3>1. req'[v] = req[v]
      BY <2>2, OthersStay
    <3>2. Granted(req[v].arg.to) /\ req[v].arg.to \in Receivers
      BY <1>0, <1>3, <3>1 DEF GrantInv
    <3>3. PICK x \in Receivers : x = req[v].arg.to /\ Granted(x)'
      BY <3>2, GrantsLast
    <3> QED
      BY <3>1, <3>3 DEF Granted
  <2> QED
    BY <2>1, <2>2
<1>4. ASSUME NEW v \in Workers, req'[v].at = "certify" PROVE req'[v].arg.new \in Levels
  <2>1. CASE v = w
    <3>1. PICK x \in Receivers, new \in Levels : LoadCertificate(w, x, new)
      BY <1>4, <2>1, Arrivals
    <3> QED
      BY <2>1, <3>1, Moving DEF LoadCertificate
  <2>2. CASE v # w
    BY <1>4, <2>2, OthersStay DEF GrantInv
  <2> QED
    BY <2>1, <2>2
<1> QED
  BY <1>1, <1>2, <1>3, <1>4 DEF GrantInv, Granted

-----------------------------------------------------------------------------
\* As long as requests do not overlap, what one of them has read still holds
\* when it commits.
CalmInv ==
  calm =>
    /\ \A v, w \in Workers : v # w => req[v].at = "idle" \/ req[w].at = "idle"
    /\ level = levelAudited
    /\ \A w \in Workers : req[w].at = "certify" =>
         req[w].arg.seen = level[req[w].arg.to]
    /\ PlannedTotal <= AmountTotal
    /\ \A w \in Workers : req[w].at \in {"index", "milestone"} =>
         PlannedTotal + req[w].arg.amount <= AmountTotal

LEMMA MilestoneTotals ==
  ASSUME NEW m, m \in [Indices -> Amounts \cup {0}]
  PROVE  /\ SumFunction(m) \in Nat
         /\ \A x \in Indices, a \in Amounts : m[x] = 0 =>
              SumFunction([m EXCEPT ![x] = a]) = SumFunction(m) + a
<1>1. DOMAIN m = Indices /\ \A y \in Indices : m[y] \in Amounts \cup {0}
  OBVIOUS
<1>2. IsFiniteSet(Indices)
  BY MilestonesAssumption
<1>3. \A a \in Amounts \cup {0} : a \in Nat
  BY MilestonesAssumption
<1>4. \A y \in Indices : m[y] \in Nat
  BY <1>1, <1>3, Zenon
<1>5. SumFunction(m) = SumFunctionOnSet(m, Indices)
  BY <1>1 DEF SumFunction
<1>6. SumFunctionOnSet(m, Indices) \in Nat
  BY <1>2, <1>4, SumNat
<1>7. ASSUME NEW x \in Indices, NEW a \in Amounts, m[x] = 0
      PROVE  SumFunction([m EXCEPT ![x] = a]) = SumFunction(m) + a
  <2> DEFINE g == [m EXCEPT ![x] = a]
  <2>1. a \in Nat /\ g[x] = a /\ \A y \in Indices \ {x} : g[y] = m[y]
    BY <1>1, <1>3
  <2>2. SumFunctionOnSet(g, Indices) = SumFunctionOnSet(m, Indices) - m[x] + a
    <3> HIDE DEF g
    <3>1. \A y \in Indices \ {x} : g[y] = m[y]
      BY <2>1
    <3>2. SumFunctionOnSet(g, Indices) = SumFunctionOnSet(m, Indices) - m[x] + g[x]
      BY <1>2, <1>4, <2>1, <3>1, SumReplace
    <3> QED
      BY <2>1, <3>2
  <2>3. SumFunction([m EXCEPT ![x] = a]) = SumFunctionOnSet([m EXCEPT ![x] = a], Indices)
    BY <1>1 DEF SumFunction
  <2> QED
    BY <1>5, <1>6, <1>7, <2>1, <2>2, <2>3
<1> QED
  BY <1>5, <1>6, <1>7

LEMMA NoMilestones == SumFunction([x \in Indices |-> 0]) <= AmountTotal
<1> DEFINE zero == [x \in Indices |-> 0]
<1>1. IsFiniteSet(Indices) /\ AmountTotal \in Nat
  BY MilestonesAssumption
<1>2. SumFunction(zero) = SumFunctionOnSet(zero, Indices) /\ \A x \in Indices : zero[x] = 0
  BY DEF SumFunction
<1> HIDE DEF zero
<1>3. SumFunctionOnSet(zero, Indices) = 0
  BY <1>1, <1>2, SumZero
<1>4. SumFunction(zero) <= AmountTotal
  BY <1>1, <1>2, <1>3
<1> QED
  BY <1>4 DEF zero

LEMMA CalmInvStep ==
  ASSUME TypeOK, CalmInv, NEW w \in Workers, Act(w)
  PROVE  CalmInv'
<1> SUFFICES ASSUME calm'
             PROVE  /\ (\A u, v \in Workers : u # v => req[u].at = "idle" \/ req[v].at = "idle")'
                    /\ level' = levelAudited'
                    /\ (\A v \in Workers : req[v].at = "certify" =>
                          req[v].arg.seen = level[req[v].arg.to])'
                    /\ (PlannedTotal <= AmountTotal)'
                    /\ (\A v \in Workers : req[v].at \in {"index", "milestone"} =>
                          PlannedTotal + req[v].arg.amount <= AmountTotal)'
  BY DEF CalmInv
<1>0. TypeOK'
  BY TypeStep
<1>1. calm /\ \A v \in Workers \ {w} : req[v].at = "idle"
  <2>1. calm
    BY SentStep DEF TypeOK
  <2>2. CASE req[w].at = "idle"
    BY <2>1, <2>2, SentStep DEF TypeOK
  <2>3. CASE req[w].at # "idle"
    BY <2>1, <2>3 DEF CalmInv
  <2> QED
    BY <2>1, <2>2, <2>3
<1>2. \A v \in Workers \ {w} : req'[v].at = "idle"
  BY <1>1, OthersStay
<1>3. /\ level = levelAudited
      /\ req[w].at = "certify" => req[w].arg.seen = level[req[w].arg.to]
      /\ PlannedTotal <= AmountTotal
      /\ req[w].at \in {"index", "milestone"} =>
           PlannedTotal + req[w].arg.amount <= AmountTotal
  BY <1>1 DEF CalmInv
<1>4. level' = levelAudited'
  <2>1. CASE UNCHANGED <<level, levelAudited>>
    BY <1>3, <2>1
  <2>2. CASE SaveCertificate(w)
    <3>1. \/ UNCHANGED <<level, levelAudited>>
          \/ SetLevel(req[w].arg.to, req[w].arg.new)
          \/ /\ levelAudited' = [levelAudited EXCEPT ![req[w].arg.to] = req[w].arg.new]
             /\ level' = level /\ req[w].arg.new = level[req[w].arg.to]
      BY <1>3, <2>2 DEF SaveCertificate
    <3> QED
      BY <1>3, <3>1 DEF SetLevel, TypeOK
  <2> QED
    BY <2>1, <2>2, TransferTablesStep DEF transferVars, RaiseAlert, InsertTransfer, InsertAllowed
<1>5. req'[w].at = "certify" => req'[w].arg.seen = level'[req'[w].arg.to]
  <2> SUFFICES ASSUME req'[w].at = "certify" PROVE req'[w].arg.seen = level'[req'[w].arg.to]
    OBVIOUS
  <2>1. PICK x \in Receivers, new \in Levels : LoadCertificate(w, x, new)
    BY Arrivals
  <2>2. req'[w].arg = [to |-> x, new |-> new, seen |-> level[x]] /\ level' = level
    BY <2>1, Moving DEF LoadCertificate, transferVars
  <2> QED
    BY <2>2
<1>6. PlannedTotal \in Nat /\ PlannedTotal' \in Nat /\ AmountTotal \in Nat
  BY <1>0, MilestoneTotals, MilestonesAssumption DEF PlannedTotal, TypeOK
<1>7. CASE UNCHANGED milestone
  <2>1. PlannedTotal' = PlannedTotal
    BY <1>7 DEF PlannedTotal
  <2>2. req'[w].at \in {"index", "milestone"} =>
          PlannedTotal + req'[w].arg.amount <= AmountTotal
    <3>1. CASE req'[w].at = "index"
      <4>1. PICK x \in Indices, a \in Amounts : SumMilestones(w, x, a)
        BY <3>1, Arrivals
      <4>2. Fits(a) /\ req'[w].arg = [idx |-> x, amount |-> a]
        BY <3>1, <4>1, Moving DEF SumMilestones
      <4> QED
        BY <4>2 DEF Fits
    <3>2. CASE req'[w].at = "milestone"
      <4>1. CheckIndex(w)
        BY <3>2, Arrivals
      <4>2. req'[w].arg = req[w].arg /\ req[w].at = "index"
        BY <3>2, <4>1, Moving DEF CheckIndex
      <4> QED
        BY <1>3, <4>2
    <3> QED
      BY <3>1, <3>2
  <2> QED
    BY <1>2, <1>3, <1>4, <1>5, <2>1, <2>2
<1>8. CASE InsertMilestone(w)
  <2>1. req'[w] = Idle /\ req'[w].at = "idle" /\ req[w].at = "milestone"
    BY <1>8 DEF InsertMilestone, Finish, Idle, TypeOK
  <2>2. req[w].arg.idx \in Indices /\ req[w].arg.amount \in Amounts
    BY <2>1, RequestShape DEF MilestoneArgs, TypeOK
  <2>3. \/ milestone' = milestone
        \/ /\ milestone[req[w].arg.idx] = 0
           /\ milestone' = [milestone EXCEPT ![req[w].arg.idx] = req[w].arg.amount]
    BY <1>8 DEF InsertMilestone
  <2>4. PlannedTotal' = PlannedTotal \/ PlannedTotal' = PlannedTotal + req[w].arg.amount
    BY <2>2, <2>3, MilestoneTotals DEF PlannedTotal, TypeOK
  <2>5. PlannedTotal' <= AmountTotal
    BY <1>3, <2>1, <2>4
  <2> QED
    BY <1>2, <1>4, <1>5, <2>1, <2>5
<1> QED
  BY <1>7, <1>8, MilestonesStep

-----------------------------------------------------------------------------
\* The conjunction that every step preserves.
IInv == TypeOK /\ BooksInv /\ HandedInv /\ GrantInv /\ CalmInv

LEMMA InitIInv ==
  ASSUME Init
  PROVE  IInv
<1> USE DEF Init, KeysInit, TransfersInit, MilestonesInit, Idle
<1>1. TypeOK
  <2>1. Idle \in Requests
    BY DEF Requests, Idle
  <2>2. key \in [Keys -> Row]
    BY DEF Row, NoRow
  <2>3. sent \in 0..MaxRequests
    OBVIOUS
  <2> QED
    BY <2>1, <2>2, <2>3 DEF TypeOK, Levels
<1>2. BooksInv
  <2>1. ASSUME NEW p \in Principals PROVE effects[p] + Cardinality(Owing(p)) <= uses[p]
    <3>1. Owing(p) = {}
      BY DEF Owing, Owes
    <3> QED
      BY <3>1, FS_EmptySet
  <2> QED
    BY <2>1 DEF BooksInv
<1>3. HandedInv
  BY DEF HandedInv, Principals
<1>4. GrantInv
  BY DEF GrantInv, TransfersAllowed
<1>5. CalmInv
  <2>1. PlannedTotal <= AmountTotal
    BY NoMilestones DEF PlannedTotal
  <2> QED
    BY <2>1 DEF CalmInv
<1> QED
  BY <1>1, <1>2, <1>3, <1>4, <1>5 DEF IInv

LEMMA Invariant == Spec => []IInv
<1>1. Init => IInv
  BY InitIInv
<1>2. IInv /\ [Next]_vars => IInv'
  <2> SUFFICES ASSUME IInv, [Next]_vars PROVE IInv'
    OBVIOUS
  <2> USE DEF IInv
  <2>1. CASE UNCHANGED vars
    <3>1. UNCHANGED <<key, created, handed, uses, effects, req, calm, sent, transaction,
                      allowed, level, levelAudited, alerts, milestone>>
      BY <2>1 DEF vars, keyVars, keyTable, books, transferVars
    <3>2. TypeOK'
      BY <3>1 DEF TypeOK
    <3>3. BooksInv' /\ HandedInv' /\ GrantInv' /\ CalmInv'
      BY <3>1 DEF BooksInv, Owing, HandedInv, GrantInv, TransfersAllowed, Granted, CalmInv,
         PlannedTotal
    <3> QED
      BY <3>2, <3>3
  <2>2. CASE Next
    <3>1. PICK w \in Workers : Act(w)
      BY <2>2 DEF Next, Act
    <3> QED
      BY <3>1, TypeStep, BooksInvStep, HandedInvStep, GrantInvStep, CalmInvStep
  <2> QED
    BY <2>1, <2>2
<1> QED
  BY <1>1, <1>2, PTL DEF Spec

-----------------------------------------------------------------------------
\* Every variable of the composition keeps its type; a request has an argument
\* that fits its stage.
THEOREM TypeCorrect == Spec => []TypeOK
BY Invariant, PTL DEF IInv

\* No handler changes anything without an audited use of the key it ran under.
THEOREM ChangesAreAudited == Spec => []EffectsAccounted
<1>1. IInv => EffectsAccounted
  <2> SUFFICES ASSUME IInv, NEW p \in Principals PROVE effects[p] <= uses[p]
    BY DEF EffectsAccounted
  <2>1. effects[p] + Cardinality(Owing(p)) <= uses[p]
    BY DEF IInv, BooksInv
  <2>2. effects[p] \in Nat /\ uses[p] \in Nat /\ Cardinality(Owing(p)) \in Nat
    <3>1. IsFiniteSet(Owing(p))
      BY FS_Subset DEF Owing
    <3> QED
      BY <3>1, FS_CardinalityType DEF IInv, TypeOK
  <2> QED
    BY <2>1, <2>2
<1> QED
  BY <1>1, Invariant, PTL

\* A key whose creation was not audited is never used.
THEOREM OnlyAuditedKeysAreUsed == Spec => []UnauditedKeyUnused
<1>1. IInv => UnauditedKeyUnused
  BY DEF IInv, HandedInv, UnauditedKeyUnused
<1> QED
  BY <1>1, Invariant, PTL

\* Every transfer went to a recipient that is still allowed or certified.
THEOREM TransfersAreGranted == Spec => []TransfersAllowed
<1>1. IInv => TransfersAllowed
  BY DEF IInv, GrantInv
<1> QED
  BY <1>1, Invariant, PTL

\* While requests do not overlap, the audit log tells every level.
THEOREM CalmLevels == Spec => []CalmLevelAsAudited
<1>1. IInv => CalmLevelAsAudited
  BY DEF IInv, CalmInv, CalmLevelAsAudited
<1> QED
  BY <1>1, Invariant, PTL

\* While requests do not overlap, the milestones fit into the escrow.
THEOREM CalmMilestones == Spec => []CalmMilestonesFit
<1>1. IInv => CalmMilestonesFit
  BY DEF IInv, CalmInv, CalmMilestonesFit
<1> QED
  BY <1>1, Invariant, PTL

-----------------------------------------------------------------------------
\* Only an active key or the development key starts a request.
LEMMA Starts ==
  ASSUME TypeOK, NEW w \in Workers, Act(w), req[w].at = "idle"
  PROVE  \E p \in Principals : /\ req'[w].key = p
                               /\ p \in Keys => key[p].state = "active"
<1>1. ASSUME NEW k \in Keys, Find(w, k) PROVE req'[w].key = k /\ key[k].state = "active"
  BY <1>1, Moving DEF Find
<1>2. UseLegacyKey(w) => req'[w].key = Legacy
  BY Moving DEF UseLegacyKey
<1>3. KeyStart(w)
  BY DEF Act, Step, KeyStep, TransferStep, MilestoneStep, Die, RecordUse, Answer, CreateKey,
     AuditCreation, HandOver, LoadRevocation, CommitRevocation, LookupTransfer,
     CheckAllowlist, CheckCertified, RaiseAlert, InsertTransfer, LookupAllowed,
     InsertAllowed, LoadCertificate, SaveCertificate, SumMilestones, CheckIndex,
     InsertMilestone, Admitted
<1> QED
  BY <1>1, <1>2, <1>3 DEF KeyStart, Principals

\* Once no request is left that read a key before its revocation, the key is
\* dead for good.
THEOREM RevokedKeysAreSilent == Spec => RevokedStaysSilent
<1>1. TypeOK /\ [Next]_vars =>
        [\A k \in Keys : key[k].state = "revoked" /\ InFlight(k) = {} =>
           /\ key'[k].state = "revoked"
           /\ InFlight(k)' = {}
           /\ effects'[k] = effects[k]]_vars
  <2> SUFFICES ASSUME TypeOK, Next, NEW k \in Keys, key[k].state = "revoked", InFlight(k) = {}
               PROVE  /\ key'[k].state = "revoked"
                      /\ InFlight(k)' = {}
                      /\ effects'[k] = effects[k]
    OBVIOUS
  <2>1. PICK w \in Workers : Act(w)
    BY DEF Next, Act
  <2>2. key'[k].state = "revoked"
    <3>1. \/ key' = key
          \/ \E j \in Keys, s \in Scopes, d \in BOOLEAN :
               /\ key[j].state = "none"
               /\ key' = [key EXCEPT ![j] = [state |-> "active", scope |-> s, dated |-> d]]
          \/ \E j \in Keys : key' = [key EXCEPT ![j].state = "revoked"]
      BY <2>1, KeyTableStep DEF KeyCases, keyTable
    <3>2. key[k] = [state |-> key[k].state, scope |-> key[k].scope, dated |-> key[k].dated]
      BY DEF TypeOK, Row
    <3> QED
      BY <3>1, <3>2 DEF TypeOK
  <2>3. InFlight(k)' = {}
    <3> SUFFICES ASSUME NEW v \in Workers, req'[v].key = k PROVE FALSE
      BY DEF InFlight
    <3>1. req[v].key # k
      BY DEF InFlight
    <3>2. v = w
      BY <2>1, <3>1, OthersStay
    <3>3. req'[w] \in Requests
      BY <2>1, TypeStep DEF TypeOK
    <3>4. req'[w].at # "idle"
      BY <3>2, <3>3, RequestShape DEF Principals
    <3>5. CASE req[w].at = "idle"
      BY <2>1, <3>2, <3>5, Starts
    <3>6. CASE req[w].at # "idle"
      BY <2>1, <3>1, <3>2, <3>4, <3>6, Moves DEF Moved, TypeOK
    <3> QED
      BY <3>5, <3>6
  <2>4. effects'[k] = effects[k]
    <3>1. effects' = effects \/ effects' = [effects EXCEPT ![req[w].key] = @ + 1]
      BY <2>1, BooksStep DEF Quiet, Uses, Changes, books
    <3>2. req[w].key # k
      BY DEF InFlight
    <3> QED
      BY <3>1, <3>2 DEF TypeOK, Principals
  <2> QED
    BY <2>2, <2>3, <2>4
<1> QED
  BY <1>1, TypeCorrect, PTL DEF Spec, RevokedStaysSilent
=============================================================================
