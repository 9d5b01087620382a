------------------------------ MODULE AdminApi ------------------------------
(***************************************************************************)
(* The endpoints of administrators over one database: every request passes *)
(* ApiKeys and then a handler of the keys themselves, of the restricted    *)
(* transactions or of the milestones (app/main.py mounts the routers).     *)
(***************************************************************************)
EXTENDS RestrictedTransactions, MilestoneCreation

vars == <<keyVars, transferVars, milestone>>

KeyArgs == [of : Keys, active : BOOLEAN]
TransferArgs == [id : TransferKeys, to : Receivers, granted : BOOLEAN]
GrantArgs == [to : Receivers, new : Levels \cup {"none"}, seen : Levels \cup {"none"}]
MilestoneArgs == [idx : Indices, amount : Amounts]

Requests ==
  [at : {"idle"}, key : {NoKey}, arg : {NoArg}]
    \cup [at : {"found"}, key : Keys, arg : {NoArg}]
    \cup [at : {"route"}, key : Principals, arg : {NoArg}]
    \cup [at : {"audit", "answer", "revoke"}, key : Principals, arg : KeyArgs]
    \cup [at : {"allowlist", "certificate", "alert", "transfer"}, key : Principals,
          arg : TransferArgs]
    \cup [at : {"allow", "certify"}, key : Principals, arg : GrantArgs]
    \cup [at : {"index", "milestone"}, key : Principals, arg : MilestoneArgs]

TypeOK ==
  /\ key \in [Keys -> Row]
  /\ created \subseteq Keys /\ handed \subseteq Keys
  /\ uses \in [Principals -> Nat] /\ effects \in [Principals -> Nat]
  /\ req \in [Workers -> Requests]
  /\ calm \in BOOLEAN /\ sent \in 0..MaxRequests
  /\ transaction \in [TransferKeys -> Receivers \cup {NoReceiver}]
  /\ allowed \subseteq Receivers /\ alerts \subseteq Receivers
  /\ level \in [Receivers -> Levels \cup {"none"}]
  /\ levelAudited \in [Receivers -> Levels \cup {"none"}]
  /\ milestone \in [Indices -> Amounts \cup {0}]

Init == KeysInit /\ TransfersInit /\ MilestonesInit

Step(w) ==
  \/ KeyStep(w) /\ UNCHANGED <<transferVars, milestone>>
  \/ TransferStep(w) /\ UNCHANGED milestone
  \/ MilestoneStep(w) /\ UNCHANGED transferVars

Next ==
  \E w \in Workers :
    \/ (KeyStart(w) \/ Die(w)) /\ UNCHANGED <<transferVars, milestone>>
    \/ Step(w)

Spec == Init /\ [][Next]_vars

-----------------------------------------------------------------------------
\* Every change is covered by an audited use of the key it was made with: a
\* request commits its use before its handler, and changes one thing at most.
EffectsAccounted ==
  \A p \in Principals : effects[p] <= uses[p]

\* A revocation does not stop the requests that read the key before it, but
\* once none of them is left the key is dead: no request, no effect, no return
\* to service, not even by a revocation or a creation that was under way.
RevokedStaysSilent ==
  [][\A k \in Keys : key[k].state = "revoked" /\ InFlight(k) = {} =>
       /\ key'[k].state = "revoked"
       /\ InFlight(k)' = {}
       /\ effects'[k] = effects[k]]_vars

\* A creation that dies between its two commits leaves an active key without
\* an audit entry; as its raw value was never returned, no one can use it.
UnauditedKeyUnused ==
  \A k \in Keys \ {Root} : uses[k] > 0 => k \in created

\* Money goes to recipients that are allowed or certified, although both were
\* read before the commit: the code has no way to withdraw either.
TransfersAllowed ==
  \A i \in TransferKeys : transaction[i] # NoReceiver =>
    transaction[i] \in allowed \/ level[transaction[i]] # "none"

\* As long as requests do not overlap, the audit log tells the level of every
\* certified account; of two that overlap, the later one may log a level that
\* its UPDATE left out.
CalmLevelAsAudited == calm => level = levelAudited

\* "Total milestone amounts exceed escrow amount_total" (routers/escrow.py) is
\* averted as long as requests do not overlap; two sums read before either
\* insert can together exceed it.
CalmMilestonesFit == calm => PlannedTotal <= AmountTotal
=============================================================================
