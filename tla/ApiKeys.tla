------------------------------ MODULE ApiKeys ------------------------------
(***************************************************************************)
(* API keys and the way of a request through them: app/security.py,        *)
(* app/utils/apikey.py and app/routers/apikeys.py.  A request reads the    *)
(* row of its key, commits one use of it, has its scope checked and enters *)
(* its handler ("route").  Nothing reads the key again: a revocation that  *)
(* commits after the read does not stop the request.                       *)
(*                                                                         *)
(* Handlers of other routers start at "route" too; AdminApi composes them. *)
(***************************************************************************)
EXTENDS Integers, FiniteSets

CONSTANTS
  Workers,       \* threads and processes that serve requests
  Keys,          \* rows of api_keys that may come to exist
  Root,          \* the admin key made by scripts/create_admin_api_key.py
  Legacy,        \* the development key, which has no row
  NoKey,         \* no key
  NoArg,         \* no argument
  DevKeyAllowed, \* DEV_API_KEY_ALLOWED
  Failures,      \* whether a request may die half-way
  Scopes,        \* scopes a key can be given
  MaxRequests    \* bound: authenticated requests

Principals == Keys \cup {Legacy}

ASSUME KeysAssumption ==
  /\ IsFiniteSet(Workers)
  /\ Root \in Keys /\ Legacy \notin Keys /\ NoKey \notin Principals
  /\ DevKeyAllowed \in BOOLEAN /\ Failures \in BOOLEAN
  /\ {"admin", "sender"} \subseteq Scopes
  /\ MaxRequests \in Nat

VARIABLES
  key,      \* rows of api_keys: state, scope, and whether expires_at is set
  created,  \* keys whose creation has its audit entry
  handed,   \* keys whose raw value was returned to their creator
  uses,     \* API_KEY_USED and LEGACY_API_KEY_USED entries of each principal
  effects,  \* changes committed by the handlers on behalf of each principal
  req,      \* what each worker does: stage, principal, argument of its handler
  calm,     \* so far, no request has started while another was in flight
  sent      \* requests whose key was read so far, for the bound alone

keyTable == <<key, created, handed>>
books == <<uses, effects>>
keyVars == <<keyTable, books, req, calm, sent>>

NoRow == [state |-> "none", scope |-> "sender", dated |-> FALSE]
Row == [state : {"none", "active", "revoked"}, scope : Scopes, dated : BOOLEAN]
Idle == [at |-> "idle", key |-> NoKey, arg |-> NoArg]

KeysInit ==
  /\ key = [k \in Keys |-> IF k = Root
              THEN [state |-> "active", scope |-> "admin", dated |-> FALSE] ELSE NoRow]
  /\ created = {} /\ handed = {Root}
  /\ uses = [p \in Principals |-> 0]
  /\ effects = [p \in Principals |-> 0]
  /\ req = [w \in Workers |-> Idle]
  /\ calm = TRUE
  /\ sent = 0

-----------------------------------------------------------------------------
InFlight(p) == {w \in Workers : req[w].key = p}

Begin(w, stage, p) ==
  /\ req[w].at = "idle"
  /\ sent < MaxRequests
  /\ sent' = sent + 1
  /\ req' = [req EXCEPT ![w] = [at |-> stage, key |-> p, arg |-> NoArg]]
  /\ calm' = (calm /\ \A v \in Workers : req[v].at = "idle")
Goto(w, stage) == req' = [req EXCEPT ![w].at = stage] /\ UNCHANGED <<calm, sent>>
Handle(w, stage, arg) ==
  /\ req' = [req EXCEPT ![w] = [at |-> stage, key |-> @.key, arg |-> arg]]
  /\ UNCHANGED <<calm, sent>>
Finish(w) == req' = [req EXCEPT ![w] = Idle] /\ UNCHANGED <<calm, sent>>
CountUse(p) == uses' = [uses EXCEPT ![p] = @ + 1]
CountEffect(w) == effects' = [effects EXCEPT ![req[w].key] = @ + 1] /\ UNCHANGED uses

\* require_scope({admin}) lets the request of w into a handler.
Admitted(w) ==
  /\ req[w].at = "route"
  /\ req[w].key # Legacy => key[req[w].key].scope = "admin"

(***************************************************************************)
(* Authentication.  A key with an expiry never gets through: SQLite        *)
(* returns expires_at without its zone, and the comparison raises.  The    *)
(* use is one UPDATE of last_used_at alone and one audit entry.            *)
(***************************************************************************)
\* Plausible bug: the lookup does not filter on is_active.
FindRevoked(w, k) ==
  /\ k \in handed /\ key[k].state # "none" /\ ~key[k].dated
  /\ Begin(w, "found", k)
  /\ UNCHANGED <<keyTable, books>>

Find(w, k) ==
  /\ k \in handed /\ key[k].state = "active" /\ ~key[k].dated
  /\ Begin(w, "found", k)
  /\ UNCHANGED <<keyTable, books>>

\* Plausible bug: only the first use of a key is written down.
RecordFirstUse(w) ==
  /\ req[w].at = "found"
  /\ IF uses[req[w].key] = 0 THEN CountUse(req[w].key) ELSE UNCHANGED uses
  /\ Goto(w, "route")
  /\ UNCHANGED <<keyTable, effects>>

RecordUse(w) ==
  /\ req[w].at = "found"
  /\ CountUse(req[w].key)
  /\ Goto(w, "route")
  /\ UNCHANGED <<keyTable, effects>>

UseLegacyKey(w) ==
  /\ DevKeyAllowed
  /\ Begin(w, "route", Legacy)
  /\ CountUse(Legacy)
  /\ UNCHANGED <<keyTable, effects>>

\* The scope does not suffice, the payload is refused, or the handler reads.
Answer(w) ==
  /\ req[w].at = "route"
  /\ Finish(w)
  /\ UNCHANGED <<keyTable, books>>

(***************************************************************************)
(* create_api_key commits the row, then its audit entry, and only then     *)
(* returns the raw key, which nothing stores.                              *)
(***************************************************************************)
CreateKey(w, k, scope, dated) ==
  /\ Admitted(w)
  /\ key[k].state = "none"
  /\ key' = [key EXCEPT ![k] = [state |-> "active", scope |-> scope, dated |-> dated]]
  /\ CountEffect(w)
  /\ Handle(w, "audit", [of |-> k, active |-> TRUE])
  /\ UNCHANGED <<created, handed>>

\* Plausible bug: the key is returned before its creation is audited.
HandOverFirst(w) ==
  /\ req[w].at = "audit"
  /\ handed' = handed \cup {req[w].arg.of}
  /\ Goto(w, "answer")
  /\ UNCHANGED <<key, created, books>>

AuditCreation(w) ==
  /\ req[w].at = "audit"
  /\ created' = created \cup {req[w].arg.of}
  /\ Goto(w, "answer")
  /\ UNCHANGED <<key, handed, books>>

HandOver(w) ==
  /\ req[w].at = "answer"
  /\ handed' = handed \cup {req[w].arg.of}
  /\ Finish(w)
  /\ UNCHANGED <<key, created, books>>

\* The row of the caller's own key is in its session already, as it was.
LoadRevocation(w, k) ==
  /\ Admitted(w)
  /\ key[k].state # "none"
  /\ Handle(w, "revoke",
       [of |-> k, active |-> k = req[w].key \/ key[k].state = "active"])
  /\ UNCHANGED <<keyTable, books>>

\* A key that was inactive when loaded is left alone (REVOKE_API_KEY_NOOP).
CommitRevocation(w) ==
  /\ req[w].at = "revoke"
  /\ IF req[w].arg.active
     THEN key' = [key EXCEPT ![req[w].arg.of].state = "revoked"] /\ CountEffect(w)
     ELSE UNCHANGED <<key, books>>
  /\ Finish(w)
  /\ UNCHANGED <<created, handed>>

\* A request dies between two of its pieces.
Die(w) ==
  /\ Failures
  /\ req[w].at # "idle"
  /\ Finish(w)
  /\ UNCHANGED <<keyTable, books>>

KeyStart(w) ==
  \/ \E k \in Keys : Find(w, k)
  \/ UseLegacyKey(w)

KeyStep(w) ==
  \/ RecordUse(w) \/ Answer(w)
  \/ \E k \in Keys, s \in Scopes, d \in BOOLEAN : CreateKey(w, k, s, d)
  \/ AuditCreation(w) \/ HandOver(w)
  \/ \E k \in Keys : LoadRevocation(w, k)
  \/ CommitRevocation(w)
=============================================================================
