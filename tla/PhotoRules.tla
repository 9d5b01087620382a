----------------------------- MODULE PhotoRules -----------------------------
(***************************************************************************)
(* What the backend makes of an uploaded proof before anybody looks at it: *)
(* rules.validate_photo_metadata and the part of proofs.submit_proof that  *)
(* turns its answer into a refusal, a review or an approval.               *)
(*                                                                         *)
(* Ages are in minutes, negative for a photo dated in the future.  The     *)
(* rules are called without the milestone, so their own geofence check and *)
(* its tolerance never run; submit_proof compares the distance itself, and *)
(* only when both coordinates are numbers.                                 *)
(***************************************************************************)
EXTENDS Integers

CONSTANTS
  MaxAge,          \* max_age_minutes of the call, 120
  FutureTolerance  \* future_tolerance_minutes, 2

ASSUME RulesAssumption == MaxAge \in Nat /\ FutureTolerance \in Nat

\* "free" without a geofence; "missing" with one, but without coordinates that
\* are numbers; "margin" beyond the radius, within the tolerance of rules.py.
Places == {"free", "missing", "inside", "margin", "outside"}

\* What a proof is submitted for, and what its metadata say.
Upload ==
  [kind : {"photo", "document"},               \* proof_type of the milestone
   metadata : BOOLEAN,                         \* whether there are any
   stamped : BOOLEAN,                          \* exif_timestamp parses
   age : Int,                                  \* of that timestamp
   place : Places,                             \* of its coordinates
   trusted : BOOLEAN,                          \* source is app, camera or empty
   amount : {"none", "valid", "bad"}]          \* amount and currency

-----------------------------------------------------------------------------
\* Amount and currency are normalised first, whatever the kind of proof.
Normalizes(u) == u.amount # "bad"

\* Plausible bug: photos dated in the future are accepted.
NotStale(u) == u.stamped /\ u.age <= MaxAge

Timely(u) == u.stamped /\ u.age <= MaxAge /\ -u.age <= FutureTolerance

\* A distance beyond the radius overrides every other answer of the rules;
\* without coordinates nothing is compared.
OutOfGeofence(u) == u.place \in {"margin", "outside"}

\* Reasons that end in 422: the hard ones, and all that are not known to be
\* soft.  Photos without metadata go to review before any rule is applied.
Refused(u) ==
  \/ ~Normalizes(u)
  \/ u.kind = "photo" /\ u.metadata /\ (~Timely(u) \/ OutOfGeofence(u))

\* Soft reasons, and every document, end in a review.
NeedsReview(u) ==
  u.kind = "document" \/ ~u.metadata \/ ~u.trusted

Verdict(u) ==
  IF Refused(u) THEN "refuse" ELSE IF NeedsReview(u) THEN "review" ELSE "approve"

(***************************************************************************)
(* Reference: the reason codes that the docstring of rules.py lists, which *)
(* are not what the code applies.  Vetted is a photo none of them speaks   *)
(* against, Unlocated one with no fault but MISSING_GPS, "GPS absent alors *)
(* qu'une géofence existe".                                                *)
(***************************************************************************)
TimedAndTrusted(u) ==
  /\ u.kind = "photo" /\ u.metadata /\ u.amount \in {"none", "valid"}
  /\ u.stamped /\ u.age \in -FutureTolerance..MaxAge
  /\ u.trusted

Vetted(u) == TimedAndTrusted(u) /\ u.place \in {"free", "inside", "margin"}
Unlocated(u) == TimedAndTrusted(u) /\ u.place = "missing"
=============================================================================
