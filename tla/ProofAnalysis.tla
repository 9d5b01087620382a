---------------------------- MODULE ProofAnalysis ----------------------------
(***************************************************************************)
(* From an uploaded proof to a stored and reviewed one, in one process of  *)
(* the API: the photo rules, the AI advisor behind its circuit, the insert *)
(* of the proof and the review with its note (app/services/proofs.py,      *)
(* ai_proof_advisor.py, invoice_ocr.py, document_checks.py).               *)
(*                                                                         *)
(* Payouts models the milestone, the payment and the order of milestones;  *)
(* here an insert or an approval that it may refuse is a free choice.  Its *)
(* choice between "auto" and "manual" is made here.                        *)
(***************************************************************************)
EXTENDS PhotoRules, AdvisorCircuit

CONSTANTS
  Workers,   \* threads of the process
  Files,     \* proof files; their sha256 is unique in the proofs table
  NoFile,    \* no file
  Uploads,   \* what may be submitted
  Attempts,  \* calls of the provider per proof, 2
  Settings,  \* of the advisor: "off", "unusable" without a key or SDK, "on"
  Failures   \* whether the process may die

ASSUME AnalysisAssumption ==
  /\ Uploads \subseteq Upload
  /\ Attempts \in Nat \ {0}
  /\ {"off", "on"} \subseteq Settings /\ Settings \subseteq {"off", "unusable", "on"}
  /\ NoFile \notin Files
  /\ Failures \in BOOLEAN

Risks == {"clean", "warning", "suspect"}
Flagged == {"warning", "suspect"}

VARIABLES
  proof,    \* row of each file
  ai,       \* settings in force
  req       \* what each thread does

vars == <<circuit, proof, ai, req>>

\* A row: what was submitted, its status, what the advisor said of it, and
\* the ground of its last approval.
NoUpload ==
  [kind |-> "document", metadata |-> FALSE, stamped |-> FALSE, age |-> 0,
   place |-> "free", trusted |-> FALSE, amount |-> "none"]
NoRow == [of |-> NoUpload, status |-> "NONE", risk |-> "none", ground |-> "none"]
Row ==
  [of : Uploads \cup {NoUpload}, status : {"NONE", "PENDING", "APPROVED", "REJECTED"},
   risk : Risks \cup {"none"}, ground : {"none", "rules", "review", "note"}]

Idle ==
  [at |-> "idle", file |-> NoFile, of |-> NoUpload, risk |-> "none", tries |-> 0,
   noted |-> FALSE]
Request ==
  [at : {"idle", "advise", "call", "store", "approve", "reject"},
   file : Files \cup {NoFile}, of : Uploads \cup {NoUpload},
   risk : Risks \cup {"none"}, tries : 0..(Attempts - 1), noted : BOOLEAN]

TypeOK ==
  /\ failures \in Nat /\ open \in BOOLEAN
  /\ proof \in [Files -> Row]
  /\ ai \in Settings
  /\ req \in [Workers -> Request]

Init ==
  /\ CircuitInit
  /\ proof = [f \in Files |-> NoRow]
  /\ ai \in Settings
  /\ req = [w \in Workers |-> Idle]

-----------------------------------------------------------------------------
Calls == {w \in Workers : req[w].at = "call"}

Finish(w) == req' = [req EXCEPT ![w] = Idle]
\* The analysis of w ends with a risk: the advisor's, or the fallback's.
Assess(w, risk) == req' = [req EXCEPT ![w].at = "store", ![w].risk = risk]

(***************************************************************************)
(* POST /proofs.  What the rules refuse leaves no trace.  The advisor is   *)
(* asked about photos that will be approved anyway and about documents.    *)
(***************************************************************************)
Advised(u) == ai # "off" /\ (u.kind = "document" \/ Verdict(u) = "approve")

Submit(w, f, u) ==
  /\ req[w].at = "idle"
  /\ Verdict(u) # "refuse"
  /\ req' = [req EXCEPT ![w] = [Idle EXCEPT
       !.at = IF Advised(u) THEN "advise" ELSE "store", !.file = f, !.of = u]]
  /\ UNCHANGED <<circuit, proof, ai>>

(***************************************************************************)
(* call_ai_proof_advisor.  The circuit is looked at once, before the first *)
(* attempt; the settings are read again after submit_proof read them.      *)
(***************************************************************************)
\* Plausible bug: an open circuit lets a call through to try the provider.
ConsultAnyway(w) ==
  /\ req[w].at = "advise"
  /\ IF ai # "on" THEN Assess(w, "warning") ELSE req' = [req EXCEPT ![w].at = "call"]
  /\ UNCHANGED <<circuit, proof, ai>>

Consult(w) ==
  /\ req[w].at = "advise"
  /\ IF open \/ ai # "on"
     THEN Assess(w, "warning")
     ELSE req' = [req EXCEPT ![w].at = "call"]
  /\ UNCHANGED <<circuit, proof, ai>>

\* Preparing the call raises, and submit_proof goes on without an assessment.
AdvisorRaises(w) ==
  /\ req[w].at = "advise"
  /\ Assess(w, "none")
  /\ UNCHANGED <<circuit, proof, ai>>

\* The checks of a document hold its amounts as Decimal, which json.dumps
\* refuses inside the attempt: such a document never reaches the provider.
Serializable(u) == u.kind = "photo" \/ u.amount = "none"

CallSucceeds(w, risk) ==
  /\ req[w].at = "call"
  /\ Serializable(req[w].of)
  /\ RecordSuccess
  /\ Assess(w, risk)
  /\ UNCHANGED <<proof, ai>>

\* Plausible bugs: the provider is asked until it answers, or once too often.
CallAgain(w) ==
  /\ req[w].at = "call"
  /\ UNCHANGED vars

CallOnceMore(w) ==
  /\ req[w].at = "call"
  /\ RecordFailure
  /\ IF req[w].tries = Attempts
     THEN Assess(w, "warning")
     ELSE req' = [req EXCEPT ![w].tries = @ + 1]
  /\ UNCHANGED <<proof, ai>>

\* A timeout, an error of the provider, an answer that cannot be read.
CallFails(w) ==
  /\ req[w].at = "call"
  /\ RecordFailure
  /\ IF req[w].tries + 1 = Attempts
     THEN Assess(w, "warning")
     ELSE req' = [req EXCEPT ![w].tries = @ + 1]
  /\ UNCHANGED <<proof, ai>>

(***************************************************************************)
(* The insert, in one commit with the payout of an approved photo.         *)
(***************************************************************************)
Stored(w) ==
  LET u == req[w].of IN
  IF Verdict(u) = "approve"
  THEN [of |-> u, status |-> "APPROVED", risk |-> req[w].risk, ground |-> "rules"]
  ELSE [of |-> u, status |-> "PENDING", risk |-> req[w].risk, ground |-> "none"]

Store(w) ==
  /\ req[w].at = "store"
  /\ proof[req[w].file].status = "NONE"
  /\ proof' = [proof EXCEPT ![req[w].file] = Stored(w)]
  /\ Finish(w)
  /\ UNCHANGED <<circuit, ai>>

\* The sha256 is taken, or the milestone or the payout refuses.
RefuseToStore(w) ==
  /\ req[w].at = "store"
  /\ Finish(w)
  /\ UNCHANGED <<circuit, proof, ai>>

(***************************************************************************)
(* POST /proofs/{id}/decision.  The note is checked against the risk, and  *)
(* the status against the decision, on the row as it was loaded; the later *)
(* commit overwrites whatever another decision made of it.                 *)
(***************************************************************************)
\* Plausible bug: only proofs flagged as suspect ask for a note.
NoteForSuspectOnly(f, noted) == proof[f].risk = "suspect" => noted

NoteSuffices(f, noted) == proof[f].risk \in Flagged => noted

LoadApproval(w, f, noted) ==
  /\ req[w].at = "idle"
  /\ proof[f].status = "PENDING"
  /\ NoteSuffices(f, noted)
  /\ req' = [req EXCEPT ![w] = [Idle EXCEPT
               !.at = "approve", !.file = f, !.noted = noted]]
  /\ UNCHANGED <<circuit, proof, ai>>

CommitApproval(w) ==
  /\ req[w].at = "approve"
  /\ proof' = [proof EXCEPT ![req[w].file].status = "APPROVED",
                 ![req[w].file].ground = IF req[w].noted THEN "note" ELSE "review"]
  /\ Finish(w)
  /\ UNCHANGED <<circuit, ai>>

LoadRejection(w, f) ==
  /\ req[w].at = "idle"
  /\ proof[f].status = "PENDING"
  /\ req' = [req EXCEPT ![w] = [Idle EXCEPT !.at = "reject", !.file = f]]
  /\ UNCHANGED <<circuit, proof, ai>>

CommitRejection(w) ==
  /\ req[w].at = "reject"
  /\ proof' = [proof EXCEPT ![req[w].file].status = "REJECTED"]
  /\ Finish(w)
  /\ UNCHANGED <<circuit, ai>>

\* The payout refuses an approval: everything is rolled back.
RefuseApproval(w) ==
  /\ req[w].at = "approve"
  /\ Finish(w)
  /\ UNCHANGED <<circuit, proof, ai>>

-----------------------------------------------------------------------------
\* .env is read again once a minute.
Reconfigure ==
  /\ ai' \in Settings \ {ai}
  /\ UNCHANGED <<circuit, proof, req>>

\* The process is restarted: its requests and its circuit are gone.
Restart ==
  /\ Failures
  /\ failures' = 0 /\ open' = FALSE
  /\ req' = [w \in Workers |-> Idle]
  /\ UNCHANGED <<proof, ai>>

Start(w) ==
  \/ \E f \in Files, u \in Uploads : Submit(w, f, u)
  \/ \E f \in Files, noted \in BOOLEAN : LoadApproval(w, f, noted)
  \/ \E f \in Files : LoadRejection(w, f)

Serve(w) ==
  \/ Consult(w) \/ AdvisorRaises(w)
  \/ \E risk \in Risks : CallSucceeds(w, risk)
  \/ CallFails(w)
  \/ Store(w) \/ RefuseToStore(w)
  \/ CommitApproval(w) \/ CommitRejection(w) \/ RefuseApproval(w)

Next ==
  \/ \E w \in Workers : Start(w) \/ Serve(w)
  \/ Reconfigure \/ Restart

Spec == Init /\ [][Next]_vars

\* Threads are scheduled, and a call of the provider ends by its timeout; what
\* it ends with is not promised.
Fairness == \A w \in Workers : WF_vars(Serve(w))
FairSpec == Spec /\ Fairness

-----------------------------------------------------------------------------
\* "AI ... NEVER approve or reject payments yourself" (ai_proof_advisor.py):
\* whatever the advisor said or failed to say, and however its circuit and
\* settings changed, a proof is approved only because a reviewer decided so or
\* because no rule spoke against its photo but MISSING_GPS, which never does.
ApprovalsGrounded ==
  \A f \in Files : proof[f].status = "APPROVED" =>
    \/ Vetted(proof[f].of) \/ Unlocated(proof[f].of)
    \/ proof[f].ground \in {"review", "note"}

\* No review approves a proof that the advisor, or its fallback, flagged
\* without a note, however the decisions on it overlap.
FlaggedApprovalExplained ==
  \A f \in Files : proof[f].ground = "review" => proof[f].risk \notin Flagged

\* An open circuit without a call left in it spares the provider, and stays
\* open: only a restart brings the advisor back.
SilentCircuitStaysOpen ==
  [][open /\ Calls = {} =>
       \/ open' /\ Calls' = {}
       \/ ~open' /\ \A w \in Workers : req'[w] = Idle]_vars

\* "Never block the proof because of AI issues" (proofs.py): every analysis
\* ends, whatever the provider does.
AnalysisEnds ==
  \A w \in Workers : req[w].at \in {"advise", "call"} ~>
                       req[w].at \notin {"advise", "call"}
=============================================================================
