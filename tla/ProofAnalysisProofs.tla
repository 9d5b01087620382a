------------------------ MODULE ProofAnalysisProofs ------------------------
(***************************************************************************)
(* Proofs about ProofAnalysis, for every number of threads, files and      *)
(* uploads and every age, limit and threshold.                             *)
(***************************************************************************)
EXTENDS ProofAnalysis, TLAPS

USE RulesAssumption, CircuitAssumption, AnalysisAssumption

(***************************************************************************)
(* The rules.                                                              *)
(***************************************************************************)
\* How the order of the checks in submit_proof and rules.py compares with the
\* reason codes that rules.py lists, for every upload: an approved photo has no
\* fault that they name, except that one without coordinates is approved
\* although a geofence exists (MISSING_GPS); and of the photos without a fault,
\* those beyond the radius but within the tolerance are not approved.
THEOREM VerdictAgainstReasons ==
  ASSUME NEW u \in Upload
  PROVE  /\ Unlocated(u) => Verdict(u) = "approve"
         /\ Vetted(u) => Verdict(u) = IF u.place = "margin" THEN "refuse" ELSE "approve"
         /\ Verdict(u) = "approve" => Vetted(u) \/ Unlocated(u)
<1>. u.kind \in {"photo", "document"} /\ u.metadata \in BOOLEAN /\ u.stamped \in BOOLEAN
     /\ u.age \in Int /\ u.place \in {"free", "missing", "inside", "margin", "outside"}
     /\ u.trusted \in BOOLEAN /\ u.amount \in {"none", "valid", "bad"}
  BY DEF Upload, Places
<1>. u.age <= MaxAge /\ -u.age <= FutureTolerance <=> u.age \in -FutureTolerance..MaxAge
  OBVIOUS
<1>1. Timely(u) <=> u.stamped /\ u.age \in -FutureTolerance..MaxAge
  BY DEF Timely
<1>2. Refused(u) <=> \/ u.amount = "bad"
                     \/ /\ u.kind = "photo" /\ u.metadata
                        /\ ~Timely(u) \/ u.place \in {"margin", "outside"}
  BY Zenon DEF Refused, Normalizes, OutOfGeofence
<1>3. /\ Verdict(u) = "approve" <=> ~Refused(u) /\ ~NeedsReview(u)
      /\ Verdict(u) = "refuse" <=> Refused(u)
  BY DEF Verdict
<1>4. u.kind # "document" <=> u.kind = "photo"
  OBVIOUS
<1>5. /\ u.place \in {"margin", "outside"} => u.place \notin {"free", "missing", "inside"}
      /\ u.place \in {"free", "missing", "inside"} \/ u.place \in {"margin", "outside"}
  OBVIOUS
<1>6. u.amount # "bad" <=> u.amount \in {"none", "valid"}
  OBVIOUS
<1>7. TimedAndTrusted(u) <=> /\ ~NeedsReview(u) /\ u.amount # "bad" /\ Timely(u)
  BY <1>1, <1>4, <1>6, Zenon DEF TimedAndTrusted, NeedsReview
<1>8. Verdict(u) = "approve" <=> TimedAndTrusted(u) /\ u.place \notin {"margin", "outside"}
  BY <1>2, <1>3, <1>4, <1>7, Zenon DEF NeedsReview
<1>9. TimedAndTrusted(u) /\ u.place = "margin" => Verdict(u) = "refuse"
  BY <1>2, <1>3, <1>4, <1>7, Zenon DEF NeedsReview
<1>. QED
  BY <1>5, <1>8, <1>9 DEF Vetted, Unlocated

-----------------------------------------------------------------------------
(***************************************************************************)
(* The inductive invariant: what a thread that is about to approve saw of  *)
(* its proof still holds, for a stored proof keeps its risk for good.      *)
(***************************************************************************)
ApprovesStored ==
  \A w \in Workers : req[w].at = "approve" =>
    /\ req[w].file \in Files
    /\ proof[req[w].file].status # "NONE"
    /\ proof[req[w].file].risk \in Flagged => req[w].noted

StoresFile ==
  \A w \in Workers : req[w].at \notin {"idle"} => req[w].file \in Files

UnstoredBlank ==
  \A f \in Files : proof[f].status = "NONE" => proof[f].ground = "none"

IInv ==
  /\ TypeOK /\ StoresFile /\ UnstoredBlank /\ ApprovesStored
  /\ ApprovalsGrounded /\ FlaggedApprovalExplained

LEMMA BlanksTyped == Idle \in Request /\ NoRow \in Row /\ NoUpload \in Upload
<1>. 0 \in 0..(Attempts - 1)
  OBVIOUS
<1>. QED
  BY DEF Idle, Request, NoRow, Row, NoUpload, Upload, Places

LEMMA InitIInv == Init => IInv
<1>. SUFFICES ASSUME Init PROVE IInv
  OBVIOUS
<1>1. TypeOK
  BY BlanksTyped DEF Init, CircuitInit, TypeOK
<1>. QED
  BY <1>1 DEF Init, IInv, StoresFile, UnstoredBlank, ApprovesStored, ApprovalsGrounded,
    FlaggedApprovalExplained, Idle, NoRow

\* A thread that starts gets a request, one that goes on keeps the type of it.
LEMMA RequestStep ==
  ASSUME TypeOK, StoresFile, NEW w \in Workers, Start(w) \/ Serve(w)
  PROVE  req' \in [Workers -> Request] /\ StoresFile'
<1>. USE DEF TypeOK, StoresFile
<1>. DEFINE Good(r) == r \in Request /\ (r.at # "idle" => r.file \in Files)
<1>0. Good(Idle) /\ Good(req[w])
  BY BlanksTyped DEF Idle
<1>1. ASSUME NEW r, Good(r), req' = [req EXCEPT ![w] = r]
      PROVE  req' \in [Workers -> Request] /\ StoresFile'
  BY <1>1
<1>2. ASSUME Finish(w)
      PROVE  req' \in [Workers -> Request] /\ StoresFile'
  BY <1>0, <1>1, <1>2 DEF Finish
<1>3. ASSUME NEW a \in {"advise", "call", "store"}, NEW x \in Risks \cup {"none"},
             NEW n \in 0..(Attempts - 1), req[w].at # "idle",
             req' = [req EXCEPT ![w] = [req[w] EXCEPT !.at = a, !.risk = x, !.tries = n]]
      PROVE  req' \in [Workers -> Request] /\ StoresFile'
  <2>. DEFINE r == [req[w] EXCEPT !.at = a, !.risk = x, !.tries = n]
  <2>1. Good(r)
    BY <1>0, <1>3 DEF Request
  <2>. HIDE DEF r
  <2>. QED
    BY <1>1, <1>3, <2>1 DEF r
<1>4. ASSUME NEW risk \in Risks \cup {"none"}, req[w].at # "idle", Assess(w, risk)
      PROVE  req' \in [Workers -> Request] /\ StoresFile'
  <2>1. req' = [req EXCEPT ![w] = [req[w] EXCEPT
                  !.at = "store", !.risk = risk, !.tries = req[w].tries]]
    BY <1>4, <1>0 DEF Assess, Request
  <2>. QED
    BY <1>3, <1>4, <1>0, <2>1 DEF Request
<1>5. CASE \E f \in Files, u \in Uploads : Submit(w, f, u)
  <2>1. PICK f \in Files, u \in Uploads : Submit(w, f, u)
    BY <1>5
  <2>. DEFINE r == [Idle EXCEPT !.at = IF Advised(u) THEN "advise" ELSE "store",
                                !.file = f, !.of = u]
  <2>2. Good(r)
    BY <1>0 DEF Idle, Request
  <2>3. req' = [req EXCEPT ![w] = r]
    BY <2>1 DEF Submit
  <2>. HIDE DEF r
  <2>. QED
    BY <1>1, <2>2, <2>3
<1>6. CASE \E f \in Files, noted \in BOOLEAN : LoadApproval(w, f, noted)
  <2>1. PICK f \in Files, noted \in BOOLEAN : LoadApproval(w, f, noted)
    BY <1>6
  <2>2. Good([Idle EXCEPT !.at = "approve", !.file = f, !.noted = noted])
    BY <1>0 DEF Idle, Request
  <2>. QED
    BY <1>1, <2>1, <2>2 DEF LoadApproval
<1>7. CASE \E f \in Files : LoadRejection(w, f)
  <2>1. PICK f \in Files : LoadRejection(w, f)
    BY <1>7
  <2>2. Good([Idle EXCEPT !.at = "reject", !.file = f])
    BY <1>0 DEF Idle, Request
  <2>. QED
    BY <1>1, <2>1, <2>2 DEF LoadRejection
<1>8. ASSUME NEW a \in {"advise", "call", "store"}, req[w].at # "idle",
             req' = [req EXCEPT ![w].at = a]
      PROVE  req' \in [Workers -> Request] /\ StoresFile'
  <2>1. req' = [req EXCEPT ![w] = [req[w] EXCEPT
                  !.at = a, !.risk = req[w].risk, !.tries = req[w].tries]]
    <3>1. [req[w] EXCEPT !.at = a]
            = [req[w] EXCEPT !.at = a, !.risk = req[w].risk, !.tries = req[w].tries]
      BY <1>0 DEF Request
    <3>. QED
      BY <1>8, <3>1
  <2>2. req[w].risk \in Risks \cup {"none"} /\ req[w].tries \in 0..(Attempts - 1)
    BY <1>0 DEF Request
  <2>. QED
    BY <1>3, <1>8, <2>1, <2>2
<1>9. CASE Consult(w)
  BY <1>4, <1>8, <1>9 DEF Consult, Risks
<1>10. CASE AdvisorRaises(w) \/ \E risk \in Risks : CallSucceeds(w, risk)
  BY <1>4, <1>10 DEF AdvisorRaises, CallSucceeds
<1>11. CASE CallFails(w)
  <2>1. CASE req[w].tries + 1 = Attempts
    BY <1>4, <1>11, <2>1 DEF CallFails, Risks
  <2>2. CASE req[w].tries + 1 # Attempts
    <3>1. req[w].tries + 1 \in 0..(Attempts - 1)
      BY <1>0, <2>2 DEF Request
    <3>2. req' = [req EXCEPT ![w] = [req[w] EXCEPT
                    !.at = "call", !.risk = req[w].risk, !.tries = req[w].tries + 1]]
      <4>1. req[w].at = "call" /\ req' = [req EXCEPT ![w].tries = @ + 1]
        BY <1>11, <2>2 DEF CallFails
      <4>2. [req[w] EXCEPT !.tries = req[w].tries + 1]
              = [req[w] EXCEPT !.at = "call", !.risk = req[w].risk,
                               !.tries = req[w].tries + 1]
        BY <1>0, <4>1 DEF Request
      <4>. QED
        BY <4>1, <4>2
    <3>. QED
      BY <1>3, <1>11, <1>0, <3>1, <3>2 DEF CallFails, Request
  <2>. QED
    BY <2>1, <2>2
<1>. QED
  BY <1>2, <1>5, <1>6, <1>7, <1>9, <1>10, <1>11 DEF Start, Serve, Store, RefuseToStore,
    CommitApproval, CommitRejection, RefuseApproval

-----------------------------------------------------------------------------
\* What the rules approve by themselves.
Grounds(u) == Vetted(u) \/ Unlocated(u)

\* The rows: what is stored obeys the invariant, and keeps its risk.
RowsKept ==
  \A f \in Files : proof[f].status # "NONE" =>
    proof'[f].status # "NONE" /\ proof'[f].risk = proof[f].risk

Rows == UnstoredBlank /\ ApprovalsGrounded /\ FlaggedApprovalExplained

LEMMA StoredRow ==
  ASSUME IInv, NEW w \in Workers, req[w].at # "idle"
  PROVE  /\ Stored(w) \in Row
         /\ Stored(w).status \in {"APPROVED", "PENDING"}
         /\ Stored(w).status = "APPROVED" => Grounds(Stored(w).of)
         /\ Stored(w).ground # "review"
<1>. DEFINE u == req[w].of
<1>1. req[w] \in Request
  BY DEF IInv, TypeOK
<1>2. u \in Upload /\ u \in Uploads \cup {NoUpload} /\ req[w].risk \in Risks \cup {"none"}
  BY <1>1, BlanksTyped DEF Request
<1>3. Verdict(u) = "approve" => Grounds(u)
  BY <1>2, VerdictAgainstReasons DEF Grounds
<1>. HIDE DEF u
<1>4. CASE Verdict(u) = "approve"
  <2>1. Stored(w) = [of |-> u, status |-> "APPROVED", risk |-> req[w].risk, ground |-> "rules"]
    BY <1>4 DEF Stored, u
  <2>. QED
    BY <1>2, <1>3, <1>4, <2>1 DEF Row
<1>5. CASE Verdict(u) # "approve"
  <2>1. Stored(w) = [of |-> u, status |-> "PENDING", risk |-> req[w].risk, ground |-> "none"]
    BY <1>5 DEF Stored, u
  <2>. QED
    BY <1>2, <1>5, <2>1 DEF Row
<1>. QED
  BY <1>4, <1>5

\* One row is replaced by one that obeys the invariant.
LEMMA RowReplaced ==
  ASSUME IInv, NEW f \in Files, NEW row \in Row,
         proof' = [proof EXCEPT ![f] = row],
         row.status # "NONE",
         proof[f].status # "NONE" => row.risk = proof[f].risk,
         row.status = "APPROVED" => Grounds(row.of) \/ row.ground \in {"review", "note"},
         row.ground = "review" => row.risk \notin Flagged
  PROVE  proof' \in [Files -> Row] /\ RowsKept /\ Rows'
<1>. USE DEF IInv, TypeOK
<1>1. proof' \in [Files -> Row] /\ proof'[f] = row
      /\ \A g \in Files : g # f => proof'[g] = proof[g]
  OBVIOUS
<1>2. RowsKept
  BY <1>1 DEF RowsKept
<1>3. UnstoredBlank'
  BY <1>1 DEF UnstoredBlank
<1>4. ApprovalsGrounded'
  <2>. SUFFICES ASSUME NEW g \in Files, proof'[g].status = "APPROVED"
                PROVE  Grounds(proof'[g].of) \/ proof'[g].ground \in {"review", "note"}
    BY DEF ApprovalsGrounded, Grounds
  <2>. QED
    BY <1>1 DEF ApprovalsGrounded, Grounds
<1>5. FlaggedApprovalExplained'
  BY <1>1 DEF FlaggedApprovalExplained
<1>. QED
  BY <1>1, <1>2, <1>3, <1>4, <1>5 DEF Rows

LEMMA RowsUnchanged ==
  ASSUME IInv, UNCHANGED proof
  PROVE  proof' \in [Files -> Row] /\ RowsKept /\ Rows'
<1>1. ApprovalsGrounded' /\ UnstoredBlank' /\ FlaggedApprovalExplained'
  BY DEF IInv, ApprovalsGrounded, UnstoredBlank, FlaggedApprovalExplained
<1>. QED
  BY <1>1 DEF IInv, TypeOK, RowsKept, Rows

LEMMA ProofStep ==
  ASSUME IInv, [Next]_vars
  PROVE  proof' \in [Files -> Row] /\ RowsKept /\ Rows'
<1>1. ASSUME NEW w \in Workers, Store(w)
      PROVE  proof' \in [Files -> Row] /\ RowsKept /\ Rows'
  <2>1. req[w].file \in Files /\ proof[req[w].file].status = "NONE"
        /\ proof' = [proof EXCEPT ![req[w].file] = Stored(w)] /\ req[w].at # "idle"
    BY <1>1 DEF Store, IInv, StoresFile
  <2>. QED
    BY <2>1, StoredRow, RowReplaced
<1>2. ASSUME NEW w \in Workers, CommitApproval(w)
      PROVE  proof' \in [Files -> Row] /\ RowsKept /\ Rows'
  <2>. DEFINE f == req[w].file
              g == IF req[w].noted THEN "note" ELSE "review"
              row == [proof[f] EXCEPT !.status = "APPROVED", !.ground = g]
  <2>1. f \in Files /\ proof[f] \in Row /\ req[w] \in Request
    BY <1>2 DEF CommitApproval, IInv, StoresFile, TypeOK
  <2>2. proof[f].risk \in Flagged => req[w].noted
    BY <1>2 DEF CommitApproval, IInv, ApprovesStored
  <2>3. proof' = [proof EXCEPT ![f] = row]
    BY <1>2, <2>1 DEF CommitApproval, IInv, TypeOK
  <2>4. g \in {"review", "note"} /\ (g = "review" => proof[f].risk \notin Flagged)
    BY <2>1, <2>2 DEF Request
  <2>. HIDE DEF g, f
  <2>5. row \in Row /\ row.status = "APPROVED" /\ row.ground = g /\ row.risk = proof[f].risk
    BY <2>1, <2>4 DEF Row
  <2>. QED
    BY <2>1, <2>3, <2>4, <2>5, RowReplaced
<1>3. ASSUME NEW w \in Workers, CommitRejection(w)
      PROVE  proof' \in [Files -> Row] /\ RowsKept /\ Rows'
  <2>. DEFINE f == req[w].file
              row == [proof[f] EXCEPT !.status = "REJECTED"]
  <2>1. f \in Files /\ proof[f] \in Row
    BY <1>3 DEF CommitRejection, IInv, StoresFile, TypeOK
  <2>2. proof' = [proof EXCEPT ![f] = row]
    BY <1>3, <2>1 DEF CommitRejection, IInv, TypeOK
  <2>3. proof[f].ground = "review" => proof[f].risk \notin Flagged
    BY <2>1 DEF IInv, FlaggedApprovalExplained
  <2>. HIDE DEF f
  <2>4. row \in Row /\ row.status = "REJECTED" /\ row.ground = proof[f].ground
        /\ row.risk = proof[f].risk
    BY <2>1 DEF Row
  <2>. QED
    BY <2>1, <2>2, <2>3, <2>4, RowReplaced
<1>4. CASE UNCHANGED proof
  BY <1>4, RowsUnchanged
<1>. QED
  BY <1>1, <1>2, <1>3, <1>4 DEF Next, Start, Serve, vars, Submit, LoadApproval,
    LoadRejection, Consult, AdvisorRaises, CallSucceeds, CallFails, RefuseToStore,
    RefuseApproval,
    Reconfigure, Restart

\* Whoever is about to approve read a row that keeps its risk.
LEMMA ApprovesStep ==
  ASSUME IInv, [Next]_vars
  PROVE  ApprovesStored'
<1>. SUFFICES ASSUME NEW v \in Workers, req'[v].at = "approve"
              PROVE  /\ req'[v].file \in Files
                     /\ proof'[req'[v].file].status # "NONE"
                     /\ proof'[req'[v].file].risk \in Flagged => req'[v].noted
  BY DEF ApprovesStored
<1>0. req \in [Workers -> Request] /\ Idle.at = "idle" /\ RowsKept
  BY ProofStep DEF IInv, TypeOK, Idle
<1>1. CASE req'[v] = req[v]
  BY <1>0, <1>1 DEF IInv, ApprovesStored, RowsKept
<1>2. CASE req'[v] # req[v]
  <2>1. PICK w \in Workers : Start(w) \/ Serve(w)
    <3>1. ~UNCHANGED vars /\ ~Reconfigure
      BY <1>2 DEF vars, Reconfigure
    <3>2. ~Restart
      BY <1>0 DEF Restart
    <3>. QED
      BY <3>1, <3>2 DEF Next
  <2>2. \E f \in Files, noted \in BOOLEAN : LoadApproval(v, f, noted)
    <3>1. ASSUME NEW x, req' = [req EXCEPT ![w] = x] PROVE v = w /\ req'[v] = x
      BY <1>0, <1>2, <3>1
    <3>2. ~Finish(w)
      BY <1>0, <3>1 DEF Finish
    <3>3. ASSUME NEW risk, Assess(w, risk) PROVE FALSE
      <4>1. req' = [req EXCEPT ![w] = [req[w] EXCEPT !.at = "store", !.risk = risk]]
        BY <3>3 DEF Assess
      <4>2. v = w /\ req'[v] = [req[w] EXCEPT !.at = "store", !.risk = risk]
        BY <3>1, <4>1
      <4>. QED
        BY <1>0, <4>2 DEF Request
    <3>4. ASSUME NEW f \in Files, NEW u \in Uploads, Submit(w, f, u) PROVE FALSE
      <4>. DEFINE r == [Idle EXCEPT !.at = IF Advised(u) THEN "advise" ELSE "store",
                                    !.file = f, !.of = u]
      <4>1. r.at # "approve"
        BY DEF Idle
      <4>2. req'[v] = r
        BY <3>1, <3>4 DEF Submit
      <4>. QED
        BY <4>1, <4>2
    <3>5. ASSUME NEW f \in Files, LoadRejection(w, f) PROVE FALSE
      <4>1. req'[v] = [Idle EXCEPT !.at = "reject", !.file = f]
        BY <3>1, <3>5 DEF LoadRejection
      <4>. QED
        BY <4>1 DEF Idle
    <3>6. ~Consult(w)
      <4>. SUFFICES ASSUME req' = [req EXCEPT ![w].at = "call"] PROVE FALSE
        BY <3>3 DEF Consult
      <4>1. v = w
        BY <1>0, <1>2
      <4>. QED
        BY <1>0, <4>1 DEF Request
    <3>7. ~CallFails(w)
      <4>. SUFFICES ASSUME req[w].at = "call", req' = [req EXCEPT ![w].tries = @ + 1]
                    PROVE  FALSE
        BY <3>3 DEF CallFails
      <4>1. v = w
        BY <1>0, <1>2
      <4>. QED
        BY <1>0, <4>1 DEF Request
    <3>8. ASSUME NEW f \in Files, NEW noted \in BOOLEAN, LoadApproval(w, f, noted)
          PROVE  v = w
      BY <3>1, <3>8 DEF LoadApproval
    <3>. QED
      BY <2>1, <3>2, <3>3, <3>4, <3>5, <3>6, <3>7, <3>8 DEF Start, Serve, AdvisorRaises,
        CallSucceeds, Store, RefuseToStore, CommitApproval, CommitRejection, RefuseApproval
  <2>3. PICK f \in Files, noted \in BOOLEAN : LoadApproval(v, f, noted)
    BY <2>2
  <2>4. req'[v].file = f /\ req'[v].noted = noted
    BY <1>0, <2>3 DEF LoadApproval, Idle
  <2>5. proof'[f].status # "NONE" /\ proof'[f].risk = proof[f].risk
    BY <1>0, <2>3 DEF LoadApproval, RowsKept
  <2>. QED
    BY <2>3, <2>4, <2>5 DEF LoadApproval, NoteSuffices
<1>. QED
  BY <1>1, <1>2

LEMMA OthersTyped ==
  ASSUME TypeOK, [Next]_vars
  PROVE  failures' \in Nat /\ open' \in BOOLEAN /\ ai' \in Settings
<1>. USE DEF TypeOK
<1>1. ASSUME RecordSuccess PROVE failures' \in Nat /\ open' \in BOOLEAN
  BY <1>1 DEF RecordSuccess
<1>2. ASSUME RecordFailure PROVE failures' \in Nat /\ open' \in BOOLEAN
  BY <1>2 DEF RecordFailure
<1>3. ai' \in Settings
  <2>1. CASE Reconfigure
    BY <2>1 DEF Reconfigure
  <2>2. CASE UNCHANGED ai
    BY <2>2
  <2>. QED
    BY <2>1, <2>2 DEF Next, Start, Serve, vars, Submit, LoadApproval, LoadRejection,
      Consult, AdvisorRaises, CallSucceeds, CallFails, Store, RefuseToStore,
      CommitApproval, CommitRejection, RefuseApproval, Restart
<1>4. UNCHANGED circuit \/ RecordSuccess \/ RecordFailure
  BY Zenon DEF Next, Start, Serve, vars, Submit, LoadApproval, LoadRejection,
    Consult, AdvisorRaises, CallSucceeds, CallFails, Store, RefuseToStore,
    CommitApproval, CommitRejection, RefuseApproval, Reconfigure, Restart, RecordSuccess
<1>. QED
  BY <1>1, <1>2, <1>3, <1>4 DEF circuit

LEMMA RequestsTyped ==
  ASSUME IInv, [Next]_vars
  PROVE  req' \in [Workers -> Request] /\ StoresFile'
<1>. USE DEF IInv, TypeOK
<1>1. CASE \E w \in Workers : Start(w) \/ Serve(w)
  BY <1>1, RequestStep
<1>2. CASE UNCHANGED req
  BY <1>2 DEF StoresFile
<1>3. CASE Restart
  BY <1>3, BlanksTyped DEF Restart, StoresFile, Idle
<1>. QED
  BY <1>1, <1>2, <1>3 DEF Next, vars, Reconfigure

LEMMA Inductive == IInv /\ [Next]_vars => IInv'
<1>. SUFFICES ASSUME IInv, [Next]_vars PROVE IInv'
  OBVIOUS
<1>1. TypeOK'
  BY ProofStep, OthersTyped, RequestsTyped DEF IInv, TypeOK
<1>. QED
  BY <1>1, ProofStep, RequestsTyped, ApprovesStep DEF IInv, Rows

THEOREM Invariance == Spec => []IInv
  BY InitIInv, Inductive, PTL DEF Spec

-----------------------------------------------------------------------------
(***************************************************************************)
(* Results.                                                                *)
(***************************************************************************)
\* Every variable keeps its type; no thread ever counts its attempts too far.
THEOREM TypeCorrect == Spec => []TypeOK
<1>1. IInv => TypeOK
  BY DEF IInv
<1>. QED
  BY <1>1, Invariance, PTL

\* Only a reviewer, or a photo with no fault that rules.py lists but missing
\* coordinates, has a proof approved: nothing the advisor answers or fails to
\* answer does, on whichever thread, with whichever settings.
THEOREM AdvisorNeverApproves == Spec => []ApprovalsGrounded
<1>1. IInv => ApprovalsGrounded
  BY DEF IInv
<1>. QED
  BY <1>1, Invariance, PTL

\* No overlap of decisions approves a flagged proof without a note.
THEOREM FlaggedNeedsNote == Spec => []FlaggedApprovalExplained
<1>1. IInv => FlaggedApprovalExplained
  BY DEF IInv
<1>. QED
  BY <1>1, Invariance, PTL

\* An open circuit in which no call is left: no step but a restart closes it.
THEOREM CircuitStaysOpen == Spec => SilentCircuitStaysOpen
<1>1. ASSUME TypeOK, [Next]_vars, open /\ Calls = {}
      PROVE  \/ open' /\ Calls' = {}
             \/ ~open' /\ \A w \in Workers : req'[w] = Idle
  <2>0. req \in [Workers -> Request] /\ open \in BOOLEAN
        /\ \A w \in Workers : req[w].at # "call"
    BY <1>1 DEF TypeOK, Calls
  <2>1. CASE Restart
    BY <2>0, <2>1 DEF Restart
  <2>2. CASE open' = open /\ \A w \in Workers : req'[w].at # "call"
    BY <1>1, <2>2 DEF Calls
  <2>3. CASE UNCHANGED vars \/ Reconfigure
    BY <2>0, <2>2, <2>3 DEF vars, circuit, Reconfigure
  <2>4. ASSUME NEW w \in Workers, Start(w) \/ Serve(w)
        PROVE  open' = open /\ \A v \in Workers : req'[v].at # "call"
    <3>1. ASSUME NEW r, r.at # "call", req' = [req EXCEPT ![w] = r]
          PROVE  \A v \in Workers : req'[v].at # "call"
      BY <2>0, <3>1
    <3>2. ASSUME Finish(w)
          PROVE  \A v \in Workers : req'[v].at # "call"
      BY <3>1, <3>2 DEF Finish, Idle
    <3>3. CASE \E f \in Files, u \in Uploads : Submit(w, f, u)
      <4>1. PICK f \in Files, u \in Uploads : Submit(w, f, u)
        BY <3>3
      <4>. DEFINE r == [Idle EXCEPT !.at = IF Advised(u) THEN "advise" ELSE "store",
                                    !.file = f, !.of = u]
      <4>2. r.at # "call"
        BY DEF Idle
      <4>. QED
        BY <3>1, <4>1, <4>2 DEF Submit, circuit
    <3>4. CASE \E f \in Files, noted \in BOOLEAN : LoadApproval(w, f, noted)
      <4>1. PICK f \in Files, noted \in BOOLEAN : LoadApproval(w, f, noted)
        BY <3>4
      <4>2. [Idle EXCEPT !.at = "approve", !.file = f, !.noted = noted].at # "call"
        BY DEF Idle
      <4>. QED
        BY <3>1, <4>1, <4>2 DEF LoadApproval, circuit
    <3>5. CASE \E f \in Files : LoadRejection(w, f)
      <4>1. PICK f \in Files : LoadRejection(w, f)
        BY <3>5
      <4>2. [Idle EXCEPT !.at = "reject", !.file = f].at # "call"
        BY DEF Idle
      <4>. QED
        BY <3>1, <4>1, <4>2 DEF LoadRejection, circuit
    <3>6. CASE Consult(w)
      <4>1. [req[w] EXCEPT !.at = "store", !.risk = "warning"].at # "call"
        BY <2>0 DEF Request
      <4>2. req' = [req EXCEPT ![w] = [req[w] EXCEPT !.at = "store", !.risk = "warning"]]
        BY <1>1, <3>6 DEF Consult, Assess
      <4>. QED
        BY <3>1, <3>6, <4>1, <4>2 DEF Consult, circuit
    <3>7. CASE AdvisorRaises(w)
      <4>1. [req[w] EXCEPT !.at = "store", !.risk = "none"].at # "call"
        BY <2>0 DEF Request
      <4>2. req' = [req EXCEPT ![w] = [req[w] EXCEPT !.at = "store", !.risk = "none"]]
        BY <3>7 DEF AdvisorRaises, Assess
      <4>. QED
        BY <3>1, <3>7, <4>1, <4>2 DEF AdvisorRaises, circuit
    <3>8. ~CallFails(w) /\ \A risk \in Risks : ~CallSucceeds(w, risk)
      BY <2>0 DEF CallFails, CallSucceeds
    <3>. QED
      BY <2>4, <3>2, <3>3, <3>4, <3>5, <3>6, <3>7, <3>8 DEF Start, Serve, circuit, Store,
        RefuseToStore, CommitApproval, CommitRejection, RefuseApproval
  <2>. QED
    BY <1>1, <2>1, <2>2, <2>3, <2>4 DEF Next
<1>. QED
  BY <1>1, TypeCorrect, PTL DEF Spec, SilentCircuitStaysOpen
=============================================================================
