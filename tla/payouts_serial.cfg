CONSTANTS
  r1 = r1  r2 = r2  r3 = r3  r4 = r4  r5 = r5  r6 = r6
  p1 = p1  p2 = p2  p3 = p3
  Requests = {r1, r2, r3, r4, r5}
  Proofs = {p1, p2, p3}
  NoProof = NoProof
  N = 2
  Amount <- UnitAmount
  ProofFor <- TwoProofsForFirst
  Seeded = {}
  AmountTotal = 2
  Deposited = 1
  Instalment <- UnitInstalment
  MaxInFlight = 1
  Failures = TRUE
  EscrowCalls = {"mark_delivered", "client_approve", "client_reject", "deposit"}
  PspReports = {"settled", "failed"}
SPECIFICATION Spec
SYMMETRY Symmetry
PROPERTIES ClosingReleases DecisionIsFinal PayoutsAffordable
CHECK_DEADLOCK FALSE
