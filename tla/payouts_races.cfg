CONSTANTS
  r1 = r1  r2 = r2  r3 = r3  r4 = r4  r5 = r5  r6 = r6
  p1 = p1  p2 = p2  p3 = p3
  Requests = {r1, r2, r3, r4}
  Proofs = {p1, p2, p3}
  NoProof = NoProof
  N = 2
  Amount <- UnitAmount
  ProofFor <- TwoProofsForFirst
  Seeded = {}
  AmountTotal = 2
  Deposited = 2
  Instalment <- UnitInstalment
  MaxInFlight = 3
  Failures = TRUE
  EscrowCalls = {"client_reject"}
  PspReports = {"settled", "failed"}
SPECIFICATION Spec
SYMMETRY Symmetry
INVARIANTS TypeOK PaidMilestoneHasPayment NoMilestoneSkipped
PROPERTY KeepsPromise
CHECK_DEADLOCK FALSE
