CONSTANTS
  r1 = r1  r2 = r2  r3 = r3  r4 = r4  r5 = r5  r6 = r6
  p1 = p1  p2 = p2  p3 = p3
  Requests = {r1, r2, r3, r4}
  Proofs = {p1, p2, p3}
  NoProof = NoProof
  N = 2
  Amount <- UnitAmount
  ProofFor <- TwoProofsForFirst
  Seeded = {}
  AmountTotal = 2
  Deposited = 2
  Instalment <- UnitInstalment
  MaxInFlight = 4
  Failures = FALSE
  EscrowCalls = {}
  PspReports = {}
SPECIFICATION Spec
SYMMETRY Symmetry
INVARIANT OnePaymentPerMilestone
CHECK_DEADLOCK FALSE
