CONSTANTS
  r1 = r1  r2 = r2  r3 = r3  r4 = r4  r5 = r5  r6 = r6
  p1 = p1  p2 = p2  p3 = p3
  Requests = {r1, r2, r3, r4}
  Proofs = {p1, p2, p3}
  NoProof = NoProof
  N = 2
  Amount <- UnitAmount
  ProofFor <- TwoProofsForFirst
  Seeded = {1}
  AmountTotal = 2
  Deposited = 2
  Instalment <- UnitInstalment
  MaxInFlight = 3
  Failures = FALSE
  EscrowCalls = {"mark_delivered", "client_approve"}
  PspReports = {"settled"}
SPECIFICATION FairSpec
INVARIANT KeyTransferredAtMostOnce
PROPERTY PaidUpGetsClosed
CHECK_DEADLOCK FALSE
