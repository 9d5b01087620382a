CONSTANTS
  w1 = w1  w2 = w2  k1 = k1  k2 = k2  k3 = k3
  clinic = clinic  shop = shop
  Workers = {w1, w2}
  Keys = {k1, k2, k3}
  NoKey = NoKey
  Payees = {clinic, shop}
  PayeeOf <- Recipients
  Amount <- Amounts
  Daily <- DailyLimits
  Total <- TotalLimits
  Deposited = 2
  PspReports = {"settled", "failed"}
  MaxDay = 1
SPECIFICATION Spec
SYMMETRY Symmetry
INVARIANTS TypeOK CountersWithinLimits CalmCountersRight CalmNotOverdrawn
CHECK_DEADLOCK FALSE
