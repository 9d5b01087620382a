CONSTANTS
  w1 = w1  w2 = w2  root = root  fresh = fresh  r1 = r1  r2 = r2  i1 = i1
  Workers = {w1, w2}
  Keys = {root, fresh}
  Root = root
  Legacy = Legacy
  NoKey = NoKey
  NoArg = NoArg
  DevKeyAllowed = TRUE
  Failures = TRUE
  Scopes = {"admin", "sender"}
  MaxRequests = 4
  Receivers = {r1}
  NoReceiver = NoReceiver
  TransferKeys = {i1}
  Indices = {1, 2}
  Amounts = {1, 2}
  AmountTotal = 2
SPECIFICATION Spec
SYMMETRY Symmetry
CHECK_DEADLOCK FALSE
INVARIANTS TypeOK EffectsAccounted UnauditedKeyUnused CalmLevelAsAudited CalmMilestonesFit
PROPERTY RevokedStaysSilent
