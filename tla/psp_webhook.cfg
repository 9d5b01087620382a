CONSTANTS
  s1 = s1  s2 = s2  e1 = e1  e2 = e2  e3 = e3  id1 = id1
  p1 = p1  p2 = p2
  Servers = {s1, s2}
  Events = {e1, e2, e3}
  EventIds = {id1}
  Id <- Ids
  Kind <- Kinds
  Payments = {p1, p2}
  Ref <- Refs
  Drift = 1
  TTL = 1
  MaxFailures = 1
SPECIFICATION FairSpec
INVARIANTS TypeOK UnprocessedTookEffect
PROPERTIES KeepsInbox SettlementsTakeEffect
