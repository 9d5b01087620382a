CONSTANTS
  w1 = w1  w2 = w2  w3 = w3  k1 = k1  k2 = k2  k3 = k3
  shop = shop  market = market  food = food
  Workers = {w1, w2}
  Keys = {k1, k2, k3}
  NoKey = NoKey
  Price <- Prices
  Merchant <- Shops
  Merchants = {shop, market}
  Certified = {shop}
  Categories = {food}
  None = None
  CategoryOf <- ShopCategory
  Named <- Names
  M = 3
  Limit <- Limits
  OnlyMerchant <- Shop
  OnlyCategory <- Food
  MaxTime = 2
SPECIFICATION Spec
SYMMETRY Symmetry
INVARIANTS TypeOK SpentIsPurchases
PROPERTIES KeepsBudget OnlyActiveCharged ExpiredIsFinal
CHECK_DEADLOCK FALSE
