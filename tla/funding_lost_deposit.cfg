CONSTANTS
  w1 = w1  w2 = w2  w3 = w3  k1 = k1  k2 = k2  i1 = i1  i2 = i2
  Workers = {w1}
  Keys = {k1, k2}
  Intents = {i1}
  Amount <- Instalments
  AmountTotal = 2
  NoKey = NoKey
  Mortal = {i1}
SPECIFICATION FundingFairSpec
PROPERTY ChargedGetsDeposited

