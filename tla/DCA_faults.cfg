\* NestEx with every fault, keys that come and go, and a crash; with fairness, so without symmetry.
SPECIFICATION FairSpec
CONSTANTS
  Ticks = {t1}
  Jobs = {j1}
  Orders = {o1}
  Exchange = "nestex"
  Budget = 3
  Interval = 1
  EndsAt = 2
  Caps = {6}
  MinNotional = 2
  FillPrices = {2}
  MaxTime = 2
  MaxBought = 2
  ListsMayFail = TRUE
  CancelsMayFail = TRUE
  RepliesMayBeLost = TRUE
  KeysMayChange = TRUE
  MaxCrashes = 1
PROPERTIES
  DurationEnds
