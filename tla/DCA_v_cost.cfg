\* A sweep order fills at its limit, 1.5 times the price it is recorded at.
SPECIFICATION Spec
CONSTANTS
  Ticks = {t1}
  Jobs = {j1}
  Orders = {o1, o2}
  Exchange = "nonkyc"
  Budget = 6
  Interval = 1
  EndsAt = 0
  Caps = {12}
  MinNotional = 2
  FillPrices = {2, 3}
  MaxTime = 3
  MaxBought = 40
  ListsMayFail = FALSE
  CancelsMayFail = FALSE
  RepliesMayBeLost = FALSE
  KeysMayChange = FALSE
  MaxCrashes = 0
SYMMETRY Symmetry
INVARIANTS
  CostWithinCap
