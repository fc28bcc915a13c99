\* NonKYC, only listings fail: overlapping scheduler ticks, stops and starts, up to two purchases.
SPECIFICATION Spec
CONSTANTS
  Ticks = {t1, t2}
  Jobs = {j1}
  Orders = {o1, o2}
  Exchange = "nonkyc"
  Budget = 6
  Interval = 2
  EndsAt = 0
  Caps = {10}
  MinNotional = 2
  FillPrices = {2}
  MaxTime = 3
  MaxBought = 40
  ListsMayFail = TRUE
  CancelsMayFail = FALSE
  RepliesMayBeLost = FALSE
  KeysMayChange = FALSE
  MaxCrashes = 0
SYMMETRY Symmetry
INVARIANTS
  OrderHasItsTick
  NothingUnrecorded
PROPERTIES
  ImplementsBuyer
