\* NonKYC and NestEx: cancels may fail, on NestEx listings too or be short; replies
\* may be lost, a crash.
SPECIFICATION Spec
CONSTANTS
  Ticks = {t1, t2}
  Jobs = {j1}
  BuyOrders = {b1, b2, b3}
  SellOrders = {}
  OpsChoices = {1, 2}
  Exchanges = {"nonkyc", "nestex"}
  ListsMayFail = {"nestex"}
  CancelsMayFail = TRUE
  RepliesMayBeLost = TRUE
  KeysMayChange = FALSE
  MaxCrashes = 1
SYMMETRY Symmetry
VIEW View
INVARIANTS
  ClosedIsGone
  LiveIsTracked
  StopIsClean
  SideLimit
