SPECIFICATION FairSpec
CONSTANTS
  Ticks = {t1}
  Jobs = {j1}
  BuyOrders = {b1, b2}
  SellOrders = {}
  OpsChoices = {1}
  Exchanges = {"nestex"}
  ListsMayFail = {"nestex"}
  CancelsMayFail = TRUE
  RepliesMayBeLost = TRUE
  KeysMayChange = TRUE
  MaxCrashes = 1
PROPERTIES
  LockReleased
  StopDrains
