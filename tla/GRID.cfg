\* One level, a base price that is taken anew, leftovers, and one fault anywhere.
SPECIFICATION Spec
CONSTANTS
  Jobs = {j1}
  Copies = {1, 2}
  MaxUnit = 3
  Step = 1
  LevelChoices <- LevelRows
  Prices = {2}
  OldRows <- Rows
  MaxFaults = 1
INVARIANTS
  GridLimit
  OneOrderPerTick
  LiveIsTracked
  StopIsClean
