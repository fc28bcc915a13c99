\* The commands of a remedy may fail.
SPECIFICATION Spec
CONSTANTS
  Derived = {chainstate}
  Setups <- Situations
  MaxHeight = 0
  MaxLine = 0
  MaxDeaths = 0
  CommandsMayFail = TRUE
INVARIANTS
  ReportIsTrue
