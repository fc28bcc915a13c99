\* Every exchange, once without faults and once with two.
SPECIFICATION Spec
VIEW Matters
CONSTANTS
  Exchanges = {"nonkyc", "nestex", "dextrade"}
  Jobs = {j1}
  Bounds <- CalmOrFaulty
  SoftMax = 4
INVARIANTS
  OneQuotePerSide
  LiveIsTracked
  StopIsClean
PROPERTIES
  FillsAreReal
