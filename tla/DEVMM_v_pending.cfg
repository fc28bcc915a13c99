SPECIFICATION FairSpec
CONSTANTS
  Exchanges = {"nestex"}
  Jobs = {j1}
  Bounds <- OneEach
  SoftMax = 4
PROPERTIES
  PendingEnds
