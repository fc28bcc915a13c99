\* Two situations, one kill of the monitor; every command does what it should.
SPECIFICATION FairSpec
CONSTANTS
  Derived = {index, chainstate}
  Setups <- Situations
  MaxHeight = 1
  MaxLine = 0
  MaxDeaths = 1
  CommandsMayFail = FALSE
INVARIANTS
  OriginalsKept
PROPERTIES
  NoWriteUnderNode
  StartsClean
  EvidenceIsFresh
  StopIsUndone
