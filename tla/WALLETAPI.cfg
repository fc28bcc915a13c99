\* Reads by three requests, lookups by two, or broadcasts by three.
SPECIFICATION FairAll
CONSTANTS
  r1 = r1
  r2 = r2
  r3 = r3
  x = x
  y = y
  z = z
  Requests = {r1, r2, r3}
  Concurrency = 1
  MaxQueue = 1
  Kinds <- Mixes
  Handlers = {h1, h2}
  Permits = 1
  Rows = 2
  HandlerCalls <- Strands
  Txids = {t1, t2}
  CacheMax = 1
  Workers = {w1, w2}
  Txs = {x, y, z}
  Conflicts <- DoubleSpend
  Unfit = {z}
INVARIANTS
  TypeAll
  BothCountsExact
  BatchIsComplete
  BroadcastIsTrue
CHECK_DEADLOCK FALSE
PROPERTIES
  HandlersEnd
  ImplementsGates
