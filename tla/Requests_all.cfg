CONSTANTS
  r1 = r1
  r2 = r2
  r3 = r3
  Requests <- ThreeRequests
  Kinds <- MixedKinds
  Providers <- AllProviders
  Timeout <- TimeoutUnits
  Nobody = Nobody
  Seed = Seed
  ListLen = 2
  BulkSize = 2
  Deadline = 3
SPECIFICATION FairSpec
INVARIANTS TypeOK PoolSound OnlyListingsStall SearchDegrades PagesWhole
PROPERTIES RequestsEnd
