SPECIFICATION Spec
CONSTANTS
  c1 = c1
  c2 = c2
  web = web
  api = api
  Conns <- MCConns
  Services = {web}
  ServiceOf <- OneService
  EventChSize = 1
  BatchSize = 2
  CacheSize = 2
  MaxLogs = 3
  Delays = {0, 2}
  MaxStarts = 2
SYMMETRY Symmetric
INVARIANTS
  TypeOK
  NoSendOnClosedChannel
  DrainedBeforeStoreCloses
  LinesKeepOrder
  CachedUntilStored
  RecentKeepsOrder
PROPERTY
  ImplementsDurableLog
