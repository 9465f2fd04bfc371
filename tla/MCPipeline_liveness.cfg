SPECIFICATION FairSpec
CONSTANTS
  c1 = c1
  c2 = c2
  web = web
  api = api
  Conns <- MCConns
  Services = {web, api}
  ServiceOf <- TwoServices
  EventChSize = 1
  BatchSize = 2
  CacheSize = 1
  MaxLogs = 2
  Delays = {0}
  MaxStarts = 1
PROPERTIES
  AcceptedLinesSettle
  StopAwaitsClientsOnly
