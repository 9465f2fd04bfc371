SPECIFICATION FairSpec
CONSTANTS
  Conns = {c1, c2}
  MaxFailures = 1
  MaxCrashes = 1
INVARIANTS
  TypeOK
  ViewsAgree
  IdsNameOneClient
PROPERTIES
  EndedForGood
  GoneClientsEnd
