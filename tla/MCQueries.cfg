SPECIFICATION Spec
CONSTANTS
  web = web
  Services = {web}
  Kinds <- MCKinds
  Words = {"timeout", "%"}
  Durations = {1}
  Dates = {2}
  UserConfig <- MCUser
  Projects <- MCProjects
  DayFlags = {0, 1}
  Day = 1
  CacheSize = 2
  ReplyLimit = 2
  MaxTime = 3
  MaxLines = 3
  MaxRuns = 2
INVARIANTS
  TypeOK
  LinesHaveSessions
  RecentShowsStored
  AnswersMatch
PROPERTY
  PruneKeepsRecent
CHECK_DEADLOCK FALSE
