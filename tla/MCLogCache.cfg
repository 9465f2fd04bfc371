SPECIFICATION Spec
CONSTANTS
  Procs = {p1, p2, p3}
  Services = {api, web}
  BufferSize = 2
  MaxAdds = 3
  MaxClears = 2
SYMMETRY GoroutineSymmetry
INVARIANTS TypeOK PushesReachTheMap BuffersKeepServicesApart RecentSeesFinishedAdds
PROPERTY ImplementsServiceLogs
