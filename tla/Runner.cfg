SPECIFICATION FairRunnerSpec
CONSTANTS
  Streams = {stdout, stderr}
  BufCapacity = 1
  MaxLines = 2
  MaxBreaks = 1
  MaxSilent = 1
  PipeSize = 1
  MaxLong = 1
INVARIANTS RunnerTypeOK NothingLeftInPipes
PROPERTIES PipesDrain RunReturns
CHECK_DEADLOCK FALSE
