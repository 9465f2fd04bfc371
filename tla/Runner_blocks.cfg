SPECIFICATION FairRunnerSpec
CONSTANTS
  Streams = {stdout, stderr}
  BufCapacity = 1
  MaxLines = 1
  MaxBreaks = 0
  MaxSilent = 0
  PipeSize = 1
  MaxLong = 1
PROPERTY ChildIsNeverBlocked
CHECK_DEADLOCK FALSE
