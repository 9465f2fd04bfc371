SPECIFICATION FairSpec
CONSTANTS
  Streams = {stdout, stderr}
  BufCapacity = 2
  MaxLines = 2
  MaxBreaks = 2
  MaxSilent = 1
INVARIANTS LinesCarryTheirSession WaitingInOrder NoCopies
PROPERTIES ImplementsAtMostOnce ReconnectEnds
CHECK_DEADLOCK FALSE
