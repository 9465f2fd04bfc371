SPECIFICATION FairSpec
CONSTANTS
  Streams = {stdout, stderr}
  BufCapacity = 1
  MaxLines = 2
  MaxBreaks = 1
  MaxSilent = 0
PROPERTY BufferedIsNotLost
CHECK_DEADLOCK FALSE
