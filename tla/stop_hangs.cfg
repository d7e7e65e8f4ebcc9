SPECIFICATION FairSpec
CONSTANTS
  Kb = 4
  LineLen = 3
  Sizes = {2}
  OldLines = {0}
  Half = 24
  MaxLines = 2
  MaxTime = 1
PROPERTY StopLogs
