SPECIFICATION Spec
CONSTANTS
  Kb = 4
  LineLen = 3
  Sizes = {0, 1, 2, 5}
  OldLines = {0, 2, 8, 9}
  Half = 26
  MaxLines = 3
  MaxTime = 2
INVARIANT TypeOK
INVARIANT LogReady
INVARIANT OneWindow
INVARIANT LinesKept
INVARIANT SizeBounded
INVARIANT LogInv
