SPECIFICATION Spec
CONSTANTS
  Code = {64, 65, 90, 91, 96, 97, 122, 123}
  MaxLen = 3
  num = 2
INVARIANT TypeOK
INVARIANT SameIffFolded
INVARIANT FirstDifference
