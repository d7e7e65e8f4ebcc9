SPECIFICATION Spec
CONSTANTS
  Code = {10, 13, 32, 120, 121}
  Size = 6
INVARIANT TypeOK
INVARIANT Trimmed
INVARIANT Inv
