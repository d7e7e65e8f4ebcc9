SPECIFICATION FairSpec
CONSTANTS
  Line <- Lines
  KindOf <- Kind
  LenOf <- Length
  MaxLines = 5
  Block = 5
INVARIANT TypeOK
INVARIANT ParseRight
INVARIANT NeverEmpty
INVARIANT BufferFits
INVARIANT FreedAll
INVARIANT HungOnce
INVARIANT Inv
PROPERTY Terminates
