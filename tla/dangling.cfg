SPECIFICATION Spec
CONSTANTS
  Columns = 2
  Varchars = {}
  Top = 1
  Fill = 1
  Null = Null
  Ranges <- MCRanges
  MaxStamp = 2
INVARIANT ClosedWithHandle
