SPECIFICATION FairSpec
CONSTANTS
  Columns = 2
  Varchars = {2}
  Top = 1
  Fill = 1
  Null = Null
  Ranges <- MCRanges
  MaxStamp = 3
INVARIANT TypeOK
INVARIANT Complete
INVARIANT Bounded
PROPERTY Ascending
PROPERTY OnlyForward
PROPERTY GetNextReturns
