SPECIFICATION Spec
CONSTANTS
  IndexCount = 2
  ThreadCount = 2
  Slots = 2
  Population = 1
  Rounds = 2
  MaxOps = 1
INVARIANT TypeOK
INVARIANT KeepsItsPointers
INVARIANT OwnKeys
INVARIANT ScoreIsFinal
PROPERTY Ends
