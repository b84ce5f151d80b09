SPECIFICATION Spec
CONSTANTS
  Columns = 1
  Varchars = {}
  Top = 1
  Fill = 0
  Null = Null
  Payloads = {p1, p2}
  p1 = p1
  p2 = p2
  FlagSets = {{}, {"kIgnorePayload"}, {"kMatchDuplicates"}, {"kMatchDuplicates", "kIgnorePayload"}}
  Threads = {t1, t2}
  t1 = t1
  t2 = t2
  None = None
  MaxStamp = 3
SYMMETRY Symmetry
INVARIANT TypeOK
PROPERTY MissesNothing
PROPERTY OthersUntouched
