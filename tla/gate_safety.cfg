SPECIFICATION Spec
CONSTANTS
  Threads = {t1, t2}
  Indexes = {i1}
  Txns = {p1, p2, p3, p4}
  t1 = t1
  t2 = t2
  i1 = i1
  p1 = p1
  p2 = p2
  p3 = p3
  p4 = p4
  None = None
  Quarantine = TRUE
SYMMETRY Symmetry
INVARIANT TypeOK
INVARIANT GateProtects
INVARIANT NoUnresolvedWrites
INVARIANT OnlyHoldersRefuse
INVARIANT NoCircularWait
INVARIANT KeycmpFindsStructure
PROPERTY KeepsContract
