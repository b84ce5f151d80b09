SPECIFICATION Spec
CONSTANTS
  Threads = {t1, t2}
  Indexes = {i1}
  Txns = {p1, p2, p3}
  t1 = t1
  t2 = t2
  i1 = i1
  p1 = p1
  p2 = p2
  p3 = p3
  None = None
  Quarantine = FALSE

INVARIANT NoUnresolvedWrites
