SPECIFICATION Spec
CONSTANTS
  Threads = {t1, t2}
  Names = {n1, n2}
  Structures = {s1, s2}
  Handles = {h1, h2}
  t1 = t1
  t2 = t2
  n1 = n1
  n2 = n2
  s1 = s1
  s2 = s2
  h1 = h1
  h2 = h2
  None = None
  Calls = {"create", "open", "close", "delete"}
  Throws = {"open", "close", "remove"}
SYMMETRY Symmetry
INVARIANT TypeOK
INVARIANT CatalogSound
INVARIANT NameKnownOrFree
INVARIANT OpenHandlesRegistered
INVARIANT OnlyLiveHandles
PROPERTY NeverReplaced
PROPERTY CallsAdvance
