SPECIFICATION FairSpec
CONSTANTS
  Threads = {t1, t2}
  Names = {n1}
  Structures = {s1}
  Handles = {h1, h2}
  t1 = t1
  t2 = t2
  n1 = n1
  s1 = s1
  h1 = h1
  h2 = h2
  None = None
  Calls = {"create", "open", "close", "delete"}
  Throws = {"open", "close", "remove"}
PROPERTY CallsReturn
