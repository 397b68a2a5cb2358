SPECIFICATION Spec
CONSTANTS
  s1 = s1  s2 = s2  a = a
  None = None
  Sessions = {s1, s2}
  Ids = {a}
  IdOf <- MCIdOf
  Permits = 2
INVARIANTS TypeOK OneListener NoOrphan
PROPERTIES SavesAccumulate
