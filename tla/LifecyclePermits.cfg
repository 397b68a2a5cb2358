SPECIFICATION MCSpec
CONSTANTS
  s1 = s1  s2 = s2  s3 = s3  a = a
  None = None
  Sessions = {s1, s2, s3}
  Ids = {a}
  IdOf <- MCIdOf
  Permits = 2
PROPERTIES EveryRequestAnswered
