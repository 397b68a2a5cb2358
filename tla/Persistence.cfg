SPECIFICATION FairSpec
CONSTANTS
  c1 = c1  c2 = c2  c3 = c3
  k1 = k1  v1 = v1  v2 = v2
  Missing = Missing  NoCall = NoCall  Pending = Pending  Done = Done
  Failed = Failed  StopOp = StopOp  Nobody = Nobody
  Clients = {c1, c2, c3}
  Keys = {k1}
  Values = {v1, v2}
INVARIANTS TypeOK FlushedBeforeStop
PROPERTIES ImplementsStore EveryCallAnswered
