SPECIFICATION Spec
CONSTANTS
  w1 = w1  w2 = w2
  t1 = t1  t2 = t2  t3 = t3  s1 = s1
  NoTask = NoTask
  Workers = {w1, w2}
  Tasks = {t1, t2, t3, s1}
  Stalled = {s1}
  Capacity = 3
  InventoryFirst = TRUE
SYMMETRY MCSymmetry
INVARIANTS TypeOK NoLostWakeup OnePlace ActiveTasksExact DrainedStop LagNeedsOverflow
PROPERTY ImplementsService
