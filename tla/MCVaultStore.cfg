SPECIFICATION FairSpec
CONSTANTS
  p1 = p1
  p2 = p2
  Procs = {p1, p2}
  Aliases = {a1, a2}
  a1 = a1
  a2 = a2
  Bodies = {b1, b2}
  b1 = b1
  b2 = b2
  NoRecord = NoRecord
  MaxRecords = 2
INVARIANTS UniqueAliases EditsCurrent
PROPERTIES ImplementsMap LocksReleased
