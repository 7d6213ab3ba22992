SPECIFICATION Spec
CONSTANTS
  Lists = {"l1", "l2"}
  Clients = {"r1", "r2"}
  Editors = {"e1", "e2"}
  Cases <- MCCases
  Concurrency = 2
  MaxBastions = 2
  MaxLapses = 1
  None = None
  Empty = Empty
  Torn = Torn
INVARIANTS ItemsTrue ChildrenOwn RegistryKept
PROPERTY CallReturns
