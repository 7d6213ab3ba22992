SPECIFICATION Spec
CONSTANTS
  Manages = {m1, m2}
  Mcps = {c1}
  MaxServers = 1
INVARIANTS
  OneStandalone
PROPERTIES
  RecordKept
  CallsReturn
  IdleEnds
