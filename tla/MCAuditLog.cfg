SPECIFICATION LogSpec
CONSTANTS
  p1 = p1
  p2 = p2
  p3 = p3
  Appenders = {p1, p2, p3}
  MaxEvents = 4
  MaxTears = 1
SYMMETRY Symmetry
INVARIANTS ChainVerifies Recorded
