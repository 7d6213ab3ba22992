SPECIFICATION KeySpec
CONSTANTS
  p1 = p1
  p2 = p2
  p3 = p3
  Calls = {p1, p2, p3}
  MaxKeys = 3
SYMMETRY Symmetry
INVARIANT SettledKey
