SPECIFICATION Spec
CONSTANTS
  p1 = p1
  p2 = p2
  Procs = {p1, p2}
  Modes = {"mcp_exec"}
  Absent = Absent
  Torn = Torn
  IdleLimit = 1
  MaxLifetime = 2
  PollLimit = 1
  MaxTime = 3
  MaxUnlocks = 2
SYMMETRY Symmetry
INVARIANTS AdmissionBounded RevokedStaysDead
