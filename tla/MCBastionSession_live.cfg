SPECIFICATION FairSpec
CONSTANTS
  p1 = p1
  p2 = p2
  Procs = {p1, p2}
  Modes = {"tty", "browser", "mcp_exec", "server", "closed", "mcp_closed"}
  Absent = Absent
  Torn = Torn
  IdleLimit = 0
  MaxLifetime = 1
  PollLimit = 1
  MaxTime = 1
  MaxUnlocks = 1
PROPERTY CallReturns
