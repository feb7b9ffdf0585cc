SPECIFICATION FairSpec

CONSTANTS
  p1 = p1
  p2 = p2
  p3 = p3
  c1 = c1
  c2 = c2
  None = None
  Pid <- MCPid
  Cli <- OneCli
  Ops = {"start", "stop", "restart", "abort"}
  Managed = FALSE
  MaxFaults = 1
  Patient = TRUE

PROPERTY WaiterServed
PROPERTY TermEnds
PROPERTY RestartSticks
