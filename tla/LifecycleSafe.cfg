SPECIFICATION Spec

CONSTANTS
  p1 = p1
  p2 = p2
  p3 = p3
  c1 = c1
  c2 = c2
  None = None
  Pid <- MCPid
  Cli <- TwoCli
  Ops = {"start", "restart", "notify"}
  Managed = TRUE
  MaxFaults = 1
  Patient = FALSE

SYMMETRY Symmetric

INVARIANT TypeOK
INVARIANT SingleServer
INVARIANT ServerOwnsPidFile
INVARIANT LivePidServes
PROPERTY RestartVerified
