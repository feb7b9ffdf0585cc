SPECIFICATION Spec

CONSTANTS
  r1 = r1
  r2 = r2
  t1 = t1
  h1 = h1
  h2 = h2
  Daemon = Daemon
  Torn = Torn
  None = None
  Run <- TwoRuns
  Tool <- OneTool
  Host <- MCHost
  Claims <- MCClaims
  MaxFaults = 1

INVARIANT TypeOK
INVARIANT HostsDisjoint
INVARIANT ReturnedUnrouted
INVARIANT LeaseKept
PROPERTY PassAgrees
