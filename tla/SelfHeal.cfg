SPECIFICATION FairSpec

CONSTANTS
  r1 = r1
  r2 = r2
  p1 = p1
  p2 = p2
  None = None
  Routes <- TwoRoutes
  Port <- TwoPorts
  Throttle = 1
  BurstWindow = 2
  BurstLimit = 2
  Cooldown = 3
  Block = 4
  Tries = 2
  MaxQuiet = 2
  MaxChanges = 2

INVARIANT TypeOK
INVARIANT RoutesKept
PROPERTY HTTPRecovers
PROPERTY PersistentResets
