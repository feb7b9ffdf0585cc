SPECIFICATION FairSpec

CONSTANTS
  a = a
  b = b
  Foreign = Foreign
  None = None
  Domain = {1, 2}
  Listen <- TwoListens
  Platforms = {"macos", "root"}
  Changes = {"base", "used", "listen", "docker", "config", "file", "write", "restart", "bootstrap"}
  MaxChanges = 3

INVARIANT TypeOK
INVARIANT LastingResolved
PROPERTY Converges
PROPERTY BaseHealed
