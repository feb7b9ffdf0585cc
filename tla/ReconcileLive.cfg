SPECIFICATION FairSpec

CONSTANTS
  h1 = h1
  h2 = h2
  a = a
  b = b
  Local = Local
  None = None
  Host <- OneHost
  Upstream <- TwoUpstreams
  Modes = {"required", "optional"}
  Capacity <- One
  Changes = {"container", "lease", "nameless", "config", "docker", "watch", "port", "health"}
  MaxChanges = 2

PROPERTY Converges
PROPERTY NoticesSuffice
PROPERTY StuckIsReported
