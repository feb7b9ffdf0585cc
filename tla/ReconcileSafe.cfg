SPECIFICATION Spec

CONSTANTS
  h1 = h1
  h2 = h2
  a = a
  b = b
  Local = Local
  None = None
  Host <- TwoHosts
  Upstream <- TwoUpstreams
  Modes = {"required"}
  Capacity <- One
  Changes = {"container", "lease", "nameless", "config", "docker", "watch", "port", "health"}
  MaxChanges = 2

SYMMETRY Symmetric

INVARIANT TypeOK
INVARIANT LastingServed
INVARIANT RoutedResolves
PROPERTY NeverWorse
