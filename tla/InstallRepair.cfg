SPECIFICATION Spec
CONSTANTS
  Command = {c1}
  Domains = {d1}
  Release <- MCRelease
  Systems = {"macOS"}
  Torn = Torn
  Gone = Gone
  MaxBegun = 2
CHECK_DEADLOCK FALSE
INVARIANT Supervised
