SPECIFICATION Spec
CONSTANTS
  Command = {c1, c2}
  Domains = {d1, d2}
  Release <- MCRelease
  Systems = {"macOS", "Linux"}
  Torn = Torn
  Gone = Gone
  MaxBegun = 3
CHECK_DEADLOCK FALSE
INVARIANTS TypeOK Truthful
PROPERTY Replaced
SYMMETRY Symmetric
