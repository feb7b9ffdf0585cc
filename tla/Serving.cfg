SPECIFICATION FairSpec
CONSTANTS
  Services <- MCServices
  Own <- dev
  Local = "local"
  HTTPPort = 80
  Ip = {"a", "b"}
  Networks <- MCNetworks
  Configs <- MCConfigs
  First <- MCFirst
  FirstStatus <- MCStatus
  Req = {r1}
  Asked <- MCAsked
  BreakAt = 1
  QuarantineAt = 2
  Changes = {"container", "health", "config", "run"}
  MaxChanges = 2
INVARIANTS TypeOK MergePrecedence WorkspacesKept SteadyAnswered
PROPERTIES Reached
