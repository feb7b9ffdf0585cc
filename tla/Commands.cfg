SPECIFICATION FairSpec
CONSTANTS
  Run = {r1}
  Command = {t1}
  Containers <- MCContainers
  Present <- MCPresent
  Invocations <- MCInvocations
  MaxSignals = 3
  MaxChanges = 2
CHECK_DEADLOCK FALSE
INVARIANTS TypeOK Meant Accounted
PROPERTIES ShutdownEnds
