\* Mode 2 as shipped, children that return and children that are killed.
CONSTANTS
  MaxSessions = 2
  Codes = {1, 2}
  AllowedModes = {2}
  MinInventedCode <- NoInventedCode
  MaxFifoEvents = 1
  CleanupSeconds = 1
  Pids = {1, 2}
  Signals = TRUE
  ForkFails = TRUE
SPECIFICATION Spec
INVARIANTS
  TypeOK
  TablesAgree
PROPERTIES
  PairsEnds
CHECK_DEADLOCK FALSE
