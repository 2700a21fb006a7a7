\* Mode 1 alone, one session at a time.
CONSTANTS
  MaxSessions = 1
  Codes = {1}
  AllowedModes = {1}
  MinInventedCode <- TwoInventedCodes
  MaxFifoEvents = 2
  CleanupSeconds = 2
  Pids = {1}
  Signals = FALSE
  ForkFails = TRUE
SPECIFICATION Spec
INVARIANTS
  TablesAgree
  ActiveHasChild
CHECK_DEADLOCK FALSE
