\* Mode 2, children that return: events, and entries of peers that have gone.
CONSTANTS
  MaxSessions = 1
  Codes = {1, 2}
  AllowedModes = {2}
  MinInventedCode <- NoInventedCode
  MaxFifoEvents = 2
  CleanupSeconds = 2
  Pids = {1}
  Signals = FALSE
  ForkFails = TRUE
SPECIFICATION FairSpec
INVARIANTS
  ActiveHasChild
  EventsTellTable
PROPERTIES
  GoneEntriesAreFreed
CHECK_DEADLOCK FALSE
