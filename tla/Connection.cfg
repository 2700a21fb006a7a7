\* One page, any number of connections one after the other.
CONSTANTS
  Reconnect = TRUE
  DigestIsLate = FALSE
SPECIFICATION Spec
INVARIANTS
  TypeOK
  PageAgrees
PROPERTIES
  LifeSpec
  StaysAway
  WaitsEnd
CHECK_DEADLOCK FALSE
