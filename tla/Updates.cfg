\* One session: at most one piece is unread when the server sends more.
CONSTANTS
  Pictures <- EveryEncoding
  OtherMessages <- Messages
  Sizes = {1, 2}
  MaxBacklog = 1
SPECIFICATION Spec
INVARIANTS
  TypeOK
  InStep
  PaintsInOrder
  AsksForAll
PROPERTIES
  UpdatesGoOn
CHECK_DEADLOCK FALSE
