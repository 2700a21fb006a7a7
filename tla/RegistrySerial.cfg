\* One worker: the registry behaves as its atomic specification.
CONSTANTS
  Workers = {w1}
  Names = {base, pc}
  BaseName = base
  Groups = {g1, g2}
  BaseGroup = g1
  ReconnectIds = {r1, r2}
  Events = {"SERVER_CONNECT", "SERVER_DISCONNECT", "SESSION_START", "SESSION_END"}
  MaxRows = 2
  NoPc = NoPc
  NoGroup = NoGroup
SPECIFICATION Spec
PROPERTIES
  TakesEffectAtOnce
  AssignedPcKeepsItsApp
