\* Two workers: a connection request written over a later assignment.
CONSTANTS
  Workers = {w1, w2}
  Names = {base}
  BaseName = base
  Groups = {g1, g2}
  BaseGroup = g1
  ReconnectIds = {r1, r2}
  Events = {"SERVER_CONNECT"}
  MaxRows = 1
  NoPc = NoPc
  NoGroup = NoGroup
SPECIFICATION Spec
PROPERTIES
  AssignedPcKeepsItsApp
