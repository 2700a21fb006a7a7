\* Two workers, names, ids and deletions: what the table guarantees.
CONSTANTS
  Workers = {w1, w2}
  Names = {base}
  BaseName = base
  Groups = {g1, g2}
  BaseGroup = g1
  ReconnectIds = {r1}
  Events = {"SESSION_START"}
  MaxRows = 4
  NoPc = NoPc
  NoGroup = NoGroup
SPECIFICATION Spec
SYMMETRY Interchangeable
INVARIANTS
  TypeOK
  NamesUniqueUntilDeletion
  RegistryInv
PROPERTIES
  TableKeepsItsRows
