\* One device a session: keys of three platforms, a mouse, a touch screen.
CONSTANTS
  KeysOn <- FewKeys
  Fingers = {f1, f2, f3}
  Places = {here, there}
  Spots = {here}
  MaxWidth = 2
  Screen = 1
  Buttons = {"left", "right"}
  Chars = {"_", "a", "b"}
  DefaultLen = 2
SPECIFICATION Spec
SYMMETRY Interchangeable
INVARIANTS
  TypeOK
  KeysAgree
  ServerTextFollows
  GesturesInOrder
  PointerAgrees
  ViewFits
CHECK_DEADLOCK FALSE
