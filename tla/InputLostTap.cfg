\* Two fingers, then a tap.
CONSTANTS
  KeysOn <- FewKeys
  Fingers = {f1, f2}
  Places = {here}
  Spots = {here}
  MaxWidth = 1
  Screen = 1
  Buttons = {"left"}
  Chars = {"_"}
  DefaultLen = 2
SPECIFICATION Spec
INVARIANTS
  ATapIsATap
CHECK_DEADLOCK FALSE
