-------------------------------- MODULE Input --------------------------------
(***************************************************************************)
(* The viewer's input: a user works with one kind of device in a session   *)
(* that may be made view-only and that ends.  With a touch screen drag and *)
(* view-only mode stay as they are, with a mouse they change at any         *)
(* moment.                                                                 *)
(***************************************************************************)
EXTENDS Keyboard, Pointer, OnScreenKeyboard

VARIABLES
  device   \* "keyboard", "mouse", "touch" or "onscreen"

vars == <<device, connected, viewOnly, keyboardVars, pointerVars, fieldVars>>

Init ==
  /\ device \in {"keyboard", "mouse", "touch", "onscreen"}
  /\ connected = TRUE
  /\ viewOnly = FALSE
  /\ KeyboardInit
  /\ PointerInit
  /\ device \notin {"mouse", "touch"} => width = Screen /\ ~ clip
  /\ OnScreenInit

Session == <<device, connected, viewOnly>>

Typing ==
  /\ device = "keyboard"
  /\ KeyboardNext
  /\ UNCHANGED <<Session, pointerVars, fieldVars>>

Pointing ==
  /\ \/ device = "mouse" /\ (MouseNext \/ ViewNext)
     \/ device = "touch" /\ TouchStep
     \/ DelayedMove
  /\ UNCHANGED <<Session, keyboardVars, fieldVars>>

TouchTyping ==
  /\ device = "onscreen"
  /\ OnScreenNext
  /\ UNCHANGED <<Session, keyboardVars, pointerVars>>

\* The setter of viewOnly; only the keyboard is told.
SetViewOnly ==
  /\ connected /\ device # "touch"
  /\ viewOnly' = ~ viewOnly
  /\ IF viewOnly' THEN Ungrabbed ELSE UNCHANGED keyboardVars
  /\ UNCHANGED <<device, connected, pointerVars, fieldVars>>

\* _disconnect, with the state already "disconnecting".
Disconnect ==
  /\ connected
  /\ connected' = FALSE
  /\ Ungrabbed
  /\ UNCHANGED <<device, viewOnly, pointerVars, fieldVars>>

Next == Typing \/ Pointing \/ TouchTyping \/ SetViewOnly \/ Disconnect

Spec == Init /\ [][Next]_vars

-----------------------------------------------------------------------------
TypeOK ==
  /\ device \in {"keyboard", "mouse", "touch", "onscreen"}
  /\ {connected, viewOnly} \subseteq BOOLEAN
  /\ KeyboardTypeOK
  /\ PointerTypeOK
  /\ lastKeyboardinput \in Fields
=============================================================================
