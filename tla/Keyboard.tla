------------------------------ MODULE Keyboard ------------------------------
(***************************************************************************)
(* The keyboard of a viewer: core/input/keyboard.js, which turns browser   *)
(* key events into presses and releases, sendKey of core/rfb.js, and the   *)
(* keys the page sends by itself (app/ui.js, viewer.js).  The user's       *)
(* fingers and the browser's ways with key events are the environment.     *)
(***************************************************************************)
EXTENDS InputSession, FiniteSets, Sequences

CONSTANTS
  KeysOn      \* the physical keys used, by platform

VARIABLES
  platform,   \* "Windows" (or "Japanese", with its keys), "Mac", or "Other"
  pressed,    \* the keys under the user's fingers
  fakeCtrl,   \* AltGr is down and Windows made up a Ctrl for it
  coming,     \* the second browser event of an AltGr key: "none", "down", "up"
  focused,    \* the canvas has the focus
  armed,      \* _altGrArmed, and its timer
  ctrlButton, \* the Ctrl button of the extra keys is selected
  qemu,       \* _qemuExtKeyEventSupported
  keys,       \* what is down here, and at the server; see KeysOK
  strayed     \* codes whose release can no longer reach the canvas

keyboardVars == <<platform, pressed, fakeCtrl, coming, focused, armed, ctrlButton,
                  qemu, keys, strayed>>

IsWindows == platform \in {"Windows", "Japanese"}

Codes == (UNION {KeysOn[p] : p \in DOMAIN KeysOn}) \union {"ControlLeft"}

\* The symbols a browser may report for a code, after getKeysym.
KeysymsOf(code) ==
  CASE code = "KeyA" -> {"a", "A", "none"}
    [] code = "AltRight" -> {"Alt_R", "ISO_Level3_Shift"}
    [] code = "ControlLeft" -> {"Control_L"}
    [] code = "MetaLeft" -> {"Super_L"}
    [] code = "KanaMode" -> {"Romaji"}
    [] OTHER -> {code}

ASSUME KeysAssumption ==
  /\ DOMAIN KeysOn \subseteq {"Windows", "Japanese", "Mac", "Other"}
  /\ \A p \in DOMAIN KeysOn : IsFiniteSet(KeysOn[p])

\* down is _keyDownList; remote the <<code, keysym>> pairs the server holds;
\* apart the pairs on which the page has let the two differ.
KeysOK ==
  /\ DOMAIN keys = {"down", "remote", "apart"}
  /\ DOMAIN keys.down \subseteq Codes
  /\ \A c \in DOMAIN keys.down : keys.down[c] \in KeysymsOf(c) \union {"Alt_L", "ISO_Level3_Shift"}
  /\ \A k \in keys.remote \union keys.apart : k[1] \in Codes

IsDown(k, code) == code \in DOMAIN k.down

Dropped(f, code) == [c \in DOMAIN f \ {code} |-> f[c]]

Added(f, code, keysym) ==
  [c \in DOMAIN f \union {code} |-> IF c = code THEN keysym ELSE f[c]]

Ctrl == <<"ControlLeft", "Control_L">>

Held(k) == {<<c, k.down[c]>> : c \in DOMAIN k.down}

-----------------------------------------------------------------------------
(* sendKey *)

\* The message is sent: a null keysym needs the extended message.
Told(code, keysym) == CanSend /\ (qemu \/ keysym # "none")

SendKey(k, code, keysym, press) ==
  LET key == <<code, keysym>>
  IN  [k EXCEPT
         !.remote = IF ~ Told(code, keysym) THEN @
                    ELSE IF press THEN @ \union {key} ELSE @ \ {key},
         !.apart = IF ~ Told(code, keysym) \/ (key = Ctrl /\ ctrlButton)
                   THEN @ \union {key} ELSE @ \ {key}]

\* _sendKeyEvent
Press(k, code, keysym) ==
  SendKey([k EXCEPT !.down = Added(@, code, keysym)], code, keysym, TRUE)

Release(k, code) ==
  IF ~ IsDown(k, code) THEN k
  ELSE SendKey([k EXCEPT !.down = Dropped(@, code)], code, k.down[code], FALSE)

PressAndRelease(k, code, keysym) == Release(Press(k, code, keysym), code)

-----------------------------------------------------------------------------
(* Browser events *)

\* Alt and Command are shuffled on a Mac.
Shuffled(keysym) ==
  IF platform # "Mac" THEN keysym
  ELSE CASE keysym = "Super_L" -> "Alt_L"
         [] keysym = "Alt_R" -> "ISO_Level3_Shift"
         [] OTHER -> keysym

\* Both halves of a Windows AltGr have come in time.
IsAltGr(code, quick) == armed /\ code = "AltRight" /\ quick

\* The held back Ctrl is sent when it was a Ctrl after all.
CtrlResolved(k) == IF armed THEN Press(k, "ControlLeft", "Control_L") ELSE k

\* fault: a repeated key is sent with the symbol it has now
KeysymNow(k, code, keysym) == keysym

\* A key that is down keeps the symbol it was pressed with.
KeysymFor(k, code, keysym) == IF IsDown(k, code) THEN k.down[code] ELSE keysym

\* No release will come, or none that can be trusted.
ReleasedAtOnce(code, keysym) ==
  \/ code = "Unidentified"
  \/ platform = "Mac" /\ code = "CapsLock"
  \/ platform = "Mac" /\ "MetaLeft" \in pressed /\ code # "MetaLeft"
  \/ IsWindows /\ keysym = "Romaji"

StartsAltGr(k, code) ==
  IsWindows /\ code = "ControlLeft" /\ ~ IsDown(k, code)

\* _handleKeyDown
HandleKeyDown(code, reported, quick) ==
  LET k == IF IsAltGr(code, quick) THEN keys ELSE CtrlResolved(keys)
      keysym == KeysymFor(k, code,
                  IF IsAltGr(code, quick) THEN "ISO_Level3_Shift" ELSE Shuffled(reported))
  IN  /\ armed' = (StartsAltGr(k, code) /\ ~ ReleasedAtOnce(code, keysym))
      /\ keys' = IF ReleasedAtOnce(code, keysym) THEN PressAndRelease(k, code, keysym)
                 ELSE IF StartsAltGr(k, code) THEN k
                 ELSE Press(k, code, keysym)

Shifts == {"ShiftLeft", "ShiftRight"}

\* Windows tells of one Shift only when both are down.
ShiftsReleased(k, code) ==
  IF IsWindows /\ code \in Shifts
  THEN Release(Release(k, "ShiftRight"), "ShiftLeft")
  ELSE k

\* _handleKeyUp
HandleKeyUp(code) ==
  LET k == CtrlResolved(keys)
  IN  /\ armed' = FALSE
      /\ keys' = IF platform = "Mac" /\ code = "CapsLock"
                 THEN PressAndRelease(k, "CapsLock", "CapsLock")
                 ELSE ShiftsReleased(Release(k, code), code)

\* _handleAltGrTimeout
AltGrTimeout ==
  /\ armed
  /\ armed' = FALSE
  /\ keys' = CtrlResolved(keys)
  /\ UNCHANGED <<platform, pressed, fakeCtrl, coming, focused, ctrlButton, qemu, strayed>>

\* _allKeysUp
AllReleased(k) ==
  [down |-> <<>>,
   remote |-> k.remote \ Held(k),
   apart |-> (k.apart \ Held(k)) \union (IF ctrlButton THEN Held(k) \intersect {Ctrl} ELSE {})]

-----------------------------------------------------------------------------
(* The user's fingers: a key event reaches _handleKeyDown and _handleKeyUp *)
(* while the canvas has the focus and the keyboard is grabbed.             *)

Listening == focused /\ CanSend

Unheard == UNCHANGED <<armed, keys>>

HeldOrArmed == DOMAIN keys.down \union (IF armed THEN {"ControlLeft"} ELSE {})

\* What is up again is no longer astray.
StillAstray == strayed' = strayed \intersect HeldOrArmed'

MadeUpCtrl(code) ==
  IsWindows /\ code = "AltRight" /\ "ControlLeft" \notin pressed

PressKey(code) ==
  /\ coming = "none"
  /\ code \in KeysOn[platform] \ pressed
  /\ pressed' = pressed \union {code}
  /\ \/ /\ Listening /\ ~ MadeUpCtrl(code)
        /\ \E keysym \in KeysymsOf(code), quick \in BOOLEAN :
             HandleKeyDown(code, keysym, quick)
        /\ UNCHANGED <<coming, fakeCtrl>>
     \/ /\ Listening /\ MadeUpCtrl(code)
        /\ HandleKeyDown("ControlLeft", "Control_L", FALSE)
        /\ coming' = "down"
        /\ fakeCtrl' = TRUE
     \/ /\ ~ Listening
        /\ Unheard
        /\ UNCHANGED <<coming, fakeCtrl>>
  /\ StillAstray
  /\ UNCHANGED <<platform, focused, ctrlButton, qemu>>

\* A key that stays down is repeated.
RepeatKey(code) ==
  /\ coming = "none"
  /\ Listening
  /\ code \in pressed \intersect {"KeyA", "ControlLeft"}
  /\ \E keysym \in KeysymsOf(code) : HandleKeyDown(code, keysym, FALSE)
  /\ StillAstray
  /\ UNCHANGED <<platform, pressed, fakeCtrl, coming, focused, ctrlButton, qemu>>

\* Windows is silent about the first Shift to come up of two.
Silent(code) ==
  \/ IsWindows /\ code \in Shifts /\ (Shifts \ {code}) \subseteq pressed
  \/ IsWindows /\ code = "KanaMode"

ReleaseKey(code) ==
  /\ coming = "none"
  /\ code \in pressed
  /\ pressed' = pressed \ {code}
  /\ \/ /\ Listening /\ ~ Silent(code) /\ ~ (code = "AltRight" /\ fakeCtrl)
        /\ HandleKeyUp(code)
        /\ UNCHANGED <<coming, fakeCtrl>>
     \/ /\ Listening /\ code = "AltRight" /\ fakeCtrl
        /\ HandleKeyUp("ControlLeft")
        /\ coming' = "up"
        /\ fakeCtrl' = FALSE
     \/ /\ ~ Listening \/ Silent(code)
        /\ Unheard
        /\ fakeCtrl' = (fakeCtrl /\ code # "AltRight")
        /\ UNCHANGED coming
  /\ StillAstray
  /\ UNCHANGED <<platform, focused, ctrlButton, qemu>>

\* The AltRight event that follows a made up Ctrl.
SecondHalf ==
  /\ coming # "none"
  /\ coming' = "none"
  /\ \/ coming = "down" /\ HandleKeyDown("AltRight", "Alt_R", TRUE)
     \/ coming = "up" /\ HandleKeyUp("AltRight")
  /\ StillAstray
  /\ UNCHANGED <<platform, pressed, fakeCtrl, focused, ctrlButton, qemu>>

\* An on-screen keyboard presses a key without saying which.
UnidentifiedKey ==
  /\ platform = "Other" /\ Listening
  /\ armed' = FALSE
  /\ keys' = CtrlResolved(keys)  \* and a press and a release, which leave no trace
  /\ UNCHANGED <<platform, pressed, fakeCtrl, coming, focused, ctrlButton, qemu, strayed>>

-----------------------------------------------------------------------------
(* Focus, view-only, and the keys the page sends *)

\* The focus moves to another element of the page: nobody is told.
FocusElsewhere ==
  /\ focused /\ coming = "none"
  /\ focused' = FALSE
  /\ strayed' = HeldOrArmed
  /\ UNCHANGED <<platform, pressed, fakeCtrl, coming, armed, ctrlButton, qemu, keys>>

\* The window loses the focus; the AltGr timer is left running.
WindowBlur ==
  /\ CanSend
  /\ focused' = FALSE
  /\ coming' = "none"
  /\ keys' = AllReleased(keys)
  /\ strayed' = IF armed THEN {"ControlLeft"} ELSE {}
  /\ UNCHANGED <<platform, pressed, fakeCtrl, armed, ctrlButton, qemu>>

Focus ==
  /\ ~ focused
  /\ focused' = TRUE
  /\ UNCHANGED <<platform, pressed, fakeCtrl, coming, armed, ctrlButton, qemu, keys, strayed>>

\* ungrab() comes when sendKey already refuses: the releases are not sent.
Ungrabbed ==
  /\ coming' = "none"
  /\ keys' = [keys EXCEPT !.down = <<>>, !.apart = @ \union Held(keys)]
  /\ strayed' = IF armed THEN {"ControlLeft"} ELSE {}
  /\ UNCHANGED <<platform, pressed, fakeCtrl, focused, armed, ctrlButton, qemu>>

\* The server says it takes extended key events.
QemuExtendedKeys ==
  /\ connected /\ ~ qemu
  /\ qemu' = TRUE
  /\ UNCHANGED <<platform, pressed, fakeCtrl, coming, focused, armed, ctrlButton, keys, strayed>>

\* A release of Ctrl the keyboard knows nothing of.
CtrlReleased(button) ==
  [keys EXCEPT !.remote = @ \ {Ctrl},
               !.apart = IF Ctrl \in Held(keys) \/ button THEN @ \union {Ctrl} ELSE @ \ {Ctrl}]

\* sendCtrlAltDel, and Ctrl-V of handlePaste (viewer.js): press all, release all.
ShortcutByPage ==
  /\ CanSend
  /\ keys' = CtrlReleased(ctrlButton)
  /\ UNCHANGED <<platform, pressed, fakeCtrl, coming, focused, armed, ctrlButton, qemu, strayed>>

\* toggleCtrl; the buttons are hidden in view-only.  toggleAlt and
\* toggleWindows are its copies.
ToggleCtrl ==
  /\ CanSend
  /\ ctrlButton' = ~ ctrlButton
  /\ keys' = IF ctrlButton THEN CtrlReleased(FALSE)
             ELSE [keys EXCEPT !.remote = @ \union {Ctrl}, !.apart = @ \ {Ctrl}]
  /\ focused' = TRUE
  /\ UNCHANGED <<platform, pressed, fakeCtrl, coming, armed, qemu, strayed>>

-----------------------------------------------------------------------------
KeyboardInit ==
  /\ platform \in DOMAIN KeysOn
  /\ pressed = {}
  /\ fakeCtrl = FALSE
  /\ coming = "none"
  /\ focused = TRUE
  /\ armed = FALSE
  /\ ctrlButton = FALSE
  /\ qemu = FALSE
  /\ keys = [down |-> <<>>, remote |-> {}, apart |-> {}]
  /\ strayed = {}

KeyboardNext ==
  \/ \E code \in KeysOn[platform] : PressKey(code) \/ RepeatKey(code) \/ ReleaseKey(code)
  \/ SecondHalf \/ AltGrTimeout \/ UnidentifiedKey
  \/ FocusElsewhere \/ WindowBlur \/ Focus
  \/ QemuExtendedKeys \/ ShortcutByPage \/ ToggleCtrl

-----------------------------------------------------------------------------
(* Properties *)

KeyboardTypeOK ==
  /\ platform \in DOMAIN KeysOn
  /\ pressed \subseteq KeysOn[platform]
  /\ coming \in {"none", "down", "up"}
  /\ {fakeCtrl, focused, armed, ctrlButton, qemu} \subseteq BOOLEAN
  /\ KeysOK
  /\ strayed \subseteq Codes

\* What the page believes to be down.
Believed == Held(keys) \union (IF ctrlButton THEN {Ctrl} ELSE {})

(***************************************************************************)
(* The server holds exactly the keys the page believes are down, each with *)
(* the symbol it was pressed with ("we must use the same keysym or we'll   *)
(* confuse the server", keyboard.js), except where the page itself has     *)
(* sent or withheld an event behind the keyboard's back.                   *)
(***************************************************************************)
ServerHoldsTracked == keys.remote \ keys.apart = Believed \ keys.apart

(***************************************************************************)
(* With every finger off the keyboard no key is left down, whatever the    *)
(* platform keeps silent about, unless the focus went away under the       *)
(* fingers or under the AltGr timer.                                       *)
(***************************************************************************)
NothingStaysDown ==
  pressed = {} /\ ~ armed /\ coming = "none" => DOMAIN keys.down \subseteq strayed

(***************************************************************************)
(* A Windows AltGr key that arrives as Ctrl and Alt and was told by its    *)
(* timing is one key: its made up Ctrl is not down.                        *)
(***************************************************************************)
AltGrIsOneKey ==
  fakeCtrl /\ {Ctrl, <<"AltRight", "ISO_Level3_Shift">>} \subseteq Held(keys)
    => "ControlLeft" \in pressed \/ {"ControlLeft", "AltRight"} \intersect strayed # {}

(***************************************************************************)
(* The server's keys are the fingers' keys, through layouts, platforms and *)
(* focus.                                                                  *)
(***************************************************************************)
KeysAgree == ServerHoldsTracked /\ NothingStaysDown /\ AltGrIsOneKey
=============================================================================
