-------------------------- MODULE OnScreenKeyboard --------------------------
(***************************************************************************)
(* Typing on a touch device (keyInput of app/ui.js): a hidden text field   *)
(* takes what the on-screen keyboard writes, corrects or erases, and each  *)
(* change of the field becomes backspaces and characters for the server.   *)
(***************************************************************************)
EXTENDS InputSession, Integers, Sequences, FiniteSets, FiniteSetsExt, SequencesExt

CONSTANTS
  Chars,       \* what is typed; "_" fills the field
  DefaultLen   \* defaultKeyboardinputLen, one more than the filling

ASSUME FieldAssumption == DefaultLen \in Nat /\ DefaultLen > 1 /\ "_" \in Chars

VARIABLES
  lastKeyboardinput,  \* the field as the page knows it
  echo,               \* an editor at the server that began with the same text
  unsent              \* keys were not sent since the field was last filled: no echo

fieldVars == <<lastKeyboardinput, echo, unsent>>

Filling == [i \in 1 .. (DefaultLen - 1) |-> "_"]

\* Every text of the field up to the length at which it is filled again.
Fields == SeqOf(Chars, 2 * DefaultLen + 1)

-----------------------------------------------------------------------------
Shorter(old, new) == IF Len(old) < Len(new) THEN Len(old) ELSE Len(new)

\* fault: only lengths are compared
SameLength(old, new) == Shorter(old, new)

\* How much of the two texts is the same before the first difference.
SamePrefix(old, new) ==
  Min({i - 1 : i \in {j \in 1 .. Shorter(old, new) : old[j] # new[j]}}
        \union {Shorter(old, new)})

\* What the two loops send.
Backspaces(old, new) == Len(old) - SamePrefix(old, new)

Inputs(old, new) == SubSeq(new, SamePrefix(old, new) + 1, Len(new))

\* An editor that is sent the keys.
Edited(text, old, new) ==
  SubSeq(text, 1, Len(text) - Backspaces(old, new)) \o Inputs(old, new)

\* The field is filled again when it has grown too long or is empty.
Refilled(new) == Len(new) > 2 * DefaultLen \/ Len(new) < 1

KeyInput(new) ==
  /\ connected
  /\ lastKeyboardinput' = IF Refilled(new) THEN Filling ELSE new
  /\ echo' = IF Refilled(new) THEN Filling
             ELSE IF CanSend /\ ~ unsent THEN Edited(echo, lastKeyboardinput, new)
             ELSE <<>>
  /\ unsent' = (~ Refilled(new) /\ (unsent \/ ~ CanSend))

OnScreenInit == lastKeyboardinput = Filling /\ echo = Filling /\ unsent = FALSE

OnScreenNext == \E new \in Fields : new # lastKeyboardinput /\ KeyInput(new)

-----------------------------------------------------------------------------
(***************************************************************************)
(* Whatever the keyboard appends, erases or corrects, the server's text    *)
(* becomes the field's ("account for text-corrections or other input that  *)
(* modify existing text", ui.js), if every key could be sent.              *)
(***************************************************************************)
ServerTextFollows == unsent \/ echo = lastKeyboardinput
=============================================================================
