---------------------------- MODULE KeyboardProofs ---------------------------
(***************************************************************************)
(* The keys the server holds are the keys the keyboard tracks, and those    *)
(* are the user's fingers, for every set of keys on every platform.  The    *)
(* steps are those of the keyboard; InputProofs has the theorem of Input.   *)
(***************************************************************************)
EXTENDS Keyboard, TLAPS

-----------------------------------------------------------------------------
(* One press and one release *)

IsKeys(k) == {"down", "remote", "apart"} \subseteq DOMAIN k

\* ServerHoldsTracked, of any record of keys.
Agree(k, button) ==
  \A key : key \notin k.apart =>
    (key \in k.remote <=> key \in Held(k) \/ (button /\ key = Ctrl))

LEMMA AgreeIsTracked == Agree(keys, ctrlButton) => ServerHoldsTracked
BY DEF Agree, ServerHoldsTracked, Believed

\* A key that was sent, or not, as the keyboard tracks it.
LEMMA PressSentFields ==
  ASSUME NEW k, IsKeys(k), NEW code, NEW keysym
  PROVE  LET n == SendKey(k, code, keysym, TRUE)
         IN  /\ IsKeys(n) /\ n.down = k.down
             /\ n.remote = IF Told(code, keysym) THEN k.remote \union {<<code, keysym>>}
                           ELSE k.remote
             /\ n.apart = IF ~ Told(code, keysym) \/ (<<code, keysym>> = Ctrl /\ ctrlButton)
                          THEN k.apart \union {<<code, keysym>>}
                          ELSE k.apart \ {<<code, keysym>>}
BY DEF SendKey, IsKeys

LEMMA ReleaseSentFields ==
  ASSUME NEW k, IsKeys(k), NEW code, NEW keysym
  PROVE  LET n == SendKey(k, code, keysym, FALSE)
         IN  /\ IsKeys(n) /\ n.down = k.down
             /\ n.remote = IF Told(code, keysym) THEN k.remote \ {<<code, keysym>>}
                           ELSE k.remote
             /\ n.apart = IF ~ Told(code, keysym) \/ (<<code, keysym>> = Ctrl /\ ctrlButton)
                          THEN k.apart \union {<<code, keysym>>}
                          ELSE k.apart \ {<<code, keysym>>}
BY DEF SendKey, IsKeys

\* They agree on all keys but one.
AgreeBut(k, button, but) ==
  \A key : key # but /\ key \notin k.apart =>
    (key \in k.remote <=> key \in Held(k) \/ (button /\ key = Ctrl))

LEMMA PressSentAgrees ==
  ASSUME NEW k, IsKeys(k), NEW code, NEW keysym,
         AgreeBut(k, ctrlButton, <<code, keysym>>), <<code, keysym>> \in Held(k)
  PROVE  Agree(SendKey(k, code, keysym, TRUE), ctrlButton)
<1> DEFINE n == SendKey(k, code, keysym, TRUE)
           it == <<code, keysym>>
<1>1. /\ n.down = k.down
      /\ n.remote = IF Told(code, keysym) THEN k.remote \union {it} ELSE k.remote
      /\ n.apart = IF ~ Told(code, keysym) \/ (it = Ctrl /\ ctrlButton)
                   THEN k.apart \union {it} ELSE k.apart \ {it}
  BY PressSentFields
<1>2. Held(n) = Held(k)
  BY <1>1 DEF Held
<1> HIDE DEF n, it
<1>3. ASSUME NEW key, key \notin n.apart
      PROVE  key \in n.remote <=> key \in Held(n) \/ (ctrlButton /\ key = Ctrl)
  <2>1. CASE key = it
    BY <1>1, <1>2, <1>3, <2>1 DEF it
  <2>2. CASE key # it
    BY <1>1, <1>2, <1>3, <2>2 DEF it, AgreeBut
  <2> QED
    BY <2>1, <2>2
<1> QED
  BY <1>3 DEF Agree, n

LEMMA ReleaseSentAgrees ==
  ASSUME NEW k, IsKeys(k), NEW code, NEW keysym,
         AgreeBut(k, ctrlButton, <<code, keysym>>), <<code, keysym>> \notin Held(k)
  PROVE  Agree(SendKey(k, code, keysym, FALSE), ctrlButton)
<1> DEFINE n == SendKey(k, code, keysym, FALSE)
           it == <<code, keysym>>
<1>1. /\ n.down = k.down
      /\ n.remote = IF Told(code, keysym) THEN k.remote \ {it} ELSE k.remote
      /\ n.apart = IF ~ Told(code, keysym) \/ (it = Ctrl /\ ctrlButton)
                   THEN k.apart \union {it} ELSE k.apart \ {it}
  BY ReleaseSentFields
<1>2. Held(n) = Held(k)
  BY <1>1 DEF Held
<1> HIDE DEF n, it
<1>3. ASSUME NEW key, key \notin n.apart
      PROVE  key \in n.remote <=> key \in Held(n) \/ (ctrlButton /\ key = Ctrl)
  <2>1. CASE key = it
    BY <1>1, <1>2, <1>3, <2>1 DEF it
  <2>2. CASE key # it
    BY <1>1, <1>2, <1>3, <2>2 DEF it, AgreeBut
  <2> QED
    BY <2>1, <2>2
<1> QED
  BY <1>3 DEF Agree, n

LEMMA PressKeeps ==
  ASSUME NEW k, IsKeys(k), Agree(k, ctrlButton), NEW code, NEW keysym,
         code \in DOMAIN k.down => k.down[code] = keysym
  PROVE  LET n == Press(k, code, keysym)
         IN  /\ IsKeys(n) /\ Agree(n, ctrlButton)
             /\ DOMAIN n.down = DOMAIN k.down \union {code}
             /\ n.down[code] = keysym
             /\ \A c \in DOMAIN k.down : n.down[c] = k.down[c]
<1> DEFINE down == Added(k.down, code, keysym)
           n0 == [k EXCEPT !.down = down]
           n == Press(k, code, keysym)
<1>1. /\ DOMAIN down = DOMAIN k.down \union {code}
      /\ down[code] = keysym
      /\ \A c \in DOMAIN k.down : down[c] = k.down[c]
  BY DEF Added
<1>2. n = SendKey(n0, code, keysym, TRUE)
  BY DEF Press
<1> HIDE DEF down
<1>3. IsKeys(n0) /\ n0.down = down /\ n0.remote = k.remote /\ n0.apart = k.apart
  BY DEF IsKeys
<1> HIDE DEF n0, n
<1>4. \A key : key \in Held(n0) <=> key \in Held(k) \/ key = <<code, keysym>>
  BY <1>1, <1>3 DEF Held
<1>5. Agree(n, ctrlButton)
  <2>1. AgreeBut(n0, ctrlButton, <<code, keysym>>)
    BY <1>3, <1>4 DEF Agree, AgreeBut
  <2>2. <<code, keysym>> \in Held(n0)
    BY <1>4
  <2> QED
    BY <1>2, <1>3, <2>1, <2>2, PressSentAgrees
<1>6. IsKeys(n) /\ n.down = down
  BY <1>2, <1>3, PressSentFields
<1> QED
  BY <1>1, <1>5, <1>6 DEF n

LEMMA ReleaseKeeps ==
  ASSUME NEW k, IsKeys(k), Agree(k, ctrlButton), NEW code
  PROVE  LET n == Release(k, code)
         IN  /\ IsKeys(n) /\ Agree(n, ctrlButton)
             /\ DOMAIN n.down = DOMAIN k.down \ {code}
             /\ \A c \in DOMAIN n.down : n.down[c] = k.down[c]
<1> DEFINE down == Dropped(k.down, code)
           n0 == [k EXCEPT !.down = down]
           keysym == k.down[code]
           n == Release(k, code)
<1>1. CASE code \notin DOMAIN k.down
  BY <1>1 DEF Release, IsDown
<1>2. CASE code \in DOMAIN k.down
  <2>1. DOMAIN down = DOMAIN k.down \ {code} /\ \A c \in DOMAIN down : down[c] = k.down[c]
    BY DEF Dropped
  <2>2. n = SendKey(n0, code, keysym, FALSE)
    BY <1>2 DEF Release, IsDown
  <2> HIDE DEF down
  <2>3. IsKeys(n0) /\ n0.down = down /\ n0.remote = k.remote /\ n0.apart = k.apart
    BY DEF IsKeys
  <2> HIDE DEF n0, n
  <2>4. \A key : key \in Held(n0) <=> key \in Held(k) /\ key # <<code, keysym>>
    BY <1>2, <2>1, <2>3 DEF Held
  <2>5. Agree(n, ctrlButton)
    <3>1. AgreeBut(n0, ctrlButton, <<code, keysym>>)
      BY <2>3, <2>4 DEF Agree, AgreeBut
    <3>2. <<code, keysym>> \notin Held(n0)
      BY <2>4
    <3> QED
      BY <2>2, <2>3, <3>1, <3>2, ReleaseSentAgrees
  <2>6. IsKeys(n) /\ n.down = down
    BY <2>2, <2>3, ReleaseSentFields
  <2> QED
    BY <2>1, <2>5, <2>6 DEF n
<1> QED
  BY <1>1, <1>2

LEMMA PressAndReleaseKeeps ==
  ASSUME NEW k, IsKeys(k), Agree(k, ctrlButton), NEW code, NEW keysym,
         code \in DOMAIN k.down => k.down[code] = keysym
  PROVE  LET n == PressAndRelease(k, code, keysym)
         IN  /\ IsKeys(n) /\ Agree(n, ctrlButton)
             /\ DOMAIN n.down = DOMAIN k.down \ {code}
             /\ \A c \in DOMAIN n.down : n.down[c] = k.down[c]
<1> DEFINE p == Press(k, code, keysym)
           n == Release(p, code)
<1>1. /\ IsKeys(p) /\ Agree(p, ctrlButton)
      /\ DOMAIN p.down = DOMAIN k.down \union {code}
      /\ \A c \in DOMAIN k.down : p.down[c] = k.down[c]
  BY PressKeeps
<1> HIDE DEF p
<1>2. /\ IsKeys(n) /\ Agree(n, ctrlButton)
      /\ DOMAIN n.down = DOMAIN p.down \ {code}
      /\ \A c \in DOMAIN n.down : n.down[c] = p.down[c]
  BY <1>1, ReleaseKeeps
<1>3. PressAndRelease(k, code, keysym) = n
  BY DEF PressAndRelease, p
<1> HIDE DEF n
<1> QED
  BY <1>1, <1>2, <1>3
-----------------------------------------------------------------------------
(* One browser event *)

\* The Ctrl that is held back is not down.
KeysKept ==
  /\ IsKeys(keys)
  /\ Agree(keys, ctrlButton)
  /\ armed => "ControlLeft" \notin DOMAIN keys.down

\* What k has of the keys that were down: all, and perhaps Ctrl.
Resolves(k) ==
  /\ IsKeys(k) /\ Agree(k, ctrlButton)
  /\ DOMAIN keys.down \subseteq DOMAIN k.down
  /\ DOMAIN k.down \subseteq HeldOrArmed
  /\ \A c \in DOMAIN keys.down : k.down[c] = keys.down[c]

LEMMA CtrlIsResolved == KeysKept => Resolves(CtrlResolved(keys)) /\ Resolves(keys)
<1> SUFFICES ASSUME KeysKept
             PROVE  Resolves(CtrlResolved(keys)) /\ Resolves(keys)
  OBVIOUS
<1> DEFINE p == Press(keys, "ControlLeft", "Control_L")
<1>1. Resolves(keys)
  BY DEF Resolves, KeysKept, HeldOrArmed
<1>2. armed => /\ IsKeys(p) /\ Agree(p, ctrlButton)
               /\ DOMAIN p.down = DOMAIN keys.down \union {"ControlLeft"}
               /\ \A c \in DOMAIN keys.down : p.down[c] = keys.down[c]
  BY PressKeeps DEF KeysKept
<1>3. armed => Resolves(p)
  <2> HIDE DEF p
  <2> QED
    BY <1>2 DEF Resolves, HeldOrArmed
<1> QED
  BY <1>1, <1>3 DEF CtrlResolved

\* Only the key of the event, and a Ctrl that was held back, come down.
OnlyThisKey(code) ==
  /\ IsKeys(keys') /\ Agree(keys', ctrlButton)
  /\ DOMAIN keys'.down \subseteq HeldOrArmed \union {code}
  /\ \A c \in DOMAIN keys'.down \ {code, "ControlLeft"} :
       c \in DOMAIN keys.down /\ keys'.down[c] = keys.down[c]

LEMMA KeyDownDoes ==
  ASSUME KeysKept, NEW code, NEW reported, NEW quick \in BOOLEAN,
         HandleKeyDown(code, reported, quick)
  PROVE  /\ OnlyThisKey(code)
         /\ armed' => code = "ControlLeft" /\ "ControlLeft" \notin DOMAIN keys'.down
         /\ platform = "Mac" /\ code = "CapsLock" => code \notin DOMAIN keys'.down
         /\ IsWindows /\ code = "KanaMode" /\ reported = "Romaji"
              /\ code \notin DOMAIN keys.down => code \notin DOMAIN keys'.down
         /\ armed /\ code = "AltRight" /\ quick => "ControlLeft" \notin DOMAIN keys'.down
         /\ ~ armed /\ IsWindows /\ code = "AltRight" /\ reported = "Alt_R"
              /\ code \in DOMAIN keys'.down /\ code \notin DOMAIN keys.down
              => keys'.down[code] = "Alt_R"
<1> DEFINE k == IF IsAltGr(code, quick) THEN keys ELSE CtrlResolved(keys)
           symbol == IF IsAltGr(code, quick) THEN "ISO_Level3_Shift" ELSE Shuffled(reported)
           keysym == KeysymFor(k, code, symbol)
           once == PressAndRelease(k, code, keysym)
           pressing == Press(k, code, keysym)
<1>1. Resolves(k)
  BY CtrlIsResolved
<1>2. /\ armed' = (StartsAltGr(k, code) /\ ~ ReleasedAtOnce(code, keysym))
      /\ keys' = IF ReleasedAtOnce(code, keysym) THEN once
                 ELSE IF StartsAltGr(k, code) THEN k ELSE pressing
  BY DEF HandleKeyDown
<1>3. armed /\ code = "AltRight" /\ quick => k = keys
  BY DEF IsAltGr
<1>4. ~ armed => k = keys /\ symbol = Shuffled(reported)
  BY DEF IsAltGr, CtrlResolved
<1>5. code # "AltRight" => symbol = Shuffled(reported)
  BY DEF IsAltGr
<1>6. IsWindows => Shuffled(reported) = reported
  BY DEF Shuffled, IsWindows
<1> HIDE DEF k, symbol
<1>7. code \in DOMAIN k.down => k.down[code] = keysym
  BY DEF KeysymFor, IsDown
<1>8. code \notin DOMAIN k.down => keysym = symbol
  BY DEF KeysymFor, IsDown
<1>9. IsWindows /\ code = "KanaMode" /\ reported = "Romaji" /\ code \notin DOMAIN keys.down
        => ReleasedAtOnce(code, keysym)
  <2> SUFFICES ASSUME IsWindows, code = "KanaMode", reported = "Romaji",
                      code \notin DOMAIN keys.down
               PROVE  ReleasedAtOnce(code, keysym)
    OBVIOUS
  <2>1. code \notin DOMAIN k.down
    BY <1>1 DEF Resolves, HeldOrArmed
  <2> QED
    BY <2>1, <1>5, <1>6, <1>8 DEF ReleasedAtOnce
<1> HIDE DEF keysym
<1>10. /\ IsKeys(once) /\ Agree(once, ctrlButton)
       /\ DOMAIN once.down = DOMAIN k.down \ {code}
       /\ \A c \in DOMAIN once.down : once.down[c] = k.down[c]
  BY <1>1, <1>7, PressAndReleaseKeeps DEF Resolves
<1>11. /\ IsKeys(pressing) /\ Agree(pressing, ctrlButton)
       /\ DOMAIN pressing.down = DOMAIN k.down \union {code}
       /\ pressing.down[code] = keysym
       /\ \A c \in DOMAIN k.down : pressing.down[c] = k.down[c]
  BY <1>1, <1>7, PressKeeps DEF Resolves
<1> HIDE DEF once, pressing
<1>12. \A c \in DOMAIN k.down \ {"ControlLeft"} : c \in DOMAIN keys.down /\ k.down[c] = keys.down[c]
  BY <1>1 DEF Resolves, HeldOrArmed
<1>13. OnlyThisKey(code)
  <2>1. CASE keys' = once
    BY <2>1, <1>1, <1>10, <1>12 DEF OnlyThisKey, Resolves
  <2>2. CASE keys' = k
    BY <2>2, <1>1, <1>12 DEF OnlyThisKey, Resolves
  <2>3. CASE keys' = pressing
    BY <2>3, <1>1, <1>11, <1>12 DEF OnlyThisKey, Resolves
  <2> QED
    BY <1>2, <2>1, <2>2, <2>3
<1>14. armed' => code = "ControlLeft" /\ "ControlLeft" \notin DOMAIN keys'.down
  BY <1>2 DEF StartsAltGr, IsDown
<1>15. platform = "Mac" /\ code = "CapsLock" => code \notin DOMAIN keys'.down
  BY <1>2, <1>10 DEF ReleasedAtOnce
<1>16. IsWindows /\ code = "KanaMode" /\ reported = "Romaji" /\ code \notin DOMAIN keys.down
         => code \notin DOMAIN keys'.down
  BY <1>2, <1>9, <1>10
<1>17. armed /\ code = "AltRight" /\ quick => "ControlLeft" \notin DOMAIN keys'.down
  <2> SUFFICES ASSUME armed, code = "AltRight", quick
               PROVE  "ControlLeft" \notin DOMAIN keys'.down
    OBVIOUS
  <2>1. "ControlLeft" \notin DOMAIN k.down
    BY <1>3 DEF KeysKept
  <2> QED
    BY <2>1, <1>2, <1>10, <1>11
<1>18. ~ armed /\ IsWindows /\ code = "AltRight" /\ reported = "Alt_R"
         /\ code \in DOMAIN keys'.down /\ code \notin DOMAIN keys.down
         => keys'.down[code] = "Alt_R"
  <2> SUFFICES ASSUME ~ armed, IsWindows, code = "AltRight", reported = "Alt_R",
                      code \in DOMAIN keys'.down, code \notin DOMAIN keys.down
               PROVE  keys'.down[code] = "Alt_R"
    OBVIOUS
  <2>1. code \notin DOMAIN k.down /\ keysym = "Alt_R"
    BY <1>4, <1>6, <1>8
  <2>2. keys' = pressing
    BY <2>1, <1>2, <1>10
  <2> QED
    BY <2>1, <2>2, <1>11
<1> QED
  BY <1>13, <1>14, <1>15, <1>16, <1>17, <1>18

LEMMA KeyUpDoes ==
  ASSUME KeysKept, NEW code, HandleKeyUp(code),
         platform = "Mac" => "CapsLock" \notin DOMAIN keys.down
  PROVE  /\ OnlyThisKey(code)
         /\ ~ armed'
         /\ code \notin DOMAIN keys'.down
         /\ DOMAIN keys'.down \subseteq HeldOrArmed
         /\ IsWindows /\ code \in Shifts => DOMAIN keys'.down \intersect Shifts = {}
<1> DEFINE k == CtrlResolved(keys)
           once == PressAndRelease(k, "CapsLock", "CapsLock")
           r == Release(k, code)
           s1 == Release(r, "ShiftRight")
           s2 == Release(s1, "ShiftLeft")
<1>1. Resolves(k)
  BY CtrlIsResolved
<1>2. /\ armed' = FALSE
      /\ keys' = IF platform = "Mac" /\ code = "CapsLock" THEN once
                 ELSE IF IsWindows /\ code \in Shifts THEN s2 ELSE r
  BY DEF HandleKeyUp, ShiftsReleased
<1> HIDE DEF k
<1>3. \A c \in DOMAIN k.down \ {"ControlLeft"} : c \in DOMAIN keys.down /\ k.down[c] = keys.down[c]
  BY <1>1 DEF Resolves, HeldOrArmed
<1>4. platform = "Mac" => /\ IsKeys(once) /\ Agree(once, ctrlButton)
                          /\ DOMAIN once.down = DOMAIN k.down \ {"CapsLock"}
                          /\ \A c \in DOMAIN once.down : once.down[c] = k.down[c]
  <2>1. platform = "Mac" => "CapsLock" \notin DOMAIN k.down
    BY <1>1 DEF Resolves, HeldOrArmed
  <2> QED
    BY <1>1, <2>1, PressAndReleaseKeeps DEF Resolves
<1>5. /\ IsKeys(r) /\ Agree(r, ctrlButton)
      /\ DOMAIN r.down = DOMAIN k.down \ {code}
      /\ \A c \in DOMAIN r.down : r.down[c] = k.down[c]
  BY <1>1, ReleaseKeeps DEF Resolves
<1> HIDE DEF r, once
<1>6. /\ IsKeys(s1) /\ Agree(s1, ctrlButton)
      /\ DOMAIN s1.down = DOMAIN r.down \ {"ShiftRight"}
      /\ \A c \in DOMAIN s1.down : s1.down[c] = r.down[c]
  BY <1>5, ReleaseKeeps
<1> HIDE DEF s1
<1>7. /\ IsKeys(s2) /\ Agree(s2, ctrlButton)
      /\ DOMAIN s2.down = DOMAIN s1.down \ {"ShiftLeft"}
      /\ \A c \in DOMAIN s2.down : s2.down[c] = s1.down[c]
  BY <1>6, ReleaseKeeps
<1> HIDE DEF s2
<1>8. /\ IsKeys(keys') /\ Agree(keys', ctrlButton)
      /\ DOMAIN keys'.down \subseteq DOMAIN k.down \ {code}
      /\ \A c \in DOMAIN keys'.down : keys'.down[c] = k.down[c]
      /\ IsWindows /\ code \in Shifts => DOMAIN keys'.down \intersect Shifts = {}
  <2>1. CASE platform = "Mac" /\ code = "CapsLock"
    BY <2>1, <1>2, <1>4 DEF IsWindows
  <2>2. CASE ~ (platform = "Mac" /\ code = "CapsLock") /\ IsWindows /\ code \in Shifts
    BY <2>2, <1>2, <1>5, <1>6, <1>7 DEF Shifts
  <2>3. CASE ~ (platform = "Mac" /\ code = "CapsLock") /\ ~ (IsWindows /\ code \in Shifts)
    BY <2>3, <1>2, <1>5
  <2> QED
    BY <2>1, <2>2, <2>3
<1> QED
  BY <1>1, <1>2, <1>3, <1>8 DEF OnlyThisKey, Resolves
-----------------------------------------------------------------------------
(* What the page sends by itself *)

LEMMA AllReleasedKeeps ==
  ASSUME NEW k, IsKeys(k), Agree(k, ctrlButton)
  PROVE  LET n == AllReleased(k)
         IN  IsKeys(n) /\ Agree(n, ctrlButton) /\ n.down = <<>>
<1> DEFINE n == AllReleased(k)
<1>1. /\ IsKeys(n) /\ n.down = <<>> /\ n.remote = k.remote \ Held(k)
      /\ n.apart = (k.apart \ Held(k))
                     \union (IF ctrlButton THEN Held(k) \intersect {Ctrl} ELSE {})
  BY DEF AllReleased, IsKeys
<1>2. Held(n) = {}
  BY <1>1 DEF Held
<1> HIDE DEF n
<1>3. Agree(n, ctrlButton)
  BY <1>1, <1>2 DEF Agree
<1> QED
  BY <1>1, <1>3 DEF n

LEMMA CtrlReleasedKeeps ==
  ASSUME IsKeys(keys), Agree(keys, ctrlButton), NEW button \in BOOLEAN,
         button => ctrlButton, NEW after \in BOOLEAN, after => button
  PROVE  LET n == CtrlReleased(button)
         IN  IsKeys(n) /\ Agree(n, after) /\ n.down = keys.down
<1> DEFINE n == CtrlReleased(button)
           apart == IF Ctrl \in Held(keys) \/ button
                    THEN keys.apart \union {Ctrl} ELSE keys.apart \ {Ctrl}
<1>1. IsKeys(n) /\ n.down = keys.down /\ n.remote = keys.remote \ {Ctrl} /\ n.apart = apart
  BY DEF CtrlReleased, IsKeys
<1>2. Held(n) = Held(keys)
  BY <1>1 DEF Held
<1> HIDE DEF n
<1>3. ASSUME NEW key, key \notin apart
      PROVE  key \in n.remote <=> key \in Held(n) \/ (after /\ key = Ctrl)
  <2>1. CASE key = Ctrl
    BY <1>1, <1>2, <1>3, <2>1
  <2>2. CASE key # Ctrl
    BY <1>1, <1>2, <1>3, <2>2 DEF Agree
  <2> QED
    BY <2>1, <2>2
<1> QED
  BY <1>1, <1>3 DEF Agree, n

-----------------------------------------------------------------------------
(* The fingers *)

\* Why a key may be down: a finger, a focus that was lost, the Ctrl that Windows
\* made up, the second half of an AltGr, or a Shift that comes up with the other.
Reasons ==
  pressed \union strayed
    \union (IF fakeCtrl THEN {"ControlLeft"} ELSE {})
    \union (IF coming = "up" THEN {"AltRight"} ELSE {})
    \union (IF IsWindows /\ pressed \intersect Shifts # {} THEN Shifts ELSE {})

IsAltGrDown == "AltRight" \in DOMAIN keys.down /\ keys.down["AltRight"] = "ISO_Level3_Shift"

AltGrStrayed == {"ControlLeft", "AltRight"} \intersect strayed # {}

KeyInv ==
  /\ KeysKept
  /\ ctrlButton \in BOOLEAN
  /\ IsWindows => "KanaMode" \notin DOMAIN keys.down
  /\ platform = "Mac" => "CapsLock" \notin DOMAIN keys.down
  /\ fakeCtrl => IsWindows /\ "AltRight" \in pressed
  /\ coming \in {"none", "down", "up"}
  /\ coming # "none" => Listening
  /\ coming = "down" =>
       fakeCtrl /\ ("AltRight" \in DOMAIN keys.down => "AltRight" \in strayed)
  /\ HeldOrArmed \subseteq Reasons
  /\ ~ Listening => HeldOrArmed \subseteq strayed
  /\ fakeCtrl /\ IsAltGrDown /\ "ControlLeft" \in HeldOrArmed =>
       "ControlLeft" \in pressed \/ AltGrStrayed

LEMMA KeyInvAgrees == KeyInv => KeysAgree
<1> SUFFICES ASSUME KeyInv
             PROVE  KeysAgree
  OBVIOUS
<1>1. ServerHoldsTracked
  BY AgreeIsTracked DEF KeyInv, KeysKept
<1>2. NothingStaysDown
  BY DEF NothingStaysDown, KeyInv, Reasons, HeldOrArmed
<1>3. AltGrIsOneKey
  <2>1. Ctrl \in Held(keys) => "ControlLeft" \in HeldOrArmed
    BY DEF Ctrl, Held, HeldOrArmed
  <2>2. <<"AltRight", "ISO_Level3_Shift">> \in Held(keys) => IsAltGrDown
    BY DEF Held, IsAltGrDown
  <2> QED
    BY <2>1, <2>2 DEF AltGrIsOneKey, KeyInv, AltGrStrayed
<1> QED
  BY <1>1, <1>2, <1>3 DEF KeysAgree

LEMMA KeyInvInit == KeyboardInit /\ connected /\ ~ viewOnly => KeyInv
<1> SUFFICES ASSUME KeyboardInit, connected, ~ viewOnly
             PROVE  KeyInv
  OBVIOUS
<1>1. /\ keys = [down |-> <<>>, remote |-> {}, apart |-> {}] /\ ~ armed /\ ctrlButton = FALSE
      /\ fakeCtrl = FALSE /\ coming = "none" /\ focused
  BY DEF KeyboardInit
<1>2. IsKeys(keys) /\ DOMAIN keys.down = {} /\ keys.remote = {}
  BY <1>1 DEF IsKeys
<1>3. HeldOrArmed = {} /\ Held(keys) = {}
  BY <1>1, <1>2 DEF HeldOrArmed, Held
<1>4. KeysKept
  BY <1>1, <1>2, <1>3 DEF KeysKept, Agree
<1> QED
  BY <1>1, <1>2, <1>3, <1>4 DEF KeyInv

\* What each step has in common: the session stays.
Same == UNCHANGED <<connected, viewOnly, platform>>

LEMMA ListeningSame == Same => /\ IsWindows' = IsWindows /\ CanSend' = CanSend
                               /\ focused' = focused => Listening' = Listening
BY DEF Same, IsWindows, CanSend, Listening

LEMMA StrayedStay ==
  ASSUME StillAstray
  PROVE  /\ \A c \in strayed : c \in HeldOrArmed' => c \in strayed'
         /\ strayed' \subseteq strayed
BY DEF StillAstray

LEMMA PressKeyKeeps ==
  ASSUME KeyInv, Same, NEW code, PressKey(code)
  PROVE  KeyInv'
<1>1. /\ coming = "none" /\ code \notin pressed /\ pressed' = pressed \union {code}
      /\ StillAstray /\ UNCHANGED <<platform, focused, ctrlButton>>
  BY DEF PressKey
<1>2. Listening' = Listening /\ IsWindows' = IsWindows
  BY <1>1, ListeningSame
<1>3. CASE Listening /\ ~ MadeUpCtrl(code) /\ UNCHANGED <<coming, fakeCtrl>>
             /\ \E keysym \in KeysymsOf(code), quick \in BOOLEAN :
                  HandleKeyDown(code, keysym, quick)
  <2>1. PICK keysym \in KeysymsOf(code), quick \in BOOLEAN : HandleKeyDown(code, keysym, quick)
    BY <1>3
  <2>2. /\ OnlyThisKey(code)
        /\ armed' => code = "ControlLeft" /\ "ControlLeft" \notin DOMAIN keys'.down
        /\ platform = "Mac" /\ code = "CapsLock" => code \notin DOMAIN keys'.down
        /\ IsWindows /\ code = "KanaMode" /\ keysym = "Romaji"
             /\ code \notin DOMAIN keys.down => code \notin DOMAIN keys'.down
    BY <2>1, KeyDownDoes DEF KeyInv
  <2>3. code = "KanaMode" => keysym = "Romaji"
    BY <2>1 DEF KeysymsOf
  <2>4. KeysKept' /\ ctrlButton' \in BOOLEAN
    BY <1>1, <2>2 DEF OnlyThisKey, KeysKept, KeyInv
  <2>5. /\ IsWindows' => "KanaMode" \notin DOMAIN keys'.down
        /\ platform' = "Mac" => "CapsLock" \notin DOMAIN keys'.down
    BY <1>1, <1>2, <2>2, <2>3 DEF OnlyThisKey, KeyInv, HeldOrArmed
  <2>6. fakeCtrl' => IsWindows' /\ "AltRight" \in pressed' /\ code # "AltRight"
    BY <1>1, <1>2, <1>3 DEF KeyInv
  <2>7. HeldOrArmed' \subseteq HeldOrArmed \union {code}
    BY <2>2 DEF OnlyThisKey, HeldOrArmed
  <2>8. HeldOrArmed' \subseteq Reasons'
    BY <1>1, <1>2, <1>3, <2>7, StrayedStay DEF Reasons, KeyInv
  <2>9. fakeCtrl' /\ IsAltGrDown' /\ "ControlLeft" \in HeldOrArmed' =>
          "ControlLeft" \in pressed' \/ AltGrStrayed'
    <3> SUFFICES ASSUME fakeCtrl', IsAltGrDown', "ControlLeft" \in HeldOrArmed',
                        "ControlLeft" \notin pressed'
                 PROVE  AltGrStrayed'
      OBVIOUS
    <3>1. code # "ControlLeft" /\ code # "AltRight"
      BY <1>1, <2>6
    <3>2. IsAltGrDown /\ "AltRight" \in HeldOrArmed'
      BY <2>2, <3>1 DEF OnlyThisKey, IsAltGrDown, HeldOrArmed
    <3>3. AltGrStrayed
      BY <1>1, <1>3, <2>7, <3>1, <3>2 DEF KeyInv
    <3> QED
      BY <1>1, <3>2, <3>3, StrayedStay DEF AltGrStrayed
  <2> QED
    BY <1>1, <1>2, <1>3, <2>4, <2>5, <2>6, <2>8, <2>9 DEF KeyInv
<1>4. CASE Listening /\ MadeUpCtrl(code) /\ HandleKeyDown("ControlLeft", "Control_L", FALSE)
             /\ coming' = "down" /\ fakeCtrl' = TRUE
  <2>1. /\ OnlyThisKey("ControlLeft")
        /\ armed' => "ControlLeft" \notin DOMAIN keys'.down
    BY <1>4, KeyDownDoes DEF KeyInv
  <2>2. IsWindows /\ code = "AltRight"
    BY <1>4 DEF MadeUpCtrl
  <2>3. KeysKept' /\ ctrlButton' \in BOOLEAN
    BY <1>1, <2>1 DEF OnlyThisKey, KeysKept, KeyInv
  <2>4. /\ IsWindows' => "KanaMode" \notin DOMAIN keys'.down
        /\ platform' = "Mac" => "CapsLock" \notin DOMAIN keys'.down
    BY <1>1, <1>2, <2>1 DEF OnlyThisKey, KeyInv, HeldOrArmed
  <2>5. HeldOrArmed' \subseteq HeldOrArmed \union {"ControlLeft"}
    BY <2>1 DEF OnlyThisKey, HeldOrArmed
  <2>6. HeldOrArmed' \subseteq Reasons'
    BY <1>1, <1>2, <1>4, <2>5, StrayedStay DEF Reasons, KeyInv
  <2>7. "AltRight" \in DOMAIN keys'.down => "AltRight" \in strayed'
    <3> SUFFICES ASSUME "AltRight" \in DOMAIN keys'.down
                 PROVE  "AltRight" \in strayed'
      OBVIOUS
    <3>1. "AltRight" \in HeldOrArmed' /\ "AltRight" \in HeldOrArmed
      BY <2>5 DEF HeldOrArmed
    <3>2. "AltRight" \in strayed
      BY <1>1, <2>2, <3>1 DEF KeyInv, Reasons, Shifts
    <3> QED
      BY <1>1, <3>1, <3>2, StrayedStay
  <2> QED
    BY <1>1, <1>2, <1>4, <2>2, <2>3, <2>4, <2>6, <2>7
    DEF KeyInv, IsAltGrDown, AltGrStrayed
<1>5. CASE ~ Listening /\ Unheard /\ UNCHANGED <<coming, fakeCtrl>>
  <2>1. HeldOrArmed' = HeldOrArmed /\ IsAltGrDown' = IsAltGrDown /\ KeysKept'
    BY <1>1, <1>5 DEF Unheard, HeldOrArmed, IsAltGrDown, KeyInv, KeysKept
  <2>2. HeldOrArmed' \subseteq strayed'
    BY <1>1, <1>5, <2>1, StrayedStay DEF KeyInv
  <2> QED
    BY <1>1, <1>2, <1>5, <2>1, <2>2 DEF KeyInv, Unheard, Reasons, AltGrStrayed
<1> QED
  BY <1>3, <1>4, <1>5 DEF PressKey

\* A key down, or a Ctrl resolved, that changes nothing but what is down: code is
\* a key the fingers already account for.
LEMMA DownKeeps ==
  ASSUME KeyInv, Same, StillAstray, NEW code, OnlyThisKey(code),
         code \in DOMAIN keys'.down => code \in pressed,
         UNCHANGED <<pressed, focused, ctrlButton, fakeCtrl>>,
         Listening,
         coming' = coming \/ (coming' = "none" /\ coming = "down"),
         armed' => code = "ControlLeft" /\ code \in pressed /\ "ControlLeft" \notin DOMAIN keys'.down,
         platform = "Mac" => "CapsLock" \notin DOMAIN keys'.down,
         IsWindows => "KanaMode" \notin DOMAIN keys'.down,
         coming' = "down" => code # "AltRight",
         fakeCtrl /\ code = "AltRight" /\ IsAltGrDown' /\ "ControlLeft" \in HeldOrArmed'
           => AltGrStrayed'
  PROVE  KeyInv'
<1>1. Listening' = Listening /\ IsWindows' = IsWindows
  BY ListeningSame
<1>2. KeysKept' /\ ctrlButton' \in BOOLEAN
  BY DEF OnlyThisKey, KeysKept, KeyInv
<1>3. HeldOrArmed' \subseteq HeldOrArmed \union (IF code \in pressed THEN {code} ELSE {})
  BY DEF OnlyThisKey, HeldOrArmed
<1>4. HeldOrArmed' \subseteq Reasons'
  BY <1>1, <1>3, StrayedStay DEF Reasons, KeyInv
<1>5. coming' = "down" => ("AltRight" \in DOMAIN keys'.down => "AltRight" \in strayed')
  BY StrayedStay DEF OnlyThisKey, HeldOrArmed, KeyInv
<1>6. fakeCtrl' /\ IsAltGrDown' /\ "ControlLeft" \in HeldOrArmed' =>
        "ControlLeft" \in pressed' \/ AltGrStrayed'
  <2> SUFFICES ASSUME fakeCtrl', IsAltGrDown', "ControlLeft" \in HeldOrArmed',
                      "ControlLeft" \notin pressed', code # "AltRight"
               PROVE  AltGrStrayed'
    OBVIOUS
  <2>1. IsAltGrDown /\ "AltRight" \in HeldOrArmed'
    BY DEF OnlyThisKey, IsAltGrDown, HeldOrArmed
  <2>2. AltGrStrayed
    BY <1>3, <2>1 DEF KeyInv
  <2> QED
    BY <2>1, <2>2, StrayedStay DEF AltGrStrayed
<1>7. /\ fakeCtrl' => IsWindows' /\ "AltRight" \in pressed'
      /\ coming' \in {"none", "down", "up"}
      /\ coming' # "none" => Listening'
      /\ coming' = "down" => fakeCtrl'
      /\ Listening'
  BY <1>1 DEF KeyInv
<1>8. /\ IsWindows' => "KanaMode" \notin DOMAIN keys'.down
      /\ platform' = "Mac" => "CapsLock" \notin DOMAIN keys'.down
  BY <1>1 DEF Same
<1> QED
  BY <1>2, <1>4, <1>5, <1>6, <1>7, <1>8 DEF KeyInv

LEMMA RepeatKeyKeeps ==
  ASSUME KeyInv, Same, NEW code, RepeatKey(code)
  PROVE  KeyInv'
<1>1. /\ coming = "none" /\ Listening /\ code \in pressed /\ code \in {"KeyA", "ControlLeft"}
      /\ StillAstray /\ UNCHANGED <<pressed, focused, ctrlButton, fakeCtrl, coming>>
  BY DEF RepeatKey
<1>2. PICK keysym \in KeysymsOf(code) : HandleKeyDown(code, keysym, FALSE)
  BY DEF RepeatKey
<1>3. /\ OnlyThisKey(code)
      /\ armed' => code = "ControlLeft" /\ "ControlLeft" \notin DOMAIN keys'.down
  BY <1>2, KeyDownDoes DEF KeyInv
<1>4. /\ platform = "Mac" => "CapsLock" \notin DOMAIN keys'.down
      /\ IsWindows => "KanaMode" \notin DOMAIN keys'.down
  BY <1>1, <1>3 DEF OnlyThisKey, KeyInv, HeldOrArmed
<1>5. code # "AltRight"
  BY <1>1
<1>6. /\ code \in DOMAIN keys'.down => code \in pressed
      /\ coming' = coming \/ (coming' = "none" /\ coming = "down")
      /\ armed' => code = "ControlLeft" /\ code \in pressed /\ "ControlLeft" \notin DOMAIN keys'.down
      /\ coming' = "down" => code # "AltRight"
      /\ fakeCtrl /\ code = "AltRight" /\ IsAltGrDown' /\ "ControlLeft" \in HeldOrArmed'
           => AltGrStrayed'
  BY <1>1, <1>3, <1>5
<1> QED
  BY <1>1, <1>3, <1>4, <1>6, DownKeeps

LEMMA ReleaseKeyKeeps ==
  ASSUME KeyInv, Same, NEW code, ReleaseKey(code)
  PROVE  KeyInv'
<1>1. /\ coming = "none" /\ code \in pressed /\ pressed' = pressed \ {code}
      /\ StillAstray /\ UNCHANGED <<platform, focused, ctrlButton>>
  BY DEF ReleaseKey
<1>2. Listening' = Listening /\ IsWindows' = IsWindows
  BY <1>1, ListeningSame
<1>3. CASE Listening /\ ~ Silent(code) /\ ~ (code = "AltRight" /\ fakeCtrl)
             /\ HandleKeyUp(code) /\ UNCHANGED <<coming, fakeCtrl>>
  <2>1. /\ OnlyThisKey(code) /\ ~ armed' /\ code \notin DOMAIN keys'.down
        /\ DOMAIN keys'.down \subseteq HeldOrArmed
        /\ IsWindows /\ code \in Shifts => DOMAIN keys'.down \intersect Shifts = {}
    BY <1>3, KeyUpDoes DEF KeyInv
  <2>2. KeysKept' /\ ctrlButton' \in BOOLEAN
    BY <1>1, <2>1 DEF OnlyThisKey, KeysKept, KeyInv
  <2>3. /\ IsWindows' => "KanaMode" \notin DOMAIN keys'.down
        /\ platform' = "Mac" => "CapsLock" \notin DOMAIN keys'.down
    BY <1>1, <1>2, <2>1 DEF KeyInv, HeldOrArmed
  <2>4. fakeCtrl' => IsWindows' /\ "AltRight" \in pressed' /\ code # "AltRight"
    BY <1>1, <1>2, <1>3 DEF KeyInv
  <2>5. HeldOrArmed' = DOMAIN keys'.down
    BY <2>1 DEF HeldOrArmed
  <2>6. HeldOrArmed' \subseteq Reasons'
    <3> SUFFICES ASSUME NEW c \in HeldOrArmed'
                 PROVE  c \in Reasons'
      OBVIOUS
    <3>1. c \in HeldOrArmed /\ c # code
      BY <2>1, <2>5
    <3>2. CASE c \in Shifts /\ IsWindows
      <4>1. code \notin Shifts
        BY <2>1, <2>5, <3>2
      <4>2. pressed' \intersect Shifts = pressed \intersect Shifts
        BY <1>1, <4>1
      <4>3. c \notin {"ControlLeft", "AltRight"}
        BY <3>2 DEF Shifts
      <4> QED
        BY <1>1, <1>2, <1>3, <3>1, <3>2, <4>2, <4>3, StrayedStay DEF Reasons, KeyInv
    <3>3. CASE ~ (c \in Shifts /\ IsWindows)
      BY <1>1, <1>3, <3>1, <3>3, StrayedStay DEF Reasons, KeyInv
    <3> QED
      BY <3>2, <3>3
  <2>7. fakeCtrl' /\ IsAltGrDown' /\ "ControlLeft" \in HeldOrArmed' =>
          "ControlLeft" \in pressed' \/ AltGrStrayed'
    <3> SUFFICES ASSUME fakeCtrl', IsAltGrDown', "ControlLeft" \in HeldOrArmed',
                        "ControlLeft" \notin pressed'
                 PROVE  AltGrStrayed'
      OBVIOUS
    <3>1. code # "ControlLeft" /\ code # "AltRight" /\ "ControlLeft" \notin pressed
      BY <1>1, <2>1, <2>4, <2>5
    <3>2. IsAltGrDown /\ "AltRight" \in HeldOrArmed'
      BY <2>1, <2>5, <3>1 DEF OnlyThisKey, IsAltGrDown
    <3>3. AltGrStrayed
      BY <1>3, <2>1, <2>5, <3>1, <3>2 DEF KeyInv
    <3> QED
      BY <1>1, <3>2, <3>3, StrayedStay DEF AltGrStrayed
  <2> QED
    BY <1>1, <1>2, <1>3, <2>2, <2>3, <2>4, <2>6, <2>7 DEF KeyInv
<1>4. CASE Listening /\ code = "AltRight" /\ fakeCtrl /\ HandleKeyUp("ControlLeft")
             /\ coming' = "up" /\ fakeCtrl' = FALSE
  <2>1. /\ OnlyThisKey("ControlLeft") /\ ~ armed' /\ "ControlLeft" \notin DOMAIN keys'.down
        /\ DOMAIN keys'.down \subseteq HeldOrArmed
    BY <1>4, KeyUpDoes DEF KeyInv
  <2>2. KeysKept' /\ ctrlButton' \in BOOLEAN
    BY <1>1, <2>1 DEF OnlyThisKey, KeysKept, KeyInv
  <2>3. /\ IsWindows' => "KanaMode" \notin DOMAIN keys'.down
        /\ platform' = "Mac" => "CapsLock" \notin DOMAIN keys'.down
    BY <1>1, <1>2, <2>1 DEF KeyInv, HeldOrArmed
  <2>4. HeldOrArmed' = DOMAIN keys'.down
    BY <2>1 DEF HeldOrArmed
  <2>5. HeldOrArmed' \subseteq Reasons'
    <3> SUFFICES ASSUME NEW c \in HeldOrArmed'
                 PROVE  c \in Reasons'
      OBVIOUS
    <3>1. c \in HeldOrArmed /\ c # "ControlLeft"
      BY <2>1, <2>4
    <3> QED
      BY <1>1, <1>2, <1>4, <3>1, StrayedStay DEF Reasons, KeyInv, Shifts
  <2> QED
    BY <1>1, <1>2, <1>4, <2>2, <2>3, <2>5 DEF KeyInv
<1>5. CASE (~ Listening \/ Silent(code)) /\ Unheard /\ UNCHANGED coming
             /\ fakeCtrl' = (fakeCtrl /\ code # "AltRight")
  <2>1. HeldOrArmed' = HeldOrArmed /\ IsAltGrDown' = IsAltGrDown /\ KeysKept'
    BY <1>1, <1>5 DEF Unheard, HeldOrArmed, IsAltGrDown, KeyInv, KeysKept
  <2>2. \A c \in HeldOrArmed : c \in strayed => c \in strayed'
    BY <1>1, <2>1, StrayedStay
  <2>3. HeldOrArmed' \subseteq Reasons'
    <3>1. CASE ~ Listening
      BY <2>1, <2>2, <3>1 DEF KeyInv, Reasons
    <3>2. CASE Listening /\ IsWindows /\ code \in Shifts /\ (Shifts \ {code}) \subseteq pressed
      <4>1. pressed' \intersect Shifts # {} /\ code # "AltRight"
        BY <1>1, <3>2 DEF Shifts
      <4> QED
        BY <1>1, <1>2, <1>5, <2>1, <2>2, <3>2, <4>1 DEF KeyInv, Reasons
    <3>3. CASE Listening /\ IsWindows /\ code = "KanaMode"
      <4>1. code \notin HeldOrArmed
        BY <3>3 DEF KeyInv, HeldOrArmed
      <4>2. pressed' \intersect Shifts = pressed \intersect Shifts
        BY <1>1, <3>3 DEF Shifts
      <4> QED
        BY <1>1, <1>2, <1>5, <2>1, <2>2, <3>3, <4>1, <4>2 DEF KeyInv, Reasons
    <3> QED
      BY <1>5, <3>1, <3>2, <3>3 DEF Silent
  <2>4. fakeCtrl' => IsWindows' /\ "AltRight" \in pressed'
    BY <1>1, <1>2, <1>5 DEF KeyInv
  <2>5. fakeCtrl' /\ IsAltGrDown' /\ "ControlLeft" \in HeldOrArmed' =>
          "ControlLeft" \in pressed' \/ AltGrStrayed'
    <3>1. CASE ~ Listening
      BY <2>1, <2>2, <3>1 DEF KeyInv, AltGrStrayed
    <3>2. CASE Listening
      <4>1. code # "ControlLeft"
        BY <1>5, <3>2 DEF Silent, Shifts
      <4>2. IsAltGrDown => "AltRight" \in HeldOrArmed
        BY DEF IsAltGrDown, HeldOrArmed
      <4> QED
        BY <1>1, <1>5, <2>1, <2>2, <4>1, <4>2 DEF KeyInv, AltGrStrayed
    <3> QED
      BY <3>1, <3>2
  <2> QED
    BY <1>1, <1>2, <1>5, <2>1, <2>2, <2>3, <2>4, <2>5 DEF KeyInv, Unheard
<1> QED
  BY <1>3, <1>4, <1>5 DEF ReleaseKey

LEMMA SecondHalfKeeps ==
  ASSUME KeyInv, Same, SecondHalf
  PROVE  KeyInv'
<1>1. /\ coming # "none" /\ coming' = "none" /\ StillAstray
      /\ UNCHANGED <<platform, pressed, focused, ctrlButton, fakeCtrl>>
  BY DEF SecondHalf
<1>2. Listening /\ Listening' /\ IsWindows' = IsWindows
  BY <1>1, ListeningSame DEF KeyInv
<1>3. CASE coming = "down" /\ HandleKeyDown("AltRight", "Alt_R", TRUE)
  <2>1. /\ OnlyThisKey("AltRight") /\ ~ armed'
        /\ armed => "ControlLeft" \notin DOMAIN keys'.down
        /\ ~ armed /\ IsWindows /\ "AltRight" \in DOMAIN keys'.down
             /\ "AltRight" \notin DOMAIN keys.down => keys'.down["AltRight"] = "Alt_R"
    <3>1. KeysKept /\ HandleKeyDown("AltRight", "Alt_R", TRUE)
      BY <1>3 DEF KeyInv
    <3>2. OnlyThisKey("AltRight") /\ (armed' => "AltRight" = "ControlLeft")
      BY <3>1, KeyDownDoes
    <3>3. armed => "ControlLeft" \notin DOMAIN keys'.down
      BY <3>1, KeyDownDoes
    <3>4. ~ armed /\ IsWindows /\ "AltRight" \in DOMAIN keys'.down
            /\ "AltRight" \notin DOMAIN keys.down => keys'.down["AltRight"] = "Alt_R"
      BY <3>1, KeyDownDoes
    <3> QED
      BY <3>2, <3>3, <3>4
  <2>2. /\ IsWindows /\ "AltRight" \in pressed
        /\ "AltRight" \in DOMAIN keys.down => "AltRight" \in strayed
    BY <1>3 DEF KeyInv
  <2>3. /\ platform = "Mac" => "CapsLock" \notin DOMAIN keys'.down
        /\ IsWindows => "KanaMode" \notin DOMAIN keys'.down
    BY <2>1 DEF OnlyThisKey, KeyInv, HeldOrArmed
  <2>4. IsAltGrDown' /\ "ControlLeft" \in HeldOrArmed' => AltGrStrayed'
    <3> SUFFICES ASSUME IsAltGrDown', "ControlLeft" \in HeldOrArmed'
                 PROVE  AltGrStrayed'
      OBVIOUS
    <3>1. ~ armed /\ "AltRight" \in DOMAIN keys'.down
      BY <2>1 DEF HeldOrArmed, IsAltGrDown
    <3>2. "AltRight" \in DOMAIN keys.down
      BY <2>1, <2>2, <3>1 DEF IsAltGrDown
    <3>3. "AltRight" \in HeldOrArmed'
      BY <3>1 DEF HeldOrArmed
    <3> QED
      BY <1>1, <2>2, <3>2, <3>3, StrayedStay DEF AltGrStrayed
  <2>5. coming' = coming \/ (coming' = "none" /\ coming = "down")
    BY <1>1, <1>3
  <2> QED
    BY <1>1, <1>2, <2>1, <2>2, <2>3, <2>4, <2>5, DownKeeps
<1>4. CASE coming = "up" /\ HandleKeyUp("AltRight")
  <2>1. /\ OnlyThisKey("AltRight") /\ ~ armed' /\ "AltRight" \notin DOMAIN keys'.down
        /\ DOMAIN keys'.down \subseteq HeldOrArmed
    BY <1>4, KeyUpDoes DEF KeyInv
  <2>2. KeysKept' /\ ctrlButton' \in BOOLEAN
    BY <1>1, <2>1 DEF OnlyThisKey, KeysKept, KeyInv
  <2>3. /\ IsWindows' => "KanaMode" \notin DOMAIN keys'.down
        /\ platform' = "Mac" => "CapsLock" \notin DOMAIN keys'.down
    BY <1>1, <1>2, <2>1 DEF KeyInv, HeldOrArmed
  <2>4. HeldOrArmed' = DOMAIN keys'.down
    BY <2>1 DEF HeldOrArmed
  <2>5. HeldOrArmed' \subseteq Reasons'
    <3> SUFFICES ASSUME NEW c \in HeldOrArmed'
                 PROVE  c \in Reasons'
      OBVIOUS
    <3>1. c \in HeldOrArmed /\ c # "AltRight"
      BY <2>1, <2>4
    <3> QED
      BY <1>1, <1>2, <1>4, <3>1, StrayedStay DEF Reasons, KeyInv
  <2>6. ~ IsAltGrDown'
    BY <2>1 DEF IsAltGrDown
  <2> QED
    BY <1>1, <1>2, <1>4, <2>2, <2>3, <2>5, <2>6 DEF KeyInv
<1> QED
  BY <1>3, <1>4 DEF SecondHalf

LEMMA ResolvedKeeps ==
  ASSUME KeyInv, Same, ~ armed', keys' = CtrlResolved(keys),
         UNCHANGED <<pressed, fakeCtrl, coming, focused, ctrlButton, strayed>>
  PROVE  KeyInv'
<1>1. Resolves(keys') /\ Listening' = Listening /\ IsWindows' = IsWindows
  BY CtrlIsResolved, ListeningSame DEF KeyInv
<1>2. KeysKept' /\ ctrlButton' \in BOOLEAN
  BY <1>1 DEF Resolves, KeysKept, KeyInv
<1>3. HeldOrArmed' \subseteq HeldOrArmed
  BY <1>1 DEF Resolves, HeldOrArmed
<1>4. HeldOrArmed' \subseteq Reasons' /\ (~ Listening' => HeldOrArmed' \subseteq strayed')
  BY <1>1, <1>3 DEF Reasons, KeyInv
<1>5. IsAltGrDown' => IsAltGrDown
  BY <1>1 DEF IsAltGrDown, Resolves, HeldOrArmed
<1>6. \A c \in DOMAIN keys'.down : c # "ControlLeft" => c \in DOMAIN keys.down
  BY <1>1 DEF Resolves, HeldOrArmed
<1> QED
  BY <1>1, <1>2, <1>3, <1>4, <1>5, <1>6 DEF KeyInv, AltGrStrayed, Same

\* Nothing is down any more.
LEMMA LetGoKeeps ==
  ASSUME KeyInv, UNCHANGED <<platform, pressed, fakeCtrl, armed, ctrlButton>>,
         coming' = "none", strayed' = IF armed THEN {"ControlLeft"} ELSE {},
         IsKeys(keys'), Agree(keys', ctrlButton), keys'.down = <<>>
  PROVE  KeyInv'
<1>1. DOMAIN keys'.down = {} /\ IsWindows' = IsWindows
  BY DEF IsWindows
<1>2. HeldOrArmed' = strayed'
  BY <1>1 DEF HeldOrArmed
<1>3. KeysKept' /\ ctrlButton' \in BOOLEAN
  BY <1>1 DEF KeysKept, KeyInv
<1>4. ~ IsAltGrDown' /\ HeldOrArmed' \subseteq Reasons'
  BY <1>1, <1>2 DEF IsAltGrDown, Reasons
<1> QED
  BY <1>1, <1>2, <1>3, <1>4 DEF KeyInv

LEMMA UngrabbedKeeps ==
  ASSUME KeyInv, Ungrabbed
  PROVE  KeyInv'
<1>1. /\ IsKeys(keys') /\ keys'.down = <<>> /\ keys'.remote = keys.remote
      /\ keys'.apart = keys.apart \union Held(keys)
  BY DEF Ungrabbed, KeyInv, KeysKept, IsKeys
<1>2. Held(keys') = {}
  BY <1>1 DEF Held
<1>3. Agree(keys', ctrlButton)
  BY <1>1, <1>2 DEF Agree, KeyInv, KeysKept
<1> QED
  BY <1>1, <1>3, LetGoKeeps DEF Ungrabbed

\* What is down stays so.
LEMMA OthersKeep ==
  ASSUME KeyInv, UNCHANGED <<platform, pressed, fakeCtrl, armed, coming>>,
         IsKeys(keys'), Agree(keys', ctrlButton'), keys'.down = keys.down,
         ctrlButton' \in BOOLEAN, coming # "none" => Listening',
         \/ strayed' = HeldOrArmed
         \/ strayed' = strayed /\ (Listening => Listening')
  PROVE  KeyInv'
<1>1. IsWindows' = IsWindows /\ HeldOrArmed' = HeldOrArmed /\ IsAltGrDown' = IsAltGrDown
  BY DEF IsWindows, HeldOrArmed, IsAltGrDown
<1>2. KeysKept'
  BY DEF KeysKept, KeyInv
<1>3. CASE strayed' = HeldOrArmed
  <2>1. HeldOrArmed' \subseteq Reasons'
    BY <1>1, <1>3 DEF Reasons
  <2>2. coming' = "down" => ("AltRight" \in DOMAIN keys'.down => "AltRight" \in strayed')
    BY <1>3 DEF HeldOrArmed
  <2> QED
    BY <1>1, <1>2, <1>3, <2>1, <2>2 DEF KeyInv, AltGrStrayed
<1>4. CASE strayed' = strayed /\ (Listening => Listening')
  BY <1>1, <1>2, <1>4 DEF KeyInv, AltGrStrayed, Reasons
<1> QED
  BY <1>3, <1>4

LEMMA PageKeeps ==
  ASSUME KeyInv, Same,
         FocusElsewhere \/ WindowBlur \/ Focus \/ QemuExtendedKeys \/ ShortcutByPage \/ ToggleCtrl
  PROVE  KeyInv'
<1>1. IsKeys(keys) /\ Agree(keys, ctrlButton) /\ ctrlButton \in BOOLEAN
  BY DEF KeyInv, KeysKept
<1>2. /\ CanSend' = CanSend
      /\ focused' = focused => Listening' = Listening
  BY ListeningSame
<1>3. CASE FocusElsewhere
  BY <1>1, <1>3, OthersKeep DEF FocusElsewhere, KeyInv
<1>4. CASE WindowBlur
  <2>1. IsKeys(keys') /\ Agree(keys', ctrlButton) /\ keys'.down = <<>>
    BY <1>1, <1>4, AllReleasedKeeps DEF WindowBlur
  <2> QED
    BY <1>4, <2>1, LetGoKeeps DEF WindowBlur
<1>5. CASE Focus
  BY <1>1, <1>2, <1>5, OthersKeep DEF Focus, KeyInv, Listening
<1>6. CASE QemuExtendedKeys
  BY <1>1, <1>2, <1>6, OthersKeep DEF QemuExtendedKeys, KeyInv
<1>7. CASE ShortcutByPage
  <2>1. IsKeys(keys') /\ Agree(keys', ctrlButton) /\ keys'.down = keys.down
    BY <1>1, <1>7, CtrlReleasedKeeps DEF ShortcutByPage
  <2> QED
    BY <1>1, <1>2, <1>7, <2>1, OthersKeep DEF ShortcutByPage, KeyInv
<1>8. CASE ToggleCtrl
  <2>1. /\ IsKeys(keys') /\ Agree(keys', ctrlButton') /\ keys'.down = keys.down
    <3>1. CASE ctrlButton
      <4>1. keys' = CtrlReleased(FALSE) /\ ctrlButton' = FALSE
        BY <1>8, <3>1 DEF ToggleCtrl
      <4> QED
        BY <1>1, <4>1, CtrlReleasedKeeps
    <3>2. CASE ~ ctrlButton
      <4>1. /\ IsKeys(keys') /\ keys'.down = keys.down
            /\ keys'.remote = keys.remote \union {Ctrl} /\ keys'.apart = keys.apart \ {Ctrl}
            /\ ctrlButton' = TRUE
        BY <1>1, <1>8, <3>2 DEF ToggleCtrl, IsKeys
      <4>2. Held(keys') = Held(keys)
        BY <4>1 DEF Held
      <4> QED
        BY <1>1, <3>2, <4>1, <4>2 DEF Agree
    <3> QED
      BY <3>1, <3>2
  <2>2. ctrlButton' \in BOOLEAN /\ Listening'
    BY <1>1, <1>2, <1>8 DEF ToggleCtrl, Listening
  <2> QED
    BY <1>8, <2>1, <2>2, OthersKeep DEF ToggleCtrl
<1> QED
  BY <1>3, <1>4, <1>5, <1>6, <1>7, <1>8

LEMMA KeyboardStepKeeps ==
  ASSUME KeyInv, KeyboardNext, UNCHANGED <<connected, viewOnly>>
  PROVE  KeyInv'
<1>1. Same
  BY DEF Same, KeyboardNext, PressKey, RepeatKey, ReleaseKey, SecondHalf, AltGrTimeout,
         UnidentifiedKey, FocusElsewhere, WindowBlur, Focus, QemuExtendedKeys,
         ShortcutByPage, ToggleCtrl
<1>2. CASE AltGrTimeout \/ UnidentifiedKey
  BY <1>1, <1>2, ResolvedKeeps DEF AltGrTimeout, UnidentifiedKey
<1> QED
  BY <1>1, <1>2, PressKeyKeeps, RepeatKeyKeeps, ReleaseKeyKeeps, SecondHalfKeeps, PageKeeps
  DEF KeyboardNext

\* The keyboard does nothing while the session may begin to send again.
LEMMA SessionKeeps ==
  ASSUME KeyInv, UNCHANGED keyboardVars, CanSend => CanSend'
  PROVE  KeyInv'
<1>1. IsKeys(keys') /\ Agree(keys', ctrlButton')
  BY DEF keyboardVars, KeyInv, KeysKept, Agree, Held
<1> QED
  BY <1>1, OthersKeep DEF keyboardVars, KeyInv, Listening

-----------------------------------------------------------------------------
(* Types *)

Symbols(code) == KeysymsOf(code) \union {"Alt_L", "ISO_Level3_Shift"}

KeysTyped(k) ==
  /\ DOMAIN k = {"down", "remote", "apart"}
  /\ DOMAIN k.down \subseteq Codes
  /\ \A c \in DOMAIN k.down : k.down[c] \in Symbols(c)
  /\ \A key \in k.remote \union k.apart : key[1] \in Codes

LEMMA TypedIsOK == KeysOK <=> KeysTyped(keys)
BY DEF KeysOK, KeysTyped, Symbols

LEMMA CtrlIsTyped == "ControlLeft" \in Codes /\ "Control_L" \in Symbols("ControlLeft")
<1>1. "ControlLeft" \in Codes
  <2> DEFINE named == UNION {KeysOn[p] : p \in DOMAIN KeysOn}
  <2>1. Codes = named \union {"ControlLeft"}
    BY DEF Codes
  <2> HIDE DEF named
  <2> QED
    BY <2>1
<1>2. KeysymsOf("ControlLeft") = {"Control_L"}
  BY DEF KeysymsOf
<1> QED
  BY <1>1, <1>2 DEF Symbols

LEMMA SentIsTyped ==
  ASSUME NEW k, KeysTyped(k), NEW code \in Codes, NEW keysym, NEW press \in BOOLEAN
  PROVE  KeysTyped(SendKey(k, code, keysym, press))
<1> DEFINE key == <<code, keysym>>
           remote == IF ~ Told(code, keysym) THEN k.remote
                     ELSE IF press THEN k.remote \union {key} ELSE k.remote \ {key}
           apart == IF ~ Told(code, keysym) \/ (key = Ctrl /\ ctrlButton)
                    THEN k.apart \union {key} ELSE k.apart \ {key}
           n == SendKey(k, code, keysym, press)
<1>1. n = [k EXCEPT !.remote = remote, !.apart = apart]
  BY DEF SendKey
<1>2. remote \subseteq k.remote \union {key} /\ apart \subseteq k.apart \union {key}
  OBVIOUS
<1>3. key[1] \in Codes
  OBVIOUS
<1> HIDE DEF remote, apart, key, n
<1>4. DOMAIN n = DOMAIN k /\ n.down = k.down /\ n.remote = remote /\ n.apart = apart
  BY <1>1 DEF KeysTyped
<1>5. KeysTyped(n)
  BY <1>2, <1>3, <1>4 DEF KeysTyped
<1> QED
  BY <1>5 DEF n

LEMMA PressIsTyped ==
  ASSUME NEW k, KeysTyped(k), NEW code \in Codes, NEW keysym \in Symbols(code)
  PROVE  KeysTyped(Press(k, code, keysym))
<1> DEFINE down == Added(k.down, code, keysym)
           n == [k EXCEPT !.down = down]
<1>1. /\ DOMAIN down = DOMAIN k.down \union {code}
      /\ \A c \in DOMAIN down : down[c] = IF c = code THEN keysym ELSE k.down[c]
  BY DEF Added
<1> HIDE DEF down
<1>2. DOMAIN n = DOMAIN k /\ n.down = down /\ n.remote = k.remote /\ n.apart = k.apart
  BY DEF KeysTyped
<1> HIDE DEF n
<1>3. KeysTyped(n)
  BY <1>1, <1>2 DEF KeysTyped
<1>4. Press(k, code, keysym) = SendKey(n, code, keysym, TRUE)
  BY DEF Press, n, down
<1> QED
  BY <1>3, <1>4, SentIsTyped

LEMMA ReleaseIsTyped ==
  ASSUME NEW k, KeysTyped(k), NEW code
  PROVE  KeysTyped(Release(k, code))
<1> DEFINE down == Dropped(k.down, code)
           n == [k EXCEPT !.down = down]
<1>1. /\ DOMAIN down = DOMAIN k.down \ {code}
      /\ \A c \in DOMAIN down : down[c] = k.down[c]
  BY DEF Dropped
<1> HIDE DEF down
<1>2. DOMAIN n = DOMAIN k /\ n.down = down /\ n.remote = k.remote /\ n.apart = k.apart
  BY DEF KeysTyped
<1> HIDE DEF n
<1>3. KeysTyped(n)
  BY <1>1, <1>2 DEF KeysTyped
<1>4. IsDown(k, code) => code \in Codes
  BY DEF IsDown, KeysTyped
<1>5. IsDown(k, code) => Release(k, code) = SendKey(n, code, k.down[code], FALSE)
  BY DEF Release, n, down
<1>6. ~ IsDown(k, code) => Release(k, code) = k
  BY DEF Release
<1> QED
  BY <1>3, <1>4, <1>5, <1>6, SentIsTyped

LEMMA PressAndReleaseIsTyped ==
  ASSUME NEW k, KeysTyped(k), NEW code \in Codes, NEW keysym \in Symbols(code)
  PROVE  KeysTyped(PressAndRelease(k, code, keysym))
BY PressIsTyped, ReleaseIsTyped DEF PressAndRelease

LEMMA ResolvedIsTyped == KeysTyped(keys) => KeysTyped(CtrlResolved(keys))
BY CtrlIsTyped, PressIsTyped DEF CtrlResolved

LEMMA KeyDownIsTyped ==
  ASSUME KeysTyped(keys), NEW code \in Codes, NEW reported \in KeysymsOf(code), NEW quick,
         HandleKeyDown(code, reported, quick)
  PROVE  KeysTyped(keys') /\ armed' \in BOOLEAN
<1> DEFINE k == IF IsAltGr(code, quick) THEN keys ELSE CtrlResolved(keys)
           shuffled == IF IsAltGr(code, quick) THEN "ISO_Level3_Shift" ELSE Shuffled(reported)
           keysym == KeysymFor(k, code, shuffled)
<1>1. KeysTyped(k)
  BY ResolvedIsTyped
<1>2. shuffled \in Symbols(code)
  <2>1. Shuffled(reported) \in {reported, "Alt_L", "ISO_Level3_Shift"}
    BY DEF Shuffled
  <2> QED
    BY <2>1 DEF Symbols
<1>3. /\ armed' = (StartsAltGr(k, code) /\ ~ ReleasedAtOnce(code, keysym))
      /\ keys' = IF ReleasedAtOnce(code, keysym) THEN PressAndRelease(k, code, keysym)
                 ELSE IF StartsAltGr(k, code) THEN k
                 ELSE Press(k, code, keysym)
  BY Zenon DEF HandleKeyDown
<1> HIDE DEF k, shuffled
<1>4. keysym \in Symbols(code)
  BY <1>1, <1>2 DEF KeysymFor, IsDown, KeysTyped
<1> HIDE DEF keysym
<1>5. /\ KeysTyped(PressAndRelease(k, code, keysym))
      /\ KeysTyped(Press(k, code, keysym))
  BY <1>1, <1>4, PressIsTyped, PressAndReleaseIsTyped
<1> QED
  BY <1>1, <1>3, <1>5

LEMMA KeyUpIsTyped ==
  ASSUME KeysTyped(keys), NEW code, code = "CapsLock" => code \in Codes, HandleKeyUp(code)
  PROVE  KeysTyped(keys') /\ armed' \in BOOLEAN
<1> DEFINE k == CtrlResolved(keys)
<1>1. KeysTyped(k)
  BY ResolvedIsTyped
<1>2. keys' = IF platform = "Mac" /\ code = "CapsLock"
              THEN PressAndRelease(k, "CapsLock", "CapsLock")
              ELSE ShiftsReleased(Release(k, code), code)
  BY DEF HandleKeyUp
<1> HIDE DEF k
<1>3. code = "CapsLock" => KeysTyped(PressAndRelease(k, "CapsLock", "CapsLock"))
  <2>1. "CapsLock" \in Symbols("CapsLock")
    BY DEF Symbols, KeysymsOf
  <2> QED
    BY <1>1, <2>1, PressAndReleaseIsTyped
<1>4. KeysTyped(ShiftsReleased(Release(k, code), code))
  <2>1. KeysTyped(Release(k, code))
    BY <1>1, ReleaseIsTyped
  <2>2. \A n : KeysTyped(n) => KeysTyped(ShiftsReleased(n, code))
    BY ReleaseIsTyped DEF ShiftsReleased
  <2> QED
    BY <2>1, <2>2
<1>5. armed' = FALSE
  BY DEF HandleKeyUp
<1> QED
  BY <1>2, <1>3, <1>4, <1>5

LEMMA TypesBegin == KeyboardInit => KeyboardTypeOK
<1> SUFFICES ASSUME KeyboardInit
             PROVE  KeyboardTypeOK
  OBVIOUS
<1>1. KeysTyped([down |-> <<>>, remote |-> {}, apart |-> {}])
  BY DEF KeysTyped
<1> QED
  BY <1>1, TypedIsOK DEF KeyboardInit, KeyboardTypeOK

LEMMA TypesKeep ==
  ASSUME KeyboardTypeOK, KeyInv, KeyboardNext
  PROVE  KeyboardTypeOK'
<1>1. KeysTyped(keys) /\ strayed \subseteq Codes /\ KeysOn[platform] \subseteq Codes
  BY TypedIsOK DEF KeyboardTypeOK, Codes
<1>2. HeldOrArmed \subseteq Codes
  BY <1>1, CtrlIsTyped DEF HeldOrArmed, KeysTyped
<1>3. UNCHANGED platform
  BY DEF KeyboardNext, PressKey, RepeatKey, ReleaseKey, SecondHalf, AltGrTimeout,
         UnidentifiedKey, FocusElsewhere, WindowBlur, Focus, QemuExtendedKeys,
         ShortcutByPage, ToggleCtrl
<1>4. StillAstray => strayed' \subseteq Codes
  BY <1>1 DEF StillAstray
<1>5. ASSUME KeysTyped(keys'), strayed' \subseteq Codes, pressed' \subseteq KeysOn[platform],
             coming' \in {"none", "down", "up"},
             {fakeCtrl', focused', armed', ctrlButton', qemu'} \subseteq BOOLEAN
      PROVE  KeyboardTypeOK'
  <2>1. KeysOK'
    BY <1>5 DEF KeysOK, KeysTyped, Symbols
  <2> QED
    BY <1>3, <1>5, <2>1 DEF KeyboardTypeOK
<1> USE DEF KeyboardTypeOK
<1>6. ASSUME NEW code \in KeysOn[platform], PressKey(code)
      PROVE  KeyboardTypeOK'
  <2>1. KeysTyped(keys') /\ armed' \in BOOLEAN
    BY <1>1, <1>6, CtrlIsTyped, KeyDownIsTyped DEF PressKey, Unheard, KeysymsOf
  <2>2. /\ pressed' \subseteq KeysOn[platform] /\ coming' \in {"none", "down", "up"}
        /\ fakeCtrl' \in BOOLEAN /\ UNCHANGED <<focused, ctrlButton, qemu>> /\ StillAstray
    BY <1>6 DEF PressKey
  <2> QED
    BY <1>4, <1>5, <2>1, <2>2
<1>7. ASSUME NEW code \in KeysOn[platform], RepeatKey(code)
      PROVE  KeyboardTypeOK'
  <2>1. KeysTyped(keys') /\ armed' \in BOOLEAN
    BY <1>1, <1>7, KeyDownIsTyped DEF RepeatKey
  <2>2. UNCHANGED <<pressed, fakeCtrl, coming, focused, ctrlButton, qemu>> /\ StillAstray
    BY <1>7 DEF RepeatKey
  <2> QED
    BY <1>4, <1>5, <2>1, <2>2
<1>8. ASSUME NEW code \in KeysOn[platform], ReleaseKey(code)
      PROVE  KeyboardTypeOK'
  <2>1. KeysTyped(keys') /\ armed' \in BOOLEAN
    BY <1>1, <1>8, CtrlIsTyped, KeyUpIsTyped DEF ReleaseKey, Unheard
  <2>2. /\ pressed' \subseteq KeysOn[platform] /\ coming' \in {"none", "down", "up"}
        /\ fakeCtrl' \in BOOLEAN /\ UNCHANGED <<focused, ctrlButton, qemu>> /\ StillAstray
    BY <1>8 DEF ReleaseKey
  <2> QED
    BY <1>4, <1>5, <2>1, <2>2
<1>9. CASE SecondHalf
  <2>1. "Alt_R" \in KeysymsOf("AltRight")
    BY DEF KeysymsOf
  <2>2. coming = "down" => "AltRight" \in Codes
    BY <1>1 DEF KeyInv
  <2>3. KeysTyped(keys') /\ armed' \in BOOLEAN
    <3>1. CASE coming = "down" /\ HandleKeyDown("AltRight", "Alt_R", TRUE)
      BY <1>1, <2>1, <2>2, <3>1, KeyDownIsTyped
    <3>2. CASE coming = "up" /\ HandleKeyUp("AltRight")
      BY <1>1, <3>2, KeyUpIsTyped
    <3> QED
      BY <1>9, <3>1, <3>2 DEF SecondHalf
  <2>4. UNCHANGED <<pressed, fakeCtrl, focused, ctrlButton, qemu>> /\ StillAstray
        /\ coming' = "none"
    BY <1>9 DEF SecondHalf
  <2> QED
    BY <1>4, <1>5, <2>3, <2>4
<1>10. CASE AltGrTimeout
  <2>1. KeysTyped(keys') /\ armed' = FALSE
    BY <1>1, <1>10, ResolvedIsTyped DEF AltGrTimeout
  <2>2. UNCHANGED <<pressed, fakeCtrl, coming, focused, ctrlButton, qemu, strayed>>
    BY <1>10 DEF AltGrTimeout
  <2> QED
    BY <1>1, <1>5, <2>1, <2>2
<1>11. CASE UnidentifiedKey
  <2>1. KeysTyped(keys') /\ armed' = FALSE
    BY <1>1, <1>11, ResolvedIsTyped DEF UnidentifiedKey
  <2>2. UNCHANGED <<pressed, fakeCtrl, coming, focused, ctrlButton, qemu, strayed>>
    BY <1>11 DEF UnidentifiedKey
  <2> QED
    BY <1>1, <1>5, <2>1, <2>2
<1>12. CASE FocusElsewhere
  BY <1>1, <1>2, <1>5, <1>12 DEF FocusElsewhere
<1>13. CASE WindowBlur
  <2>1. /\ keys' = AllReleased(keys) /\ focused' = FALSE /\ coming' = "none"
        /\ strayed' \subseteq {"ControlLeft"}
        /\ UNCHANGED <<pressed, fakeCtrl, armed, ctrlButton, qemu>>
    BY <1>13 DEF WindowBlur
  <2>2. KeysTyped(keys')
    <3>1. /\ DOMAIN keys' = {"down", "remote", "apart"} /\ keys'.down = <<>>
          /\ keys'.remote \subseteq keys.remote
          /\ keys'.apart \subseteq keys.apart \union {Ctrl}
      BY <2>1 DEF AllReleased
    <3>2. Ctrl[1] = "ControlLeft"
      BY DEF Ctrl
    <3> QED
      BY <1>1, <3>1, <3>2, CtrlIsTyped DEF KeysTyped
  <2> QED
    BY <1>5, <2>1, <2>2, CtrlIsTyped
<1>14. CASE Focus
  BY <1>1, <1>5, <1>14 DEF Focus
<1>15. CASE QemuExtendedKeys
  BY <1>1, <1>5, <1>15 DEF QemuExtendedKeys
<1>16. CASE ShortcutByPage \/ ToggleCtrl
  <2>1. /\ DOMAIN keys' = {"down", "remote", "apart"} /\ keys'.down = keys.down
        /\ keys'.remote \subseteq keys.remote \union {Ctrl}
        /\ keys'.apart \subseteq keys.apart \union {Ctrl}
    BY <1>1, <1>16 DEF ShortcutByPage, ToggleCtrl, CtrlReleased, KeysTyped
  <2>2. KeysTyped(keys')
    <3>1. Ctrl[1] = "ControlLeft"
      BY DEF Ctrl
    <3> QED
      BY <1>1, <2>1, <3>1, CtrlIsTyped DEF KeysTyped
  <2>3. /\ UNCHANGED <<pressed, fakeCtrl, coming, armed, qemu, strayed>>
        /\ focused' \in BOOLEAN /\ ctrlButton' \in BOOLEAN
    BY <1>16 DEF ShortcutByPage, ToggleCtrl
  <2> QED
    BY <1>1, <1>5, <2>2, <2>3
<1> QED
  BY <1>6, <1>7, <1>8, <1>9, <1>10, <1>11, <1>12, <1>13, <1>14, <1>15, <1>16
  DEF KeyboardNext

LEMMA UngrabbedTypes ==
  ASSUME KeyboardTypeOK, Ungrabbed
  PROVE  KeyboardTypeOK'
<1>1. KeysTyped(keys)
  BY TypedIsOK DEF KeyboardTypeOK
<1>2. /\ DOMAIN keys' = {"down", "remote", "apart"} /\ keys'.down = <<>>
      /\ keys'.remote = keys.remote /\ keys'.apart = keys.apart \union Held(keys)
  BY <1>1 DEF Ungrabbed, KeysTyped
<1>3. \A key \in Held(keys) : key[1] \in Codes
  BY <1>1 DEF Held, KeysTyped
<1>4. KeysOK'
  BY <1>1, <1>2, <1>3 DEF KeysTyped, KeysOK
<1> QED
  BY <1>4, CtrlIsTyped DEF Ungrabbed, KeyboardTypeOK
==============================================================================
