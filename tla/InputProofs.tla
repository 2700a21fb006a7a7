----------------------------- MODULE InputProofs -----------------------------
(***************************************************************************)
(* What holds of the viewer's input devices whatever their sizes: the       *)
(* server's text follows the page's text field, what is shown fits the      *)
(* desktop, the server's keys are the fingers', gestures follow each other  *)
(* whole, the server's pointer is the user's, and the types.  Each has an   *)
(* inductive invariant over its own device's variables; KeyboardProofs has  *)
(* the steps of the keyboard.                                               *)
(***************************************************************************)
EXTENDS Input, KeyboardProofs, SequenceTheorems, FiniteSetTheorems, WellFoundedInduction, TLAPS

-----------------------------------------------------------------------------
(* Two texts *)

LEMMA FieldsAreTexts == Fields \subseteq Seq(Chars)
BY DEF Fields, SeqOf

LEMMA FillingIsAField == Filling \in Fields
<1>1. Filling \in [1 .. (DefaultLen - 1) -> Chars]
  BY FieldAssumption DEF FieldAssumption, Filling
<1>2. DefaultLen \in Nat /\ DefaultLen > 1
  BY FieldAssumption DEF FieldAssumption
<1>3. DefaultLen - 1 \in 0 .. (2 * DefaultLen + 1)
  BY <1>2
<1> QED
  BY <1>1, <1>3 DEF Fields, SeqOf

LEMMA LeastIsInIt ==
  ASSUME NEW S \in SUBSET Nat, S # {}
  PROVE  Min(S) \in S /\ \A x \in S : Min(S) <= x
<1>1. PICK m \in S : \A x \in S : <<x, m>> \notin OpToRel(<, Nat)
  BY WFMin, NatLessThanWellFounded, Zenon
<1>2. \A x \in S : <<x, m>> \in OpToRel(<, Nat) <=> x < m
  BY DEF OpToRel
<1>3. ASSUME NEW x \in S
      PROVE  m <= x
  <2>1. ~ (x < m) /\ x \in Nat /\ m \in Nat
    BY <1>1, <1>2
  <2> QED
    BY <2>1
<1> QED
  BY <1>3, Zenon DEF Min

\* Up to there the two texts are the same.
LEMMA SamePrefixIsCommon ==
  ASSUME NEW old \in Seq(Chars), NEW new \in Seq(Chars)
  PROVE  /\ SamePrefix(old, new) \in 0 .. Len(old)
         /\ SamePrefix(old, new) \in 0 .. Len(new)
         /\ \A i \in 1 .. SamePrefix(old, new) : old[i] = new[i]
<1> DEFINE n == Shorter(old, new)
           Differing == {j \in 1 .. n : old[j] # new[j]}
           Ends == {i - 1 : i \in Differing} \union {n}
<1>1. n \in Nat /\ n <= Len(old) /\ n <= Len(new)
  BY DEF Shorter
<1>2. Ends \in SUBSET Nat /\ Ends # {} /\ \A e \in Ends : e <= n
  BY <1>1
<1>3. SamePrefix(old, new) = Min(Ends)
  BY DEF SamePrefix
<1>4. Min(Ends) \in Ends /\ \A e \in Ends : Min(Ends) <= e
  BY <1>2, LeastIsInIt
<1>5. ASSUME NEW i \in 1 .. Min(Ends), old[i] # new[i]
      PROVE  FALSE
  <2>1. i \in 1 .. n /\ i - 1 < Min(Ends)
    BY <1>1, <1>2, <1>4
  <2>2. i - 1 \in Ends
    BY <1>5, <2>1
  <2>3. Min(Ends) <= i - 1 /\ Min(Ends) \in Nat /\ i \in Int
    BY <1>2, <1>4, <2>2
  <2> QED
    BY <2>1, <2>3
<1> QED
  BY <1>1, <1>2, <1>3, <1>4, <1>5

\* The keys for a change make the old text the new one.
LEMMA KeysMakeTheChange ==
  ASSUME NEW old \in Seq(Chars), NEW new \in Seq(Chars)
  PROVE  Edited(old, old, new) = new
<1> DEFINE k == SamePrefix(old, new)
<1>1. /\ k \in 0 .. Len(old) /\ k \in 0 .. Len(new)
      /\ \A i \in 1 .. k : old[i] = new[i]
  BY SamePrefixIsCommon
<1>2. Len(old) - Backspaces(old, new) = k
  BY <1>1 DEF Backspaces
<1>3. SubSeq(old, 1, k) = SubSeq(new, 1, k)
  BY <1>1
<1>4. SubSeq(new, 1, k) \o SubSeq(new, k + 1, Len(new)) = SubSeq(new, 1, Len(new))
  <2>1. k \in 1 - 1 .. Len(new) /\ Len(new) \in k .. Len(new)
    BY <1>1
  <2>2. 1 \in 1 .. Len(new) + 1
    OBVIOUS
  <2> HIDE DEF k
  <2> QED
    BY <2>1, <2>2, ConcatAdjacentSubSeq
<1>5. SubSeq(new, 1, Len(new)) = new
  BY SubSeqFull
<1> QED
  BY <1>2, <1>3, <1>4, <1>5 DEF Edited, Inputs

-----------------------------------------------------------------------------
(* The field and the server's text *)

FieldInv == lastKeyboardinput \in Fields /\ unsent \in BOOLEAN /\ ServerTextFollows

LEMMA FieldInit == Init => FieldInv
BY FillingIsAField DEF Init, OnScreenInit, FieldInv, ServerTextFollows

LEMMA FieldStep == FieldInv /\ [Next]_vars => FieldInv'
<1> SUFFICES ASSUME FieldInv, [Next]_vars
             PROVE  FieldInv'
  OBVIOUS
<1>1. CASE UNCHANGED fieldVars
  BY <1>1 DEF FieldInv, fieldVars, ServerTextFollows
<1>2. ASSUME NEW new \in Fields, KeyInput(new)
      PROVE  FieldInv'
  <2>1. lastKeyboardinput' \in Fields /\ unsent' \in BOOLEAN
    BY <1>2, FillingIsAField DEF KeyInput
  <2>2. CASE Refilled(new)
    BY <1>2, <2>1, <2>2 DEF KeyInput, FieldInv, ServerTextFollows
  <2>3. CASE ~ Refilled(new) /\ CanSend /\ ~ unsent
    <3>1. echo = lastKeyboardinput
      BY <2>3 DEF FieldInv, ServerTextFollows
    <3>2. /\ echo' = Edited(lastKeyboardinput, lastKeyboardinput, new)
          /\ lastKeyboardinput' = new
      BY <1>2, <2>3, <3>1 DEF KeyInput
    <3>3. lastKeyboardinput \in Seq(Chars) /\ new \in Seq(Chars)
      BY FieldsAreTexts DEF FieldInv
    <3> QED
      BY <2>1, <3>2, <3>3, KeysMakeTheChange DEF FieldInv, ServerTextFollows
  <2>4. CASE ~ Refilled(new) /\ (~ CanSend \/ unsent)
    BY <1>2, <2>1, <2>4 DEF KeyInput, FieldInv, ServerTextFollows
  <2> QED
    BY <2>2, <2>3, <2>4
<1>3. UNCHANGED fieldVars \/ \E new \in Fields : KeyInput(new)
  BY DEF vars, Next, Typing, Pointing, TouchTyping, SetViewOnly, Disconnect, OnScreenNext
<1> QED
  BY <1>1, <1>2, <1>3

(***************************************************************************)
(* keyInput turns every change of the field, a correction in the middle     *)
(* included, into keys that leave the server's text the same as the         *)
(* field's, as long as keys can be sent; for every length and alphabet.     *)
(***************************************************************************)
THEOREM TextFollows == Spec => []ServerTextFollows
<1>1. FieldInv => ServerTextFollows
  BY DEF FieldInv
<1> QED
  BY <1>1, FieldInit, FieldStep, PTL DEF Spec

-----------------------------------------------------------------------------
(* One or two events *)

LEMMA GreatestOfFew == Max({1}) = 1 /\ Max({2}) = 2 /\ Max({1, 2}) = 2
BY DEF Max

LEMMA SubsetsOfTwo ==
  ASSUME NEW x \in SUBSET {1, 2}
  PROVE  x \in {{}, {1}, {2}, {1, 2}}
<1>1. CASE 1 \in x /\ 2 \in x
  BY <1>1
<1>2. CASE 1 \in x /\ 2 \notin x
  BY <1>2
<1>3. CASE 1 \notin x /\ 2 \in x
  BY <1>3
<1>4. CASE 1 \notin x /\ 2 \notin x
  BY <1>4
<1> QED
  BY <1>1, <1>2, <1>3, <1>4

\* The pointer after some events.
AfterEvents(m, events, place, step, turns) ==
  FoldLeft(LAMBDA n, e : AfterGesture(n, e, place, step, turns), m, events)

\* A fold over one or two events does what its name says.
LEMMA FoldOfFew ==
  ASSUME NEW m, NEW events, NEW place, NEW step, NEW turns,
         DOMAIN events \in {{1}, {1, 2}}
  PROVE  AfterEvents(m, events, place, step, turns)
           = IF 2 \in DOMAIN events
             THEN AfterGesture(AfterGesture(m, events[1], place, step, turns),
                               events[2], place, step, turns)
             ELSE AfterGesture(m, events[1], place, step, turns)
<1> DEFINE D == DOMAIN events
           After(n, e) == AfterGesture(n, e, place, step, turns)
           Iterated(it) == [x \in SUBSET D |->
                              IF x = {} THEN m
                              ELSE After(it[x \ {Max(x)}], events[Max(x)])]
           Iter == CHOOSE it : it = Iterated(it)
           Built == [x \in SUBSET D |->
                       IF x = {} THEN m
                       ELSE IF x = {1} THEN After(m, events[1])
                       ELSE IF x = {2} THEN After(m, events[2])
                       ELSE After(After(m, events[1]), events[2])]
<1>1. AfterEvents(m, events, place, step, turns) = Iter[D]
  BY DEF AfterEvents, FoldLeft, MapThenFoldSet
<1>2. {1} \ {1} = {} /\ {2} \ {2} = {} /\ {1, 2} \ {2} = {1}
  OBVIOUS
<1>3. SUBSET D \subseteq SUBSET {1, 2}
  OBVIOUS
<1> HIDE DEF After
<1>4. ASSUME NEW x \in SUBSET D
      PROVE  Built[x] = Iterated(Built)[x]
  <2>1. x \in {{}, {1}, {2}, {1, 2}}
    BY <1>3, SubsetsOfTwo
  <2>2. CASE x = {}
    BY <2>2
  <2>3. CASE x = {1}
    BY <2>3, <1>2, GreatestOfFew
  <2>4. CASE x = {2}
    BY <2>4, <1>2, GreatestOfFew
  <2>5. CASE x = {1, 2}
    BY <2>5, <1>2, GreatestOfFew
  <2> QED
    BY <2>1, <2>2, <2>3, <2>4, <2>5
<1>5. Built = Iterated(Built)
  BY <1>4
<1>6. Iter = Iterated(Iter)
  <2> HIDE DEF Iterated, Built
  <2> QED
    BY <1>5
<1> HIDE DEF Iter
<1>7. Iter[{}] = m
  BY <1>6
<1>8. Iter[{1}] = After(m, events[1])
  <2>1. {1} \in SUBSET D /\ {1} # {}
    OBVIOUS
  <2>2. Iter[{1}] = After(Iter[{1} \ {Max({1})}], events[Max({1})])
    BY <1>6, <2>1
  <2> QED
    BY <2>2, <1>2, <1>7, GreatestOfFew
<1>9. CASE D = {1, 2}
  <2>1. {1, 2} \in SUBSET D /\ {1, 2} # {}
    BY <1>9
  <2>2. Iter[{1, 2}] = After(Iter[{1, 2} \ {Max({1, 2})}], events[Max({1, 2})])
    BY <1>6, <2>1
  <2>3. Iter[D] = After(After(m, events[1]), events[2])
    BY <2>2, <1>2, <1>8, <1>9, GreatestOfFew
  <2> QED
    BY <1>1, <1>9, <2>3 DEF After
<1>10. CASE D = {1}
  <2>1. Iter[D] = After(m, events[1]) /\ 2 \notin DOMAIN events
    BY <1>8, <1>10
  <2> QED
    BY <1>1, <2>1 DEF After
<1> QED
  BY <1>9, <1>10
-----------------------------------------------------------------------------
(* The view *)

Widths == 1 .. MaxWidth
Views == [x : Nat, w : Nat]

\* What ViewInDesktop asks, of a desktop of width n.
Fits(view, n, clipping) ==
  /\ view \in Views
  /\ view.x + view.w <= n
  /\ view.w = IF clipping THEN AtMost(Screen, n) ELSE n

LEMMA WidthsAreWidths ==
  /\ Widths \subseteq Nat
  /\ Screen \in Nat
  /\ \A n \in Widths : AtMost(Screen, n) \in Nat /\ AtMost(Screen, n) <= n
BY PointerAssumption DEF PointerAssumption, Widths, AtMost

\* A shift of any length stops at the edges.
LEMMA ShiftStaysIn ==
  ASSUME NEW n \in Widths, NEW clipping \in BOOLEAN, NEW delta \in Int,
         NEW view \in Views, view.w <= n
  PROVE  LET shifted == Shifted(view, delta, n, clipping)
         IN  /\ shifted \in Views
             /\ shifted.x + shifted.w <= n
             /\ shifted.w = view.w
<1> DEFINE wanted == IF clipping THEN delta ELSE - view.w
           left == IF wanted < 0 THEN AtLeast(wanted, - view.x) ELSE wanted
           by == AtMost(left, n - view.x - view.w)
<1>1. /\ view.x \in Nat /\ view.w \in Nat /\ n \in Nat
      /\ view = [x |-> view.x, w |-> view.w]
  BY WidthsAreWidths DEF Views
<1>2. Shifted(view, delta, n, clipping) = [x |-> view.x + by, w |-> view.w]
  BY <1>1 DEF Shifted
<1>3. by \in Int /\ by >= - view.x /\ by <= n - view.x - view.w
  BY <1>1 DEF AtMost, AtLeast
<1> HIDE DEF by
<1> QED
  BY <1>1, <1>2, <1>3 DEF Views

LEMMA SizeStaysIn ==
  ASSUME NEW n \in Widths, NEW clipping \in BOOLEAN, NEW w \in Nat, NEW view \in Views
  PROVE  LET sized == Sized(view, w, n, clipping)
         IN  /\ sized \in Views
             /\ sized.w = IF clipping THEN AtMost(w, n) ELSE n
             /\ sized.w <= n
             /\ view.x + view.w <= n => sized.x + sized.w <= n
<1> DEFINE size == IF clipping THEN AtMost(w, n) ELSE n
<1>1. size \in Nat /\ size <= n
  BY WidthsAreWidths DEF AtMost
<1>2. CASE size = view.w
  BY <1>1, <1>2 DEF Sized
<1>3. CASE size # view.w
  <2>1. Sized(view, w, n, clipping) = Shifted([view EXCEPT !.w = size], 0, n, clipping)
    BY <1>3 DEF Sized
  <2>2. [view EXCEPT !.w = size] \in Views /\ [view EXCEPT !.w = size].w = size
    BY <1>1 DEF Views
  <2> DEFINE resized == [view EXCEPT !.w = size]
             sized == Sized(view, w, n, clipping)
  <2> HIDE DEF size, resized
  <2>3. resized \in Views /\ resized.w = size
    BY <2>2 DEF resized
  <2>4. sized = Shifted(resized, 0, n, clipping)
    BY <2>1 DEF resized
  <2> HIDE DEF sized
  <2>5. /\ sized \in Views
        /\ sized.x + sized.w <= n
        /\ sized.w = size
    BY <1>1, <2>3, <2>4, ShiftStaysIn
  <2> QED
    BY <1>1, <2>5 DEF size, sized
<1> QED
  BY <1>2, <1>3

\* Whatever was shown before, a resize makes it fit.
LEMMA ResizeMakesItFit ==
  ASSUME NEW n \in Widths, NEW clipping \in BOOLEAN, NEW view \in Views
  PROVE  Fits(Clipped(Readjusted(view, n, clipping), n, clipping), n, clipping)
<1> DEFINE sized == Sized(view, view.w, n, clipping)
           readjusted == Readjusted(view, n, clipping)
<1>1. /\ sized \in Views /\ sized.w <= n
      /\ sized.w = IF clipping THEN AtMost(view.w, n) ELSE n
  BY SizeStaysIn DEF Views
<1>2. readjusted = Shifted(sized, 0, n, clipping)
  BY DEF Readjusted
<1> HIDE DEF sized
<1>3. /\ readjusted \in Views /\ readjusted.x + readjusted.w <= n
      /\ readjusted.w = sized.w
  BY <1>1, <1>2, ShiftStaysIn
<1> HIDE DEF readjusted
<1>4. CASE clipping
  <2>1. Clipped(readjusted, n, clipping) = Sized(readjusted, Screen, n, clipping)
    BY <1>4 DEF Clipped
  <2>2. Fits(Sized(readjusted, Screen, n, clipping), n, clipping)
    BY <1>3, <1>4, SizeStaysIn, WidthsAreWidths DEF Fits
  <2> QED
    BY <2>1, <2>2 DEF readjusted
<1>5. CASE ~ clipping
  BY <1>1, <1>3, <1>5 DEF Clipped, Fits, readjusted
<1> QED
  BY <1>4, <1>5

\* What the pointer's record must be.
Shows(m) == "view" \in DOMAIN m /\ Fits(m.view, width, clip)

SameView(n, m) == "view" \in DOMAIN n /\ n.view = m.view

LEMMA ButtonsLeaveTheView ==
  ASSUME NEW m, "view" \in DOMAIN m, NEW place, NEW button
  PROVE  /\ \A mask : SameView(Sent(m, place, mask), m)
         /\ \A down \in BOOLEAN : SameView(ButtonChanged(m, place, down, button), m)
         /\ SameView(Click(m, place, button), m)
<1>1. ASSUME NEW n, "view" \in DOMAIN n, NEW mask
      PROVE  SameView(Sent(n, place, mask), n)
  BY <1>1 DEF SameView, Sent
<1>2. ASSUME NEW n, "view" \in DOMAIN n, NEW down \in BOOLEAN
      PROVE  SameView(ButtonChanged(n, place, down, button), n)
  <2>1. SameView(ClickInDragMode(n, place, button), n)
    <3>1. SameView([n EXCEPT !.dragging = FALSE], n)
      BY <1>2 DEF SameView
    <3> QED
      BY <1>1, <1>2, <3>1 DEF ClickInDragMode, SameView
  <2>2. SameView(MoveFlushed(ClickInDragMode(n, place, button), place), n)
    <3> DEFINE c == ClickInDragMode(n, place, button)
    <3> HIDE DEF c
    <3>1. SameView(c, n)
      BY <2>1 DEF c
    <3>2. SameView([c EXCEPT !.timer = FALSE], n)
      BY <3>1 DEF SameView
    <3>3. SameView(MoveFlushed(c, place), n)
      BY <1>1, <3>1, <3>2 DEF MoveFlushed, SameView
    <3> QED
      BY <3>3 DEF c
  <2>3. SameView(Pushing(n, place, down, button), n)
    <3> DEFINE c == MoveFlushed(ClickInDragMode(n, place, button), place)
               mask == IF down THEN c.mask \union {button} ELSE c.mask \ {button}
    <3>1. Pushing(n, place, down, button)
            = Sent([c EXCEPT !.mask = mask, !.seen = place], place, mask)
      BY DEF Pushing
    <3>2. SameView(c, n)
      BY <2>2
    <3> HIDE DEF c, mask
    <3> DEFINE d == [c EXCEPT !.mask = mask, !.seen = place]
    <3>3. SameView(d, n)
      BY <3>2 DEF SameView
    <3>4. Pushing(n, place, down, button) = Sent(d, place, mask)
      BY <3>1
    <3> HIDE DEF d
    <3>5. SameView(Sent(d, place, mask), d)
      BY <1>1, <3>3 DEF SameView
    <3>6. SameView(Sent(d, place, mask), n)
      BY <3>3, <3>5 DEF SameView
    <3> QED
      BY <3>4, <3>6
  <2>4. /\ SameView([n EXCEPT !.dragging = TRUE, !.moved = FALSE], n)
        /\ SameView([n EXCEPT !.dragging = FALSE], n)
    BY <1>2 DEF SameView
  <2> QED
    BY <2>3, <2>4 DEF ButtonChanged
<1>3. SameView(Click(m, place, button), m)
  <2> DEFINE c == ButtonChanged(m, place, TRUE, button)
  <2>1. SameView(c, m)
    BY <1>2
  <2> HIDE DEF c
  <2>2. SameView(ButtonChanged(c, place, FALSE, button), c)
    BY <1>2, <2>1 DEF SameView
  <2> QED
    BY <2>1, <2>2 DEF SameView, Click, c
<1> QED
  BY <1>1, <1>2, <1>3

AnyStep == {<<"short">>, <<"now">>, <<"soon">>} \union ({"far"} \X (-1 .. 1))

LEMMA StepsAreSteps == \A m : Steps(m) \subseteq AnyStep
BY DEF Steps, AnyStep

\* A move leaves the view where it is, or shifts it.
LEMMA MoveKeepsTheFit ==
  ASSUME NEW m, Shows(m), NEW place, NEW step \in AnyStep,
         width \in Widths, clip \in BOOLEAN
  PROVE  Shows(Moved(m, place, step))
<1>1. /\ SameView([m EXCEPT !.at = place, !.seen = place], m)
      /\ SameView([m EXCEPT !.at = place, !.seen = place, !.timer = TRUE], m)
  BY DEF SameView, Shows
<1>2. SameView(Sent([m EXCEPT !.at = place, !.seen = place], place, m.mask), m)
  <2> DEFINE c == [m EXCEPT !.at = place, !.seen = place]
  <2>1. SameView(c, m)
    BY <1>1
  <2> HIDE DEF c
  <2>2. SameView(Sent(c, place, m.mask), c)
    BY <2>1 DEF SameView, Sent
  <2> QED
    BY <2>1, <2>2 DEF SameView, c
<1>3. ASSUME step[1] = "far"
      PROVE  Fits(Shifted(m.view, step[2], width, clip), width, clip)
  <2>1. step[2] \in Int
    BY <1>3 DEF AnyStep
  <2>2. m.view \in Views /\ m.view.w <= width
    BY WidthsAreWidths DEF Shows, Fits, Views
  <2> QED
    BY <2>1, <2>2, ShiftStaysIn DEF Shows, Fits
<1>4. ASSUME NEW view, Fits(view, width, clip)
      PROVE  Shows([m EXCEPT !.moved = TRUE, !.view = view])
  BY <1>4 DEF Shows
<1>5. Shows([m EXCEPT !.moved = TRUE,
                      !.view = IF step[1] = "far" THEN Shifted(@, step[2], width, clip) ELSE @])
  BY <1>3, <1>4 DEF Shows
<1> QED
  BY <1>1, <1>2, <1>5 DEF Moved, Shows, SameView

LEMMA GestureKeepsTheFit ==
  ASSUME NEW m, Shows(m), NEW event, NEW place, NEW step \in AnyStep, NEW turns,
         width \in Widths, clip \in BOOLEAN
  PROVE  Shows(AfterGesture(m, event, place, step, turns))
<1> DEFINE n == Moved(m, place, step)
<1>1. Shows(n)
  BY MoveKeepsTheFit
<1> HIDE DEF n
<1>2. ASSUME NEW button, NEW down \in BOOLEAN
      PROVE  /\ Shows(Click(n, place, button))
             /\ Shows(ButtonChanged(n, place, down, button))
  BY <1>1, ButtonsLeaveTheView DEF Shows, SameView
<1> QED
  BY <1>1, <1>2 DEF AfterGesture, n

-----------------------------------------------------------------------------
(* Steps *)

LEMMA EventsAreFew ==
  /\ \A state : DOMAIN <<Start(state)>> \in {{1}, {1, 2}}
  /\ \A state : DOMAIN <<Move(state)>> \in {{1}, {1, 2}}
  /\ \A state : DOMAIN <<End(state)>> \in {{1}, {1, 2}}
  /\ \A state : DOMAIN <<Start(state), Move(state)>> \in {{1}, {1, 2}}
  /\ MoveEvents = <<>> \/ DOMAIN MoveEvents \in {{1}, {1, 2}}
  /\ TapEvents = <<>> \/ DOMAIN TapEvents \in {{1}, {1, 2}}
  /\ DOMAIN EndEvents \in {{1}, {1, 2}}
BY DEF MoveEvents, TapEvents, EndEvents

LEMMA GesturesStep ==
  ASSUME NEW events, events = <<>> \/ DOMAIN events \in {{1}, {1, 2}},
         HandleGestures(events), Shows(mouse), width \in Widths, clip \in BOOLEAN
  PROVE  /\ "view" \in DOMAIN mouse' /\ Fits(mouse'.view, width, clip)
         /\ UNCHANGED <<dragViewport, width, clip>>
<1>1. UNCHANGED <<dragViewport, width, clip>>
  BY DEF HandleGestures
<1>2. CASE events = <<>>
  BY <1>1, <1>2 DEF HandleGestures, Shows
<1>3. CASE events # <<>>
  <2>1. PICK place \in Spots, step \in Steps(mouse), turns \in Turns(events[1]) :
          mouse' = AfterEvents(mouse, events, place, step, turns)
    BY <1>3, Zenon DEF HandleGestures, AfterEvents
  <2> DEFINE first == AfterGesture(mouse, events[1], place, step, turns)
             second == AfterGesture(first, events[2], place, step, turns)
  <2>2. mouse' = IF 2 \in DOMAIN events THEN second ELSE first
    BY <1>3, <2>1, FoldOfFew
  <2>3. step \in AnyStep
    BY StepsAreSteps
  <2>4. Shows(first)
    BY <2>3, GestureKeepsTheFit
  <2> HIDE DEF first
  <2>5. Shows(second)
    BY <2>3, <2>4, GestureKeepsTheFit
  <2> HIDE DEF second
  <2> QED
    BY <1>1, <2>2, <2>4, <2>5 DEF Shows
<1> QED
  BY <1>1, <1>2, <1>3

ViewInv ==
  /\ width \in Widths
  /\ clip \in BOOLEAN
  /\ dragViewport \in BOOLEAN
  /\ Shows(mouse)
  /\ DragNeedsClipping

LEMMA ViewInit == Init => ViewInv
<1> SUFFICES ASSUME Init
             PROVE  ViewInv
  OBVIOUS
<1>1. width \in Widths /\ clip \in BOOLEAN
  BY DEF Init, PointerInit, Widths
<1>2. dragViewport \in BOOLEAN /\ DragNeedsClipping
  BY DEF Init, PointerInit, DragNeedsClipping, ClippingViewport
<1>3. Shows(mouse)
  <2>1. /\ "view" \in DOMAIN mouse
        /\ mouse.view = [x |-> 0, w |-> IF clip THEN AtMost(Screen, width) ELSE width]
    BY DEF Init, PointerInit
  <2> QED
    BY <1>1, <2>1, WidthsAreWidths DEF Shows, Fits, Views
<1> QED
  BY <1>1, <1>2, <1>3 DEF ViewInv

\* Nothing but what is shown changes.
LEMMA ViewKept ==
  ASSUME ViewInv, UNCHANGED <<dragViewport, width, clip>>,
         "view" \in DOMAIN mouse', Fits(mouse'.view, width, clip)
  PROVE  ViewInv'
BY DEF ViewInv, Shows, DragNeedsClipping

LEMMA MouseViewStep ==
  ASSUME ViewInv, MouseNext \/ DelayedMove
  PROVE  ViewInv'
<1>1. UNCHANGED <<dragViewport, width, clip>>
  BY DEF MouseNext, DelayedMove, MouseDown, MouseUp, MouseMove, Wheel, MouseStep
<1>2. "view" \in DOMAIN mouse /\ Shows(mouse)
  BY DEF ViewInv, Shows
<1>3. ASSUME NEW place, NEW button, NEW down \in BOOLEAN
      PROVE  Shows(ButtonChanged(mouse, place, down, button))
  <2>1. SameView(ButtonChanged(mouse, place, down, button), mouse)
    BY <1>2, ButtonsLeaveTheView, Zenon
  <2> QED
    BY <1>2, <2>1 DEF Shows, SameView
<1>4. ASSUME NEW place, NEW button
      PROVE  Shows(Click(mouse, place, button))
  <2>1. SameView(Click(mouse, place, button), mouse)
    BY <1>2, ButtonsLeaveTheView, Zenon
  <2> QED
    BY <1>2, <2>1 DEF Shows, SameView
<1>5. \A place, step : step \in Steps(mouse) => Shows(Moved(mouse, place, step))
  BY <1>2, MoveKeepsTheFit, StepsAreSteps DEF ViewInv
<1>6. CASE \E button \in Buttons : MouseDown(button) \/ MouseUp(button)
  <2>1. mouse' = mouse \/ \E place, button : \E down \in BOOLEAN :
                            mouse' = ButtonChanged(mouse, place, down, button)
    BY <1>6 DEF MouseDown, MouseUp, MouseStep
  <2> QED
    BY <1>1, <1>2, <1>3, <2>1, ViewKept DEF Shows
<1>7. CASE MouseMove
  <2>1. mouse' = mouse \/ \E place, step : /\ step \in Steps(mouse)
                                             /\ mouse' = Moved(mouse, place, step)
    BY <1>7 DEF MouseMove, MouseStep
  <2> QED
    BY <1>1, <1>2, <1>5, <2>1, ViewKept DEF Shows
<1>8. CASE Wheel
  <2>1. \E place : mouse' = Click(mouse, place, "wheel")
    BY <1>8 DEF Wheel, MouseStep
  <2> QED
    BY <1>1, <1>4, <2>1, ViewKept DEF Shows
<1>9. CASE DelayedMove
  <2>1. mouse' = Sent([mouse EXCEPT !.timer = FALSE], mouse.at, mouse.mask)
    BY <1>9 DEF DelayedMove
  <2>2. "view" \in DOMAIN mouse' /\ mouse'.view = mouse.view
    BY <1>2, <2>1 DEF Sent
  <2> QED
    BY <1>1, <1>2, <2>2, ViewKept DEF Shows
<1> QED
  BY <1>6, <1>7, <1>8, <1>9 DEF MouseNext

LEMMA ShownViewStep ==
  ASSUME ViewInv, ViewNext
  PROVE  ViewInv'
<1>1. mouse.view \in Views /\ "view" \in DOMAIN mouse
  BY DEF ViewInv, Shows, Fits
<1>2. ASSUME NEW n \in Widths, NEW clipping \in BOOLEAN, ViewStep(n, clipping),
             mouse' = [mouse EXCEPT !.view = Clipped(Readjusted(@, n, clipping), n, clipping)]
      PROVE  ViewInv'
  <2>1. Fits(Clipped(Readjusted(mouse.view, n, clipping), n, clipping), n, clipping)
    BY <1>1, ResizeMakesItFit
  <2>2. "view" \in DOMAIN mouse' /\ Fits(mouse'.view, n, clipping)
    BY <1>1, <1>2, <2>1
  <2>3. /\ width' = n /\ clip' = clipping
        /\ dragViewport' = (dragViewport /\ ClippingViewport(n, clipping))
    BY <1>2 DEF ViewStep, UpdateViewDrag
  <2>4. dragViewport' \in BOOLEAN
    BY <2>3 DEF ViewInv
  <2>5. DragNeedsClipping'
    BY <2>3 DEF DragNeedsClipping, ClippingViewport
  <2> QED
    BY <2>2, <2>3, <2>4, <2>5 DEF ViewInv, Shows
<1>3. CASE DesktopResize
  BY <1>2, <1>3 DEF DesktopResize, ViewInv, Widths
<1>4. CASE SetClip
  BY <1>2, <1>4 DEF SetClip, ViewInv
<1>5. CASE ToggleViewDrag
  BY <1>5 DEF ToggleViewDrag, ViewInv, Shows, DragNeedsClipping, ClippingViewport
<1> QED
  BY <1>3, <1>4, <1>5 DEF ViewNext

LEMMA TouchViewStep ==
  ASSUME ViewInv, TouchStep
  PROVE  ViewInv'
<1>1. CASE UNCHANGED <<mouse, dragViewport, width, clip>>
  BY <1>1 DEF ViewInv, Shows, DragNeedsClipping
<1>2. ASSUME NEW events, events = <<>> \/ DOMAIN events \in {{1}, {1, 2}},
             HandleGestures(events)
      PROVE  ViewInv'
  BY <1>2, GesturesStep, ViewKept DEF ViewInv
<1>3. \/ UNCHANGED <<mouse, dragViewport, width, clip>>
      \/ HandleGestures(<<Start(candidates')>>)
      \/ HandleGestures(<<Start(candidates'), Move(candidates')>>)
      \/ HandleGestures(MoveEvents) \/ HandleGestures(<<Move(candidates)>>)
      \/ HandleGestures(TapEvents) \/ HandleGestures(EndEvents)
  BY DEF TouchStep
<1> QED
  BY <1>1, <1>2, <1>3, EventsAreFew

LEMMA ViewStepKeeps == ViewInv /\ [Next]_vars => ViewInv'
<1> SUFFICES ASSUME ViewInv, [Next]_vars
             PROVE  ViewInv'
  OBVIOUS
<1>1. CASE UNCHANGED pointerVars
  BY <1>1 DEF pointerVars, ViewInv, Shows, DragNeedsClipping
<1>2. CASE Pointing
  BY <1>2, MouseViewStep, ShownViewStep, TouchViewStep DEF Pointing
<1>3. UNCHANGED pointerVars \/ Pointing
  BY DEF vars, Next, Typing, TouchTyping, SetViewOnly, Disconnect
<1> QED
  BY <1>1, <1>2, <1>3

(***************************************************************************)
(* What is shown lies in the desktop and fills the screen as far as there   *)
(* is desktop, and the drag mode is on only where something is hidden,      *)
(* whatever the sizes and however resizes, clipping, drags by mouse and     *)
(* drags by touch follow each other.                                        *)
(***************************************************************************)
THEOREM ViewAlwaysFits == Spec => []ViewFits
<1>1. ViewInv => ViewFits
  BY DEF ViewInv, Shows, Fits, ViewFits, ViewInDesktop
<1> QED
  BY <1>1, ViewInit, ViewStepKeeps, PTL DEF Spec

-----------------------------------------------------------------------------
(* What the server knows *)

Recorded(m) ==
  {"mask", "timer", "at", "seen", "told"} \subseteq DOMAIN m /\ m.timer \in BOOLEAN

\* What ServerFollows asks; and a move that waits will be sent from where it is.
Knows(m) ==
  /\ Recorded(m)
  /\ m.told # <<>> => m.told.mask = m.mask /\ (~ m.timer => m.told.at = m.seen)
  /\ m.timer => m.at = m.seen

LEMMA SentIsRecorded ==
  ASSUME NEW m, Recorded(m), NEW place, NEW mask
  PROVE  /\ Recorded(Sent(m, place, mask))
         /\ ~ m.timer => ~ Sent(m, place, mask).timer
         /\ Sent(m, place, mask).mask = m.mask
         /\ Sent(m, place, mask).seen = m.seen
         /\ \/ Sent(m, place, mask).told = <<>>
            \/ Sent(m, place, mask).told = [mask |-> mask, at |-> place]
<1>1. Sent(m, place, mask) \in {[m EXCEPT !.told = [mask |-> mask, at |-> place]],
                                [m EXCEPT !.told = <<>>]}
  BY DEF Sent
<1> QED
  BY <1>1 DEF Recorded

\* A message that says how things are.
LEMMA SentIsKnown ==
  ASSUME NEW m, Recorded(m), ~ m.timer
  PROVE  Knows(Sent(m, m.seen, m.mask))
<1> DEFINE n == Sent(m, m.seen, m.mask)
<1>1. /\ Recorded(n) /\ ~ n.timer /\ n.mask = m.mask /\ n.seen = m.seen
      /\ n.told # <<>> => n.told = [mask |-> m.mask, at |-> m.seen]
  BY SentIsRecorded
<1> HIDE DEF n
<1> QED
  BY <1>1 DEF Knows, n

LEMMA FlushIsRecorded ==
  ASSUME NEW m, Recorded(m), NEW place
  PROVE  Recorded(MoveFlushed(m, place)) /\ ~ MoveFlushed(m, place).timer
<1> DEFINE stopped == [m EXCEPT !.timer = FALSE]
<1>1. Recorded(stopped) /\ ~ stopped.timer
  BY DEF Recorded
<1>2. MoveFlushed(m, place) = IF m.timer THEN Sent(stopped, place, m.mask) ELSE m
  BY DEF MoveFlushed
<1> HIDE DEF stopped
<1>3. Recorded(Sent(stopped, place, m.mask))
  BY <1>1, SentIsRecorded
<1>4. ~ Sent(stopped, place, m.mask).timer
  BY <1>1, SentIsRecorded
<1> QED
  BY <1>1, <1>2, <1>3, <1>4

LEMMA PushingIsKnown ==
  ASSUME NEW m, Recorded(m), NEW place, NEW down \in BOOLEAN, NEW button
  PROVE  Knows(Pushing(m, place, down, button))
<1> DEFINE clicked == ClickInDragMode(m, place, button)
           n == MoveFlushed(clicked, place)
           mask == IF down THEN n.mask \union {button} ELSE n.mask \ {button}
           pushed == [n EXCEPT !.mask = mask, !.seen = place]
<1>1. Recorded(clicked)
  <2>1. Recorded([m EXCEPT !.dragging = FALSE])
    BY DEF Recorded
  <2> QED
    BY <2>1, SentIsRecorded DEF ClickInDragMode
<1>2. Pushing(m, place, down, button) = Sent(pushed, place, mask)
  BY DEF Pushing
<1> HIDE DEF clicked
<1>3. Recorded(n) /\ ~ n.timer
  BY <1>1, FlushIsRecorded
<1> HIDE DEF n, mask
<1>4. Recorded(pushed) /\ ~ pushed.timer /\ pushed.seen = place /\ pushed.mask = mask
  BY <1>3 DEF Recorded
<1> HIDE DEF pushed
<1> QED
  BY <1>2, <1>4, SentIsKnown

LEMMA ButtonIsKnown ==
  ASSUME NEW m, Knows(m), NEW place, NEW down \in BOOLEAN, NEW button
  PROVE  Knows(ButtonChanged(m, place, down, button))
<1>1. /\ Knows([m EXCEPT !.dragging = TRUE, !.moved = FALSE])
      /\ Knows([m EXCEPT !.dragging = FALSE])
  BY DEF Knows, Recorded
<1>2. Knows(Pushing(m, place, down, button))
  BY PushingIsKnown DEF Knows
<1> QED
  BY <1>1, <1>2 DEF ButtonChanged

LEMMA ClickIsKnown ==
  ASSUME NEW m, Knows(m), NEW place, NEW button
  PROVE  Knows(Click(m, place, button))
<1> DEFINE clicked == ButtonChanged(m, place, TRUE, button)
<1>1. Knows(clicked)
  BY ButtonIsKnown
<1> HIDE DEF clicked
<1>2. Knows(ButtonChanged(clicked, place, FALSE, button))
  BY <1>1, ButtonIsKnown
<1> QED
  BY <1>2 DEF Click, clicked

LEMMA MoveIsKnown ==
  ASSUME NEW m, Knows(m), NEW place, NEW step
  PROVE  Knows(Moved(m, place, step))
<1>1. ASSUME NEW view
      PROVE  Knows([m EXCEPT !.moved = TRUE, !.view = view])
  BY DEF Knows, Recorded
<1>2. Knows([m EXCEPT !.moved = TRUE,
                      !.view = IF step[1] = "far" THEN Shifted(@, step[2], width, clip) ELSE @])
  BY <1>1
<1>3. m.timer => Knows([m EXCEPT !.at = place, !.seen = place])
  BY DEF Knows, Recorded
<1>4. Knows([m EXCEPT !.at = place, !.seen = place, !.timer = TRUE])
  BY DEF Knows, Recorded
<1>5. ~ m.timer => Knows(Sent([m EXCEPT !.at = place, !.seen = place], place, m.mask))
  <2> SUFFICES ASSUME ~ m.timer
               PROVE  Knows(Sent([m EXCEPT !.at = place, !.seen = place], place, m.mask))
    OBVIOUS
  <2> DEFINE n == [m EXCEPT !.at = place, !.seen = place]
  <2>1. Recorded(n) /\ ~ n.timer /\ n.seen = place /\ n.mask = m.mask
    BY DEF Knows, Recorded
  <2> HIDE DEF n
  <2>2. Knows(Sent(n, place, m.mask))
    BY <2>1, SentIsKnown
  <2> QED
    BY <2>2 DEF n
<1> QED
  BY <1>2, <1>3, <1>4, <1>5 DEF Moved

LEMMA GestureIsKnown ==
  ASSUME NEW m, Knows(m), NEW event, NEW place, NEW step, NEW turns
  PROVE  Knows(AfterGesture(m, event, place, step, turns))
<1> DEFINE n == Moved(m, place, step)
<1>1. Knows(n)
  BY MoveIsKnown
<1> HIDE DEF n
<1>2. ASSUME NEW button, NEW down \in BOOLEAN
      PROVE  /\ Knows(Click(n, place, button))
             /\ Knows(ButtonChanged(n, place, down, button))
  BY <1>1, ButtonIsKnown, ClickIsKnown
<1> QED
  BY <1>1, <1>2 DEF AfterGesture, n

LEMMA GesturesAreKnown ==
  ASSUME NEW events, events = <<>> \/ DOMAIN events \in {{1}, {1, 2}},
         HandleGestures(events), Knows(mouse)
  PROVE  Knows(mouse')
<1>1. CASE events = <<>>
  BY <1>1 DEF HandleGestures
<1>2. CASE events # <<>>
  <2>1. PICK place \in Spots, step \in Steps(mouse), turns \in Turns(events[1]) :
          mouse' = AfterEvents(mouse, events, place, step, turns)
    BY <1>2, Zenon DEF HandleGestures, AfterEvents
  <2> DEFINE first == AfterGesture(mouse, events[1], place, step, turns)
             second == AfterGesture(first, events[2], place, step, turns)
  <2>2. mouse' = IF 2 \in DOMAIN events THEN second ELSE first
    BY <1>2, <2>1, FoldOfFew
  <2>3. Knows(first)
    BY GestureIsKnown
  <2> HIDE DEF first
  <2>4. Knows(second)
    BY <2>3, GestureIsKnown
  <2> HIDE DEF second
  <2> QED
    BY <2>2, <2>3, <2>4
<1> QED
  BY <1>1, <1>2

PointerKnown == Knows(mouse)

LEMMA KnownInit == Init => PointerKnown
BY DEF PointerKnown, Init, PointerInit, Knows, Recorded

LEMMA MouseStepIsKnown ==
  ASSUME Knows(mouse), MouseNext \/ DelayedMove
  PROVE  Knows(mouse')
<1>1. CASE \E button \in Buttons : MouseDown(button) \/ MouseUp(button)
  <2>1. mouse' = mouse \/ \E place, button : \E down \in BOOLEAN :
                            mouse' = ButtonChanged(mouse, place, down, button)
    BY <1>1 DEF MouseDown, MouseUp, MouseStep
  <2> QED
    BY <2>1, ButtonIsKnown
<1>2. CASE MouseMove
  <2>1. mouse' = mouse \/ \E place, step : mouse' = Moved(mouse, place, step)
    BY <1>2 DEF MouseMove, MouseStep
  <2> QED
    BY <2>1, MoveIsKnown
<1>3. CASE Wheel
  <2>1. \E place : mouse' = Click(mouse, place, "wheel")
    BY <1>3 DEF Wheel, MouseStep
  <2> QED
    BY <2>1, ClickIsKnown
<1>4. CASE DelayedMove
  <2> DEFINE n == [mouse EXCEPT !.timer = FALSE]
  <2>1. Recorded(n) /\ ~ n.timer /\ n.seen = mouse.at /\ n.mask = mouse.mask
    BY <1>4 DEF DelayedMove, Knows, Recorded
  <2>2. mouse' = Sent(n, mouse.at, mouse.mask)
    BY <1>4 DEF DelayedMove
  <2> HIDE DEF n
  <2> QED
    BY <2>1, <2>2, SentIsKnown
<1> QED
  BY <1>1, <1>2, <1>3, <1>4 DEF MouseNext

LEMMA KnownStep == PointerKnown /\ [Next]_vars => PointerKnown'
<1> SUFFICES ASSUME Knows(mouse), [Next]_vars
             PROVE  Knows(mouse')
  BY DEF PointerKnown
<1>1. CASE UNCHANGED pointerVars
  BY <1>1 DEF pointerVars
<1>2. CASE ViewNext
  <2>1. mouse' = mouse \/ \E view : mouse' = [mouse EXCEPT !.view = view]
    BY <1>2 DEF ViewNext, DesktopResize, SetClip, ToggleViewDrag
  <2> QED
    BY <2>1 DEF Knows, Recorded
<1>3. CASE TouchStep
  <2>1. ASSUME NEW events, events = <<>> \/ DOMAIN events \in {{1}, {1, 2}},
               HandleGestures(events)
        PROVE  Knows(mouse')
    BY <2>1, GesturesAreKnown
  <2>2. \/ UNCHANGED mouse
        \/ HandleGestures(<<Start(candidates')>>)
        \/ HandleGestures(<<Start(candidates'), Move(candidates')>>)
        \/ HandleGestures(MoveEvents) \/ HandleGestures(<<Move(candidates)>>)
        \/ HandleGestures(TapEvents) \/ HandleGestures(EndEvents)
    BY <1>3 DEF TouchStep
  <2> QED
    BY <2>1, <2>2, EventsAreFew
<1>4. UNCHANGED pointerVars \/ ViewNext \/ TouchStep \/ MouseNext \/ DelayedMove
  BY DEF vars, Next, Typing, Pointing, TouchTyping, SetViewOnly, Disconnect
<1> QED
  BY <1>1, <1>2, <1>3, <1>4, MouseStepIsKnown

(***************************************************************************)
(* The last pointer message tells the server the buttons that are held and, *)
(* once no move waits for its time, where the pointer is, through moves     *)
(* that are held back, drags of the view, clicks in drag mode and gestures. *)
(***************************************************************************)
THEOREM ServerKnowsPointer == Spec => []ServerFollows
<1>1. PointerKnown => ServerFollows
  BY DEF PointerKnown, Knows, ServerFollows
<1> QED
  BY <1>1, KnownInit, KnownStep, PTL DEF Spec

-----------------------------------------------------------------------------
(* The keyboard *)

LEMMA KeysInit == Init => KeyInv
BY KeyInvInit DEF Init

LEMMA KeysStep == KeyInv /\ [Next]_vars => KeyInv'
<1> SUFFICES ASSUME KeyInv, [Next]_vars
             PROVE  KeyInv'
  OBVIOUS
<1>1. CASE UNCHANGED keyboardVars /\ (CanSend => CanSend')
  BY <1>1, SessionKeeps
<1>2. CASE Typing
  BY <1>2, KeyboardStepKeeps DEF Typing, Session
<1>3. CASE Ungrabbed
  BY <1>3, UngrabbedKeeps
<1>4. CASE SetViewOnly /\ ~ Ungrabbed
  <2>1. UNCHANGED keyboardVars /\ ~ viewOnly' /\ UNCHANGED connected
    BY <1>4 DEF SetViewOnly
  <2> QED
    BY <1>1, <2>1 DEF CanSend
<1>5. \/ UNCHANGED keyboardVars /\ (CanSend => CanSend')
      \/ Typing \/ Ungrabbed \/ SetViewOnly
  BY DEF vars, Next, Pointing, TouchTyping, Disconnect, Session, CanSend
<1> QED
  BY <1>1, <1>2, <1>3, <1>4, <1>5

(***************************************************************************)
(* For every set of keys on every platform, the server holds what the page  *)
(* tracks and the page tracks what the fingers hold, through AltGr and its  *)
(* timer, keys whose release is kept silent, a focus that comes and goes,   *)
(* view-only mode and the end of the session.                               *)
(***************************************************************************)
THEOREM FingersAgree == Spec => []KeysAgree
BY KeysInit, KeysStep, KeyInvAgrees, PTL DEF Spec

-----------------------------------------------------------------------------
(* Gestures: what the listener is told of *)

\* The gesture the listener knows of, after some events.
HeardAfter(gesture, events) == FoldLeft(AfterEvent, gesture, events)

\* A fold over at most two events does what its name says.
LEMMA FoldOfEvents ==
  ASSUME NEW gesture, NEW events, DOMAIN events \in {{}, {1}, {1, 2}}
  PROVE  HeardAfter(gesture, events)
           = CASE DOMAIN events = {} -> gesture
               [] DOMAIN events = {1} -> AfterEvent(gesture, events[1])
               [] OTHER -> AfterEvent(AfterEvent(gesture, events[1]), events[2])
<1> DEFINE D == DOMAIN events
           Iterated(it) == [x \in SUBSET D |->
                              IF x = {} THEN gesture
                              ELSE AfterEvent(it[x \ {Max(x)}], events[Max(x)])]
           Iter == CHOOSE it : it = Iterated(it)
           Built == [x \in SUBSET D |->
                       IF x = {} THEN gesture
                       ELSE IF x = {1} THEN AfterEvent(gesture, events[1])
                       ELSE IF x = {2} THEN AfterEvent(gesture, events[2])
                       ELSE AfterEvent(AfterEvent(gesture, events[1]), events[2])]
<1>1. HeardAfter(gesture, events) = Iter[D]
  BY DEF HeardAfter, FoldLeft, MapThenFoldSet
<1>2. {1} \ {1} = {} /\ {2} \ {2} = {} /\ {1, 2} \ {2} = {1}
  OBVIOUS
<1>3. SUBSET D \subseteq SUBSET {1, 2}
  OBVIOUS
<1>4. ASSUME NEW x \in SUBSET D
      PROVE  Built[x] = Iterated(Built)[x]
  <2>1. x \in {{}, {1}, {2}, {1, 2}}
    BY <1>3, SubsetsOfTwo
  <2>2. CASE x = {}
    BY <2>2
  <2>3. CASE x = {1}
    BY <2>3, <1>2, GreatestOfFew
  <2>4. CASE x = {2}
    BY <2>4, <1>2, GreatestOfFew
  <2>5. CASE x = {1, 2}
    BY <2>5, <1>2, GreatestOfFew
  <2> QED
    BY <2>1, <2>2, <2>3, <2>4, <2>5
<1>5. Built = Iterated(Built)
  BY <1>4
<1>6. Iter = Iterated(Iter)
  <2> HIDE DEF Iterated, Built
  <2> QED
    BY <1>5
<1> HIDE DEF Iter
<1>7. Iter[{}] = gesture
  BY <1>6
<1>8. ASSUME 1 \in D
      PROVE  Iter[{1}] = AfterEvent(gesture, events[1])
  <2>1. {1} \in SUBSET D /\ {1} # {}
    BY <1>8
  <2>2. Iter[{1}] = AfterEvent(Iter[{1} \ {Max({1})}], events[Max({1})])
    BY <1>6, <2>1
  <2> QED
    BY <2>2, <1>2, <1>7, GreatestOfFew
<1>9. CASE D = {1, 2}
  <2>1. {1, 2} \in SUBSET D /\ {1, 2} # {} /\ {1, 2} # {1} /\ 1 \in D
    BY <1>9
  <2>2. Iter[{1, 2}] = AfterEvent(Iter[{1, 2} \ {Max({1, 2})}], events[Max({1, 2})])
    BY <1>6, <2>1
  <2>3. Iter[D] = AfterEvent(AfterEvent(gesture, events[1]), events[2])
    BY <2>1, <2>2, <1>2, <1>8, <1>9, GreatestOfFew
  <2> QED
    BY <1>1, <1>9, <2>1, <2>3
<1>10. CASE D = {1}
  BY <1>1, <1>8, <1>10
<1>11. CASE D = {}
  BY <1>1, <1>7, <1>11
<1> QED
  BY <1>9, <1>10, <1>11

(***************************************************************************)
(* Which gestures are still possible: sets of them, by the number of        *)
(* fingers that are tracked and whether one of them is up.                  *)
(***************************************************************************)
TwoOrThree == {"twotap", "threetap"} \union TwoFingered
TwoGoing == {{"twodrag"}, {"pinch"}}
Going == TwoGoing \union {{"drag"}, {"longpress"}}
OneTap == {{"onetap"}, {"twotap"}, {"threetap"}}

StillPossible(n) ==
  CASE n = 0 -> {Gestures}
    [] n = 1 -> {Gestures, {"drag"}, {"longpress"}}
    [] n = 2 -> {TwoOrThree, TwoFingered} \union TwoGoing
    [] n = 3 -> {{"threetap"}} \union TwoGoing
    [] OTHER -> TwoGoing

Possible(n, releasing) ==
  {{}} \union (IF releasing THEN OneTap \union TwoGoing ELSE StillPossible(n))

States == {{}, Gestures, TwoOrThree, TwoFingered} \union Going \union OneTap

LEMMA PossibleAreStates == \A n, releasing : Possible(n, releasing) \subseteq States
<1>1. TwoGoing \subseteq States /\ OneTap \subseteq States /\ {"threetap"} \in OneTap
      /\ {{}, Gestures, {"drag"}, {"longpress"}, TwoOrThree, TwoFingered} \subseteq States
  BY DEF States, Going, OneTap
<1>2. \A n : StillPossible(n) \subseteq States
  BY <1>1 DEF StillPossible
<1> QED
  BY <1>1, <1>2 DEF Possible

LEMMA FourAreFinite == \A w, x, y, z : IsFiniteSet({w, x, y, z})
<1>1. \A x, y : IsFiniteSet({x, y})
  <2> TAKE x, y
  <2>1. IsFiniteSet({x}) /\ IsFiniteSet({y}) /\ {x, y} = {x} \union {y}
    BY FS_Singleton
  <2> QED
    BY <2>1, FS_Union
<1> TAKE w, x, y, z
<1>2. IsFiniteSet({w, x}) /\ IsFiniteSet({y, z}) /\ {w, x, y, z} = {w, x} \union {y, z}
  BY <1>1
<1> QED
  BY <1>2, FS_Union

LEMMA WhatIsDetected ==
  ASSUME NEW state \in States, NEW active
  PROVE  DetectedIn(state, active) <=> state \in Going \/ (state \in OneTap /\ active = {})
<1>1. state \in Going \union OneTap <=> Cardinality(state) = 1
  <2>1. CASE state \in Going \union OneTap
    <3>1. \E x : state = {x}
      BY <2>1 DEF Going, TwoGoing, OneTap
    <3> QED
      BY <2>1, <3>1, FS_Singleton
  <2>2. CASE state = {}
    <3>1. state \notin Going \union OneTap
      BY <2>2 DEF Going, TwoGoing, OneTap
    <3> QED
      BY <2>2, <3>1, FS_EmptySet
  <2>3. CASE state \in {Gestures, TwoOrThree, TwoFingered}
    <3>1. "twodrag" \in state /\ "pinch" \in state
      BY <2>3 DEF Gestures, TwoOrThree, TwoFingered
    <3>2. \A x : state # {x}
      BY <3>1
    <3>3. IsFiniteSet(state)
      <4>1. /\ IsFiniteSet({"onetap", "twotap", "threetap", "drag"})
            /\ IsFiniteSet({"longpress", "twodrag", "pinch", "drag"})
        BY FourAreFinite
      <4>2. Gestures = {"onetap", "twotap", "threetap", "drag"}
                         \union {"longpress", "twodrag", "pinch", "drag"}
        BY DEF Gestures, Taps, TwoFingered
      <4>3. IsFiniteSet(Gestures)
        BY <4>1, <4>2, FS_Union
      <4>4. state \subseteq Gestures
        BY <2>3 DEF Gestures, TwoOrThree, TwoFingered, Taps
      <4> QED
        BY <4>3, <4>4, FS_Subset
    <3> QED
      BY <3>2, <3>3, FS_Singleton DEF Going, TwoGoing, OneTap
  <2> QED
    BY <2>1, <2>2, <2>3 DEF States
<1>2. state \in OneTap => state \subseteq Taps
  BY DEF OneTap, Taps
<1>3. state \in Going => ~ (state \subseteq Taps)
  BY DEF Going, TwoGoing, Taps
<1> QED
  BY <1>1, <1>2, <1>3 DEF DetectedIn

\* The one gesture of a state.
LEMMA OnlyOne == \A x : Only({x}) = x
BY DEF Only

\* What is left of a state when something is ruled out.
LEMMA RuledOut ==
  /\ Gestures \ RuledOutBy(1) = Gestures
  /\ Gestures \ RuledOutBy(2) = TwoOrThree
  /\ TwoOrThree \ RuledOutBy(3) = {"threetap"}
  /\ TwoFingered \ RuledOutBy(3) = {}
  /\ {"threetap"} \ RuledOutBy(4) = {}
<1> USE DEF Gestures, Taps, TwoFingered, TwoOrThree, RuledOutBy
<1>1. Gestures \ RuledOutBy(1) = Gestures
  OBVIOUS
<1>2. Gestures \ RuledOutBy(2) = TwoOrThree
  OBVIOUS
<1>3. TwoOrThree \ RuledOutBy(3) = {"threetap"} /\ TwoFingered \ RuledOutBy(3) = {}
  OBVIOUS
<1>4. {"threetap"} \ RuledOutBy(4) = {}
  OBVIOUS
<1> QED
  BY <1>1, <1>2, <1>3, <1>4

\* What is left when a finger has moved, and one has gone, with n tracked.
RuledByMove(n) ==
  Taps \union {"longpress"}
    \union (IF n # 1 THEN {"drag"} ELSE {})
    \union (IF n # 2 THEN TwoFingered ELSE {})

LEMMA MovedOn ==
  ASSUME NEW n \in {1, 2, 3, 4}, NEW releasing \in BOOLEAN,
         NEW state \in Possible(n, releasing) \ Going,
         NEW angle \in {{}, {"twodrag"}, {"pinch"}}, n # 2 => angle = {}
  PROVE  /\ state \ (RuledByMove(n) \union angle) \in Possible(n, releasing)
         /\ n = 2 /\ angle = {} => state \ (RuledByMove(n) \union angle) \notin Going
         /\ n \in {3, 4} => state \ (RuledByMove(n) \union angle) = {}
<1> DEFINE left == state \ (RuledByMove(n) \union angle)
<1>1. TwoFingered \notin Going /\ {} \notin Going
  BY DEF Going, TwoGoing, TwoFingered
<1>2. CASE state \in OneTap \union {{}}
  <2>1. left = {}
    BY <1>2 DEF OneTap, RuledByMove, Taps
  <2> QED
    BY <1>1, <2>1 DEF Possible
<1>3. CASE state \notin OneTap \union {{}}
  <2>1. ~ releasing /\ state \in StillPossible(n)
    BY <1>3 DEF Possible, Going
  <2>2. CASE n = 1
    <3>1. state = Gestures /\ angle = {}
      BY <2>1, <2>2 DEF StillPossible, Going
    <3>2. left = {"drag"}
      BY <2>2, <3>1 DEF Gestures, RuledByMove, Taps, TwoFingered
    <3> QED
      BY <2>1, <2>2, <3>2 DEF Possible, StillPossible
  <2>3. CASE n = 2
    <3>1. state \in {TwoOrThree, TwoFingered}
      BY <2>1, <2>3 DEF StillPossible, Going
    <3>2. left = TwoFingered \ angle
      BY <2>3, <3>1 DEF RuledByMove, Taps, TwoFingered, TwoOrThree
    <3>3. angle # {} => left \in TwoGoing
      BY <3>2 DEF TwoFingered, TwoGoing
    <3>4. angle = {} => left = TwoFingered
      BY <3>2
    <3> QED
      BY <1>1, <2>1, <2>3, <3>3, <3>4 DEF Possible, StillPossible
  <2>4. CASE n \in {3, 4}
    <3>1. state = {"threetap"}
      BY <2>1, <2>4 DEF StillPossible, Going
    <3> QED
      BY <1>3, <3>1 DEF OneTap
  <2> QED
    BY <2>2, <2>3, <2>4
<1> QED
  BY <1>2, <1>3

RuledByRelease(n, releasing) ==
  {"drag", "longpress"} \union TwoFingered
    \union CASE ~ releasing /\ n = 1 -> {"twotap", "threetap"}
             [] ~ releasing /\ n = 2 -> {"onetap", "threetap"}
             [] OTHER -> {}

LEMMA ReleasedOn ==
  ASSUME NEW n \in {1, 2, 3, 4}, NEW releasing \in BOOLEAN,
         NEW state \in Possible(n, releasing) \ Going
  PROVE  state \ RuledByRelease(n, releasing) \in OneTap \union {{}}
<1> DEFINE left == state \ RuledByRelease(n, releasing)
<1>1. CASE state = {}
  BY <1>1
<1>2. CASE releasing /\ state # {}
  <2>1. state \in OneTap
    BY <1>2 DEF Possible, Going
  <2>2. RuledByRelease(n, releasing) = {"drag", "longpress"} \union TwoFingered \union {}
    BY <1>2, Zenon DEF RuledByRelease
  <2>3. left = state
    BY <2>1, <2>2 DEF OneTap, TwoFingered
  <2> QED
    BY <2>1, <2>3
<1>3. CASE ~ releasing /\ state # {}
  <2>1. state \in StillPossible(n)
    BY <1>3 DEF Possible
  <2>2. CASE n = 1
    <3>1. state = Gestures
      BY <2>1, <2>2 DEF StillPossible, Going
    <3>2. RuledByRelease(n, releasing)
            = {"drag", "longpress"} \union TwoFingered \union {"twotap", "threetap"}
      BY <1>3, <2>2 DEF RuledByRelease
    <3>3. left = {"onetap"}
      BY <3>1, <3>2 DEF Gestures, Taps, TwoFingered
    <3> QED
      BY <3>3 DEF OneTap
  <2>3. CASE n = 2
    <3>1. state \in {TwoOrThree, TwoFingered}
      BY <2>1, <2>3 DEF StillPossible, Going
    <3>2. RuledByRelease(n, releasing)
            = {"drag", "longpress"} \union TwoFingered \union {"onetap", "threetap"}
      BY <1>3, <2>3 DEF RuledByRelease
    <3>3. left \in {{"twotap"}, {}}
      BY <3>1, <3>2 DEF TwoOrThree, TwoFingered
    <3> QED
      BY <3>3 DEF OneTap
  <2>4. CASE n \in {3, 4}
    <3>1. state = {"threetap"}
      BY <2>1, <2>4 DEF StillPossible, Going
    <3>2. n # 1 /\ n # 2
      BY <2>4
    <3>3. RuledByRelease(n, releasing) = {"drag", "longpress"} \union TwoFingered \union {}
      BY <1>3, <3>2, Zenon DEF RuledByRelease
    <3>4. left = {"threetap"}
      BY <3>1, <3>3 DEF TwoFingered
    <3> QED
      BY <3>4 DEF OneTap
  <2> QED
    BY <2>2, <2>3, <2>4
<1> QED
  BY <1>1, <1>2, <1>3

-----------------------------------------------------------------------------
(* The fingers that are tracked *)

Touches == [id : Fingers, active : BOOLEAN, far : BOOLEAN]

LEMMA TouchFacts ==
  ASSUME NEW t \in Seq(Touches), Len(t) <= 4
  PROVE  /\ Len(t) \in {0, 1, 2, 3, 4} /\ DOMAIN t = 1 .. Len(t)
         /\ t = <<>> <=> Len(t) = 0
         /\ \A i \in DOMAIN t : t[i] \in Touches
<1>1. Len(t) \in Nat /\ DOMAIN t = 1 .. Len(t)
  BY LenProperties
<1>2. \A n \in Nat : n <= 4 => n \in {0, 1, 2, 3, 4}
  OBVIOUS
<1>3. t = <<>> <=> Len(t) = 0
  BY EmptySeq
<1>4. \A i \in DOMAIN t : t[i] \in Touches
  BY <1>1, ElementOfSeq
<1> QED
  BY <1>1, <1>2, <1>3, <1>4

LEMMA TouchChanged ==
  ASSUME NEW t \in Seq(Touches), NEW i \in DOMAIN t, NEW u \in Touches
  PROVE  /\ [t EXCEPT ![i] = u] \in Seq(Touches) /\ Len([t EXCEPT ![i] = u]) = Len(t)
         /\ DOMAIN [t EXCEPT ![i] = u] = DOMAIN t
         /\ \A j \in DOMAIN t : [t EXCEPT ![i] = u][j] = IF j = i THEN u ELSE t[j]
<1>1. DOMAIN t = 1 .. Len(t)
  BY LenProperties
<1>2. [t EXCEPT ![i] = u] \in Seq(Touches) /\ Len([t EXCEPT ![i] = u]) = Len(t)
  BY <1>1, ExceptSeq
<1> QED
  BY <1>2

LEMMA TouchAdded ==
  ASSUME NEW t \in Seq(Touches), NEW u \in Touches
  PROVE  /\ Append(t, u) \in Seq(Touches) /\ Len(Append(t, u)) = Len(t) + 1
         /\ Len(t) + 1 \in DOMAIN Append(t, u) /\ Append(t, u)[Len(t) + 1] = u
         /\ Append(t, u) # <<>>
<1>1. Append(t, u) \in Seq(Touches) /\ Len(Append(t, u)) = Len(t) + 1
      /\ Append(t, u)[Len(t) + 1] = u
  BY AppendProperties
<1>2. Len(t) \in Nat /\ DOMAIN Append(t, u) = 1 .. Len(Append(t, u))
  BY <1>1, LenProperties
<1>3. Append(t, u) # <<>>
  BY <1>1, <1>2, EmptySeq
<1>4. Len(t) + 1 \in 1 .. Len(t) + 1
  BY <1>2
<1> QED
  BY <1>1, <1>2, <1>3, <1>4

\* No gesture is going on, for the listener or in fact.
Quiet == {"none", "unended"}

\* What becomes of the gesture the listener knows.
LEMMA Telling ==
  ASSUME NEW x, NEW gesture
  PROVE  /\ \A quiet \in Quiet :
              /\ HeardAfter(quiet, <<Start({x})>>) = x
              /\ HeardAfter(quiet, <<Start({x}), Move({x})>>) = x
              /\ HeardAfter(quiet, <<Start({x}), End({x})>>) = "none"
         /\ waiting => HeardAfter(x, <<Start({x}), End({x})>>) = "none"
         /\ HeardAfter(x, <<Move({x})>>) = x
         /\ HeardAfter(x, <<End({x})>>) = "none"
         /\ HeardAfter(gesture, <<>>) = gesture
<1>1. Only({x}) = x
  BY OnlyOne
<1>2. Start({x}) = <<"gesturestart", x>> /\ Move({x}) = <<"gesturemove", x>>
      /\ End({x}) = <<"gestureend", x>>
  BY <1>1 DEF Start, Move, End
<1>3. \A g, a : HeardAfter(g, <<a>>) = AfterEvent(g, a)
  <2> TAKE g, a
  <2>1. DOMAIN <<a>> = {1} /\ DOMAIN <<a>> # {} /\ <<a>>[1] = a
    OBVIOUS
  <2> QED
    BY <2>1, FoldOfEvents
<1>4. \A g, a, b : HeardAfter(g, <<a, b>>) = AfterEvent(AfterEvent(g, a), b)
  <2> TAKE g, a, b
  <2>1. DOMAIN <<a, b>> = {1, 2} /\ <<a, b>>[1] = a /\ <<a, b>>[2] = b /\ {1, 2} # {1}
    OBVIOUS
  <2> QED
    BY <2>1, FoldOfEvents
<1>5. \A g : HeardAfter(g, <<>>) = g
  <2>1. DOMAIN <<>> = {}
    OBVIOUS
  <2> QED
    BY <2>1, FoldOfEvents
<1>6. /\ \A quiet \in Quiet : AfterEvent(quiet, Start({x})) = x
      /\ waiting => AfterEvent(x, Start({x})) = x
      /\ AfterEvent(x, Move({x})) = x
      /\ AfterEvent(x, End({x})) = "none"
  BY <1>2 DEF AfterEvent, Quiet
<1> QED
  BY <1>3, <1>4, <1>5, <1>6

LEMMA HeardIs ==
  ASSUME NEW x, NEW events, Pushed(events)
  PROVE  /\ open \in Quiet => (events = <<Start({x})>> => open' = x)
         /\ open \in Quiet => (events = <<Start({x}), Move({x})>> => open' = x)
         /\ open \in Quiet => (events = <<Start({x}), End({x})>> => open' = "none")
         /\ open = x /\ waiting => (events = <<Start({x}), End({x})>> => open' = "none")
         /\ open = x => (events = <<Move({x})>> => open' = x)
         /\ open = x => (events = <<End({x})>> => open' = "none")
         /\ events = <<>> => open' = open
<1>1. open' = HeardAfter(open, events)
  BY Zenon DEF Pushed, HeardAfter
<1>2. ASSUME open \in Quiet
      PROVE  /\ events = <<Start({x})>> => open' = x
             /\ events = <<Start({x}), Move({x})>> => open' = x
             /\ events = <<Start({x}), End({x})>> => open' = "none"
  <2>1. /\ HeardAfter(open, <<Start({x})>>) = x
        /\ HeardAfter(open, <<Start({x}), Move({x})>>) = x
        /\ HeardAfter(open, <<Start({x}), End({x})>>) = "none"
    BY <1>2, Telling
  <2> QED
    BY <1>1, <2>1
<1>3. /\ waiting => HeardAfter(x, <<Start({x}), End({x})>>) = "none"
      /\ HeardAfter(x, <<Move({x})>>) = x
      /\ HeardAfter(x, <<End({x})>>) = "none"
      /\ \A gesture : HeardAfter(gesture, <<>>) = gesture
  BY Telling
<1> QED
  BY <1>1, <1>2, <1>3

(***************************************************************************)
(* The inductive invariant of the gestures.  At most four fingers are       *)
(* tracked, since with the fourth no gesture is left; a gesture goes on      *)
(* from when one that is no tap is left to when the first finger goes up;   *)
(* and a timer runs only before that.                                       *)
(***************************************************************************)
GestureTypes ==
  /\ tracked \in Seq(Touches) /\ Len(tracked) <= 4
  /\ ignored \subseteq Fingers
  /\ waiting \in BOOLEAN /\ longpress \in BOOLEAN /\ late \in BOOLEAN
  /\ twoTouch \in {"off", "running", "over"}
  /\ age \in 0 .. 2

GestureShape ==
  /\ candidates \in Possible(Len(tracked), waiting)
  /\ tracked # <<>> => Touching # {}
  /\ tracked = <<>> => candidates \in {Gestures, {}}
  /\ tracked = <<>> /\ ignored = {} => candidates = Gestures /\ ~ waiting
  /\ longpress => Len(tracked) = 1 /\ ~ waiting /\ candidates \notin Going
  /\ twoTouch = "running" => Len(tracked) \in {2, 3, 4} /\ candidates \notin Going

GestureKnown == IF candidates \in Going THEN candidates = {open} ELSE open \in Quiet

GestureInv == GestureTypes /\ GestureShape /\ GestureKnown

LEMMA GoingFacts ==
  /\ Gestures \notin Going /\ {} \notin Going /\ TwoOrThree \notin Going
  /\ TwoFingered \notin Going /\ \A s \in OneTap : s \notin Going
  /\ Gestures \notin OneTap /\ {} \notin OneTap
  /\ \A s \in Going \union OneTap : s # {} /\ \E x : s = {x}
<1>1. /\ "drag" \in Gestures /\ "pinch" \in Gestures
      /\ \A s \in {TwoOrThree, TwoFingered} : "twodrag" \in s /\ "pinch" \in s
  BY DEF Gestures, TwoOrThree, TwoFingered
<1>2. \A s \in Going \union OneTap : \E x : s = {x}
  BY DEF Going, TwoGoing, OneTap
<1>3. \A s \in OneTap : s \notin Going
  BY DEF Going, TwoGoing, OneTap
<1>4. "drag" # "pinch" /\ "twodrag" # "pinch"
  OBVIOUS
<1>5. \A s \in {Gestures, {}, TwoOrThree, TwoFingered} : \A x : s # {x}
  BY <1>1, <1>4
<1> QED
  BY <1>2, <1>3, <1>5

\* A gesture is known when the one left is no tap.
LEMMA DetectedIs ==
  ASSUME GestureShape
  PROVE  /\ Detected <=> candidates \in Going
         /\ candidates \in States
<1>1. candidates \in States
  BY PossibleAreStates DEF GestureShape
<1>2. Detected <=> candidates \in Going \/ (candidates \in OneTap /\ Touching = {})
  BY <1>1, WhatIsDetected DEF Detected
<1>3. candidates \in OneTap /\ Touching = {} => FALSE
  BY GoingFacts DEF GestureShape
<1> QED
  BY <1>1, <1>2, <1>3

LEMMA GestureStart == GesturesInit => GestureInv
<1> SUFFICES ASSUME GesturesInit
             PROVE  GestureInv
  OBVIOUS
<1>1. <<>> \in Seq(Touches) /\ Len(<<>>) = 0 /\ 0 <= 4 /\ 0 # 1
  OBVIOUS
<1>2. GestureTypes
  <2>1. tracked \in Seq(Touches) /\ Len(tracked) <= 4
    BY <1>1 DEF GesturesInit
  <2>2. /\ ignored \subseteq Fingers /\ twoTouch \in {"off", "running", "over"}
        /\ age \in 0 .. 2
    BY DEF GesturesInit
  <2>3. waiting \in BOOLEAN /\ longpress \in BOOLEAN /\ late \in BOOLEAN
    BY DEF GesturesInit
  <2> QED
    BY <2>1, <2>2, <2>3 DEF GestureTypes
<1>3. Gestures \in Possible(0, FALSE)
  BY DEF Possible, StillPossible
<1>4. GestureShape
  BY <1>1, <1>3 DEF GesturesInit, GestureShape
<1>5. GestureKnown
  BY GoingFacts DEF GesturesInit, GestureKnown, Quiet
<1> QED
  BY <1>2, <1>4, <1>5 DEF GestureInv

LEMMA IgnoredStep ==
  ASSUME GestureInv, NEW id \in Fingers, TouchIgnored(id), UNCHANGED open
  PROVE  GestureInv'
<1> USE DEF GestureInv
<1>1. Detected <=> candidates \in Going
  BY DetectedIs
<1>2. GestureTypes'
  BY DEF GestureTypes, TouchIgnored
<1>3. Touching' = Touching
  BY DEF TouchIgnored, Touching
<1>4. ignored' # {} /\ UNCHANGED <<tracked, waiting, longpress, twoTouch>>
  BY DEF TouchIgnored
<1>5. candidates' = IF candidates \in Going THEN candidates ELSE {}
  BY <1>1 DEF TouchIgnored
<1>6. \A n, r : {} \in Possible(n, r)
  BY DEF Possible
<1>7. GestureShape'
  BY <1>3, <1>4, <1>5, <1>6, GoingFacts DEF GestureShape
<1>8. GestureKnown'
  BY <1>5, GoingFacts DEF GestureKnown
<1> QED
  BY <1>2, <1>7, <1>8

LEMMA TrackedStep ==
  ASSUME GestureInv, NEW id \in Fingers, TouchTracked(id), UNCHANGED open
  PROVE  GestureInv'
<1> USE DEF GestureInv
<1> DEFINE n == Len(tracked)
           u == [id |-> id, active |-> TRUE, far |-> FALSE]
<1>1. candidates \notin Going /\ candidates # {} /\ ~ waiting
  BY DetectedIs DEF TouchTracked, NoNewTouches
<1>2. n \in {0, 1, 2, 3, 4}
  BY TouchFacts DEF GestureTypes
<1>3. (n + 1 = 1 <=> n = 0) /\ (n + 1 = 2 <=> n = 1) /\ (n = 0 => n # 1)
       /\ (n \in {2, 3} => n + 1 \in {2, 3, 4} /\ n # 0 /\ n # 1)
       /\ (n = 3 => n + 1 = 4)
  <2> HIDE DEF n
  <2> QED
    BY <1>2
<1>4. candidates \in StillPossible(n)
  BY <1>1 DEF GestureShape, Possible
<1>5. n # 4
  <2>1. ASSUME n = 4
        PROVE  candidates \in TwoGoing
    BY <1>4, <2>1 DEF StillPossible
  <2> QED
    BY <1>1, <2>1 DEF Going
<1>6. /\ tracked' = Append(tracked, u)
      /\ tracked' \in Seq(Touches) /\ Len(tracked') = n + 1 /\ n + 1 \in DOMAIN tracked'
      /\ tracked'[n + 1] = u /\ tracked' # <<>>
  <2>1. u \in Touches
    BY DEF Touches
  <2>2. tracked' = Append(tracked, u)
    BY DEF TouchTracked
  <2> QED
    BY <2>1, <2>2, TouchAdded DEF GestureTypes
<1>7. Len(tracked') \in {1, 2, 3, 4}
  BY <1>2, <1>5, <1>6
<1>8. UNCHANGED <<ignored, waiting, twoTouch, late>>
  BY DEF TouchTracked
<1>9. longpress' = IF n = 0 THEN TRUE ELSE IF n = 1 THEN FALSE ELSE longpress
  <2>1. longpress' = CASE n + 1 = 1 -> TRUE [] n + 1 = 2 -> FALSE [] OTHER -> longpress
    BY <1>6, Zenon DEF TouchTracked
  <2> HIDE DEF n
  <2> QED
    BY <2>1, <1>3, Zenon
<1>10. GestureTypes'
  <2>1. age' \in 0 .. 2
    BY DEF TouchTracked, GestureTypes
  <2>2. longpress' \in BOOLEAN
    BY <1>9 DEF GestureTypes
  <2> QED
    BY <1>6, <1>7, <1>8, <2>1, <2>2 DEF GestureTypes
<1>11. candidates' = candidates \ RuledOutBy(n + 1)
  BY <1>6 DEF TouchTracked
<1>12. /\ Gestures \in StillPossible(1) /\ TwoOrThree \in StillPossible(2)
       /\ {"threetap"} \in StillPossible(3) /\ {"threetap"} \notin Going
  BY GoingFacts DEF StillPossible, OneTap
<1>13. candidates' \in StillPossible(n + 1) \union {{}} /\ candidates' \notin Going
  <2>1. CASE n = 0
    <3>1. candidates' = Gestures
      BY <1>4, <1>11, <2>1, RuledOut DEF StillPossible
    <3>2. n + 1 = 1
      BY <2>1
    <3> QED
      BY <3>1, <3>2, <1>12, GoingFacts
  <2>2. CASE n = 1
    <3>1. candidates = Gestures
      BY <1>1, <1>4, <2>2 DEF StillPossible, Going
    <3>2. candidates' = TwoOrThree
      BY <1>11, <2>2, <3>1, RuledOut
    <3>3. n + 1 = 2
      BY <2>2
    <3> QED
      BY <3>2, <3>3, <1>12, GoingFacts
  <2>3. CASE n = 2
    <3>1. candidates \in {TwoOrThree, TwoFingered}
      BY <1>1, <1>4, <2>3 DEF StillPossible, Going
    <3>2. candidates' \in {{"threetap"}, {}}
      BY <1>11, <2>3, <3>1, RuledOut
    <3>3. n + 1 = 3
      BY <2>3
    <3> QED
      BY <3>2, <3>3, <1>12, GoingFacts
  <2>4. CASE n = 3
    <3>1. candidates = {"threetap"}
      BY <1>1, <1>4, <2>4 DEF StillPossible, Going
    <3>2. candidates' = {}
      BY <1>11, <2>4, <3>1, RuledOut
    <3> QED
      BY <3>2, GoingFacts
  <2> QED
    BY <1>2, <1>5, <2>1, <2>2, <2>3, <2>4
<1>14. n + 1 \in Touching'
  BY <1>6 DEF Touching
<1>15. longpress' => n + 1 = 1
  <2>1. longpress => n = 1
    BY DEF GestureShape
  <2>2. longpress' => n = 0
    BY <1>9, <2>1, Zenon
  <2> QED
    BY <1>3, <2>2
<1>16. twoTouch' = "running" => n + 1 \in {2, 3, 4}
  <2>1. twoTouch' = "running" => n \in {2, 3, 4}
    BY <1>8 DEF GestureShape
  <2> HIDE DEF n
  <2> QED
    BY <1>5, <1>3, <2>1
<1>17. GestureShape'
  BY <1>1, <1>6, <1>8, <1>13, <1>14, <1>15, <1>16 DEF GestureShape, Possible
<1>18. GestureKnown'
  BY <1>1, <1>13 DEF GestureKnown
<1> QED
  BY <1>10, <1>17, <1>18

\* A finger that moves is tracked, and its move changes only where it is.
LEMMA MovedTouch ==
  ASSUME GestureTypes, NEW id \in Ids(tracked), NEW away \in BOOLEAN,
         tracked' = [tracked EXCEPT ![At(id)].far = away]
  PROVE  /\ tracked' \in Seq(Touches) /\ Len(tracked') = Len(tracked)
         /\ Touching' = Touching
         /\ tracked # <<>> /\ tracked' # <<>> /\ Len(tracked) \in {1, 2, 3, 4}
<1> DEFINE i == At(id)
           u == [tracked[i] EXCEPT !.far = away]
<1>1. i \in DOMAIN tracked
  BY DEF Ids, At
<1>2. tracked[i] \in Touches
  BY <1>1, TouchFacts DEF GestureTypes
<1>3. u \in Touches /\ u.active = tracked[i].active
  BY <1>2 DEF Touches
<1>4. tracked' = [tracked EXCEPT ![i] = u]
  OBVIOUS
<1> HIDE DEF i, u
<1>5. /\ tracked' \in Seq(Touches) /\ Len(tracked') = Len(tracked)
      /\ DOMAIN tracked' = DOMAIN tracked
      /\ \A j \in DOMAIN tracked : tracked'[j] = IF j = i THEN u ELSE tracked[j]
  <2> DEFINE t == [tracked EXCEPT ![i] = u]
  <2>1. tracked \in Seq(Touches)
    BY DEF GestureTypes
  <2>2. /\ t \in Seq(Touches) /\ Len(t) = Len(tracked) /\ DOMAIN t = DOMAIN tracked
        /\ \A j \in DOMAIN tracked : t[j] = IF j = i THEN u ELSE tracked[j]
    BY <1>1, <1>3, <2>1, TouchChanged
  <2>3. tracked' = t
    BY <1>4
  <2> HIDE DEF t
  <2> QED
    BY <2>2, <2>3
<1>6. Touching' = Touching
  BY <1>3, <1>5 DEF Touching
<1>7. tracked # <<>>
  BY <1>1
<1>8. Len(tracked) \in {1, 2, 3, 4} /\ tracked' # <<>>
  <2>1. /\ Len(tracked) \in {0, 1, 2, 3, 4} /\ (tracked = <<>> <=> Len(tracked) = 0)
        /\ (tracked' = <<>> <=> Len(tracked') = 0)
    BY <1>5, TouchFacts DEF GestureTypes
  <2> QED
    BY <1>5, <1>7, <2>1
<1> QED
  BY <1>5, <1>6, <1>7, <1>8

LEMMA SmallMoveStep ==
  ASSUME GestureInv, NEW id \in Fingers, SmallMove(id), UNCHANGED open
  PROVE  GestureInv'
<1> USE DEF GestureInv
<1>1. /\ tracked' \in Seq(Touches) /\ Len(tracked') = Len(tracked) /\ Touching' = Touching
      /\ tracked # <<>> /\ tracked' # <<>>
  BY MovedTouch DEF SmallMove
<1>2. UNCHANGED <<candidates, ignored, waiting, longpress, twoTouch, age, late>>
  BY DEF SmallMove
<1>3. GestureTypes'
  BY <1>1, <1>2 DEF GestureTypes
<1>4. GestureShape'
  BY <1>1, <1>2 DEF GestureShape
<1>5. GestureKnown'
  BY <1>2 DEF GestureKnown
<1> QED
  BY <1>3, <1>4, <1>5

LEMMA FarMoveStep ==
  ASSUME GestureInv, NEW id \in Fingers, FarMove(id), Pushed(MoveEvents)
  PROVE  GestureInv'
<1> USE DEF GestureInv
<1> DEFINE n == Len(tracked)
<1>1. /\ tracked' \in Seq(Touches) /\ Len(tracked') = n /\ Touching' = Touching
      /\ tracked # <<>> /\ tracked' # <<>> /\ n \in {1, 2, 3, 4}
  BY MovedTouch DEF FarMove
<1>2. candidates \notin Going
  BY DetectedIs DEF FarMove
<1>3. UNCHANGED <<ignored, waiting, age, late>> /\ longpress' = FALSE
  BY DEF FarMove
<1>4. PICK angle \in RuledOutByAngle(id) : candidates' = candidates \ (RuledOutByMove \union angle)
  BY DEF FarMove
<1>5. RuledOutByMove = RuledByMove(n)
  BY DEF RuledOutByMove, RuledByMove
<1>6. angle \in {{}, {"twodrag"}, {"pinch"}} /\ (n # 2 => angle = {})
      /\ (n = 2 /\ ~ OtherIsFar(id) => angle = {})
  BY DEF RuledOutByAngle
<1>7. candidates \in Possible(n, waiting) \ Going /\ waiting \in BOOLEAN
  BY <1>2 DEF GestureShape, GestureTypes
<1>8. /\ candidates' \in Possible(n, waiting)
      /\ (n = 2 /\ angle = {} => candidates' \notin Going)
      /\ (n \in {3, 4} => candidates' = {})
  BY <1>1, <1>4, <1>5, <1>6, <1>7, MovedOn
<1>9. twoTouch' = TwoTouchAfterMove(id)
  BY DEF FarMove
<1>10. twoTouch' \in {"off", "running", "over"}
  BY <1>9 DEF TwoTouchAfterMove, GestureTypes
<1>11. twoTouch' = "running" => n \in {2, 3, 4} /\ candidates' \notin Going
  <2>1. CASE n = 2
    BY <1>6, <1>8, <1>9, <2>1 DEF TwoTouchAfterMove
  <2>2. CASE n # 2
    <3>1. twoTouch' = twoTouch
      BY <1>9, <2>2 DEF TwoTouchAfterMove
    <3>2. twoTouch = "running" => n \in {3, 4}
      BY <2>2 DEF GestureShape
    <3> QED
      BY <1>8, <3>1, <3>2, GoingFacts
  <2> QED
    BY <2>1, <2>2
<1>12. GestureTypes'
  BY <1>1, <1>3, <1>10 DEF GestureTypes
<1>13. GestureShape'
  BY <1>1, <1>3, <1>8, <1>11 DEF GestureShape
<1>14. GestureKnown'
  <2>1. DetectedIn(candidates', Touching) <=> candidates' \in Going
    <3>1. Touching # {}
      BY <1>1 DEF GestureShape
    <3>2. candidates' \in States
      BY <1>8, PossibleAreStates
    <3> QED
      BY <3>1, <3>2, WhatIsDetected
  <2>2. open \in Quiet
    BY <1>2 DEF GestureKnown
  <2>3. CASE candidates' \in Going
    <3>1. PICK x : candidates' = {x}
      BY <2>3, GoingFacts
    <3>2. MoveEvents = <<Start({x}), Move({x})>>
      BY <2>1, <2>3, <3>1 DEF MoveEvents
    <3>3. open' = x
      BY <2>2, <3>2, HeardIs
    <3> QED
      BY <2>3, <3>1, <3>3 DEF GestureKnown
  <2>4. CASE candidates' \notin Going
    <3>1. MoveEvents = <<>>
      BY <2>1, <2>4 DEF MoveEvents
    <3>2. open' = open
      BY <3>1, HeardIs
    <3> QED
      BY <2>2, <2>4, <3>2 DEF GestureKnown
  <2> QED
    BY <2>3, <2>4
<1> QED
  BY <1>12, <1>13, <1>14

LEMMA GestureMoveStep ==
  ASSUME GestureInv, NEW id \in Fingers, GestureMoves(id), Pushed(<<Move(candidates)>>)
  PROVE  GestureInv'
<1> USE DEF GestureInv
<1>1. candidates = {open}
  BY DetectedIs DEF GestureMoves, GestureKnown
<1>2. open' = open
  BY <1>1, HeardIs
<1>3. UNCHANGED <<candidates, tracked, ignored, waiting, longpress, twoTouch, age, late>>
  BY DEF GestureMoves
<1>4. Touching' = Touching
  BY <1>3 DEF Touching
<1> QED
  BY <1>2, <1>3, <1>4 DEF GestureTypes, GestureShape, GestureKnown

LEMMA IgnoredEndStep ==
  ASSUME GestureInv, NEW id \in Fingers, IgnoredTouchEnds(id), UNCHANGED open
  PROVE  GestureInv'
<1> USE DEF GestureInv
<1> DEFINE idle == ignored' = {} /\ tracked = <<>>
<1>1. UNCHANGED <<tracked, longpress, twoTouch, age, late>> /\ ignored' \subseteq Fingers
  BY DEF IgnoredTouchEnds, GestureTypes
<1>2. candidates' = (IF idle THEN Gestures ELSE candidates) /\ waiting' = (waiting /\ ~ idle)
  BY DEF IgnoredTouchEnds, Resets
<1>3. Touching' = Touching
  BY <1>1 DEF Touching
<1>4. GestureTypes'
  BY <1>1, <1>2 DEF GestureTypes
<1>5. CASE idle
  <2>1. candidates' = Gestures /\ ~ waiting' /\ tracked' = <<>>
    BY <1>1, <1>2, <1>5
  <2>2. Len(tracked') = 0
    BY <2>1, EmptySeq
  <2>3. Gestures \in Possible(0, FALSE)
    BY DEF Possible, StillPossible
  <2>4. Gestures \in Possible(Len(tracked'), waiting')
    BY <2>1, <2>2, <2>3 DEF Possible
  <2>5. ~ longpress' /\ twoTouch' # "running"
    BY <1>1, <2>1, <2>2 DEF GestureShape
  <2>6. GestureShape'
    BY <2>1, <2>4, <2>5 DEF GestureShape
  <2>7. candidates \notin Going /\ open \in Quiet
    BY <1>5, GoingFacts DEF GestureShape, GestureKnown
  <2>8. GestureKnown'
    BY <2>1, <2>7, GoingFacts DEF GestureKnown
  <2> QED
    BY <1>4, <2>6, <2>8
<1>6. CASE ~ idle
  <2>1. UNCHANGED <<candidates, waiting>>
    BY <1>2, <1>6 DEF GestureTypes
  <2>2. ~ (tracked' = <<>> /\ ignored' = {})
    BY <1>1, <1>6
  <2> QED
    BY <1>1, <1>3, <1>4, <2>1, <2>2 DEF GestureShape, GestureKnown
<1> QED
  BY <1>5, <1>6

\* What a release rules out leaves a tap, or nothing.
LEMMA AfterReleaseIs ==
  ASSUME GestureInv, NEW id \in TouchingIds, ~ Detected
  PROVE  /\ AfterRelease \in OneTap \union {{}}
         /\ AfterRelease # {} => twoTouch = "off"
         /\ open \in Quiet /\ Len(tracked) \in {1, 2, 3, 4} /\ tracked # <<>>
<1> USE DEF GestureInv
<1>1. tracked # <<>>
  BY DEF TouchingIds, Touching
<1>2. Len(tracked) \in {1, 2, 3, 4}
  BY <1>1, TouchFacts DEF GestureTypes
<1>3. candidates \notin Going
  BY DetectedIs
<1>4. RuledOutByRelease = RuledByRelease(Len(tracked), waiting)
  BY Zenon DEF RuledOutByRelease, RuledByRelease
<1>5. candidates \in Possible(Len(tracked), waiting) \ Going /\ waiting \in BOOLEAN
  BY <1>3 DEF GestureShape, GestureTypes
<1>6. candidates \ RuledOutByRelease \in OneTap \union {{}}
  BY <1>2, <1>4, <1>5, ReleasedOn
<1>7. AfterRelease \in OneTap \union {{}} /\ (AfterRelease # {} => twoTouch = "off")
  BY <1>6 DEF AfterRelease
<1> QED
  BY <1>1, <1>2, <1>3, <1>7 DEF GestureKnown

LEMMA ReleasedTouch ==
  ASSUME GestureTypes, NEW id \in TouchingIds
  PROVE  /\ Released(id) \in Seq(Touches) /\ Len(Released(id)) = Len(tracked)
         /\ DOMAIN Released(id) = DOMAIN tracked
         /\ \A i \in ActiveAfter(id) : Released(id)[i].active
<1> DEFINE i == At(id)
           u == [tracked[i] EXCEPT !.active = FALSE]
<1>1. i \in DOMAIN tracked /\ tracked[i].id = id
  BY DEF TouchingIds, Touching, At
<1>2. tracked[i] \in Touches
  BY <1>1, TouchFacts DEF GestureTypes
<1>3. u \in Touches
  BY <1>2 DEF Touches
<1>4. Released(id) = [tracked EXCEPT ![i] = u]
  BY DEF Released
<1> HIDE DEF i, u
<1>5. /\ Released(id) \in Seq(Touches) /\ Len(Released(id)) = Len(tracked)
      /\ DOMAIN Released(id) = DOMAIN tracked
      /\ \A j \in DOMAIN tracked : Released(id)[j] = IF j = i THEN u ELSE tracked[j]
  <2>1. tracked \in Seq(Touches)
    BY DEF GestureTypes
  <2> QED
    BY <1>1, <1>3, <1>4, <2>1, TouchChanged
<1>6. \A j \in ActiveAfter(id) : j \in DOMAIN tracked /\ j # i /\ tracked[j].active
  BY <1>1 DEF ActiveAfter
<1> QED
  BY <1>5, <1>6

LEMMA TapReleaseStep ==
  ASSUME GestureInv, NEW id \in Fingers, TapReleasing(id), UNCHANGED open
  PROVE  GestureInv'
<1> USE DEF GestureInv
<1>1. /\ AfterRelease \in OneTap /\ twoTouch = "off" /\ open \in Quiet
      /\ Len(tracked) \in {1, 2, 3, 4}
  BY AfterReleaseIs DEF TapReleasing
<1>2. ActiveAfter(id) # {}
  <2>1. AfterRelease \in States
    BY <1>1 DEF States
  <2> QED
    BY <1>1, <2>1, WhatIsDetected DEF TapReleasing
<1>3. /\ tracked' \in Seq(Touches) /\ Len(tracked') = Len(tracked)
      /\ DOMAIN tracked' = DOMAIN tracked
      /\ \A i \in ActiveAfter(id) : tracked'[i].active
  BY ReleasedTouch DEF TapReleasing
<1>4. Touching' # {}
  BY <1>2, <1>3 DEF Touching, ActiveAfter
<1>5. tracked' # <<>>
  BY <1>4 DEF Touching
<1>6. /\ candidates' = AfterRelease /\ waiting' = TRUE /\ longpress' = FALSE
      /\ late' \in BOOLEAN /\ UNCHANGED <<ignored, twoTouch, age>>
  BY DEF TapReleasing
<1>7. GestureTypes'
  BY <1>3, <1>6 DEF GestureTypes
<1>8. candidates' \in Possible(Len(tracked'), TRUE) /\ candidates' \notin Going
  BY <1>1, <1>6, GoingFacts DEF Possible
<1>9. GestureShape'
  BY <1>1, <1>4, <1>5, <1>6, <1>8 DEF GestureShape
<1>10. GestureKnown'
  BY <1>1, <1>8 DEF GestureKnown
<1> QED
  BY <1>7, <1>9, <1>10

\* With nothing tracked any more, the next gesture may come or is waited for.
LEMMA FinishedStep ==
  ASSUME GestureTypes, NEW id, NEW releasing \in BOOLEAN, Finish(id, releasing),
         longpress' = FALSE, twoTouch' \in {"off", "over"}, open' \in Quiet
  PROVE  GestureInv'
<1>1. tracked' = <<>> /\ age' = 0 /\ late' = FALSE
  BY DEF Finish
<1>2. Len(tracked') = 0 /\ tracked' \in Seq(Touches)
  BY <1>1, EmptySeq
<1>3. /\ candidates' = IF ignored' = {} THEN Gestures ELSE {}
      /\ waiting' = (releasing /\ ~ (ignored' = {}))
  BY DEF Finish, Resets
<1>4. ignored' \subseteq Fingers
  <2>1. ignored' = ignored \union {tracked[i].id : i \in ActiveAfter(id)}
    BY DEF Finish
  <2>2. \A i \in ActiveAfter(id) : tracked[i].id \in Fingers
    BY TouchFacts DEF ActiveAfter, GestureTypes, Touches
  <2> QED
    BY <2>1, <2>2 DEF GestureTypes
<1>5. waiting' \in BOOLEAN
  BY <1>3
<1>6. GestureTypes'
  <2>1. /\ tracked' \in Seq(Touches) /\ Len(tracked') <= 4
        /\ twoTouch' \in {"off", "running", "over"} /\ age' \in 0 .. 2
    BY <1>1, <1>2
  <2>2. longpress' \in BOOLEAN /\ late' \in BOOLEAN
    BY <1>1
  <2> QED
    BY <1>4, <1>5, <2>1, <2>2 DEF GestureTypes
<1>7. ignored' = {} => candidates' = Gestures /\ ~ waiting'
  BY <1>3
<1>8. candidates' \in Possible(0, waiting') /\ candidates' \in {Gestures, {}}
  <2>1. Gestures \in Possible(0, FALSE) /\ \A r : {} \in Possible(0, r)
    BY DEF Possible, StillPossible
  <2>2. CASE ignored' = {}
    <3>1. candidates' = Gestures /\ waiting' = FALSE
      BY <1>3, <2>2
    <3> QED
      BY <2>1, <3>1
  <2>3. CASE ignored' # {}
    <3>1. candidates' = {}
      BY <1>3, <2>3
    <3> QED
      BY <2>1, <3>1
  <2> QED
    BY <2>2, <2>3
<1>9. GestureShape'
  BY <1>1, <1>2, <1>7, <1>8 DEF GestureShape
<1>10. GestureKnown'
  BY <1>8, GoingFacts DEF GestureKnown
<1> QED
  BY <1>6, <1>9, <1>10 DEF GestureInv

LEMMA TapEndStep ==
  ASSUME GestureInv, NEW id \in Fingers, TapEnds(id), Pushed(TapEvents)
  PROVE  GestureInv'
<1>1. AfterRelease \in OneTap \union {{}} /\ open \in Quiet
  BY AfterReleaseIs DEF TapEnds
<1>2. open' \in Quiet
  <2>1. CASE AfterRelease = {}
    <3>1. TapEvents = <<>>
      BY <2>1 DEF TapEvents
    <3> QED
      BY <1>1, <3>1, HeardIs
  <2>2. CASE AfterRelease # {}
    <3>1. PICK x : AfterRelease = {x}
      BY <1>1, <2>2, GoingFacts
    <3>2. TapEvents = <<Start({x}), End({x})>>
      BY <2>2, <3>1 DEF TapEvents
    <3>3. open' = "none"
      BY <1>1, <3>2, HeardIs
    <3> QED
      BY <3>3 DEF Quiet
  <2> QED
    BY <2>1, <2>2
<1>3. Finish(id, TRUE) /\ longpress' = FALSE /\ twoTouch' = "off"
  BY DEF TapEnds
<1>4. GestureTypes
  BY DEF GestureInv
<1> QED
  BY <1>2, <1>3, <1>4, FinishedStep

LEMMA GestureEndStep ==
  ASSUME GestureInv, NEW id \in Fingers, GestureEnds(id), Pushed(EndEvents)
  PROVE  GestureInv'
<1> USE DEF GestureInv
<1>1. candidates \in Going /\ candidates = {open}
  BY DetectedIs DEF GestureEnds, GestureKnown
<1>2. open' = "none"
  <2>1. CASE waiting
    <3>1. EndEvents = <<Start({open}), End({open})>>
      BY <1>1, <2>1 DEF EndEvents
    <3> QED
      BY <2>1, <3>1, HeardIs
  <2>2. CASE ~ waiting
    <3>1. EndEvents = <<End({open})>>
      BY <1>1, <2>2 DEF EndEvents
    <3> QED
      BY <3>1, HeardIs
  <2> QED
    BY <2>1, <2>2
<1>3. longpress' = FALSE /\ twoTouch' \in {"off", "over"}
  BY <1>1 DEF GestureEnds, GestureShape, GestureTypes
<1>4. Finish(id, waiting) /\ waiting \in BOOLEAN /\ GestureTypes
  BY DEF GestureEnds, GestureTypes
<1> QED
  BY <1>2, <1>3, <1>4, FinishedStep DEF Quiet

\* The listener is not told, and knows of no other gesture.
LEMMA GestureDroppedStep ==
  ASSUME GestureInv, NEW id \in Fingers, GestureDropped(id)
  PROVE  GestureInv'
<1> USE DEF GestureInv
<1>1. candidates \in Going
  BY DetectedIs DEF GestureDropped
<1>2. longpress' = FALSE /\ twoTouch' \in {"off", "over"}
  BY <1>1 DEF GestureDropped, GestureShape, GestureTypes
<1>3. Finish(id, waiting) /\ waiting \in BOOLEAN /\ GestureTypes /\ open' = "unended"
  BY DEF GestureDropped, GestureTypes
<1> QED
  BY <1>2, <1>3, FinishedStep DEF Quiet

LEMMA LongpressStep ==
  ASSUME GestureInv, LongpressTimeout, Pushed(<<Start(candidates')>>)
  PROVE  GestureInv'
<1> USE DEF GestureInv
<1>1. /\ Len(tracked) = 1 /\ ~ waiting /\ candidates \notin Going /\ open \in Quiet
  BY DEF LongpressTimeout, GestureShape, GestureKnown
<1>2. /\ candidates' = {"longpress"} /\ longpress' = FALSE
      /\ UNCHANGED <<tracked, ignored, waiting, twoTouch, age, late>>
  BY DEF LongpressTimeout
<1>3. open' = "longpress"
  BY <1>1, <1>2, HeardIs
<1>4. Touching' = Touching
  BY <1>2 DEF Touching
<1>5. tracked' # <<>>
  BY <1>1, <1>2, EmptySeq
<1>6. {"longpress"} \in Possible(1, FALSE) /\ {"longpress"} \in Going
  BY DEF Possible, StillPossible, Going
<1>7. twoTouch # "running"
  BY <1>1 DEF GestureShape
<1>8. GestureTypes'
  BY <1>2 DEF GestureTypes
<1>9. candidates' \in Possible(Len(tracked'), waiting')
  BY <1>1, <1>2, <1>6 DEF Possible
<1>10. GestureShape'
  BY <1>2, <1>4, <1>5, <1>7, <1>9 DEF GestureShape
<1>11. GestureKnown'
  BY <1>2, <1>3, <1>6 DEF GestureKnown
<1> QED
  BY <1>8, <1>10, <1>11

LEMMA TwoTouchStep ==
  ASSUME GestureInv, TwoTouchTimeout, Pushed(<<Start(candidates'), Move(candidates')>>)
  PROVE  GestureInv'
<1> USE DEF GestureInv
<1>1. Len(tracked) \in {2, 3, 4} /\ open \in Quiet
  BY DEF TwoTouchTimeout, GestureShape, GestureKnown
<1>2. /\ candidates' \in TwoGoing /\ twoTouch' = "over"
      /\ UNCHANGED <<tracked, ignored, waiting, longpress, age, late>>
  BY DEF TwoTouchTimeout, TwoGoing
<1>3. PICK x : candidates' = {x}
  BY <1>2 DEF TwoGoing
<1>4. open' = x
  <2>1. <<Start(candidates'), Move(candidates')>> = <<Start({x}), Move({x})>>
    BY <1>3
  <2> QED
    BY <1>1, <2>1, HeardIs
<1>5. Touching' = Touching
  BY <1>2 DEF Touching
<1>6. tracked' # <<>>
  <2>1. Len(<<>>) = 0
    OBVIOUS
  <2>2. tracked' = tracked
    BY <1>2
  <2> QED
    BY <1>1, <2>1, <2>2
<1>7. \A r : \A n \in {2, 3, 4} : TwoGoing \subseteq Possible(n, r)
  BY DEF Possible, StillPossible
<1>8. GestureTypes'
  BY <1>2 DEF GestureTypes
<1>9. ~ longpress'
  BY <1>1, <1>2 DEF GestureShape
<1>10. GestureShape'
  BY <1>1, <1>2, <1>5, <1>6, <1>7, <1>9 DEF GestureShape
<1>11. GestureKnown'
  BY <1>2, <1>3, <1>4 DEF GestureKnown, Going
<1> QED
  BY <1>8, <1>10, <1>11

LEMMA TimeStep ==
  ASSUME GestureInv, TimePasses, UNCHANGED open
  PROVE  GestureInv'
<1> USE DEF GestureInv
<1>1. UNCHANGED <<candidates, tracked, ignored, waiting, longpress, twoTouch>>
  BY DEF TimePasses
<1>2. age' \in 0 .. 2 /\ late' \in BOOLEAN
  <2>1. CASE age < 2 /\ age' = age + 1 /\ UNCHANGED late
    BY <2>1 DEF GestureTypes
  <2>2. CASE late' = TRUE /\ UNCHANGED age
    BY <2>2 DEF GestureTypes
  <2> QED
    BY <2>1, <2>2 DEF TimePasses
<1>3. Touching' = Touching
  BY <1>1 DEF Touching
<1> QED
  BY <1>1, <1>2, <1>3 DEF GestureTypes, GestureShape, GestureKnown

LEMMA GesturesStay ==
  ASSUME GestureInv, UNCHANGED gestureVars
  PROVE  GestureInv'
<1>1. Touching' = Touching
  BY DEF gestureVars, Touching
<1> QED
  BY <1>1 DEF gestureVars, GestureInv, GestureTypes, GestureShape, GestureKnown

LEMMA TouchStepKeeps ==
  ASSUME GestureInv, TouchStep
  PROVE  GestureInv'
<1>1. ASSUME NEW events, HandleGestures(events)
      PROVE  Pushed(events)
  BY <1>1 DEF HandleGestures
<1>2. CASE Silently /\ UNCHANGED open
  BY <1>2, IgnoredStep, TrackedStep, SmallMoveStep, IgnoredEndStep, TapReleaseStep, TimeStep
     DEF Silently
<1>3. CASE LongpressTimeout /\ HandleGestures(<<Start(candidates')>>)
  BY <1>1, <1>3, LongpressStep
<1>4. CASE TwoTouchTimeout /\ HandleGestures(<<Start(candidates'), Move(candidates')>>)
  BY <1>1, <1>4, TwoTouchStep
<1>5. ASSUME NEW id \in Fingers, FarMove(id) /\ HandleGestures(MoveEvents)
      PROVE  GestureInv'
  BY <1>1, <1>5, FarMoveStep
<1>6. ASSUME NEW id \in Fingers, GestureMoves(id) /\ HandleGestures(<<Move(candidates)>>)
      PROVE  GestureInv'
  BY <1>1, <1>6, GestureMoveStep
<1>7. ASSUME NEW id \in Fingers, TapEnds(id) /\ HandleGestures(TapEvents)
      PROVE  GestureInv'
  BY <1>1, <1>7, TapEndStep
<1>8. ASSUME NEW id \in Fingers, GestureEnds(id) /\ HandleGestures(EndEvents)
      PROVE  GestureInv'
  BY <1>1, <1>8, GestureEndStep
<1>9. ASSUME NEW id \in Fingers, GestureDropped(id)
      PROVE  GestureInv'
  BY <1>9, GestureDroppedStep
<1> QED
  BY <1>2, <1>3, <1>4, <1>5, <1>6, <1>7, <1>8, <1>9, Zenon DEF TouchStep

LEMMA GesturesBegin == Init => GestureInv
BY GestureStart DEF Init, PointerInit

LEMMA GestureStepKeeps == GestureInv /\ [Next]_vars => GestureInv'
<1> SUFFICES ASSUME GestureInv, [Next]_vars
             PROVE  GestureInv'
  OBVIOUS
<1>1. CASE UNCHANGED gestureVars
  BY <1>1, GesturesStay
<1>2. CASE TouchStep
  BY <1>2, TouchStepKeeps
<1>3. UNCHANGED pointerVars \/ Pointing
  BY DEF vars, Next, Typing, TouchTyping, SetViewOnly, Disconnect
<1>4. UNCHANGED pointerVars => UNCHANGED gestureVars
  BY DEF pointerVars
<1>5. MouseNext \/ ViewNext \/ DelayedMove => UNCHANGED gestureVars
  BY DEF MouseNext, ViewNext, DelayedMove, MouseDown, MouseUp, MouseMove, Wheel, MouseStep,
         DesktopResize, SetClip, ToggleViewDrag, ViewStep
<1> QED
  BY <1>1, <1>2, <1>3, <1>4, <1>5 DEF Pointing

LEMMA GestureInvOrders == GestureInv => GesturesInOrder
<1> SUFFICES ASSUME GestureInv
             PROVE  GesturesInOrder
  OBVIOUS
<1> USE DEF GestureInv
<1>1. Detected <=> candidates \in Going
  BY DetectedIs
<1>2. candidates \in Going => open \in Gestures /\ open # "broken"
  BY DEF GestureKnown, Going, TwoGoing, Gestures, TwoFingered
<1>3. candidates \notin Going => open \notin Gestures /\ open # "broken"
  BY DEF GestureKnown, Quiet, Gestures, Taps, TwoFingered
<1>4. candidates \in Going /\ waiting => open \in TwoFingered
  <2>1. candidates \in Going /\ waiting => candidates \in TwoGoing
    BY GoingFacts DEF GestureShape, Possible
  <2> QED
    BY <2>1 DEF GestureKnown, TwoGoing, TwoFingered
<1>5. OneAtATime
  BY <1>1, <1>2, <1>3, <1>4 DEF OneAtATime, GestureKnown
<1>6. ReadyWhenUp
  <2> SUFFICES ASSUME Down = {}
               PROVE  /\ candidates = Gestures /\ tracked = <<>> /\ ~ waiting /\ ~ longpress
                      /\ twoTouch # "running" /\ open \in Quiet
    BY DEF ReadyWhenUp, Quiet
  <2>1. tracked = <<>> /\ ignored = {}
    BY DEF Down, TouchingIds, GestureShape
  <2>2. candidates = Gestures /\ ~ waiting
    BY <2>1 DEF GestureShape
  <2>3. open \in Quiet
    BY <2>2, GoingFacts DEF GestureKnown
  <2>4. Len(tracked) = 0
    BY <2>1, EmptySeq
  <2>5. ~ longpress /\ twoTouch # "running"
    BY <2>4 DEF GestureShape
  <2> QED
    BY <2>1, <2>2, <2>3, <2>5
<1>7. TimersMayFire
  <2>1. longpress => ~ Detected
    BY <1>1 DEF GestureShape
  <2>2. ASSUME twoTouch = "running"
        PROVE  tracked # <<>> /\ ~ Detected
    <3>1. Len(tracked) \in {2, 3, 4} /\ ~ Detected
      BY <1>1, <2>2 DEF GestureShape
    <3>2. Len(<<>>) = 0
      OBVIOUS
    <3> QED
      BY <3>1, <3>2
  <2> QED
    BY <2>1, <2>2 DEF TimersMayFire
<1> QED
  BY <1>5, <1>6, <1>7 DEF GesturesInOrder

(***************************************************************************)
(* The listener hears of one gesture at a time, under one name from its     *)
(* start to its end, but for one of two fingers that begins after a release *)
(* and may be told twice or not ended; with all fingers up the next starts  *)
(* from nothing; and no timer fires where gesturehandler.js would throw:    *)
(* for any number of fingers, and of those that come too late.              *)
(***************************************************************************)
THEOREM GesturesStayInOrder == Spec => []GesturesInOrder
BY GesturesBegin, GestureStepKeeps, GestureInvOrders, PTL DEF Spec

-----------------------------------------------------------------------------
(* The buttons *)

Reports == [mask : SUBSET AllButtons, at : Places] \union {<<>>}

\* The record of the pointer, but for the view.
Typed(m) ==
  /\ {"mask", "dragging", "moved", "timer", "at", "seen", "told"} \subseteq DOMAIN m
  /\ m.mask \subseteq AllButtons
  /\ m.dragging \in BOOLEAN /\ m.moved \in BOOLEAN /\ m.timer \in BOOLEAN
  /\ m.at \in Places /\ m.seen \in Places
  /\ m.told \in Reports

LEMMA SentIs ==
  ASSUME NEW m, Typed(m), NEW place \in Places, NEW mask \in SUBSET AllButtons
  PROVE  /\ Typed(Sent(m, place, mask))
         /\ Sent(m, place, mask).mask = m.mask
         /\ Sent(m, place, mask).dragging = m.dragging
         /\ Sent(m, place, mask).moved = m.moved
<1>1. (IF CanSend THEN [mask |-> mask, at |-> place] ELSE <<>>) \in Reports
  BY DEF Reports
<1>2. ASSUME NEW report \in Reports
      PROVE  /\ Typed([m EXCEPT !.told = report])
             /\ [m EXCEPT !.told = report].mask = m.mask
             /\ [m EXCEPT !.told = report].dragging = m.dragging
             /\ [m EXCEPT !.told = report].moved = m.moved
  BY <1>2 DEF Typed
<1> QED
  BY <1>1, <1>2 DEF Sent

LEMMA FlushedIs ==
  ASSUME NEW m, Typed(m), NEW place \in Places
  PROVE  /\ Typed(MoveFlushed(m, place))
         /\ MoveFlushed(m, place).mask = m.mask
         /\ MoveFlushed(m, place).dragging = m.dragging
         /\ MoveFlushed(m, place).moved = m.moved
<1> DEFINE n == [m EXCEPT !.timer = FALSE]
<1>1. Typed(n) /\ n.mask = m.mask /\ n.dragging = m.dragging /\ n.moved = m.moved
      /\ m.mask \in SUBSET AllButtons
  BY DEF Typed
<1> HIDE DEF n
<1>2. /\ Typed(Sent(n, place, m.mask))
      /\ Sent(n, place, m.mask).mask = n.mask
      /\ Sent(n, place, m.mask).dragging = n.dragging
      /\ Sent(n, place, m.mask).moved = n.moved
  BY <1>1, SentIs
<1>3. MoveFlushed(m, place) = IF m.timer THEN Sent(n, place, m.mask) ELSE m
  BY DEF MoveFlushed, n
<1> QED
  BY <1>1, <1>2, <1>3

LEMMA NotADragIs ==
  ASSUME NEW m, Typed(m), NEW place \in Places, NEW button \in AllButtons
  PROVE  LET r == ClickInDragMode(m, place, button) IN
         /\ Typed(r) /\ r.mask = m.mask /\ r.moved = m.moved
         /\ r.dragging = IF dragViewport THEN FALSE ELSE m.dragging
<1> DEFINE n == [m EXCEPT !.dragging = FALSE]
<1>1. Typed(n) /\ n.mask = m.mask /\ n.dragging = FALSE /\ n.moved = m.moved
  BY DEF Typed
<1> HIDE DEF n
<1>2. /\ Typed(Sent(n, place, {button}))
      /\ Sent(n, place, {button}).mask = n.mask
      /\ Sent(n, place, {button}).dragging = n.dragging
      /\ Sent(n, place, {button}).moved = n.moved
  BY <1>1, SentIs
<1>3. ClickInDragMode(m, place, button) = IF dragViewport THEN Sent(n, place, {button}) ELSE m
  BY DEF ClickInDragMode, n
<1> QED
  BY <1>1, <1>2, <1>3

\* What a button that goes down or up makes of a mask.
Pressed(mask, down, button) == IF down THEN mask \union {button} ELSE mask \ {button}

\* What r has become of m, but for where the pointer is and what was told.
IsPushed(r, m, down, button) ==
  /\ Typed(r) /\ r.moved = m.moved
  /\ r.mask = Pressed(m.mask, down, button)
  /\ r.dragging = IF dragViewport THEN FALSE ELSE m.dragging

IsButton(r, m, down, button) ==
  /\ Typed(r)
  /\ IF BeginsDrag(m, down) THEN r.mask = m.mask /\ r.dragging = TRUE /\ r.moved = FALSE
     ELSE /\ r.moved = m.moved
          /\ r.dragging = IF dragViewport THEN FALSE ELSE m.dragging
          /\ r.mask = IF dragViewport /\ m.moved THEN m.mask ELSE Pressed(m.mask, down, button)

IsClicked(r, m) ==
  /\ Typed(r) /\ r.mask \subseteq m.mask
  /\ r.dragging = IF dragViewport THEN FALSE ELSE m.dragging

IsMoved(r, m) ==
  /\ Typed(r) /\ r.mask = m.mask /\ r.dragging = m.dragging
  /\ m.dragging = FALSE => r.moved = m.moved

LEMMA PushingIs ==
  ASSUME NEW m, Typed(m), NEW place \in Places, NEW down \in BOOLEAN, NEW button \in AllButtons
  PROVE  IsPushed(Pushing(m, place, down, button), m, down, button)
<1> DEFINE c == ClickInDragMode(m, place, button)
           n == MoveFlushed(c, place)
           mask == Pressed(n.mask, down, button)
           o == [n EXCEPT !.mask = mask, !.seen = place]
<1>1. /\ Typed(c) /\ c.mask = m.mask /\ c.moved = m.moved
      /\ c.dragging = IF dragViewport THEN FALSE ELSE m.dragging
  BY NotADragIs
<1> HIDE DEF c
<1>2. Typed(n) /\ n.mask = c.mask /\ n.moved = c.moved /\ n.dragging = c.dragging
  BY <1>1, FlushedIs
<1> HIDE DEF n
<1>3. mask \in SUBSET AllButtons
  BY <1>2 DEF Typed, Pressed
<1>4. Typed(o) /\ o.mask = mask /\ o.moved = n.moved /\ o.dragging = n.dragging
  <2> HIDE DEF mask
  <2> QED
    BY <1>2, <1>3 DEF Typed
<1> HIDE DEF o
<1>5. LET r == Sent(o, place, mask) IN
      Typed(r) /\ r.mask = o.mask /\ r.moved = o.moved /\ r.dragging = o.dragging
  BY <1>3, <1>4, SentIs
<1>6. Pushing(m, place, down, button) = Sent(o, place, mask)
  BY DEF Pushing, Pressed, c, n, o
<1> QED
  BY <1>1, <1>2, <1>4, <1>5, <1>6 DEF IsPushed

\* A button begins a drag of the view, ends one, or is a button.
LEMMA ButtonIs ==
  ASSUME NEW m, Typed(m), NEW place \in Places, NEW down \in BOOLEAN, NEW button \in AllButtons
  PROVE  IsButton(ButtonChanged(m, place, down, button), m, down, button)
<1> DEFINE begun == [m EXCEPT !.dragging = TRUE, !.moved = FALSE]
           ended == [m EXCEPT !.dragging = FALSE]
           pushed == Pushing(m, place, down, button)
           r == ButtonChanged(m, place, down, button)
<1>1. Typed(begun) /\ begun.mask = m.mask /\ begun.dragging = TRUE /\ begun.moved = FALSE
  BY DEF Typed
<1>2. Typed(ended) /\ ended.mask = m.mask /\ ended.dragging = FALSE /\ ended.moved = m.moved
  BY DEF Typed
<1>3. IsPushed(pushed, m, down, button)
  BY PushingIs
<1>4. r = CASE BeginsDrag(m, down) -> begun
            [] dragViewport /\ ~ BeginsDrag(m, down) /\ m.moved -> ended
            [] OTHER -> pushed
  BY DEF ButtonChanged
<1> HIDE DEF begun, ended, pushed, r
<1>5. CASE BeginsDrag(m, down)
  <2>1. r = begun
    BY <1>4, <1>5, Zenon
  <2> QED
    BY <1>1, <1>5, <2>1 DEF r, IsButton
<1>6. CASE ~ BeginsDrag(m, down) /\ dragViewport /\ m.moved
  <2>1. r = ended
    BY <1>4, <1>6, Zenon
  <2> QED
    BY <1>2, <1>6, <2>1 DEF r, IsButton
<1>7. CASE ~ BeginsDrag(m, down) /\ ~ (dragViewport /\ m.moved)
  <2>1. r = pushed
    BY <1>4, <1>7, Zenon
  <2> QED
    BY <1>3, <1>7, <2>1 DEF r, IsButton, IsPushed
<1> QED
  BY <1>5, <1>6, <1>7

\* A press and a release at once hold nothing after them.
LEMMA ClickIs ==
  ASSUME NEW m, Typed(m), NEW place \in Places, NEW button \in AllButtons
  PROVE  IsClicked(Click(m, place, button), m)
<1> DEFINE n == ButtonChanged(m, place, TRUE, button)
           r == ButtonChanged(n, place, FALSE, button)
<1>1. IsButton(n, m, TRUE, button)
  BY ButtonIs
<1> HIDE DEF n
<1>2. IsButton(r, n, FALSE, button)
  BY <1>1, ButtonIs DEF IsButton
<1>3. Click(m, place, button) = r
  BY DEF Click, n
<1> HIDE DEF r
<1>4. CASE dragViewport
  BY <1>1, <1>2, <1>3, <1>4 DEF IsButton, IsClicked, BeginsDrag, Pressed
<1>5. CASE ~ dragViewport
  BY <1>1, <1>2, <1>3, <1>5 DEF IsButton, IsClicked, BeginsDrag, Pressed
<1> QED
  BY <1>4, <1>5

LEMMA MovedIs ==
  ASSUME NEW m, Typed(m), NEW place \in Places, NEW step
  PROVE  IsMoved(Moved(m, place, step), m)
<1> DEFINE here == [m EXCEPT !.at = place, !.seen = place]
           later == [here EXCEPT !.timer = TRUE]
           view == IF step[1] = "far" THEN Shifted(m.view, step[2], width, clip) ELSE m.view
           away == [m EXCEPT !.moved = TRUE, !.view = view]
           told == Sent(here, place, m.mask)
           r == Moved(m, place, step)
<1>1. Typed(here) /\ here.mask = m.mask /\ here.dragging = m.dragging /\ here.moved = m.moved
  BY DEF Typed
<1>2. Typed(later) /\ later.mask = m.mask /\ later.dragging = m.dragging /\ later.moved = m.moved
  BY DEF Typed
<1>3. Typed(away) /\ away.mask = m.mask /\ away.dragging = m.dragging
  <2> HIDE DEF view
  <2> QED
    BY DEF Typed
<1>4. Typed(told) /\ told.mask = m.mask /\ told.dragging = m.dragging /\ told.moved = m.moved
  <2>1. m.mask \in SUBSET AllButtons
    BY DEF Typed
  <2> HIDE DEF here
  <2> QED
    BY <1>1, <2>1, SentIs
<1>5. r \in {m, here, later, told} \/ (m.dragging /\ r = away)
  BY Zenon DEF Moved
<1> HIDE DEF here, later, away, told, r
<1>6. IsMoved(r, m)
  BY <1>1, <1>2, <1>3, <1>4, <1>5 DEF IsMoved
<1> QED
  BY <1>6 DEF r

(***************************************************************************)
(* Touches press a button from the start of a drag or long press to its     *)
(* end, and none while the view is dragged.                                 *)
(***************************************************************************)
HeldBy(gesture) == IF gesture \in {"drag", "longpress"} THEN {ButtonOf(gesture)} ELSE {}

TouchHolds(m, gesture) ==
  /\ Typed(m)
  /\ IF dragViewport
     THEN m.mask = {} /\ (m.dragging = TRUE => gesture \in {"drag", "longpress"})
     ELSE m.dragging = FALSE /\ m.mask \subseteq HeldBy(gesture)

LEMMA ButtonsOfGestures == \A gesture : ButtonOf(gesture) \in AllButtons
BY DEF ButtonOf, AllButtons

LEMMA MoveHolds ==
  ASSUME NEW m, NEW gesture, TouchHolds(m, gesture), NEW place \in Places, NEW step
  PROVE  TouchHolds(Moved(m, place, step), gesture)
<1> DEFINE n == Moved(m, place, step)
<1>1. IsMoved(n, m)
  BY MovedIs DEF TouchHolds
<1> HIDE DEF n
<1>2. TouchHolds(n, gesture)
  BY <1>1 DEF IsMoved, TouchHolds
<1> QED
  BY <1>2 DEF n

LEMMA ClickHolds ==
  ASSUME NEW m, NEW gesture, TouchHolds(m, gesture), NEW place \in Places,
         NEW button \in AllButtons
  PROVE  TouchHolds(Click(m, place, button), gesture)
<1> DEFINE n == Click(m, place, button)
<1>1. IsClicked(n, m)
  BY ClickIs DEF TouchHolds
<1> HIDE DEF n
<1>2. TouchHolds(n, gesture)
  BY <1>1 DEF IsClicked, TouchHolds
<1> QED
  BY <1>2 DEF n

LEMMA PressHolds ==
  ASSUME NEW m, TouchHolds(m, "none"), NEW place \in Places,
         NEW gesture \in {"drag", "longpress"}
  PROVE  TouchHolds(ButtonChanged(m, place, TRUE, ButtonOf(gesture)), gesture)
<1> DEFINE n == ButtonChanged(m, place, TRUE, ButtonOf(gesture))
<1>1. IsButton(n, m, TRUE, ButtonOf(gesture))
  BY ButtonIs, ButtonsOfGestures DEF TouchHolds
<1> HIDE DEF n
<1>2. m.mask = {} /\ m.dragging = FALSE
  BY DEF TouchHolds, HeldBy, Typed
<1>3. TouchHolds(n, gesture)
  <2>1. CASE dragViewport
    BY <1>1, <1>2, <2>1 DEF IsButton, BeginsDrag, TouchHolds
  <2>2. CASE ~ dragViewport
    <3>1. n.mask = {ButtonOf(gesture)} /\ n.dragging = FALSE /\ Typed(n)
      BY <1>1, <1>2, <2>2 DEF IsButton, BeginsDrag, Pressed
    <3> QED
      BY <2>2, <3>1 DEF TouchHolds, HeldBy
  <2> QED
    BY <2>1, <2>2
<1> QED
  BY <1>3 DEF n

LEMMA ReleaseHolds ==
  ASSUME NEW gesture \in {"drag", "longpress"}, NEW m, TouchHolds(m, gesture),
         NEW place \in Places
  PROVE  TouchHolds(ButtonChanged(m, place, FALSE, ButtonOf(gesture)), "none")
<1> DEFINE n == ButtonChanged(m, place, FALSE, ButtonOf(gesture))
<1>1. IsButton(n, m, FALSE, ButtonOf(gesture))
  BY ButtonIs, ButtonsOfGestures DEF TouchHolds
<1> HIDE DEF n
<1>2. ~ BeginsDrag(m, FALSE)
  BY DEF BeginsDrag
<1>3. TouchHolds(n, "none")
  <2>1. CASE dragViewport
    <3>1. Typed(n) /\ n.dragging = FALSE /\ n.mask \subseteq m.mask /\ m.mask = {}
      BY <1>1, <1>2, <2>1 DEF IsButton, TouchHolds, Pressed
    <3> QED
      BY <2>1, <3>1 DEF TouchHolds
  <2>2. CASE ~ dragViewport
    <3>1. Typed(n) /\ n.dragging = FALSE /\ n.mask = m.mask \ {ButtonOf(gesture)}
          /\ m.mask \subseteq {ButtonOf(gesture)}
      BY <1>1, <1>2, <2>2 DEF IsButton, TouchHolds, Pressed, HeldBy
    <3> QED
      BY <2>2, <3>1 DEF TouchHolds
  <2> QED
    BY <2>1, <2>2
<1> QED
  BY <1>3 DEF n

LEMMA OtherGesturesHoldNothing ==
  ASSUME NEW g, NEW h, g \notin {"drag", "longpress"}, h \notin {"drag", "longpress"},
         NEW m, TouchHolds(m, g)
  PROVE  TouchHolds(m, h)
BY DEF TouchHolds, HeldBy

LEMMA StartHolds ==
  ASSUME NEW x \in Gestures, NEW m, TouchHolds(m, "none"),
         NEW place \in Places, NEW step, NEW turns
  PROVE  TouchHolds(AfterGesture(m, <<"gesturestart", x>>, place, step, turns), x)
<1> DEFINE n == Moved(m, place, step)
           r == AfterGesture(m, <<"gesturestart", x>>, place, step, turns)
<1>1. TouchHolds(n, "none")
  BY MoveHolds
<1>2. CASE x \in Taps
  <2>1. r = Click(n, place, ButtonOf(x))
    BY <1>2 DEF AfterGesture, Taps, TwoFingered
  <2> HIDE DEF n, r
  <2>2. TouchHolds(r, "none")
    BY <1>1, <2>1, ClickHolds, ButtonsOfGestures
  <2>3. TouchHolds(r, x)
    BY <1>2, <2>2, OtherGesturesHoldNothing DEF Taps
  <2> QED
    BY <2>3 DEF r
<1>3. CASE x \in TwoFingered
  <2>1. r = n
    BY <1>3 DEF AfterGesture, Taps, TwoFingered
  <2> HIDE DEF n, r
  <2>2. TouchHolds(r, x)
    BY <1>1, <1>3, <2>1, OtherGesturesHoldNothing DEF TwoFingered
  <2> QED
    BY <2>2 DEF r
<1>4. CASE x \in {"drag", "longpress"}
  <2>1. r = ButtonChanged(n, place, TRUE, ButtonOf(x))
    BY <1>4 DEF AfterGesture, Taps, TwoFingered
  <2> HIDE DEF n, r
  <2>2. TouchHolds(r, x)
    BY <1>1, <1>4, <2>1, PressHolds
  <2> QED
    BY <2>2 DEF r
<1> QED
  BY <1>2, <1>3, <1>4 DEF Gestures

LEMMA MovingHolds ==
  ASSUME NEW x \in Gestures, NEW m, TouchHolds(m, x),
         NEW place \in Places, NEW step, NEW turns
  PROVE  TouchHolds(AfterGesture(m, <<"gesturemove", x>>, place, step, turns), x)
<1> DEFINE n == Moved(m, place, step)
           r == AfterGesture(m, <<"gesturemove", x>>, place, step, turns)
           turned == Click(n, place, "wheel")
<1>1. TouchHolds(n, x)
  BY MoveHolds
<1>2. TouchHolds(turned, x)
  <2> HIDE DEF n
  <2>1. "wheel" \in AllButtons
    BY DEF AllButtons
  <2> QED
    BY <1>1, <2>1, ClickHolds
<1>3. r \in {m, n, turned}
  <2>1. CASE x \in Taps
    BY <2>1 DEF AfterGesture, Taps, TwoFingered
  <2>2. CASE x \in TwoFingered
    BY <2>2 DEF AfterGesture, Taps, TwoFingered
  <2>3. CASE x \in {"drag", "longpress"}
    BY <2>3 DEF AfterGesture, Taps, TwoFingered
  <2> QED
    BY <2>1, <2>2, <2>3 DEF Gestures
<1> HIDE DEF n, r, turned
<1>4. TouchHolds(r, x)
  BY <1>1, <1>2, <1>3
<1> QED
  BY <1>4 DEF r

LEMMA EndHolds ==
  ASSUME NEW x \in Gestures, NEW m, TouchHolds(m, x),
         NEW place \in Places, NEW step, NEW turns
  PROVE  TouchHolds(AfterGesture(m, <<"gestureend", x>>, place, step, turns), "none")
<1> DEFINE n == Moved(m, place, step)
           r == AfterGesture(m, <<"gestureend", x>>, place, step, turns)
<1>1. TouchHolds(n, x)
  BY MoveHolds
<1>2. CASE x \in Taps \union TwoFingered
  <2>1. r = m
    BY <1>2 DEF AfterGesture, Taps, TwoFingered
  <2> HIDE DEF r
  <2>2. TouchHolds(r, "none")
    BY <1>2, <2>1, OtherGesturesHoldNothing DEF Taps, TwoFingered
  <2> QED
    BY <2>2 DEF r
<1>3. CASE x \in {"drag", "longpress"}
  <2>1. r = ButtonChanged(n, place, FALSE, ButtonOf(x))
    BY <1>3 DEF AfterGesture, Taps, TwoFingered
  <2> HIDE DEF n, r
  <2>2. TouchHolds(r, "none")
    BY <1>1, <1>3, <2>1, ReleaseHolds
  <2> QED
    BY <2>2 DEF r
<1> QED
  BY <1>2, <1>3 DEF Gestures

(***************************************************************************)
(* The inductive invariant of the buttons.  With a mouse, a button that the *)
(* server holds and that is not astray is the only one held, pressed with   *)
(* the mouse captured, and no drag of the view can swallow its release.     *)
(***************************************************************************)
MouseHolds == \A b \in mouse.mask \ strays :
  /\ held = {b} /\ captured
  /\ dragViewport => mouse.moved = FALSE /\ mouse.dragging = FALSE

ButtonTypes ==
  /\ Typed(mouse)
  /\ held \subseteq Buttons /\ strays \subseteq AllButtons
  /\ captured \in BOOLEAN /\ inside \in BOOLEAN

ButtonInv ==
  /\ ButtonTypes
  /\ device # "touch" => open = "none"
  /\ device # "mouse" => held = {} /\ strays = {}
  /\ device = "mouse" => MouseHolds
  /\ device = "touch" => TouchHolds(mouse, open)
  /\ device \notin {"mouse", "touch"} => mouse.mask = {}

LEMMA ButtonsBegin == Init => ButtonInv
<1> SUFFICES ASSUME Init
             PROVE  ButtonInv
  OBVIOUS
<1> DEFINE place == CHOOSE place \in Spots : TRUE
<1>1. place \in Places
  BY PointerAssumption DEF PointerAssumption
<1>2. mouse = [mask |-> {}, dragging |-> FALSE, moved |-> FALSE, timer |-> FALSE,
               at |-> place, seen |-> place, told |-> <<>>,
               view |-> [x |-> 0, w |-> IF clip THEN AtMost(Screen, width) ELSE width]]
  BY DEF Init, PointerInit
<1> HIDE DEF place
<1>3. Typed(mouse) /\ mouse.mask = {} /\ mouse.dragging = FALSE
  <2>1. /\ {"mask", "dragging", "moved", "timer", "at", "seen", "told"} \subseteq DOMAIN mouse
        /\ mouse.mask = {} /\ mouse.dragging = FALSE /\ mouse.moved = FALSE
        /\ mouse.timer = FALSE /\ mouse.at = place /\ mouse.seen = place /\ mouse.told = <<>>
    BY <1>2
  <2> QED
    BY <1>1, <2>1 DEF Typed, Reports
<1>4. held = {} /\ strays = {} /\ captured = FALSE /\ inside = TRUE /\ open = "none"
  BY DEF Init, PointerInit, GesturesInit
<1>5. ButtonTypes
  BY <1>3, <1>4 DEF ButtonTypes
<1>6. MouseHolds
  BY <1>3 DEF MouseHolds
<1>7. TouchHolds(mouse, open)
  BY <1>3 DEF TouchHolds
<1> QED
  BY <1>3, <1>4, <1>5, <1>6, <1>7 DEF ButtonInv

LEMMA MouseDownHolds ==
  ASSUME ButtonTypes, MouseHolds, NEW button \in Buttons, MouseDown(button)
  PROVE  ButtonTypes' /\ MouseHolds'
<1> USE DEF ButtonTypes
<1>1. button \in AllButtons
  BY PointerAssumption DEF PointerAssumption, AllButtons
<1>2. /\ held' = held \union {button} /\ UNCHANGED <<inside, dragViewport>>
      /\ strays' = (strays \intersect mouse'.mask) \union (IF held # {} THEN mouse'.mask ELSE {})
  BY DEF MouseDown, MouseStep
<1>3. CASE inside /\ ~ captured
  <2>1. PICK place \in Places : mouse' = ButtonChanged(mouse, place, TRUE, button)
    BY <1>3 DEF MouseDown, MouseStep
  <2>2. captured' = TRUE
    BY <1>3 DEF MouseDown
  <2>3. IsButton(mouse', mouse, TRUE, button)
    BY <1>1, <2>1, ButtonIs
  <2>4. ButtonTypes'
    BY <1>2, <2>2, <2>3 DEF IsButton, Typed
  <2>5. CASE held # {}
    BY <1>2, <2>4, <2>5 DEF MouseHolds
  <2>6. CASE held = {}
    <3>1. mouse.mask \subseteq strays /\ strays' = strays \intersect mouse'.mask
      BY <1>2, <2>6 DEF MouseHolds
    <3>2. ASSUME NEW b \in mouse'.mask \ strays'
          PROVE  /\ b = button
                 /\ dragViewport => mouse'.moved = FALSE /\ mouse'.dragging = FALSE
      <4>1. mouse'.mask # mouse.mask
        BY <3>1, <3>2
      <4>2. /\ ~ BeginsDrag(mouse, TRUE) /\ ~ (dragViewport /\ mouse.moved)
            /\ mouse'.mask = mouse.mask \union {button}
            /\ mouse'.moved = mouse.moved
            /\ mouse'.dragging = IF dragViewport THEN FALSE ELSE mouse.dragging
        BY <2>3, <4>1 DEF IsButton, Pressed
      <4> QED
        BY <3>1, <3>2, <4>2 DEF Typed
    <3> QED
      BY <1>2, <2>2, <2>4, <2>6, <3>2 DEF MouseHolds
  <2> QED
    BY <2>4, <2>5, <2>6
<1>4. CASE ~ (inside /\ ~ captured)
  <2>1. mouse' = mouse /\ captured' = captured
    BY <1>4 DEF MouseDown, MouseStep
  <2>2. ButtonTypes'
    BY <1>2, <2>1 DEF Typed
  <2>3. mouse'.mask \subseteq strays'
    BY <1>2, <2>1 DEF MouseHolds
  <2> QED
    BY <2>2, <2>3 DEF MouseHolds
<1> QED
  BY <1>3, <1>4

LEMMA MouseUpHolds ==
  ASSUME ButtonTypes, MouseHolds, NEW button \in Buttons, MouseUp(button)
  PROVE  ButtonTypes' /\ MouseHolds'
<1> USE DEF ButtonTypes
<1>1. button \in AllButtons
  BY PointerAssumption DEF PointerAssumption, AllButtons
<1>2. /\ button \in held /\ held' = held \ {button} /\ UNCHANGED inside /\ captured' = FALSE
      /\ strays' = strays \intersect mouse'.mask
  BY DEF MouseUp, StillStray
<1>3. CASE Heard
  <2>1. PICK place \in Places : mouse' = ButtonChanged(mouse, place, FALSE, button)
    BY <1>3 DEF MouseUp, MouseStep
  <2>2. IsButton(mouse', mouse, FALSE, button)
    BY <1>1, <2>1, ButtonIs
  <2>3. ButtonTypes'
    BY <1>2, <2>2 DEF IsButton, Typed
  <2>4. mouse'.mask \subseteq mouse.mask /\ ~ BeginsDrag(mouse, FALSE)
    BY <2>2 DEF IsButton, BeginsDrag, Pressed
  <2>5. ASSUME NEW b \in mouse'.mask \ strays'
        PROVE  FALSE
    <3>1. b \in mouse.mask \ strays
      BY <1>2, <2>4, <2>5
    <3>2. b = button /\ ~ (dragViewport /\ mouse.moved)
      BY <1>2, <3>1 DEF MouseHolds
    <3>3. mouse'.mask = mouse.mask \ {button}
      BY <2>2, <2>4, <3>2 DEF IsButton, Pressed
    <3> QED
      BY <2>5, <3>2, <3>3
  <2> QED
    BY <2>3, <2>5 DEF MouseHolds
<1>4. CASE ~ Heard
  <2>1. mouse' = mouse
    BY <1>4 DEF MouseUp, MouseStep
  <2>2. mouse.mask \subseteq strays
    BY <1>4 DEF MouseHolds, Heard
  <2> QED
    BY <1>2, <2>1, <2>2 DEF MouseHolds, Typed
<1> QED
  BY <1>3, <1>4

LEMMA MouseMoveHolds ==
  ASSUME ButtonTypes, MouseHolds, MouseMove
  PROVE  ButtonTypes' /\ MouseHolds'
<1> USE DEF ButtonTypes
<1>1. UNCHANGED <<held, captured, strays, dragViewport>> /\ inside' \in BOOLEAN
  BY DEF MouseMove, MouseStep
<1>2. mouse' = mouse \/ \E place \in Places, step \in Steps(mouse) :
                          mouse' = Moved(mouse, place, step)
  BY DEF MouseMove, MouseStep
<1>3. mouse' = mouse \/ IsMoved(mouse', mouse)
  BY <1>2, MovedIs
<1>4. /\ Typed(mouse') /\ mouse'.mask = mouse.mask /\ mouse'.dragging = mouse.dragging
      /\ mouse.dragging = FALSE => mouse'.moved = mouse.moved
  BY <1>3 DEF IsMoved
<1> QED
  BY <1>1, <1>4 DEF MouseHolds

LEMMA WheelHolds ==
  ASSUME ButtonTypes, MouseHolds, Wheel
  PROVE  ButtonTypes' /\ MouseHolds'
<1> USE DEF ButtonTypes
<1>1. /\ UNCHANGED <<held, captured, inside>> /\ ~ captured
      /\ strays' = strays \intersect mouse'.mask
  BY DEF Wheel, StillStray
<1>2. PICK place \in Places : mouse' = Click(mouse, place, "wheel")
  BY DEF Wheel, MouseStep
<1>3. IsClicked(mouse', mouse)
  BY <1>2, ClickIs DEF AllButtons
<1>4. Typed(mouse') /\ mouse'.mask \subseteq mouse.mask
  BY <1>3 DEF IsClicked
<1>5. mouse'.mask \subseteq strays'
  BY <1>1, <1>4 DEF MouseHolds
<1> QED
  BY <1>1, <1>4, <1>5 DEF MouseHolds

\* The events of a step that fit the gesture the listener knows.
EventsFit(events) ==
  \/ events = <<>>
  \/ \E x \in Gestures :
       \/ /\ open \in Quiet
          /\ events \in {<<Start({x})>>, <<Start({x}), Move({x})>>, <<Start({x}), End({x})>>}
       \/ open = x /\ events \in {<<Move({x})>>, <<End({x})>>}
       \/ open = x /\ x \in TwoFingered /\ waiting /\ events = <<Start({x}), End({x})>>

LEMMA OneTouchHolds ==
  ASSUME NEW events, EventsFit(events), HandleGestures(events), TouchHolds(mouse, open)
  PROVE  TouchHolds(mouse', open')
<1>1. Pushed(events)
  BY DEF HandleGestures
<1>2. CASE events = <<>>
  <2>1. mouse' = mouse /\ open' = open
    BY <1>1, <1>2, HeardIs DEF HandleGestures
  <2> QED
    BY <2>1
<1>3. CASE events # <<>>
  <2>1. PICK place \in Spots, step \in Steps(mouse), turns \in Turns(events[1]) :
          mouse' = AfterEvents(mouse, events, place, step, turns)
    BY <1>3, Zenon DEF HandleGestures, AfterEvents
  <2>2. PICK x \in Gestures :
          \/ /\ open \in Quiet
             /\ events \in {<<Start({x})>>, <<Start({x}), Move({x})>>, <<Start({x}), End({x})>>}
          \/ open = x /\ events \in {<<Move({x})>>, <<End({x})>>}
          \/ open = x /\ x \in TwoFingered /\ waiting /\ events = <<Start({x}), End({x})>>
    BY <1>3 DEF EventsFit
  <2>3. place \in Places
    BY PointerAssumption DEF PointerAssumption
  <2>4. /\ Start({x}) = <<"gesturestart", x>> /\ Move({x}) = <<"gesturemove", x>>
        /\ End({x}) = <<"gestureend", x>>
    BY OnlyOne DEF Start, Move, End
  <2>5. ASSUME NEW a, events = <<a>>
        PROVE  mouse' = AfterGesture(mouse, a, place, step, turns)
    <3>1. DOMAIN events = {1} /\ events[1] = a /\ 2 \notin DOMAIN events
      BY <2>5
    <3> QED
      BY <2>1, <3>1, FoldOfFew
  <2>6. ASSUME NEW a, NEW b, events = <<a, b>>
        PROVE  mouse' = AfterGesture(AfterGesture(mouse, a, place, step, turns),
                                     b, place, step, turns)
    <3>1. DOMAIN events = {1, 2} /\ events[1] = a /\ events[2] = b /\ 2 \in DOMAIN events
      BY <2>6
    <3> QED
      BY <2>1, <3>1, FoldOfFew
  <2> DEFINE started == AfterGesture(mouse, <<"gesturestart", x>>, place, step, turns)
  <2>7. ASSUME open \in Quiet \union TwoFingered
        PROVE  TouchHolds(started, x)
    <3>1. open \notin {"drag", "longpress"}
      BY <2>7 DEF Quiet, TwoFingered
    <3>2. TouchHolds(mouse, "none")
      BY <3>1, OtherGesturesHoldNothing
    <3> QED
      BY <2>3, <3>2, StartHolds
  <2> HIDE DEF started
  <2>8. CASE open \in Quiet /\ events = <<Start({x})>>
    <3>1. mouse' = started
      BY <2>4, <2>5, <2>8 DEF started
    <3>2. open' = x
      BY <1>1, <2>8, HeardIs
    <3> QED
      BY <2>7, <2>8, <3>1, <3>2
  <2>9. CASE open \in Quiet /\ events = <<Start({x}), Move({x})>>
    <3>1. mouse' = AfterGesture(started, <<"gesturemove", x>>, place, step, turns)
      BY <2>4, <2>6, <2>9 DEF started
    <3>2. open' = x
      BY <1>1, <2>9, HeardIs
    <3> QED
      BY <2>3, <2>7, <2>9, <3>1, <3>2, MovingHolds
  <2>10. CASE open \in Quiet /\ events = <<Start({x}), End({x})>>
    <3>1. mouse' = AfterGesture(started, <<"gestureend", x>>, place, step, turns)
      BY <2>4, <2>6, <2>10 DEF started
    <3>2. open' = "none"
      BY <1>1, <2>10, HeardIs
    <3> QED
      BY <2>3, <2>7, <2>10, <3>1, <3>2, EndHolds
  <2>11. CASE open = x /\ events = <<Move({x})>>
    <3>1. mouse' = AfterGesture(mouse, <<"gesturemove", x>>, place, step, turns)
      BY <2>4, <2>5, <2>11
    <3>2. open' = x
      BY <1>1, <2>11, HeardIs
    <3> QED
      BY <2>3, <2>11, <3>1, <3>2, MovingHolds
  <2>12. CASE open = x /\ events = <<End({x})>>
    <3>1. mouse' = AfterGesture(mouse, <<"gestureend", x>>, place, step, turns)
      BY <2>4, <2>5, <2>12
    <3>2. open' = "none"
      BY <1>1, <2>12, HeardIs
    <3> QED
      BY <2>3, <2>12, <3>1, <3>2, EndHolds
  <2>13. CASE open = x /\ x \in TwoFingered /\ waiting /\ events = <<Start({x}), End({x})>>
    <3>1. mouse' = AfterGesture(started, <<"gestureend", x>>, place, step, turns)
      BY <2>4, <2>6, <2>13 DEF started
    <3>2. open' = "none"
      BY <1>1, <2>13, HeardIs
    <3> QED
      BY <2>3, <2>7, <2>13, <3>1, <3>2, EndHolds
  <2> QED
    BY <2>2, <2>8, <2>9, <2>10, <2>11, <2>12, <2>13
<1> QED
  BY <1>2, <1>3

\* A touch that moves on is silent, its events fit, or a gesture of two
\* fingers is dropped.
LEMMA TouchEventsFit ==
  ASSUME GestureInv, TouchStep
  PROVE  \/ UNCHANGED <<open, mouse, dragViewport, width, clip, held, captured, inside, strays>>
         \/ /\ open \in TwoFingered /\ open' = "unended"
            /\ UNCHANGED <<mouse, dragViewport, width, clip, held, captured, inside, strays>>
         \/ \E events : EventsFit(events) /\ HandleGestures(events)
<1> USE DEF GestureInv
<1>1. Detected <=> candidates \in Going
  BY DetectedIs
<1>2. \A s \in Going \union OneTap : \E x \in Gestures : s = {x}
  BY DEF Going, TwoGoing, OneTap, Gestures, Taps, TwoFingered
<1>3. CASE LongpressTimeout /\ HandleGestures(<<Start(candidates')>>)
  <2>1. open \in Quiet /\ candidates' = {"longpress"} /\ "longpress" \in Gestures
    BY <1>3 DEF LongpressTimeout, GestureShape, GestureKnown, Gestures
  <2>2. <<Start(candidates')>> = <<Start({"longpress"})>>
    BY <2>1
  <2>3. EventsFit(<<Start(candidates')>>)
    BY <2>1, <2>2 DEF EventsFit
  <2> QED
    BY <1>3, <2>3
<1>4. CASE TwoTouchTimeout /\ HandleGestures(<<Start(candidates'), Move(candidates')>>)
  <2>1. open \in Quiet /\ candidates' \in {{"pinch"}, {"twodrag"}}
    BY <1>4 DEF TwoTouchTimeout, GestureShape, GestureKnown
  <2>2. PICK x \in Gestures : candidates' = {x}
    BY <2>1 DEF Gestures, TwoFingered
  <2>3. <<Start(candidates'), Move(candidates')>> = <<Start({x}), Move({x})>>
    BY <2>2
  <2>4. EventsFit(<<Start(candidates'), Move(candidates')>>)
    BY <2>1, <2>3 DEF EventsFit
  <2> QED
    BY <1>4, <2>4
<1>5. ASSUME NEW id \in Fingers, FarMove(id) /\ HandleGestures(MoveEvents)
      PROVE  EventsFit(MoveEvents)
  <2>1. GestureInv'
    BY <1>5, FarMoveStep DEF HandleGestures
  <2>2. candidates' \in States
    BY <2>1, PossibleAreStates DEF GestureShape
  <2>3. Touching # {} /\ open \in Quiet
    <3>1. tracked # <<>>
      BY <1>5, MovedTouch DEF FarMove
    <3> QED
      BY <1>1, <1>5, <3>1 DEF FarMove, GestureShape, GestureKnown
  <2>4. CASE DetectedIn(candidates', Touching)
    <3>1. PICK x \in Gestures : candidates' = {x}
      BY <1>2, <2>2, <2>3, <2>4, WhatIsDetected
    <3>2. MoveEvents = <<Start({x}), Move({x})>>
      BY <2>4, <3>1 DEF MoveEvents
    <3> QED
      BY <2>3, <3>2 DEF EventsFit
  <2>5. CASE ~ DetectedIn(candidates', Touching)
    BY <2>5 DEF MoveEvents, EventsFit
  <2> QED
    BY <2>4, <2>5
<1>6. ASSUME NEW id \in Fingers, GestureMoves(id)
      PROVE  EventsFit(<<Move(candidates)>>)
  <2>1. candidates \in Going /\ candidates = {open} /\ open \in Gestures
    BY <1>1, <1>2, <1>6 DEF GestureMoves, GestureKnown
  <2>2. <<Move(candidates)>> = <<Move({open})>>
    BY <2>1
  <2> QED
    BY <2>1, <2>2 DEF EventsFit
<1>7. ASSUME NEW id \in Fingers, TapEnds(id)
      PROVE  EventsFit(TapEvents)
  <2>1. AfterRelease \in OneTap \union {{}} /\ open \in Quiet
    BY <1>7, AfterReleaseIs DEF TapEnds
  <2>2. CASE AfterRelease = {}
    BY <2>2 DEF TapEvents, EventsFit
  <2>3. CASE AfterRelease # {}
    <3>1. PICK x \in Gestures : AfterRelease = {x}
      BY <1>2, <2>1, <2>3
    <3>2. TapEvents = <<Start({x}), End({x})>>
      BY <2>3, <3>1 DEF TapEvents
    <3> QED
      BY <2>1, <3>2 DEF EventsFit
  <2> QED
    BY <2>2, <2>3
<1>8. candidates \in Going /\ waiting => candidates \in TwoGoing
  BY GoingFacts DEF GestureShape, Possible
<1>9. ASSUME NEW id \in Fingers, GestureEnds(id)
      PROVE  EventsFit(EndEvents)
  <2>1. candidates \in Going /\ candidates = {open} /\ open \in Gestures
    BY <1>1, <1>2, <1>9 DEF GestureEnds, GestureKnown
  <2>2. CASE waiting
    <3>1. open \in TwoFingered
      BY <1>8, <2>1, <2>2 DEF TwoGoing, TwoFingered
    <3>2. EndEvents = <<Start({open}), End({open})>>
      BY <2>1, <2>2 DEF EndEvents
    <3> QED
      BY <2>1, <2>2, <3>1, <3>2 DEF EventsFit
  <2>3. CASE ~ waiting
    <3>1. EndEvents = <<End({open})>>
      BY <2>1, <2>3 DEF EndEvents
    <3> QED
      BY <2>1, <3>1 DEF EventsFit
  <2> QED
    BY <2>2, <2>3
<1>10. ASSUME NEW id \in Fingers, GestureDropped(id)
       PROVE  open \in TwoFingered /\ open' = "unended"
  <2>1. candidates \in TwoGoing /\ candidates = {open}
    BY <1>1, <1>8, <1>10 DEF GestureDropped, GestureKnown
  <2> QED
    BY <1>10, <2>1 DEF GestureDropped, TwoGoing, TwoFingered
<1> QED
  BY <1>3, <1>4, <1>5, <1>6, <1>7, <1>9, <1>10, Zenon DEF TouchStep

LEMMA TouchHoldsOn ==
  ASSUME GestureInv, ButtonInv, device = "touch", TouchStep, UNCHANGED device
  PROVE  ButtonInv'
<1> USE DEF ButtonInv
<1>1. CASE UNCHANGED <<open, mouse, dragViewport, width, clip, held, captured, inside, strays>>
  BY <1>1 DEF ButtonTypes, TouchHolds, Typed
<1>3. CASE /\ open \in TwoFingered /\ open' = "unended"
           /\ UNCHANGED <<mouse, dragViewport, width, clip, held, captured, inside, strays>>
  <2>1. TouchHolds(mouse, "unended")
    BY <1>3, OtherGesturesHoldNothing DEF TwoFingered
  <2> QED
    BY <1>3, <2>1 DEF ButtonTypes, TouchHolds, Typed
<1>2. ASSUME NEW events, EventsFit(events), HandleGestures(events)
      PROVE  ButtonInv'
  <2>1. TouchHolds(mouse', open')
    BY <1>2, OneTouchHolds
  <2>2. UNCHANGED <<dragViewport, held, captured, inside>> /\ strays' = {}
    BY <1>2 DEF HandleGestures, StillStray
  <2>3. TouchHolds(mouse, open)'
    BY <2>1, <2>2 DEF TouchHolds, Typed
  <2>4. ButtonTypes'
    BY <2>2, <2>3 DEF TouchHolds, ButtonTypes
  <2> QED
    BY <2>2, <2>3, <2>4
<1> QED
  BY <1>1, <1>2, <1>3, TouchEventsFit

LEMMA DelayedHolds ==
  ASSUME ButtonInv, DelayedMove, UNCHANGED device
  PROVE  ButtonInv'
<1> USE DEF ButtonInv
<1> DEFINE n == [mouse EXCEPT !.timer = FALSE]
<1>1. /\ Typed(n) /\ n.mask = mouse.mask /\ n.dragging = mouse.dragging
      /\ n.moved = mouse.moved
  BY DEF ButtonTypes, Typed
<1>2. mouse' = Sent(n, mouse.at, mouse.mask) /\ mouse.at \in Places
      /\ mouse.mask \in SUBSET AllButtons
  BY DEF DelayedMove, ButtonTypes, Typed
<1> HIDE DEF n
<1>3. /\ Typed(mouse') /\ mouse'.mask = n.mask /\ mouse'.dragging = n.dragging
      /\ mouse'.moved = n.moved
  BY <1>1, <1>2, SentIs
<1>4. UNCHANGED <<open, dragViewport, held, captured, inside, strays>>
  BY DEF DelayedMove, gestureVars
<1>5. ButtonTypes'
  BY <1>3, <1>4 DEF ButtonTypes
<1>6. MouseHolds => MouseHolds'
  BY <1>1, <1>3, <1>4 DEF MouseHolds
<1>7. TouchHolds(mouse, open) => TouchHolds(mouse, open)'
  BY <1>1, <1>3, <1>4 DEF TouchHolds
<1> QED
  BY <1>1, <1>3, <1>4, <1>5, <1>6, <1>7

\* What is shown changes; buttons that are held as the drag mode changes are astray.
LEMMA ViewHolds ==
  ASSUME ButtonTypes, MouseHolds, ViewNext
  PROVE  ButtonTypes' /\ MouseHolds'
<1> USE DEF ButtonTypes
<1>1. UNCHANGED <<held, captured, inside>>
  BY DEF ViewNext, DesktopResize, SetClip, ToggleViewDrag, ViewStep
<1>2. \/ mouse' = mouse
      \/ \E view : mouse' = [mouse EXCEPT !.view = view]
  <2>1. CASE DesktopResize
    BY <2>1 DEF DesktopResize
  <2>2. CASE SetClip
    BY <2>2 DEF SetClip
  <2>3. CASE ToggleViewDrag
    BY <2>3 DEF ToggleViewDrag
  <2> QED
    BY <2>1, <2>2, <2>3 DEF ViewNext
<1>3. /\ Typed(mouse') /\ mouse'.mask = mouse.mask /\ mouse'.dragging = mouse.dragging
      /\ mouse'.moved = mouse.moved
  BY <1>2 DEF Typed
<1>4. strays' = mouse.mask \/ (UNCHANGED <<strays, dragViewport>>)
  BY DEF ViewNext, DesktopResize, SetClip, ToggleViewDrag, ViewStep
<1>5. strays' \subseteq AllButtons
  BY <1>4 DEF Typed
<1>6. MouseHolds'
  BY <1>1, <1>3, <1>4 DEF MouseHolds
<1> QED
  BY <1>1, <1>3, <1>5, <1>6

LEMMA MouseStepHolds ==
  ASSUME ButtonInv, device = "mouse", MouseNext \/ ViewNext, UNCHANGED device
  PROVE  ButtonInv'
<1>1. ButtonTypes' /\ MouseHolds'
  <2> USE DEF ButtonInv
  <2>1. CASE MouseNext
    BY <2>1, MouseDownHolds, MouseUpHolds, MouseMoveHolds, WheelHolds DEF MouseNext
  <2>2. CASE ViewNext
    BY <2>2, ViewHolds
  <2> QED
    BY <2>1, <2>2
<1>2. UNCHANGED gestureVars
  BY DEF MouseNext, ViewNext, MouseDown, MouseUp, MouseMove, Wheel, MouseStep,
         DesktopResize, SetClip, ToggleViewDrag, ViewStep
<1>3. open' = open
  BY <1>2 DEF gestureVars
<1> QED
  BY <1>1, <1>3 DEF ButtonInv

LEMMA ButtonStepKeeps == GestureInv /\ ButtonInv /\ [Next]_vars => ButtonInv'
<1> SUFFICES ASSUME GestureInv, ButtonInv, [Next]_vars
             PROVE  ButtonInv'
  OBVIOUS
<1>1. UNCHANGED device
  BY DEF vars, Next, Typing, Pointing, TouchTyping, SetViewOnly, Disconnect, Session
<1>2. CASE UNCHANGED pointerVars
  <2>1. UNCHANGED <<device, open, mouse, dragViewport, held, captured, inside, strays>>
    BY <1>1, <1>2 DEF pointerVars, gestureVars
  <2> QED
    BY <2>1 DEF ButtonInv, ButtonTypes, Typed, MouseHolds, TouchHolds
<1>3. CASE Pointing
  BY <1>1, <1>3, MouseStepHolds, TouchHoldsOn, DelayedHolds DEF Pointing
<1>4. UNCHANGED pointerVars \/ Pointing
  BY DEF vars, Next, Typing, TouchTyping, SetViewOnly, Disconnect
<1> QED
  BY <1>2, <1>3, <1>4

LEMMA NothingStuck == ButtonInv => NoButtonStuck
<1> SUFFICES ASSUME ButtonInv, NEW b \in mouse.mask
             PROVE  b \in held \union GestureButton \union strays
  BY DEF NoButtonStuck
<1>1. CASE device = "mouse"
  BY <1>1 DEF ButtonInv, MouseHolds
<1>2. CASE device = "touch"
  BY <1>2 DEF ButtonInv, TouchHolds, HeldBy, GestureButton
<1>3. CASE device \notin {"mouse", "touch"}
  BY <1>3 DEF ButtonInv
<1> QED
  BY <1>1, <1>2, <1>3

(***************************************************************************)
(* The server's pointer is the user's: it is where the user's is once no    *)
(* move waits, and a button is held for the server only while a finger or a *)
(* gesture holds it, but for the two kinds of press that noVNC loses: with  *)
(* another button down, and during which the drag mode changes.             *)
(***************************************************************************)
THEOREM PointerIsTheUsers == Spec => []PointerAgrees
<1>1. Spec => []NoButtonStuck
  BY GesturesBegin, GestureStepKeeps, ButtonsBegin, ButtonStepKeeps, NothingStuck, PTL DEF Spec
<1> QED
  BY <1>1, ServerKnowsPointer, PTL DEF PointerAgrees

-----------------------------------------------------------------------------
(* Types *)

LEMMA MouseTypes == ButtonInv /\ ViewInv => MouseOK(mouse)
<1> SUFFICES ASSUME ButtonInv, ViewInv
             PROVE  MouseOK(mouse)
  OBVIOUS
<1>1. mouse.view \in [x : Nat, w : Nat]
  BY DEF ViewInv, Shows, Fits, Views
<1>2. Typed(mouse)
  BY DEF ButtonInv, ButtonTypes
<1> QED
  BY <1>1, <1>2 DEF MouseOK, Typed, Reports

LEMMA StatesAreGestures == \A state \in States : state \subseteq Gestures
BY DEF States, Going, TwoGoing, OneTap, TwoOrThree, TwoFingered, Gestures, Taps

LEMMA GestureTypesHold == GestureInv => GesturesTypeOK
<1> SUFFICES ASSUME GestureInv
             PROVE  GesturesTypeOK
  OBVIOUS
<1>1. candidates \subseteq Gestures
  BY DetectedIs, StatesAreGestures DEF GestureInv
<1>2. \A i \in DOMAIN tracked : tracked[i] \in Touches
  BY TouchFacts DEF GestureInv, GestureTypes
<1> QED
  BY <1>1, <1>2 DEF GestureInv, GestureTypes, GesturesTypeOK, Touches

LEMMA PointerTypes == GestureInv /\ ButtonInv /\ ViewInv => PointerTypeOK
<1> SUFFICES ASSUME GestureInv, ButtonInv, ViewInv
             PROVE  PointerTypeOK
  OBVIOUS
<1>1. width \in 1 .. MaxWidth
  BY PointerAssumption DEF PointerAssumption, ViewInv, Widths
<1>2. {dragViewport, clip, captured, inside} \subseteq BOOLEAN
  BY DEF ViewInv, ButtonInv, ButtonTypes
<1>3. held \subseteq Buttons /\ strays \subseteq AllButtons
  BY DEF ButtonInv, ButtonTypes
<1> QED
  BY <1>1, <1>2, <1>3, GestureTypesHold, MouseTypes DEF PointerTypeOK

\* What no device's invariant says of the session and the keyboard.
SessionTypes ==
  /\ device \in {"keyboard", "mouse", "touch", "onscreen"}
  /\ {connected, viewOnly} \subseteq BOOLEAN
  /\ KeyboardTypeOK

LEMMA SessionTypesBegin == Init => SessionTypes
BY TypesBegin DEF Init, SessionTypes

LEMMA SessionTypesKeep == SessionTypes /\ KeyInv /\ [Next]_vars => SessionTypes'
<1> SUFFICES ASSUME SessionTypes, KeyInv, [Next]_vars
             PROVE  SessionTypes'
  OBVIOUS
<1>1. UNCHANGED device /\ {connected', viewOnly'} \subseteq BOOLEAN
  BY DEF SessionTypes, vars, Next, Typing, Pointing, TouchTyping, SetViewOnly, Disconnect, Session
<1>2. CASE UNCHANGED keyboardVars
  <2>1. KeysOK' = KeysOK
    BY <1>2 DEF keyboardVars, KeysOK
  <2> QED
    BY <1>1, <1>2, <2>1 DEF SessionTypes, KeyboardTypeOK, keyboardVars
<1>3. CASE KeyboardNext \/ Ungrabbed
  <2>1. KeyboardTypeOK'
    BY <1>3, TypesKeep, UngrabbedTypes DEF SessionTypes
  <2> QED
    BY <1>1, <2>1 DEF SessionTypes
<1>4. UNCHANGED keyboardVars \/ KeyboardNext \/ Ungrabbed
  BY DEF vars, Next, Typing, Pointing, TouchTyping, SetViewOnly, Disconnect
<1> QED
  BY <1>2, <1>3, <1>4

(***************************************************************************)
(* Every part of the input keeps its kind of value: the keys recorded are   *)
(* keys of the platform with symbols of their own, at most four fingers are *)
(* tracked and the gestures left are gestures, the server is told of the    *)
(* mouse's buttons at places on the page, and what is shown has a width.    *)
(***************************************************************************)
THEOREM TypeCorrect == Spec => []TypeOK
<1>1. FieldInv /\ SessionTypes /\ PointerTypeOK => TypeOK
  BY DEF FieldInv, SessionTypes, TypeOK
<1>2. Spec => []FieldInv
  BY FieldInit, FieldStep, PTL DEF Spec
<1>3. Spec => []SessionTypes
  BY KeysInit, KeysStep, SessionTypesBegin, SessionTypesKeep, PTL DEF Spec
<1>4. Spec => []PointerTypeOK
  BY ViewInit, ViewStepKeeps, GesturesBegin, GestureStepKeeps, ButtonsBegin, ButtonStepKeeps,
     PointerTypes, PTL DEF Spec
<1> QED
  BY <1>1, <1>2, <1>3, <1>4, PTL
==============================================================================
