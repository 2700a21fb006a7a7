------------------------------ MODULE Gestures ------------------------------
(***************************************************************************)
(* Touch gestures (core/input/gesturehandler.js): fingers that come, move  *)
(* and go, and two timers, become one gesture that starts, moves and ends. *)
(* Distances and angles are a choice: whether a finger has moved past the  *)
(* threshold, and whether two fingers go the same way.                     *)
(***************************************************************************)
EXTENDS Naturals, FiniteSets, Sequences, SequencesExt

CONSTANTS
  Fingers     \* identifiers of touches

VARIABLES
  candidates, \* _state: the gestures still possible; {} is GH_NOGESTURE
  tracked,    \* _tracked
  ignored,    \* _ignored
  waiting,    \* _waitingRelease
  longpress,  \* the long press timer is running
  twoTouch,   \* "off", "running", or "over": it ran and _twoTouchTimeoutId is still set
  age,        \* of the first touch: 0 to 250 ms, 1 to 1000 ms, 2 more
  late,       \* the first release was more than 250 ms ago
  open        \* the gesture the listener was told of: "none" once it has ended,
              \* "unended" if it is over and the listener was not told

gestureVars == <<candidates, tracked, ignored, waiting, longpress, twoTouch, age, late, open>>

Taps == {"onetap", "twotap", "threetap"}
TwoFingered == {"twodrag", "pinch"}
Gestures == Taps \union TwoFingered \union {"drag", "longpress"}  \* GH_INITSTATE

Touching == {i \in DOMAIN tracked : tracked[i].active}
Ids(seq) == {seq[i].id : i \in DOMAIN seq}
TouchingIds == {tracked[i].id : i \in Touching}
Down == TouchingIds \union ignored
At(id) == CHOOSE i \in DOMAIN tracked : tracked[i].id = id

\* _hasDetectedGesture, for a state and the touches that are active.
DetectedIn(state, active) ==
  /\ Cardinality(state) = 1
  /\ state \subseteq Taps => active = {}

Detected == DetectedIn(candidates, Touching)

Only(state) == CHOOSE gesture \in state : TRUE

-----------------------------------------------------------------------------
(* _pushEvent: what the listener makes of the events of a step. *)

Start(state) == <<"gesturestart", Only(state)>>
Move(state) == <<"gesturemove", Only(state)>>
End(state) == <<"gestureend", Only(state)>>

\* Only _touchEnd may tell again of a gesture that has started.
AfterEvent(gesture, event) ==
  CASE event[1] = "gesturestart" /\ gesture \in {"none", "unended"} -> event[2]
    [] event[1] = "gesturestart" /\ gesture = event[2] /\ waiting -> gesture
    [] event[1] = "gesturemove" /\ gesture = event[2] -> gesture
    [] event[1] = "gestureend" /\ gesture = event[2] -> "none"
    [] OTHER -> "broken"

Pushed(events) == open' = FoldLeft(AfterEvent, open, events)

-----------------------------------------------------------------------------
(* _touchStart *)

NoNewTouches == Detected \/ candidates = {} \/ (tracked # <<>> /\ age > 0) \/ waiting

\* A finger more after the gesture has begun, or too late to be part of one.
TouchIgnored(id) ==
  /\ id \notin Down
  /\ NoNewTouches
  /\ ignored' = ignored \union {id}
  /\ candidates' = IF Detected THEN candidates ELSE {}
  /\ UNCHANGED <<tracked, waiting, longpress, twoTouch, age, late>>

RuledOutBy(fingers) ==
  CASE fingers = 1 -> {}
    [] fingers = 2 -> {"onetap", "drag", "longpress"}
    [] fingers = 3 -> {"twotap"} \union TwoFingered
    [] OTHER -> Gestures

TouchTracked(id) ==
  /\ id \notin Down
  /\ ~ NoNewTouches
  /\ tracked' = Append(tracked, [id |-> id, active |-> TRUE, far |-> FALSE])
  /\ candidates' = candidates \ RuledOutBy(Len(tracked'))
  /\ longpress' = CASE Len(tracked') = 1 -> TRUE
                    [] Len(tracked') = 2 -> FALSE
                    [] OTHER -> longpress
  /\ age' = IF tracked = <<>> THEN 0 ELSE age
  /\ UNCHANGED <<ignored, waiting, twoTouch, late>>

-----------------------------------------------------------------------------
(* _touchMove *)

\* Tracked, but the gesture is not known: the move is too small to tell.
SmallMove(id) ==
  /\ id \in Down \intersect Ids(tracked)
  /\ ~ Detected
  /\ tracked' = [tracked EXCEPT ![At(id)].far = FALSE]
  /\ UNCHANGED <<candidates, ignored, waiting, longpress, twoTouch, age, late>>

RuledOutByMove ==
  Taps \union {"longpress"}
    \union (IF Len(tracked) # 1 THEN {"drag"} ELSE {})
    \union (IF Len(tracked) # 2 THEN TwoFingered ELSE {})

OtherIsFar(id) == \E i \in DOMAIN tracked : tracked[i].id # id /\ tracked[i].far

\* Two fingers that have both moved tell whether they go the same way.
RuledOutByAngle(id) ==
  IF Len(tracked) # 2 \/ ~ OtherIsFar(id) THEN {{}} ELSE {{"twodrag"}, {"pinch"}}

TwoTouchAfterMove(id) ==
  IF Len(tracked) # 2 THEN twoTouch
  ELSE IF OtherIsFar(id) THEN "off"
  ELSE IF twoTouch = "off" THEN "running" ELSE twoTouch

\* fault: the long press timer is left running
FarMoveLeavesTimer(id) ==
  /\ id \in Down \intersect Ids(tracked)
  /\ ~ Detected
  /\ tracked' = [tracked EXCEPT ![At(id)].far = TRUE]
  /\ \E angle \in RuledOutByAngle(id) :
       candidates' = candidates \ (RuledOutByMove \union angle)
  /\ twoTouch' = TwoTouchAfterMove(id)
  /\ UNCHANGED <<ignored, waiting, longpress, age, late>>

FarMove(id) ==
  /\ id \in Down \intersect Ids(tracked)
  /\ ~ Detected
  /\ tracked' = [tracked EXCEPT ![At(id)].far = TRUE]
  /\ longpress' = FALSE
  /\ \E angle \in RuledOutByAngle(id) :
       candidates' = candidates \ (RuledOutByMove \union angle)
  /\ twoTouch' = TwoTouchAfterMove(id)
  /\ UNCHANGED <<ignored, waiting, age, late>>

MoveEvents ==
  IF DetectedIn(candidates', Touching) THEN <<Start(candidates'), Move(candidates')>> ELSE <<>>

\* Where the fingers are no longer matters to what they mean.
GestureMoves(id) ==
  /\ id \in Down \intersect Ids(tracked)
  /\ Detected
  /\ UNCHANGED <<candidates, tracked, ignored, waiting, longpress, twoTouch, age, late>>

-----------------------------------------------------------------------------
(* _touchEnd *)

\* Nothing is tracked or ignored any more: ready for the next gesture.
Resets(idle, state, releasing) ==
  /\ candidates' = IF idle THEN Gestures ELSE state
  /\ waiting' = (releasing /\ ~ idle)

IgnoredTouchEnds(id) ==
  /\ id \in ignored
  /\ ignored' = ignored \ {id}
  /\ Resets(ignored' = {} /\ tracked = <<>>, candidates, waiting)
  /\ UNCHANGED <<tracked, longpress, twoTouch, age, late>>

\* A tap with as many fingers as are tracked when the first comes up.
RuledOutByRelease ==
  {"drag", "longpress"} \union TwoFingered
    \union CASE ~ waiting /\ Len(tracked) = 1 -> {"twotap", "threetap"}
             [] ~ waiting /\ Len(tracked) = 2 -> {"onetap", "threetap"}
             [] OTHER -> {}

\* The fingers are too slow for a tap.
TooSlow == (waiting /\ late) \/ age = 2

Released(id) == [tracked EXCEPT ![At(id)].active = FALSE]

\* What is still possible after a release with no gesture known.
AfterRelease ==
  IF twoTouch # "off" \/ TooSlow THEN {} ELSE candidates \ RuledOutByRelease

ActiveAfter(id) == {i \in DOMAIN tracked : tracked[i].active /\ tracked[i].id # id}

\* One finger of a tap is up, others are still to come up.
TapReleasing(id) ==
  /\ id \in TouchingIds
  /\ ~ Detected
  /\ AfterRelease # {}
  /\ ~ DetectedIn(AfterRelease, ActiveAfter(id))
  /\ candidates' = AfterRelease
  /\ tracked' = Released(id)
  /\ waiting' = TRUE
  /\ longpress' = FALSE
  /\ late' = (waiting /\ late)
  /\ UNCHANGED <<ignored, twoTouch, age>>

\* Whatever there was is over; fingers still down are ignored.
Finish(id, releasing) ==
  /\ tracked' = <<>>
  /\ age' = 0
  /\ late' = FALSE
  /\ ignored' = ignored \union {tracked[i].id : i \in ActiveAfter(id)}
  /\ Resets(ignored' = {}, {}, releasing)

\* The last finger of a tap, or a release that leaves no gesture possible.
TapEnds(id) ==
  /\ id \in TouchingIds
  /\ ~ Detected
  /\ AfterRelease = {} \/ DetectedIn(AfterRelease, ActiveAfter(id))
  /\ Finish(id, TRUE)
  /\ longpress' = FALSE
  /\ twoTouch' = "off"

TapEvents ==
  IF AfterRelease = {} THEN <<>> ELSE <<Start(AfterRelease), End(AfterRelease)>>

GestureEnds(id) ==
  /\ id \in TouchingIds
  /\ Detected
  /\ waiting => ~ TooSlow
  /\ Finish(id, waiting)
  /\ UNCHANGED <<longpress, twoTouch>>

\* After a release every gesture is taken for a tap, which starts as it ends.
EndEvents == IF waiting THEN <<Start(candidates), End(candidates)>> ELSE <<End(candidates)>>

\* Too slow for a tap: the listener is not told of the end.
GestureDropped(id) ==
  /\ id \in TouchingIds
  /\ Detected
  /\ waiting /\ TooSlow
  /\ Finish(id, waiting)
  /\ open' = "unended"
  /\ UNCHANGED <<longpress, twoTouch>>

-----------------------------------------------------------------------------
(* _longpressTimeout, _twoTouchTimeout, and the time they and taps take *)

LongpressTimeout ==
  /\ longpress /\ age = 2
  /\ longpress' = FALSE
  /\ candidates' = {"longpress"}
  /\ UNCHANGED <<tracked, ignored, waiting, twoTouch, age, late>>

\* The timeout's identifier is not cleared.
TwoTouchTimeout ==
  /\ twoTouch = "running"
  /\ twoTouch' = "over"
  /\ candidates' \in {{"pinch"}, {"twodrag"}}
  /\ UNCHANGED <<tracked, ignored, waiting, longpress, age, late>>

TimePasses ==
  /\ tracked # <<>>
  /\ \/ age < 2 /\ age' = age + 1 /\ UNCHANGED late
     \/ age > 0 /\ waiting /\ ~ late /\ late' = TRUE /\ UNCHANGED age
  /\ UNCHANGED <<candidates, tracked, ignored, waiting, longpress, twoTouch>>

-----------------------------------------------------------------------------
GesturesInit ==
  /\ candidates = Gestures
  /\ tracked = <<>>
  /\ ignored = {}
  /\ waiting = FALSE
  /\ longpress = FALSE
  /\ twoTouch = "off"
  /\ age = 0
  /\ late = FALSE
  /\ open = "none"

Silently ==
  \/ TimePasses
  \/ \E id \in Fingers :
       \/ TouchIgnored(id) \/ TouchTracked(id) \/ SmallMove(id)
       \/ IgnoredTouchEnds(id) \/ TapReleasing(id)

-----------------------------------------------------------------------------
(* Properties *)

GesturesTypeOK ==
  /\ candidates \subseteq Gestures
  /\ Len(tracked) <= 4
  /\ \A i \in DOMAIN tracked :
       tracked[i] \in [id : Fingers, active : BOOLEAN, far : BOOLEAN]
  /\ ignored \subseteq Fingers
  /\ {waiting, longpress, late} \subseteq BOOLEAN
  /\ twoTouch \in {"off", "running", "over"}
  /\ age \in 0 .. 2

(***************************************************************************)
(* The listener hears of one gesture at a time: it starts, moves and ends, *)
(* under one name, and it is the one the fingers are making.  Only of a    *)
(* pinch or a drag with two fingers that begins after one of them came up  *)
(* may it hear the start twice, or no end.                                 *)
(***************************************************************************)
OneAtATime ==
  /\ open # "broken"
  /\ open \in Gestures <=> Detected
  /\ Detected => candidates = {open}
  /\ Detected /\ waiting => open \in TwoFingered

(***************************************************************************)
(* With all fingers up the next gesture starts from nothing: no gesture is *)
(* going on, none is ruled out, and nobody waits for a release.            *)
(***************************************************************************)
ReadyWhenUp == Down = {} =>
  /\ candidates = Gestures /\ tracked = <<>> /\ ~ waiting /\ ~ longpress
  /\ twoTouch # "running" /\ open \in {"none", "unended"}

(***************************************************************************)
(* No timer fires where it would throw ("conflict with a different         *)
(* gesture", "no tracked touches", gesturehandler.js).                     *)
(***************************************************************************)
TimersMayFire ==
  /\ longpress => ~ Detected
  /\ twoTouch = "running" => tracked # <<>> /\ ~ Detected

(***************************************************************************)
(* Gestures follow each other whole, whatever fingers and timers do first. *)
(***************************************************************************)
GesturesInOrder == OneAtATime /\ ReadyWhenUp /\ TimersMayFire

(***************************************************************************)
(* A finger that comes down alone and goes up in place and in time is a    *)
(* tap: a release rules a gesture out for a timer only "before the timer   *)
(* triggered" (gesturehandler.js).                                         *)
(***************************************************************************)
ATapIsATap ==
  candidates = Gestures /\ Cardinality(Touching) = 1 /\ age < 2
    => AfterRelease = {"onetap"}
=============================================================================
